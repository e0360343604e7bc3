-------------------------------- MODULE Gate --------------------------------
(***************************************************************************)
(* When an account may next talk to its relay: Gate and impl Gate in       *)
(* src/account.rs.  A gate is a record                                     *)
(*    next      the first instant at which the account may send,           *)
(*    failures  the connection failures that set how long it pauses.       *)
(* The rate limit's interval never changes once the account is open, so it *)
(* is an argument rather than a field; 0 stands for None, no limit.        *)
(* Time is a natural number of ticks.                                      *)
(***************************************************************************)
EXTENDS Integers

CONSTANTS
    MaxPause,   \* MAX_PAUSE, the longest an account pauses
    CounterMax  \* u32::MAX, where the failure counter saturates

ASSUME GateAssumption == MaxPause \in Nat /\ CounterMax \in Nat

Later(s, t) == IF s >= t THEN s ELSE t
Earlier(s, t) == IF s <= t THEN s ELSE t

Gates == [next : Nat, failures : Nat]

NewGate(now) == [next |-> now, failures |-> 0]

\* One send slot spent: slots are evenly spaced, never in bursts.
Taken(g, now, interval) ==
    IF interval = 0 THEN g
    ELSE [g EXCEPT !.next = Later(g.next, now) + interval]

\* 1 << k for the shifts the code allows, 0 to 16: Doublings[k + 1].
Doublings == << 1, 2, 4, 8, 16, 32, 64, 128, 256, 512, 1024, 2048, 4096,
                8192, 16384, 32768, 65536 >>

PauseLength(failures, base) ==
    Earlier(base * Doublings[Earlier(failures, 16) + 1], MaxPause)

\* Mutant: a pause is added to the one in force.
Paused_Adds(g, now, base) ==
    [next     |-> Later(g.next, now) + PauseLength(g.failures, base),
     failures |-> Earlier(g.failures + 1, CounterMax)]

\* The relay could not be reached: hold the whole account back.
Paused(g, now, base) ==
    [next     |-> Later(g.next, now + PauseLength(g.failures, base)),
     failures |-> Earlier(g.failures + 1, CounterMax)]

\* Mutant: a recovery reopens the gate at once.
Recovered_Reopens(g) == [next |-> 0, failures |-> 0]

\* Something went through.  The slot already promised is kept.
Recovered(g) == [g EXCEPT !.failures = 0]
=============================================================================
