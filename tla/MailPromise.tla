---------------------------- MODULE MailPromise ----------------------------
(***************************************************************************)
(* What the send queue promises the plugin, whatever happens between a     *)
(* worker and a relay: a job that was accepted is answered once, in any    *)
(* order, through a channel that the main thread empties on its ticks.     *)
(* SendQueue implements it; Plugin is written against it.                  *)
(***************************************************************************)
EXTENDS Naturals, Sequences

CONSTANT MaxJobs  \* bound: how many jobs are ever submitted

ASSUME MailPromiseAssumption == MaxJobs \in Nat

VARIABLES
    accepted,  \* how many jobs were ever accepted; job j is the j-th from 0
    pending,   \* those that still owe an answer
    channel    \* the answers the main thread has not taken

promise == << accepted, pending, channel >>

Answers == [ seq : 0 .. MaxJobs - 1, ok : BOOLEAN ]

PromiseInit == accepted = 0 /\ pending = {} /\ channel = << >>

Accept ==
    /\ accepted < MaxJobs
    /\ accepted' = accepted + 1
    /\ pending' = pending \cup { accepted }
    /\ UNCHANGED channel

Answer(j, ok) ==
    /\ j \in pending
    /\ pending' = pending \ {j}
    /\ channel' = Append(channel, [seq |-> j, ok |-> ok])
    /\ UNCHANGED accepted

Collect ==
    /\ channel # << >>
    /\ channel' = << >>
    /\ UNCHANGED << accepted, pending >>

PromiseNext ==
    \/ Accept
    \/ \E j \in pending, ok \in BOOLEAN : Answer(j, ok)
    \/ Collect

PromiseSpec == PromiseInit /\ [][PromiseNext]_promise
=============================================================================
