-------------------------- MODULE SchedulerProofs ---------------------------
(***************************************************************************)
(* The invariants of Scheduler, for every number of workers, accounts and  *)
(* jobs, every rate, retry count, delay and pause: those of the state,     *)
(* then what happens to one job from its submission on, how often it is    *)
(* tried, when it is tried again, and what may go before it.               *)
(***************************************************************************)
EXTENDS Scheduler, TLAPS

-----------------------------------------------------------------------------
(* Gates: what their operators return, for every gate and every instant.   *)

\* The shift of Gate::pause stays within the sixteen the code allows.
LEMMA ShiftInRange ==
    ASSUME NEW f \in Nat
    PROVE  Doublings[Earlier(f, 16) + 1] \in Nat
<1>1. \A n \in 1 .. 17 : Doublings[n] \in Nat
  BY DEF Doublings
<1>2. Earlier(f, 16) + 1 \in 1 .. 17
  BY DEF Earlier
<1> QED
  BY <1>1, <1>2

\* A pause is never longer than MAX_PAUSE (Gate::pause).
THEOREM PauseLengthBounded ==
    ASSUME NEW f \in Nat, NEW base \in Nat
    PROVE  PauseLength(f, base) \in 0 .. MaxPause
<1> DEFINE d == Doublings[Earlier(f, 16) + 1]
<1>1. d \in Nat
  BY ShiftInRange
<1> HIDE DEF d
<1>2. base * d \in Nat
  BY <1>1
<1>3. Earlier(base * d, MaxPause) \in 0 .. MaxPause
  BY <1>2, GateAssumption DEF Earlier
<1> QED
  BY <1>3 DEF PauseLength, d

\* The first pause of an outage is already as long as the retry delay, unless
\* MAX_PAUSE is shorter, and no later one is shorter than that.
LEMMA PauseLengthLeast ==
    ASSUME NEW f \in Nat, NEW base \in Nat
    PROVE  PauseLength(f, base) >= Earlier(base, MaxPause)
<1> DEFINE d == Doublings[Earlier(f, 16) + 1]
<1>1. \A n \in 1 .. 17 : Doublings[n] \in Nat \ {0}
  BY DEF Doublings
<1>2. Earlier(f, 16) + 1 \in 1 .. 17
  BY DEF Earlier
<1>3. d \in Nat \ {0}
  BY <1>1, <1>2
<1> HIDE DEF d
<1>4. base * d \in Nat /\ base * d >= base
  BY <1>3
<1>5. Earlier(base * d, MaxPause) >= Earlier(base, MaxPause)
  BY <1>4, GateAssumption DEF Earlier
<1> QED
  BY <1>5 DEF PauseLength, d

\* Spending a slot keeps the gate a gate, never reopens it, and puts the next
\* slot one interval after both the instant and the slot before.
LEMMA TakenGate ==
    ASSUME NEW g \in Gates, NEW t \in Nat, NEW interval \in Nat
    PROVE  /\ Taken(g, t, interval) \in Gates
           /\ Taken(g, t, interval).failures = g.failures
           /\ Taken(g, t, interval).next >= g.next
           /\ interval # 0 =>
                Taken(g, t, interval).next = Later(g.next, t) + interval
           /\ interval = 0 => Taken(g, t, interval).next = g.next
<1>1. Later(g.next, t) + interval \in Nat
  BY DEF Later, Gates
<1> QED
  BY <1>1 DEF Taken, Gates, Later

\* A pause keeps the gate a gate, never reopens it, and closes it for at
\* least the base delay and at most the longer of its own wait and MAX_PAUSE.
LEMMA PausedGate ==
    ASSUME NEW g \in Gates, NEW t \in Nat, NEW base \in Nat
    PROVE  /\ Paused(g, t, base) \in Gates
           /\ Paused(g, t, base).next >= g.next
           /\ Paused(g, t, base).next >= t + Earlier(base, MaxPause)
           /\ Paused(g, t, base).next <= Later(g.next, t + MaxPause)
<1> DEFINE p == PauseLength(g.failures, base)
<1>1. g.failures \in Nat /\ g.next \in Nat
  BY DEF Gates
<1>2. p \in 0 .. MaxPause /\ p >= Earlier(base, MaxPause)
  BY <1>1, PauseLengthBounded, PauseLengthLeast
<1> HIDE DEF p
<1>3. Earlier(g.failures + 1, CounterMax) \in Nat
  BY <1>1, GateAssumption DEF Earlier
<1>4. Earlier(base, MaxPause) \in Nat
  BY GateAssumption DEF Earlier
<1>5. /\ Later(g.next, t + p) \in Nat
      /\ Later(g.next, t + p) >= g.next
      /\ Later(g.next, t + p) >= t + Earlier(base, MaxPause)
      /\ Later(g.next, t + p) <= Later(g.next, t + MaxPause)
  BY <1>1, <1>2, <1>4, GateAssumption DEF Later
<1>6. Paused(g, t, base) =
        [next |-> Later(g.next, t + p),
         failures |-> Earlier(g.failures + 1, CounterMax)]
  BY DEF Paused, p
<1> QED
  BY <1>3, <1>5, <1>6 DEF Gates

\* A recovery keeps the slot already promised.
LEMMA RecoveredGate ==
    ASSUME NEW g \in Gates
    PROVE  /\ Recovered(g) \in Gates
           /\ Recovered(g).next = g.next
           /\ Recovered(g).failures = 0
  BY DEF Recovered, Gates

-----------------------------------------------------------------------------
(* Workers, entries and histories.                                         *)

\* A worker holds an entry exactly while it is busy, and one of the jobs
\* that were submitted; the queue holds submitted jobs too.
Owned ==
    /\ \A w \in Busy : held[w] \in Entries /\ held[w].seq < nextSeq
    /\ \A e \in entries : e.seq < nextSeq
    /\ \A s \in Seqs : s < nextSeq => log[s] \in Jobs

TypeInv == TypeOK /\ Owned

\* The constants' assumptions, as the proofs below use them.
LEMMA ConstantTypes ==
    /\ Interval \in [Accounts -> Nat]
    /\ Retries \in [Accounts -> Nat]
    /\ DryRun \in [Accounts -> BOOLEAN]
    /\ RetryDelay \in Nat /\ MaxPause \in Nat
    /\ Allowance \in [Priorities -> Nat]
    /\ \A o \in Offers : o.prio \in Priorities /\ o.test \in BOOLEAN
    /\ MaxJobs \in Nat
    /\ NoWorker \notin Workers
  BY SchedulerAssumption, GateAssumption

\* submit builds an entry.
LEMMA NewEntryType ==
    ASSUME TypeOK, nextSeq < MaxJobs,
           NEW a \in Accounts, NEW p \in Priorities, NEW test \in BOOLEAN
    PROVE  /\ NewEntry(a, p, test) \in Entries
           /\ NewEntry(a, p, test).seq = nextSeq
<1>1. nextSeq \in Seqs /\ now \in Nat
  BY ConstantTypes DEF TypeOK, Seqs
<1>2. now + Allowance[p] \in Nat /\ Retries[a] \in Nat /\ RetryDelay \in Nat
  BY <1>1, ConstantTypes
<1> QED
  BY <1>1, <1>2 DEF NewEntry, Entries, Kinds

\* An entry that goes back for a retry is still an entry.
LEMMA ForRetryType ==
    ASSUME TypeOK, NEW entry \in Entries, NEW e \in RelayErrors,
           ~GivesUp(entry, e)
    PROVE  /\ ForRetry(entry, e) \in Entries
           /\ ForRetry(entry, e).seq = entry.seq
<1>1. entry.retries \in Nat /\ entry.retries # 0
  BY DEF GivesUp, Entries
<1>2. now \in Nat /\ entry.delay \in Nat /\ entry.notBefore \in Nat
  BY DEF TypeOK, Entries
<1> DEFINE refused == Classify(e) # "ConnectionFailed"
           fewer == entry.retries - 1
           later == IF refused THEN now + entry.delay ELSE entry.notBefore
           longer == IF refused THEN 2 * entry.delay ELSE entry.delay
<1>3. fewer \in Nat /\ later \in Nat /\ longer \in Nat
  BY <1>1, <1>2
<1>4. ForRetry(entry, e) =
        [entry EXCEPT !.kind = "built", !.last = now, !.retries = fewer,
                      !.notBefore = later, !.delay = longer]
  BY DEF ForRetry
<1> HIDE DEF fewer, later, longer
<1>5. [entry EXCEPT !.kind = "built", !.last = now, !.retries = fewer,
                    !.notBefore = later, !.delay = longer] \in Entries
  BY <1>2, <1>3 DEF Entries, Kinds
<1>6. [entry EXCEPT !.kind = "built", !.last = now, !.retries = fewer,
                    !.notBefore = later, !.delay = longer].seq = entry.seq
  BY DEF Entries
<1> QED
  BY <1>4, <1>5, <1>6

\* The gates stay gates whatever the relay answers.
LEMMA GateAfterType ==
    ASSUME TypeOK, NEW entry \in Entries, NEW e \in RelayErrors
    PROVE  GateAfter(e, entry) \in [Accounts -> Gates]
<1>1. gate \in [Accounts -> Gates] /\ entry.acct \in Accounts /\ now \in Nat
  BY DEF TypeOK, Entries
<1>2. Paused(gate[entry.acct], now, RetryDelay) \in Gates
  BY <1>1, PausedGate, ConstantTypes
<1> QED
  BY <1>1, <1>2 DEF GateAfter

LEMMA InitTypeInv == Init => TypeInv
<1> SUFFICES ASSUME Init PROVE TypeInv
  OBVIOUS
<1>1. NewGate(0) \in Gates
  BY DEF NewGate, Gates
<1>2. Busy = {}
  BY DEF Init, Busy
<1>3. gate \in [Accounts -> Gates]
  BY <1>1 DEF Init
<1>4. picks \in [Accounts -> [count : Nat, last : Nat]]
  BY DEF Init
<1>5. nextSeq \in 0 .. MaxJobs /\ ~(\E s \in Seqs : s < nextSeq)
  BY ConstantTypes DEF Init, Seqs
<1>6. TypeOK
  BY <1>3, <1>4, <1>5 DEF Init, TypeOK, PCs
<1>7. Owned
  BY <1>2, <1>5 DEF Init, Owned
<1> QED
  BY <1>6, <1>7 DEF TypeInv

-----------------------------------------------------------------------------
(* What one step does, for the invariants that follow.                     *)

\* Goto moves one worker.
LEMMA GotoStep ==
    ASSUME TypeOK, NEW w \in Workers, NEW from, NEW to \in PCs,
           Goto(w, from, to)
    PROVE  /\ pc[w] = from /\ pc'[w] = to
           /\ pc' \in [Workers -> PCs]
           /\ \A v \in Workers \ {w} : pc'[v] = pc[v]
  BY DEF Goto, TypeOK

\* A worker that is not idle, absent or retired holds a submitted job.
LEMMA HeldType ==
    ASSUME TypeInv, NEW w \in Workers,
           pc[w] \notin { "absent", "idle", "retired" }
    PROVE  /\ w \in Busy
           /\ held[w] \in Entries /\ held[w].seq < nextSeq
           /\ held[w].seq \in Seqs /\ held[w].acct \in Accounts
           /\ log[held[w].seq] \in Jobs
<1>1. w \in Busy
  BY DEF Busy
<1>2. held[w] \in Entries /\ held[w].seq < nextSeq
  BY <1>1 DEF TypeInv, Owned
<1>3. held[w].seq \in Seqs /\ held[w].acct \in Accounts
  BY <1>2 DEF Entries
<1> QED
  BY <1>1, <1>2, <1>3 DEF TypeInv, Owned

\* A job keeps what it was submitted as, and how often it was tried.
SameJob(r, q) ==
    /\ r.acct = q.acct /\ r.prio = q.prio
    /\ r.test = q.test /\ r.attempts = q.attempts

\* The end of an attempt changes one job's history, and only its copies and
\* its verdict.
LEMMA LoggedStep ==
    ASSUME TypeInv, NEW w \in Workers, pc[w] = "attempt",
           NEW c \in 0 .. 1, NEW final \in BOOLEAN,
           log' = [log EXCEPT ![held[w].seq].copies = @ + c,
                              ![held[w].seq].final = final]
    PROVE  LET s == held[w].seq
           IN  /\ log' \in [Seqs -> Jobs \cup { NoEntry }]
               /\ \A t \in Seqs : t # s => log'[t] = log[t]
               /\ log'[s] \in Jobs /\ SameJob(log'[s], log[s])
               /\ log'[s].copies = log[s].copies + c
               /\ log'[s].final = final
<1> DEFINE s == held[w].seq
           r == [log[s] EXCEPT !.copies = log[s].copies + c, !.final = final]
<1>1. s \in Seqs /\ log[s] \in Jobs
  BY HeldType
<1>2. log \in [Seqs -> Jobs \cup { NoEntry }]
  BY DEF TypeInv, TypeOK
<1>3. log[s].copies + c \in Nat
  BY <1>1 DEF Jobs
<1>4. r \in Jobs
  BY <1>1, <1>3 DEF Jobs
<1>5. log' = [log EXCEPT ![s] = r]
  BY <1>1, <1>2 DEF Jobs
<1>6. log'[s] = r
  BY <1>1, <1>2, <1>5
<1>7. /\ SameJob(r, log[s]) /\ r.final = final
      /\ r.copies = log[s].copies + c
  BY <1>1 DEF SameJob, Jobs
<1> HIDE DEF r, s
<1>8. /\ log' \in [Seqs -> Jobs \cup { NoEntry }]
      /\ \A t \in Seqs : t # s => log'[t] = log[t]
  BY <1>1, <1>2, <1>4, <1>5
<1> QED
  BY <1>4, <1>6, <1>7, <1>8 DEF s

\* The gates move no further than one pause, and only the gate of an account
\* that talks to a relay moves at all.
GatesAfterAttempt(w) ==
    /\ gate' \in [Accounts -> Gates]
    /\ \A a \in Accounts :
         /\ gate'[a].next >= gate[a].next
         /\ gate'[a].next <= Later(gate[a].next, now + MaxPause)
         /\ a # held[w].acct \/ Dry(w) => gate'[a] = gate[a]

\* The history of the job whose attempt ended.
LogAfterAttempt(w) ==
    LET s == held[w].seq
    IN  /\ log' \in [Seqs -> Jobs \cup { NoEntry }]
        /\ \A t \in Seqs : t # s => log'[t] = log[t]
        /\ log'[s] \in Jobs /\ SameJob(log'[s], log[s])
        /\ log'[s].copies \in { log[s].copies, log[s].copies + 1 }
        /\ Dry(w) => log'[s].copies = log[s].copies
        /\ pc'[w] = "requeue" => ~log'[s].final

\* The two ways out of an attempt: a result, or a retry.
FinishedAttempt(w) ==
    /\ Goto(w, "attempt", "finish")
    /\ held' = held
    /\ outcome' \in [Workers -> { "none", "ok", "failed", "panicked" }]

RetriedAttempt(w) ==
    /\ Goto(w, "attempt", "requeue")
    /\ outcome' = outcome
    /\ \E e \in RelayErrors :
         /\ ~GivesUp(held[w], e)
         /\ held' = [held EXCEPT ![w] = ForRetry(held[w], e)]
         /\ gate' = GateAfter(e, held[w])

\* Only an unreachable relay moves the gate of a failed attempt.
LEMMA GateAfterStep ==
    ASSUME TypeInv, NEW w \in Workers, pc[w] = "attempt", ~Dry(w),
           NEW e \in RelayErrors, gate' = GateAfter(e, held[w])
    PROVE  GatesAfterAttempt(w)
<1> DEFINE b == held[w].acct
<1>1. gate \in [Accounts -> Gates] /\ now \in Nat
  BY DEF TypeInv, TypeOK
<1>2. b \in Accounts /\ held[w] \in Entries
  BY HeldType
<1>3. \A a \in Accounts : gate[a].next \in Nat
  BY <1>1 DEF Gates
<1>4. CASE gate' = gate
  BY <1>1, <1>3, <1>4, ConstantTypes DEF GatesAfterAttempt, Later
<1>5. CASE gate' = [gate EXCEPT ![b] = Paused(gate[b], now, RetryDelay)]
  <2> DEFINE q == Paused(gate[b], now, RetryDelay)
  <2>1. gate[b] \in Gates
    BY <1>1, <1>2
  <2>2. /\ q \in Gates /\ q.next >= gate[b].next
        /\ q.next <= Later(gate[b].next, now + MaxPause)
    BY <1>1, <2>1, PausedGate, ConstantTypes
  <2> HIDE DEF q
  <2>3. gate' = [gate EXCEPT ![b] = q]
    BY <1>5 DEF q
  <2>4. gate' \in [Accounts -> Gates]
    BY <1>1, <1>2, <2>2, <2>3
  <2>5. ASSUME NEW a \in Accounts
        PROVE  /\ gate'[a].next >= gate[a].next
               /\ gate'[a].next <= Later(gate[a].next, now + MaxPause)
               /\ a # b \/ Dry(w) => gate'[a] = gate[a]
    <3>1. CASE a = b
      BY <1>1, <1>2, <2>2, <2>3, <3>1
    <3>2. CASE a # b
      <4>1. gate'[a] = gate[a]
        BY <1>1, <2>3, <3>2
      <4> QED
        BY <1>1, <1>3, <4>1, ConstantTypes DEF Later
    <3> QED
      BY <3>1, <3>2
  <2> QED
    BY <2>4, <2>5 DEF GatesAfterAttempt
<1> QED
  BY <1>4, <1>5 DEF GateAfter

LEMMA AttemptStep ==
    ASSUME TypeInv, NEW w \in Workers, Attempt(w)
    PROVE  /\ pc[w] = "attempt"
           /\ UNCHANGED << now, entries, nextSeq, closed, lock, picks >>
           /\ GatesAfterAttempt(w)
           /\ LogAfterAttempt(w)
           /\ FinishedAttempt(w) \/ RetriedAttempt(w)
<1>1. pc[w] = "attempt"
  BY DEF Attempt
<1>2. UNCHANGED << now, entries, nextSeq, closed, lock, picks >>
  BY DEF Attempt, AttemptDry, AttemptUnbuilt, AttemptAccepted, AttemptFailed,
         AttemptPanics, AttemptKeeps
<1>3. /\ gate \in [Accounts -> Gates] /\ now \in Nat
      /\ pc \in [Workers -> PCs]
      /\ outcome \in [Workers -> { "none", "ok", "failed", "panicked" }]
  BY DEF TypeInv, TypeOK
<1>4. /\ held[w] \in Entries /\ held[w].acct \in Accounts
      /\ held[w].seq \in Seqs /\ log[held[w].seq] \in Jobs
  BY <1>1, HeldType
<1>5. \A o \in { "ok", "failed", "panicked" } :
        Finish(w, o) => FinishedAttempt(w)
  BY <1>3 DEF Finish, FinishedAttempt
<1>6. ASSUME FinishedAttempt(w) PROVE pc'[w] # "requeue"
  BY <1>3, <1>6 DEF FinishedAttempt, Goto
<1>7. ASSUME FinishedAttempt(w), NEW c \in 0 .. 1, NEW final \in BOOLEAN,
             log' = [log EXCEPT ![held[w].seq].copies = @ + c,
                                ![held[w].seq].final = final],
             c = 1 => ~Dry(w)
      PROVE  LogAfterAttempt(w)
  <2>1. log[held[w].seq].copies \in Nat
    BY <1>4 DEF Jobs
  <2>2. LET s == held[w].seq
        IN  /\ log' \in [Seqs -> Jobs \cup { NoEntry }]
            /\ \A t \in Seqs : t # s => log'[t] = log[t]
            /\ log'[s] \in Jobs /\ SameJob(log'[s], log[s])
            /\ log'[s].copies = log[s].copies + c
    BY <1>1, <1>7, LoggedStep
  <2>3. c = 0 \/ (c = 1 /\ ~Dry(w))
    BY <1>7
  <2>4. /\ log'[held[w].seq].copies \in
             { log[held[w].seq].copies, log[held[w].seq].copies + 1 }
        /\ Dry(w) => log'[held[w].seq].copies = log[held[w].seq].copies
    BY <2>1, <2>2, <2>3
  <2>5. pc'[w] # "requeue"
    BY <1>6, <1>7
  <2> QED
    BY <2>2, <2>4, <2>5 DEF LogAfterAttempt
<1>8. gate' = gate => GatesAfterAttempt(w)
  <2>1. \A a \in Accounts : gate[a].next \in Nat
    BY <1>3 DEF Gates
  <2> QED
    BY <1>3, <2>1, ConstantTypes DEF GatesAfterAttempt, Later
<1>9. CASE AttemptDry(w)
  <2> DEFINE c == 0
  <2>1. FinishedAttempt(w)
    BY <1>5, <1>9 DEF AttemptDry
  <2>2. /\ gate' = gate
        /\ log' = [log EXCEPT ![held[w].seq].copies = @ + c,
                              ![held[w].seq].final = TRUE]
    BY <1>9 DEF AttemptDry, Logged
  <2>3. c \in 0 .. 1 /\ c # 1
    OBVIOUS
  <2> HIDE DEF c
  <2>4. LogAfterAttempt(w)
    BY <1>7, <2>1, <2>2, <2>3
  <2> QED
    BY <1>1, <1>2, <1>8, <2>1, <2>2, <2>4
<1>10. CASE AttemptUnbuilt(w)
  <2> DEFINE c == 0
  <2>1. FinishedAttempt(w)
    BY <1>5, <1>10 DEF AttemptUnbuilt
  <2>2. /\ gate' = gate
        /\ log' = [log EXCEPT ![held[w].seq].copies = @ + c,
                              ![held[w].seq].final = TRUE]
    BY <1>10 DEF AttemptUnbuilt, Logged
  <2>3. c \in 0 .. 1 /\ c # 1
    OBVIOUS
  <2> HIDE DEF c
  <2>4. LogAfterAttempt(w)
    BY <1>7, <2>1, <2>2, <2>3
  <2> QED
    BY <1>1, <1>2, <1>8, <2>1, <2>2, <2>4
<1>11. CASE AttemptAccepted(w)
  <2> DEFINE b == held[w].acct
             c == IF IsTest(held[w]) THEN 0 ELSE 1
  <2>1. FinishedAttempt(w) /\ ~Dry(w)
    BY <1>5, <1>11 DEF AttemptAccepted
  <2>2. /\ c \in 0 .. 1
        /\ log' = [log EXCEPT ![held[w].seq].copies = @ + c,
                              ![held[w].seq].final = TRUE]
    BY <1>11 DEF AttemptAccepted, Logged
  <2>3. gate' = [gate EXCEPT ![b] = Recovered(gate[b])]
    BY <1>11 DEF AttemptAccepted
  <2>4. /\ Recovered(gate[b]) \in Gates
        /\ Recovered(gate[b]).next = gate[b].next
    BY <1>3, <1>4, RecoveredGate
  <2>5. gate' \in [Accounts -> Gates]
    BY <1>3, <1>4, <2>3, <2>4
  <2>6. \A a \in Accounts : gate'[a].next = gate[a].next
    BY <1>3, <1>4, <2>3, <2>4
  <2>7. \A a \in Accounts : a # b => gate'[a] = gate[a]
    BY <1>3, <2>3
  <2>8. \A a \in Accounts : gate[a].next \in Nat
    BY <1>3 DEF Gates
  <2>9. GatesAfterAttempt(w)
    BY <1>3, <2>1, <2>5, <2>6, <2>7, <2>8, ConstantTypes
    DEF GatesAfterAttempt, Later
  <2> HIDE DEF c
  <2> QED
    BY <1>1, <1>2, <1>7, <2>1, <2>2, <2>9
<1>12. CASE AttemptFailed(w)
  <2>1. ~Dry(w)
    BY <1>12 DEF AttemptFailed
  <2>2. PICK e \in RelayErrors :
          /\ gate' = GateAfter(e, held[w])
          /\ \E copies \in 0 .. 1 :
               /\ copies = 1 => ~IsTest(held[w]) /\ e \in MaybeDelivered
               /\ Logged(w, copies, ~Retryable(e))
          /\ \/ GivesUp(held[w], e) /\ Finish(w, "failed")
             \/ /\ ~GivesUp(held[w], e)
                /\ Goto(w, "attempt", "requeue")
                /\ held' = [held EXCEPT ![w] = ForRetry(held[w], e)]
                /\ UNCHANGED outcome
    BY <1>12 DEF AttemptFailed
  <2>3. PICK copies \in 0 .. 1 :
          log' = [log EXCEPT ![held[w].seq].copies = @ + copies,
                             ![held[w].seq].final = ~Retryable(e)]
    BY <2>2 DEF Logged
  <2>4. GatesAfterAttempt(w)
    BY <1>1, <2>1, <2>2, GateAfterStep
  <2>5. (~Retryable(e)) \in BOOLEAN
    BY DEF Retryable
  <2>6. CASE GivesUp(held[w], e) /\ Finish(w, "failed")
    <3>1. FinishedAttempt(w)
      BY <1>5, <2>6
    <3> QED
      BY <1>1, <1>2, <1>7, <2>1, <2>3, <2>4, <2>5, <3>1
  <2>7. CASE /\ ~GivesUp(held[w], e)
             /\ Goto(w, "attempt", "requeue")
             /\ held' = [held EXCEPT ![w] = ForRetry(held[w], e)]
             /\ UNCHANGED outcome
    <3>1. RetriedAttempt(w)
      BY <2>2, <2>7 DEF RetriedAttempt
    <3>2. Retryable(e)
      BY <2>7 DEF GivesUp
    <3>3. LET s == held[w].seq
          IN  /\ log' \in [Seqs -> Jobs \cup { NoEntry }]
              /\ \A t \in Seqs : t # s => log'[t] = log[t]
              /\ log'[s] \in Jobs /\ SameJob(log'[s], log[s])
              /\ log'[s].copies = log[s].copies + copies
              /\ log'[s].final = (~Retryable(e))
      BY <1>1, <2>3, <2>5, LoggedStep
    <3>4. log[held[w].seq].copies \in Nat
      BY <1>4 DEF Jobs
    <3>5. copies = 0 \/ copies = 1
      BY <2>3
    <3>6. ~log'[held[w].seq].final
      BY <3>2, <3>3
    <3>7. log'[held[w].seq].copies
             \in { log[held[w].seq].copies, log[held[w].seq].copies + 1 }
      BY <3>3, <3>4, <3>5
    <3>8. LogAfterAttempt(w)
      BY <2>1, <3>3, <3>6, <3>7 DEF LogAfterAttempt
    <3> QED
      BY <1>1, <1>2, <2>4, <3>1, <3>8
  <2> QED
    BY <2>2, <2>6, <2>7
<1>13. CASE AttemptPanics(w)
  <2> DEFINE c == 0
  <2>1. FinishedAttempt(w)
    BY <1>5, <1>13 DEF AttemptPanics
  <2>2. /\ gate' = gate
        /\ log' = [log EXCEPT ![held[w].seq].copies = @ + c,
                              ![held[w].seq].final = TRUE]
    BY <1>13 DEF AttemptPanics, Logged
  <2>3. c \in 0 .. 1 /\ c # 1
    OBVIOUS
  <2> HIDE DEF c
  <2>4. LogAfterAttempt(w)
    BY <1>7, <2>1, <2>2, <2>3
  <2> QED
    BY <1>1, <1>2, <1>8, <2>1, <2>2, <2>4
<1> QED
  BY <1>9, <1>10, <1>11, <1>12, <1>13 DEF Attempt

-----------------------------------------------------------------------------
(* The types, and who holds what.                                          *)

\* submit adds one job; the pool it may spawn holds none.
LEMMA EnqueueTypeInv ==
    ASSUME TypeInv, NEW a \in Accounts, NEW p \in Priorities,
           NEW test \in BOOLEAN, Enqueue(a, p, test)
    PROVE  TypeInv' /\ Busy' = Busy
<1> DEFINE n == NewEntry(a, p, test)
           r == [ acct |-> a, prio |-> p, test |-> test, attempts |-> 0,
                  copies |-> 0, final |-> FALSE ]
<1>1. n \in Entries /\ n.seq = nextSeq
  BY NewEntryType DEF Enqueue, TypeInv
<1>2. /\ nextSeq \in Seqs /\ nextSeq' = nextSeq + 1
      /\ nextSeq' \in 0 .. MaxJobs
  BY ConstantTypes DEF Enqueue, TypeInv, TypeOK, Seqs
<1>3. r \in Jobs
  BY DEF Jobs
<1> HIDE DEF n, r
<1>4. /\ entries' = entries \cup { n }
      /\ log' = [log EXCEPT ![nextSeq] = r]
      /\ pc' = IF Started THEN pc ELSE [w \in Workers |-> "idle"]
      /\ UNCHANGED << now, closed, lock, gate, held, outcome, picks >>
  BY DEF Enqueue, n, r
<1>5. pc' \in [Workers -> PCs] /\ Busy' = Busy
  BY <1>4 DEF TypeInv, TypeOK, Started, Busy, PCs
<1>6. TypeOK'
  BY <1>1, <1>2, <1>3, <1>4, <1>5 DEF TypeInv, TypeOK
<1>7. \A w \in Busy : held[w] \in Entries /\ held[w].seq \in Seqs
  BY DEF TypeInv, Owned, Entries
<1>8. \A w \in Busy' : held'[w] \in Entries /\ held'[w].seq < nextSeq'
  BY <1>2, <1>4, <1>5, <1>7, ConstantTypes DEF TypeInv, Owned, Seqs
<1>9. \A e \in entries : e.seq \in Seqs
  BY DEF TypeInv, TypeOK, Entries
<1>10. \A e \in entries' : e.seq < nextSeq'
  BY <1>1, <1>2, <1>4, <1>9, ConstantTypes DEF TypeInv, Owned, Seqs
<1>11. ASSUME NEW s \in Seqs, s < nextSeq' PROVE log'[s] \in Jobs
  <2>1. s = nextSeq \/ s < nextSeq
    BY <1>2, <1>11 DEF Seqs
  <2>2. log \in [Seqs -> Jobs \cup { NoEntry }]
    BY DEF TypeInv, TypeOK
  <2> QED
    BY <1>2, <1>3, <1>4, <2>1, <2>2 DEF TypeInv, Owned
<1> QED
  BY <1>5, <1>6, <1>8, <1>10, <1>11 DEF TypeInv, Owned

\* The scan moves one job from the queue to a worker.
LEMMA ScanTypeInv ==
    ASSUME TypeInv, NEW w \in Workers, Scan(w)
    PROVE  /\ TypeInv'
           /\ pc[w] = "idle" /\ pc'[w] = "taking"
           /\ \A v \in Workers \ {w} : pc'[v] = pc[v] /\ held'[v] = held[v]
           /\ Busy' = Busy \cup {w} /\ w \notin Busy
           /\ held'[w] \in entries /\ entries' = entries \ { held'[w] }
           /\ held'[w] \in Eligible
           /\ \A f \in Eligible : f = held'[w] \/ Before(held'[w], f)
           /\ lock' = w /\ lock = NoWorker
<1>1. PICK e \in Eligible : /\ IsBest(e)
                            /\ entries' = entries \ {e}
                            /\ held' = [held EXCEPT ![w] = e]
  BY DEF Scan, Removed
<1>2. e \in entries /\ e \in Entries /\ e.seq < nextSeq
  BY DEF Eligible, TypeInv, TypeOK, Owned
<1>3. /\ pc[w] = "idle" /\ pc' = [pc EXCEPT ![w] = "taking"]
      /\ lock' = w /\ lock = NoWorker
      /\ UNCHANGED << now, nextSeq, closed, gate, outcome, log, picks >>
  BY DEF Scan, Goto
<1>4. /\ pc \in [Workers -> PCs] /\ held \in [Workers -> Entries \cup { NoEntry }]
  BY DEF TypeInv, TypeOK
<1>5. /\ pc' \in [Workers -> PCs] /\ pc'[w] = "taking"
      /\ held' \in [Workers -> Entries \cup { NoEntry }] /\ held'[w] = e
      /\ \A v \in Workers \ {w} : pc'[v] = pc[v] /\ held'[v] = held[v]
  BY <1>1, <1>2, <1>3, <1>4 DEF PCs
<1>6. Busy' = Busy \cup {w} /\ w \notin Busy
  BY <1>3, <1>5 DEF Busy
<1>7. TypeOK'
  BY <1>1, <1>3, <1>5 DEF TypeInv, TypeOK
<1>8. \A v \in Busy' : held'[v] \in Entries /\ held'[v].seq < nextSeq'
  BY <1>2, <1>3, <1>5, <1>6 DEF TypeInv, Owned, Busy
<1>9. \A f \in entries' : f.seq < nextSeq'
  BY <1>1, <1>3 DEF TypeInv, Owned
<1>10. \A s \in Seqs : s < nextSeq' => log'[s] \in Jobs
  BY <1>3 DEF TypeInv, Owned
<1>11. TypeInv'
  BY <1>7, <1>8, <1>9, <1>10 DEF TypeInv, Owned
<1> QED
  BY <1>1, <1>2, <1>3, <1>5, <1>6, <1>11 DEF IsBest

\* The end of pick spends a slot and begins an attempt.
LEMMA TakeTypeInv ==
    ASSUME TypeInv, NEW w \in Workers, Take(w)
    PROVE  /\ TypeInv'
           /\ pc[w] = "taking" /\ pc'[w] = "attempt"
           /\ \A v \in Workers \ {w} : pc'[v] = pc[v] /\ held'[v] = held[v]
           /\ Busy' = Busy /\ lock' = NoWorker
           /\ held'[w] = [held[w] EXCEPT !.last = now]
           /\ held'[w].seq = held[w].seq
           /\ log'[held[w].seq] =
                [log[held[w].seq] EXCEPT
                   !.attempts = log[held[w].seq].attempts + 1]
           /\ \A s \in Seqs : s # held[w].seq => log'[s] = log[s]
<1> DEFINE s == held[w].seq
           a == held[w].acct
           h == [held[w] EXCEPT !.last = now]
           r == [log[s] EXCEPT !.attempts = log[s].attempts + 1]
<1>1. /\ pc[w] = "taking" /\ pc' = [pc EXCEPT ![w] = "attempt"]
      /\ lock' = NoWorker
      /\ UNCHANGED << now, entries, nextSeq, closed, outcome >>
  BY DEF Take, Goto
<1>2. /\ w \in Busy /\ held[w] \in Entries /\ s < nextSeq /\ s \in Seqs
      /\ a \in Accounts /\ log[s] \in Jobs
  BY <1>1, HeldType
<1>3. /\ pc \in [Workers -> PCs] /\ held \in [Workers -> Entries \cup { NoEntry }]
      /\ log \in [Seqs -> Jobs \cup { NoEntry }]
      /\ gate \in [Accounts -> Gates] /\ now \in Nat
      /\ picks \in [Accounts -> [count : Nat, last : Nat]]
  BY DEF TypeInv, TypeOK
<1>4. h \in Entries /\ h.seq = s
  BY <1>2, <1>3 DEF Entries
<1>5. r \in Jobs
  BY <1>2 DEF Jobs
<1>6. held' = [held EXCEPT ![w] = h] /\ log' = [log EXCEPT ![s] = r]
  <2>1. held' = [held EXCEPT ![w].last = now]
    BY DEF Take
  <2>2. log' = [log EXCEPT ![s].attempts = @ + 1]
    BY DEF Take
  <2> QED
    BY <1>2, <1>3, <2>1, <2>2
<1>7. Taken(gate[a], now, Interval[a]) \in Gates
  BY <1>2, <1>3, TakenGate, ConstantTypes
<1>8. gate' \in [Accounts -> Gates]
  <2>1. gate' = gate \/ gate' = [gate EXCEPT ![a] = Taken(gate[a], now, Interval[a])]
    BY DEF Take
  <2> QED
    BY <1>2, <1>3, <1>7, <2>1
<1>9. picks' \in [Accounts -> [count : Nat, last : Nat]]
  <2>1. \/ picks' = picks
        \/ picks' = [picks EXCEPT ![a] =
                       [count |-> picks[a].count + 1, last |-> now]]
    BY DEF Take
  <2> QED
    BY <1>2, <1>3, <2>1
<1> HIDE DEF h, r, s
<1>10. /\ pc' \in [Workers -> PCs] /\ pc'[w] = "attempt"
       /\ held' \in [Workers -> Entries \cup { NoEntry }] /\ held'[w] = h
       /\ \A v \in Workers \ {w} : pc'[v] = pc[v] /\ held'[v] = held[v]
  BY <1>1, <1>3, <1>4, <1>6 DEF PCs
<1>11. /\ log' \in [Seqs -> Jobs \cup { NoEntry }] /\ log'[s] = r
       /\ \A t \in Seqs : t # s => log'[t] = log[t]
  BY <1>2, <1>3, <1>5, <1>6
<1>12. Busy' = Busy
  BY <1>1, <1>10 DEF Busy
<1>13. TypeOK'
  BY <1>1, <1>8, <1>9, <1>10, <1>11 DEF TypeInv, TypeOK
<1>14. \A v \in Busy' : held'[v] \in Entries /\ held'[v].seq < nextSeq'
  <2>1. \A v \in Busy : v \in Workers
    BY DEF Busy
  <2> QED
    BY <1>1, <1>2, <1>4, <1>10, <1>12, <2>1 DEF TypeInv, Owned
<1>15. \A e \in entries' : e.seq < nextSeq'
  BY <1>1 DEF TypeInv, Owned
<1>16. \A t \in Seqs : t < nextSeq' => log'[t] \in Jobs
  BY <1>1, <1>5, <1>11 DEF TypeInv, Owned
<1>17. TypeInv'
  BY <1>13, <1>14, <1>15, <1>16 DEF TypeInv, Owned
<1> QED
  BY <1>1, <1>4, <1>10, <1>11, <1>12, <1>17 DEF h, r, s

\* What an attempt leaves in the worker's hands: the same job.
LEMMA AttemptHeld ==
    ASSUME TypeInv, NEW w \in Workers, Attempt(w)
    PROVE  /\ pc[w] = "attempt" /\ pc'[w] \in { "finish", "requeue" }
           /\ pc' \in [Workers -> PCs]
           /\ held' \in [Workers -> Entries \cup { NoEntry }]
           /\ outcome' \in [Workers -> { "none", "ok", "failed", "panicked" }]
           /\ held'[w] \in Entries /\ held'[w].seq = held[w].seq
           /\ \A v \in Workers \ {w} : pc'[v] = pc[v] /\ held'[v] = held[v]
<1>1. /\ pc \in [Workers -> PCs] /\ held \in [Workers -> Entries \cup { NoEntry }]
      /\ outcome \in [Workers -> { "none", "ok", "failed", "panicked" }]
  BY DEF TypeInv, TypeOK
<1>2. pc[w] = "attempt" /\ held[w] \in Entries
  BY HeldType, AttemptStep
<1>3. CASE FinishedAttempt(w)
  BY <1>1, <1>2, <1>3 DEF FinishedAttempt, Goto, PCs
<1>4. CASE RetriedAttempt(w)
  <2>1. PICK e \in RelayErrors :
          /\ ~GivesUp(held[w], e)
          /\ held' = [held EXCEPT ![w] = ForRetry(held[w], e)]
    BY <1>4 DEF RetriedAttempt
  <2> DEFINE h == ForRetry(held[w], e)
  <2>2. h \in Entries /\ h.seq = held[w].seq
    BY <1>2, <2>1, ForRetryType DEF TypeInv
  <2> HIDE DEF h
  <2>3. held' = [held EXCEPT ![w] = h]
    BY <2>1 DEF h
  <2>4. pc' = [pc EXCEPT ![w] = "requeue"] /\ outcome' = outcome
    BY <1>4 DEF RetriedAttempt, Goto
  <2> QED
    BY <1>1, <1>2, <2>2, <2>3, <2>4 DEF PCs
<1> QED
  BY <1>3, <1>4, AttemptStep

LEMMA AttemptTypeInv ==
    ASSUME TypeInv, NEW w \in Workers, Attempt(w)
    PROVE  TypeInv' /\ Busy' = Busy
<1>1. /\ pc[w] = "attempt" /\ pc'[w] \in { "finish", "requeue" }
      /\ pc' \in [Workers -> PCs]
      /\ held' \in [Workers -> Entries \cup { NoEntry }]
      /\ outcome' \in [Workers -> { "none", "ok", "failed", "panicked" }]
      /\ held'[w] \in Entries /\ held'[w].seq = held[w].seq
      /\ \A v \in Workers \ {w} : pc'[v] = pc[v] /\ held'[v] = held[v]
  BY AttemptHeld
<1>2. UNCHANGED << now, entries, nextSeq, closed, lock, picks >>
  BY AttemptStep
<1>3. gate' \in [Accounts -> Gates]
  BY AttemptStep DEF GatesAfterAttempt
<1>4. /\ log' \in [Seqs -> Jobs \cup { NoEntry }]
      /\ log'[held[w].seq] \in Jobs
      /\ \A t \in Seqs : t # held[w].seq => log'[t] = log[t]
  BY AttemptStep DEF LogAfterAttempt
<1>5. Busy' = Busy
  BY <1>1 DEF Busy
<1>6. TypeOK'
  BY <1>1, <1>2, <1>3, <1>4 DEF TypeInv, TypeOK
<1>7. w \in Busy /\ held[w].seq < nextSeq
  BY <1>1, HeldType
<1>8. \A v \in Busy' : held'[v] \in Entries /\ held'[v].seq < nextSeq'
  <2>1. \A v \in Busy : v \in Workers
    BY DEF Busy
  <2> QED
    BY <1>1, <1>2, <1>5, <1>7, <2>1 DEF TypeInv, Owned
<1>9. \A e \in entries' : e.seq < nextSeq'
  BY <1>2 DEF TypeInv, Owned
<1>10. \A t \in Seqs : t < nextSeq' => log'[t] \in Jobs
  BY <1>2, <1>4 DEF TypeInv, Owned
<1> QED
  BY <1>5, <1>6, <1>8, <1>9, <1>10 DEF TypeInv, Owned

\* The requeue moves the job back.
LEMMA RequeueTypeInv ==
    ASSUME TypeInv, NEW w \in Workers, Requeue(w)
    PROVE  /\ TypeInv'
           /\ pc[w] = "requeue" /\ pc'[w] = "idle"
           /\ \A v \in Workers \ {w} : pc'[v] = pc[v] /\ held'[v] = held[v]
           /\ w \in Busy /\ Busy' = Busy \ {w}
           /\ entries' = entries \cup { held[w] }
           /\ held[w] \in Entries
<1>1. /\ pc[w] = "requeue" /\ pc' = [pc EXCEPT ![w] = "idle"]
      /\ entries' = entries \cup { held[w] }
      /\ held' = [held EXCEPT ![w] = NoEntry]
      /\ UNCHANGED << now, nextSeq, closed, lock, gate, outcome, log, picks >>
  BY DEF Requeue, Goto, Returned
<1>2. w \in Busy /\ held[w] \in Entries /\ held[w].seq < nextSeq
  BY <1>1, HeldType
<1>3. /\ pc \in [Workers -> PCs] /\ held \in [Workers -> Entries \cup { NoEntry }]
  BY DEF TypeInv, TypeOK
<1>4. /\ pc' \in [Workers -> PCs] /\ pc'[w] = "idle"
      /\ held' \in [Workers -> Entries \cup { NoEntry }]
      /\ \A v \in Workers \ {w} : pc'[v] = pc[v] /\ held'[v] = held[v]
  BY <1>1, <1>3 DEF PCs
<1>5. Busy' = Busy \ {w}
  BY <1>4 DEF Busy
<1>6. TypeOK'
  BY <1>1, <1>2, <1>4 DEF TypeInv, TypeOK
<1>7. \A v \in Busy' : held'[v] \in Entries /\ held'[v].seq < nextSeq'
  BY <1>1, <1>4, <1>5 DEF TypeInv, Owned, Busy
<1>8. \A e \in entries' : e.seq < nextSeq'
  BY <1>1, <1>2 DEF TypeInv, Owned
<1>9. \A t \in Seqs : t < nextSeq' => log'[t] \in Jobs
  BY <1>1 DEF TypeInv, Owned
<1> QED
  BY <1>1, <1>2, <1>4, <1>5, <1>6, <1>7, <1>8, <1>9 DEF TypeInv, Owned

\* A finished job leaves the worker's hands.
LEMMA ReleaseTypeInv ==
    ASSUME TypeInv, NEW w \in Workers, Release(w)
    PROVE  /\ TypeInv'
           /\ pc[w] = "finish" /\ pc'[w] = "idle"
           /\ \A v \in Workers \ {w} : pc'[v] = pc[v] /\ held'[v] = held[v]
           /\ Busy' = Busy \ {w}
<1>1. /\ pc[w] = "finish" /\ pc' = [pc EXCEPT ![w] = "idle"]
      /\ held' = [held EXCEPT ![w] = NoEntry]
      /\ outcome' = [outcome EXCEPT ![w] = "none"]
      /\ UNCHANGED << now, entries, nextSeq, closed, lock, gate, log, picks >>
  BY DEF Release, Goto
<1>2. /\ pc \in [Workers -> PCs] /\ held \in [Workers -> Entries \cup { NoEntry }]
      /\ outcome \in [Workers -> { "none", "ok", "failed", "panicked" }]
  BY DEF TypeInv, TypeOK
<1>3. /\ pc' \in [Workers -> PCs] /\ pc'[w] = "idle"
      /\ held' \in [Workers -> Entries \cup { NoEntry }]
      /\ outcome' \in [Workers -> { "none", "ok", "failed", "panicked" }]
      /\ \A v \in Workers \ {w} : pc'[v] = pc[v] /\ held'[v] = held[v]
  BY <1>1, <1>2 DEF PCs
<1>4. Busy' = Busy \ {w}
  BY <1>3 DEF Busy
<1>5. TypeOK'
  BY <1>1, <1>3 DEF TypeInv, TypeOK
<1>6. \A v \in Busy' : held'[v] \in Entries /\ held'[v].seq < nextSeq'
  BY <1>1, <1>3, <1>4 DEF TypeInv, Owned, Busy
<1> QED
  BY <1>1, <1>3, <1>4, <1>5, <1>6 DEF TypeInv, Owned

\* A worker that retires held nothing.
LEMMA RetireTypeInv ==
    ASSUME TypeInv, NEW w \in Workers, Retire(w)
    PROVE  /\ TypeInv'
           /\ pc[w] = "idle" /\ pc'[w] = "retired"
           /\ \A v \in Workers \ {w} : pc'[v] = pc[v]
           /\ Busy' = Busy
           /\ UNCHANGED << now, entries, nextSeq, closed, lock, gate, held,
                           outcome, log, picks >>
<1>1. /\ pc[w] = "idle" /\ pc' = [pc EXCEPT ![w] = "retired"]
      /\ UNCHANGED << now, entries, nextSeq, closed, lock, gate, held,
                      outcome, log, picks >>
  BY DEF Retire, Goto
<1>2. /\ pc' \in [Workers -> PCs] /\ pc'[w] = "retired"
      /\ \A v \in Workers \ {w} : pc'[v] = pc[v]
  BY <1>1 DEF TypeInv, TypeOK, PCs
<1>3. Busy' = Busy
  BY <1>1, <1>2 DEF Busy
<1>4. TypeOK'
  BY <1>1, <1>2 DEF TypeInv, TypeOK
<1> QED
  BY <1>1, <1>2, <1>3, <1>4 DEF TypeInv, Owned

\* Time, the end of the manager and stuttering move nothing.
LEMMA QuietTypeInv ==
    ASSUME TypeInv, Tick \/ Close \/ UNCHANGED vars
    PROVE  /\ TypeInv' /\ Busy' = Busy
           /\ UNCHANGED << entries, nextSeq, lock, gate, pc, held, log, picks >>
           /\ now' \in Nat /\ now' >= now
<1>1. /\ UNCHANGED << entries, nextSeq, lock, gate, pc, held, outcome, log,
                      picks >>
      /\ now' \in Nat /\ now' >= now
      /\ closed' \in BOOLEAN
  <2>1. now \in Nat /\ closed \in BOOLEAN
    BY DEF TypeInv, TypeOK
  <2>2. CASE Tick
    BY <2>1, <2>2 DEF Tick
  <2>3. CASE Close
    BY <2>1, <2>3 DEF Close
  <2>4. CASE UNCHANGED vars
    BY <2>1, <2>4 DEF vars
  <2> QED
    BY <2>2, <2>3, <2>4
<1>2. Busy' = Busy
  BY <1>1 DEF Busy
<1>3. TypeOK'
  BY <1>1 DEF TypeInv, TypeOK
<1> QED
  BY <1>1, <1>2, <1>3 DEF TypeInv, Owned

LEMMA TypeInvStep == TypeInv /\ [Next]_vars => TypeInv'
<1> SUFFICES ASSUME TypeInv, [Next]_vars PROVE TypeInv'
  OBVIOUS
<1>1. ASSUME NEW a \in Accounts, NEW o \in Offers,
             Enqueue(a, o.prio, o.test)
      PROVE  TypeInv'
  BY <1>1, EnqueueTypeInv, ConstantTypes
<1>2. ASSUME NEW w \in Workers, Retire(w) PROVE TypeInv'
  BY <1>2, RetireTypeInv
<1>3. ASSUME NEW w \in Workers, Scan(w) PROVE TypeInv'
  BY <1>3, ScanTypeInv
<1>4. ASSUME NEW w \in Workers, Take(w) PROVE TypeInv'
  BY <1>4, TakeTypeInv
<1>5. ASSUME NEW w \in Workers, Attempt(w) PROVE TypeInv'
  BY <1>5, AttemptTypeInv
<1>6. ASSUME NEW w \in Workers, Requeue(w) PROVE TypeInv'
  BY <1>6, RequeueTypeInv
<1>7. ASSUME NEW w \in Workers, Release(w) PROVE TypeInv'
  BY <1>7, ReleaseTypeInv
<1>8. CASE Tick \/ Close \/ UNCHANGED vars
  BY <1>8, QuietTypeInv
<1> QED
  BY <1>1, <1>2, <1>3, <1>4, <1>5, <1>6, <1>7, <1>8 DEF Next

\* Every variable keeps the type the code gives it, whatever the number of
\* workers, accounts and jobs; in particular the retry counter of an entry
\* that goes back never drops below zero, and no worker is left with an
\* entry it does not own or without the one it works on.
THEOREM TypeCorrect == Spec => []TypeOK
<1>1. Init => TypeInv
  BY InitTypeInv
<1>2. TypeInv /\ [Next]_vars => TypeInv'
  BY TypeInvStep
<1>3. TypeInv => TypeOK
  BY DEF TypeInv
<1> QED
  BY <1>1, <1>2, <1>3, PTL DEF Spec

-----------------------------------------------------------------------------
(* One owner per job.                                                      *)

\* Only the worker that holds the queue lock is between the scan of pick
\* and its end.
Holder == \A w \in Workers : pc[w] = "taking" => lock = w

LEMMA HolderStep ==
    ASSUME TypeInv, Holder, [Next]_vars
    PROVE  Holder'
<1>1. ASSUME NEW a \in Accounts, NEW p, NEW test, Enqueue(a, p, test)
      PROVE  Holder'
  BY <1>1 DEF Enqueue, Holder
<1>2. ASSUME NEW w \in Workers, Scan(w) PROVE Holder'
  BY <1>2, ScanTypeInv, ConstantTypes DEF Holder
<1>3. ASSUME NEW w \in Workers, Take(w) PROVE Holder'
  <2>1. /\ pc[w] = "taking" /\ pc'[w] = "attempt"
        /\ \A v \in Workers \ {w} : pc'[v] = pc[v]
    BY <1>3, TakeTypeInv
  <2> QED
    BY <2>1 DEF Holder
<1>4. ASSUME NEW w \in Workers, Attempt(w) PROVE Holder'
  <2>1. /\ pc'[w] \in { "finish", "requeue" } /\ lock' = lock
        /\ \A v \in Workers \ {w} : pc'[v] = pc[v]
    BY <1>4, AttemptHeld, AttemptStep
  <2> QED
    BY <2>1 DEF Holder
<1>5. ASSUME NEW w \in Workers, Retire(w) \/ Requeue(w) \/ Release(w)
      PROVE  Holder'
  <2>1. /\ pc'[w] # "taking" /\ lock' = lock
        /\ \A v \in Workers \ {w} : pc'[v] = pc[v]
    BY <1>5 DEF Retire, Requeue, Release, Goto, TypeInv, TypeOK
  <2> QED
    BY <2>1 DEF Holder
<1>6. CASE Tick \/ Close \/ UNCHANGED vars
  BY <1>6, QuietTypeInv DEF Holder
<1> QED
  BY <1>1, <1>2, <1>3, <1>4, <1>5, <1>6 DEF Next

LEMMA OneOwnerStep ==
    ASSUME TypeInv, OneOwner, [Next]_vars
    PROVE  OneOwner'
<1>1. ASSUME NEW a \in Accounts, NEW o \in Offers,
             Enqueue(a, o.prio, o.test)
      PROVE  OneOwner'
  <2> DEFINE n == NewEntry(a, o.prio, o.test)
  <2>1. n.seq = nextSeq
    BY <1>1, NewEntryType, ConstantTypes DEF Enqueue, TypeInv
  <2>2. Busy' = Busy
    BY <1>1, EnqueueTypeInv, ConstantTypes
  <2> HIDE DEF n
  <2>3. entries' = entries \cup { n } /\ held' = held
    BY <1>1 DEF Enqueue, n
  <2>4. \A e \in entries : e.seq \in Nat /\ e.seq < nextSeq
    BY ConstantTypes DEF TypeInv, TypeOK, Owned, Entries, Seqs
  <2>5. \A w \in Busy : held[w].seq \in Nat /\ held[w].seq < nextSeq
    BY ConstantTypes DEF TypeInv, Owned, Entries, Seqs
  <2>6. nextSeq \in Nat
    BY ConstantTypes DEF TypeInv, TypeOK
  <2> QED
    BY <2>1, <2>2, <2>3, <2>4, <2>5, <2>6 DEF OneOwner
<1>2. ASSUME NEW w \in Workers, Scan(w) PROVE OneOwner'
  <2>1. /\ \A v \in Workers \ {w} : held'[v] = held[v]
        /\ Busy' = Busy \cup {w} /\ w \notin Busy
        /\ held'[w] \in entries /\ entries' = entries \ { held'[w] }
    BY <1>2, ScanTypeInv
  <2>2. \A v \in Busy : v \in Workers \ {w} /\ held'[v] = held[v]
    BY <2>1 DEF Busy
  <2>3. \A e, f \in entries' : e.seq = f.seq => e = f
    BY <2>1 DEF OneOwner
  <2>4. \A v \in Busy', e \in entries' : held'[v].seq # e.seq
    BY <2>1, <2>2 DEF OneOwner
  <2>5. \A u, v \in Busy' : held'[u].seq = held'[v].seq => u = v
    BY <2>1, <2>2 DEF OneOwner
  <2> QED
    BY <2>3, <2>4, <2>5 DEF OneOwner
<1>3. ASSUME NEW w \in Workers, Take(w) \/ Attempt(w) PROVE OneOwner'
  <2>1. /\ \A v \in Workers \ {w} : held'[v] = held[v]
        /\ held'[w].seq = held[w].seq
        /\ Busy' = Busy /\ entries' = entries
    <3>1. CASE Take(w)
      BY <3>1, TakeTypeInv DEF Take
    <3>2. CASE Attempt(w)
      BY <3>2, AttemptTypeInv, AttemptHeld, AttemptStep
    <3> QED
      BY <1>3, <3>1, <3>2
  <2>2. \A v \in Busy : held'[v].seq = held[v].seq
    BY <2>1 DEF Busy
  <2> QED
    BY <2>1, <2>2 DEF OneOwner
<1>4. ASSUME NEW w \in Workers, Requeue(w) PROVE OneOwner'
  <2>1. /\ \A v \in Workers \ {w} : held'[v] = held[v]
        /\ w \in Busy /\ Busy' = Busy \ {w}
        /\ entries' = entries \cup { held[w] }
    BY <1>4, RequeueTypeInv
  <2>2. \A v \in Busy' : v \in Busy /\ v # w /\ held'[v] = held[v]
    BY <2>1 DEF Busy
  <2> QED
    BY <2>1, <2>2 DEF OneOwner
<1>5. ASSUME NEW w \in Workers, Release(w) PROVE OneOwner'
  <2>1. /\ \A v \in Workers \ {w} : held'[v] = held[v]
        /\ Busy' = Busy \ {w} /\ entries' = entries
    BY <1>5, ReleaseTypeInv DEF Release
  <2>2. \A v \in Busy' : v \in Busy /\ held'[v] = held[v]
    BY <2>1 DEF Busy
  <2> QED
    BY <2>1, <2>2 DEF OneOwner
<1>6. ASSUME NEW w \in Workers, Retire(w) PROVE OneOwner'
  BY <1>6, RetireTypeInv DEF OneOwner
<1>7. CASE Tick \/ Close \/ UNCHANGED vars
  BY <1>7, QuietTypeInv DEF OneOwner
<1> QED
  BY <1>1, <1>2, <1>3, <1>4, <1>5, <1>6, <1>7 DEF Next

\* A job is in the queue once or in one worker's hands, never both: no
\* message is attempted by two workers at a time, and no result comes twice.
THEOREM OneOwnerAlways == Spec => []OneOwner
<1>1. Init => TypeInv
  BY InitTypeInv
<1>2. Init => OneOwner
  BY DEF Init, OneOwner, Busy
<1>3. TypeInv /\ [Next]_vars => TypeInv'
  BY TypeInvStep
<1>4. TypeInv /\ OneOwner /\ [Next]_vars => OneOwner'
  BY OneOwnerStep
<1> QED
  BY <1>1, <1>2, <1>3, <1>4, PTL DEF Spec

-----------------------------------------------------------------------------
(* The pace of an account.                                                 *)

\* What the end of pick does to the gates.
LEMMA TakeGates ==
    ASSUME TypeInv, NEW w \in Workers, Take(w)
    PROVE  LET b == held[w].acct
           IN  /\ \A a \in Accounts : a # b \/ IsTest(held[w]) =>
                    gate'[a] = gate[a] /\ picks'[a] = picks[a]
               /\ IsTest(held[w]) \/
                    /\ Interval[b] # 0 =>
                         /\ gate'[b].next = Later(gate[b].next, now) + Interval[b]
                         /\ picks'[b].last = now
                    /\ Interval[b] = 0 =>
                         /\ gate'[b].next = gate[b].next
                         /\ picks'[b] = picks[b]
<1> DEFINE b == held[w].acct
           g == Taken(gate[b], now, Interval[b])
           k == [count |-> picks[b].count + 1, last |-> now]
<1>1. b \in Accounts
  BY HeldType DEF Take, Goto
<1>2. /\ gate \in [Accounts -> Gates] /\ now \in Nat
      /\ picks \in [Accounts -> [count : Nat, last : Nat]]
  BY DEF TypeInv, TypeOK
<1>3. /\ Interval[b] # 0 => g.next = Later(gate[b].next, now) + Interval[b]
      /\ Interval[b] = 0 => g.next = gate[b].next
  <2>1. gate[b] \in Gates /\ Interval[b] \in Nat
    BY <1>1, <1>2, ConstantTypes
  <2> QED
    BY <1>2, <2>1, TakenGate
<1>4. /\ gate' = IF IsTest(held[w]) THEN gate ELSE [gate EXCEPT ![b] = g]
      /\ picks' = IF IsTest(held[w]) \/ Interval[b] = 0 THEN picks
                  ELSE [picks EXCEPT ![b] = k]
  BY DEF Take
<1> HIDE DEF g, b, k
<1>5. CASE IsTest(held[w])
  BY <1>4, <1>5 DEF b
<1>6. CASE ~IsTest(held[w])
  <2>1. gate'[b] = g /\ \A a \in Accounts : a # b => gate'[a] = gate[a]
    BY <1>1, <1>2, <1>4, <1>6
  <2>2. \A a \in Accounts : a # b => picks'[a] = picks[a]
    BY <1>1, <1>2, <1>4, <1>6
  <2>3. Interval[b] # 0 => picks'[b].last = now
    BY <1>1, <1>2, <1>4, <1>6 DEF k
  <2>4. Interval[b] = 0 => picks'[b] = picks[b]
    BY <1>4, <1>6
  <2> QED
    BY <1>3, <1>6, <2>1, <2>2, <2>3, <2>4 DEF b
<1> QED
  BY <1>5, <1>6

\* Mail between the scan of pick and its end: the scan saw the gate open, so
\* the account's last slot is past, and since then only a pause can have
\* closed the gate.
ReadyToTake ==
    \A w \in Workers : pc[w] = "taking" /\ ~IsTest(held[w]) =>
        LET a == held[w].acct
        IN  /\ gate[a].next <= now + MaxPause
            /\ picks[a].count > 0 => now >= picks[a].last + Interval[a]

\* The gate remembers the last slot spent.
GateRemembers ==
    \A a \in Accounts : picks[a].count > 0 =>
        /\ Interval[a] # 0
        /\ gate[a].next >= picks[a].last + Interval[a]

PaceInv == Holder /\ ReadyToTake /\ GateRemembers /\ LockoutBounded

LEMMA NumberTypes ==
    ASSUME TypeInv, NEW a \in Accounts
    PROVE  /\ now \in Nat /\ MaxPause \in Nat
           /\ gate[a].next \in Nat
           /\ picks[a].last \in Nat /\ picks[a].count \in Nat
           /\ Interval[a] \in Nat
  BY ConstantTypes DEF TypeInv, TypeOK, Gates

LEMMA PaceInit == Init => PaceInv
<1> SUFFICES ASSUME Init PROVE PaceInv
  OBVIOUS
<1>1. Holder /\ ReadyToTake
  BY DEF Init, Holder, ReadyToTake
<1>2. GateRemembers
  BY DEF Init, GateRemembers
<1>3. ASSUME NEW a \in Accounts
      PROVE  gate[a].next <= now + MaxPause + Interval[a]
  <2>1. gate[a].next = 0 /\ now = 0
    BY DEF Init, NewGate
  <2>2. MaxPause \in Nat /\ Interval[a] \in Nat
    BY ConstantTypes
  <2> QED
    BY <2>1, <2>2
<1> QED
  BY <1>1, <1>2, <1>3 DEF PaceInv, LockoutBounded

\* Steps that leave the gates alone, and whoever is between the scan of pick
\* and its end.
LEMMA PaceQuiet ==
    ASSUME TypeInv, TypeInv', PaceInv, Holder', gate' = gate, picks' = picks,
           now' >= now,
           \A w \in Workers : pc'[w] = "taking" =>
               pc[w] = "taking" /\ held'[w] = held[w]
    PROVE  PaceInv'
<1>1. \A a \in Accounts : GateRemembers => (picks'[a].count > 0 =>
         Interval[a] # 0 /\ gate'[a].next >= picks'[a].last + Interval[a])
  BY DEF GateRemembers
<1>2. GateRemembers'
  BY <1>1 DEF PaceInv, GateRemembers
<1>3. ASSUME NEW a \in Accounts
      PROVE  gate'[a].next <= now' + MaxPause + Interval[a]
  <2>1. gate[a].next <= now + MaxPause + Interval[a]
    BY DEF PaceInv, LockoutBounded
  <2>2. now' \in Nat
    BY DEF TypeInv, TypeOK
  <2> QED
    BY <2>1, <2>2, NumberTypes
<1>4. ASSUME NEW w \in Workers, pc'[w] = "taking", ~IsTest(held'[w])
      PROVE  LET a == held'[w].acct
             IN  /\ gate'[a].next <= now' + MaxPause
                 /\ picks'[a].count > 0 => now' >= picks'[a].last + Interval[a]
  <2> DEFINE a == held[w].acct
  <2>1. pc[w] = "taking" /\ held'[w] = held[w] /\ ~IsTest(held[w])
    BY <1>4 DEF IsTest
  <2>2. a \in Accounts
    BY <2>1, HeldType
  <2>3. /\ gate[a].next <= now + MaxPause
        /\ picks[a].count > 0 => now >= picks[a].last + Interval[a]
    BY <2>1 DEF PaceInv, ReadyToTake
  <2>4. now' \in Nat
    BY DEF TypeInv, TypeOK
  <2> QED
    BY <2>1, <2>2, <2>3, <2>4, NumberTypes
<1> QED
  BY <1>2, <1>3, <1>4 DEF PaceInv, LockoutBounded, ReadyToTake

LEMMA PaceScan ==
    ASSUME TypeInv, PaceInv, NEW w \in Workers, Scan(w), Holder'
    PROVE  PaceInv'
<1>1. /\ pc'[w] = "taking" /\ held'[w] \in Eligible /\ lock = NoWorker
      /\ \A v \in Workers \ {w} : pc'[v] = pc[v]
      /\ UNCHANGED << now, gate, picks >>
  BY ScanTypeInv DEF Scan
<1>2. GateRemembers' /\ LockoutBounded'
  BY <1>1 DEF PaceInv, GateRemembers, LockoutBounded
<1>3. \A v \in Workers : pc'[v] = "taking" => v = w
  BY <1>1, ConstantTypes DEF PaceInv, Holder
<1>4. ASSUME ~IsTest(held'[w])
      PROVE  LET a == held'[w].acct
             IN  /\ gate[a].next <= now + MaxPause
                 /\ picks[a].count > 0 => now >= picks[a].last + Interval[a]
  <2> DEFINE a == held'[w].acct
  <2>1. held'[w] \in Entries /\ EligibleAt(held'[w]) <= now
    BY <1>1 DEF Eligible, TypeInv, TypeOK
  <2>2. a \in Accounts /\ held'[w].notBefore \in Nat
    BY <2>1 DEF Entries
  <2>3. gate[a].next <= now
    BY <1>4, <2>1, <2>2, NumberTypes DEF EligibleAt, Later
  <2>4. picks[a].count > 0 => gate[a].next >= picks[a].last + Interval[a]
    BY <2>2 DEF PaceInv, GateRemembers
  <2> QED
    BY <2>2, <2>3, <2>4, NumberTypes
<1>5. ReadyToTake'
  BY <1>1, <1>3, <1>4 DEF ReadyToTake
<1> QED
  BY <1>2, <1>5 DEF PaceInv

LEMMA PaceTake ==
    ASSUME TypeInv, PaceInv, NEW w \in Workers, Take(w), Holder'
    PROVE  PaceInv'
<1> DEFINE b == held[w].acct
<1>1. /\ pc[w] = "taking" /\ pc'[w] = "attempt" /\ now' = now
      /\ \A v \in Workers \ {w} : pc'[v] = pc[v]
  BY TakeTypeInv DEF Take
<1>2. \A v \in Workers : pc'[v] # "taking"
  BY <1>1 DEF PaceInv, Holder
<1>3. ReadyToTake'
  BY <1>2 DEF ReadyToTake
<1>4. b \in Accounts
  BY <1>1, HeldType
<1>5. ~IsTest(held[w]) => gate[b].next <= now + MaxPause
  BY <1>1 DEF PaceInv, ReadyToTake
<1>6. ASSUME NEW a \in Accounts
      PROVE  /\ picks'[a].count > 0 =>
                  /\ Interval[a] # 0
                  /\ gate'[a].next >= picks'[a].last + Interval[a]
             /\ gate'[a].next <= now' + MaxPause + Interval[a]
  <2>1. /\ picks[a].count > 0 =>
             /\ Interval[a] # 0
             /\ gate[a].next >= picks[a].last + Interval[a]
        /\ gate[a].next <= now + MaxPause + Interval[a]
    BY DEF PaceInv, GateRemembers, LockoutBounded
  <2>2. CASE a # b \/ IsTest(held[w])
    <3>1. gate'[a] = gate[a] /\ picks'[a] = picks[a]
      BY <2>2, TakeGates
    <3> QED
      BY <1>1, <2>1, <3>1
  <2>3. CASE a = b /\ ~IsTest(held[w]) /\ Interval[b] = 0
    <3>1. gate'[a].next = gate[a].next /\ picks'[a] = picks[a]
      BY <2>3, TakeGates
    <3> QED
      BY <1>1, <2>1, <3>1
  <2>4. CASE a = b /\ ~IsTest(held[w]) /\ Interval[b] # 0
    <3>1. /\ gate'[a].next = Later(gate[a].next, now) + Interval[a]
          /\ picks'[a].last = now
      BY <2>4, TakeGates
    <3>2. gate[a].next <= now + MaxPause
      BY <1>5, <2>4
    <3> QED
      BY <1>1, <2>4, <3>1, <3>2, NumberTypes DEF Later
  <2> QED
    BY <2>2, <2>3, <2>4
<1> QED
  BY <1>3, <1>6 DEF PaceInv, GateRemembers, LockoutBounded

LEMMA PaceAttempt ==
    ASSUME TypeInv, PaceInv, NEW w \in Workers, Attempt(w), Holder'
    PROVE  PaceInv'
<1>1. /\ pc'[w] \in { "finish", "requeue" }
      /\ \A v \in Workers \ {w} : pc'[v] = pc[v] /\ held'[v] = held[v]
      /\ now' = now /\ picks' = picks
  BY AttemptHeld, AttemptStep
<1>2. ASSUME NEW a \in Accounts
      PROVE  /\ gate'[a].next >= gate[a].next
             /\ gate'[a].next <= Later(gate[a].next, now + MaxPause)
             /\ gate'[a].next \in Nat
  <2>1. gate' \in [Accounts -> Gates]
    BY AttemptStep DEF GatesAfterAttempt
  <2> QED
    BY <2>1, AttemptStep DEF GatesAfterAttempt, Gates
<1>3. ASSUME NEW a \in Accounts
      PROVE  gate'[a].next <= now' + MaxPause + Interval[a]
  <2>1. gate[a].next <= now + MaxPause + Interval[a]
    BY DEF PaceInv, LockoutBounded
  <2> QED
    BY <1>1, <1>2, <2>1, NumberTypes DEF Later
<1>4. ASSUME NEW a \in Accounts, picks'[a].count > 0
      PROVE  Interval[a] # 0 /\ gate'[a].next >= picks'[a].last + Interval[a]
  <2>1. Interval[a] # 0 /\ gate[a].next >= picks[a].last + Interval[a]
    BY <1>1, <1>4 DEF PaceInv, GateRemembers
  <2> QED
    BY <1>1, <1>2, <2>1, NumberTypes
<1>5. ASSUME NEW v \in Workers, pc'[v] = "taking", ~IsTest(held'[v])
      PROVE  LET a == held'[v].acct
             IN  /\ gate'[a].next <= now' + MaxPause
                 /\ picks'[a].count > 0 => now' >= picks'[a].last + Interval[a]
  <2> DEFINE a == held[v].acct
  <2>1. pc[v] = "taking" /\ held'[v] = held[v] /\ ~IsTest(held[v])
    BY <1>1, <1>5 DEF IsTest
  <2>2. a \in Accounts
    BY <2>1, HeldType
  <2>3. /\ gate[a].next <= now + MaxPause
        /\ picks[a].count > 0 => now >= picks[a].last + Interval[a]
    BY <2>1 DEF PaceInv, ReadyToTake
  <2> QED
    BY <1>1, <1>2, <2>1, <2>2, <2>3, NumberTypes DEF Later
<1> QED
  BY <1>3, <1>4, <1>5 DEF PaceInv, LockoutBounded, GateRemembers, ReadyToTake

LEMMA PaceStep ==
    ASSUME TypeInv, PaceInv, [Next]_vars
    PROVE  PaceInv'
<1>1. Holder'
  BY HolderStep DEF PaceInv
<1>2. TypeInv'
  BY TypeInvStep
<1>3. ASSUME NEW a \in Accounts, NEW o \in Offers,
             Enqueue(a, o.prio, o.test)
      PROVE  PaceInv'
  <2>1. /\ UNCHANGED << now, gate, picks, held >>
        /\ \A w \in Workers : pc'[w] = "taking" => pc[w] = "taking"
    BY <1>3 DEF Enqueue
  <2>2. now' >= now
    BY <2>1 DEF TypeInv, TypeOK
  <2> QED
    BY <1>1, <1>2, <2>1, <2>2, PaceQuiet
<1>4. ASSUME NEW w \in Workers, Retire(w) \/ Requeue(w) \/ Release(w)
      PROVE  PaceInv'
  <2>1. /\ UNCHANGED << now, gate, picks >>
        /\ pc'[w] # "taking"
        /\ \A v \in Workers \ {w} : pc'[v] = pc[v] /\ held'[v] = held[v]
    BY <1>4 DEF Retire, Requeue, Release, Goto, TypeInv, TypeOK
  <2>2. now' >= now
    BY <2>1 DEF TypeInv, TypeOK
  <2> QED
    BY <1>1, <1>2, <2>1, <2>2, PaceQuiet
<1>5. CASE Tick \/ Close \/ UNCHANGED vars
  <2>1. /\ UNCHANGED << gate, picks, pc, held >>
        /\ now' >= now
    BY <1>5, QuietTypeInv
  <2> QED
    BY <1>1, <1>2, <2>1, PaceQuiet
<1>6. ASSUME NEW w \in Workers, Scan(w) PROVE PaceInv'
  BY <1>1, <1>6, PaceScan
<1>7. ASSUME NEW w \in Workers, Take(w) PROVE PaceInv'
  BY <1>1, <1>7, PaceTake
<1>8. ASSUME NEW w \in Workers, Attempt(w) PROVE PaceInv'
  BY <1>1, <1>8, PaceAttempt
<1> QED
  BY <1>3, <1>4, <1>5, <1>6, <1>7, <1>8 DEF Next

\* However many workers report the same dead relay, and in whatever order
\* their pauses and send slots reach the gate, an account waits no longer
\* than the longest pause and one slot.
THEOREM LockoutAlwaysBounded == Spec => []LockoutBounded
<1>1. Init => TypeInv /\ PaceInv
  BY InitTypeInv, PaceInit
<1>2. TypeInv /\ [Next]_vars => TypeInv'
  BY TypeInvStep
<1>3. TypeInv /\ PaceInv /\ [Next]_vars => PaceInv'
  BY PaceStep
<1>4. PaceInv => LockoutBounded
  BY DEF PaceInv
<1> QED
  BY <1>1, <1>2, <1>3, <1>4, PTL DEF Spec

\* A send slot is spent only when the account's last one is a whole interval
\* past.
LEMMA SlotsSpaced ==
    ASSUME TypeInv, PaceInv, [Next]_vars, NEW a \in Accounts,
           picks'[a].count # picks[a].count, picks[a].count > 0
    PROVE  picks'[a].last >= picks[a].last + Interval[a]
<1>1. ASSUME NEW w \in Workers, Take(w)
      PROVE  picks'[a].last >= picks[a].last + Interval[a]
  <2>1. pc[w] = "taking"
    BY <1>1, TakeTypeInv
  <2>2. /\ held[w].acct = a /\ ~IsTest(held[w])
        /\ Interval[a] # 0
        /\ picks'[a].last = now
    BY <1>1, TakeGates
  <2> QED
    BY <2>1, <2>2 DEF PaceInv, ReadyToTake
<1>2. ASSUME NEW w \in Workers, Attempt(w) PROVE FALSE
  BY <1>2, AttemptStep
<1>3. ASSUME NEW b, NEW p, NEW test, Enqueue(b, p, test) PROVE FALSE
  BY <1>3 DEF Enqueue
<1>4. ASSUME NEW w \in Workers, Retire(w) \/ Scan(w) \/ Requeue(w) \/ Release(w)
      PROVE FALSE
  BY <1>4 DEF Retire, Scan, Requeue, Release
<1>5. CASE Tick \/ Close \/ UNCHANGED vars
  BY <1>5, QuietTypeInv
<1> QED
  BY <1>1, <1>2, <1>3, <1>4, <1>5 DEF Next

\* The rate limit holds whatever retries, pauses, recoveries and workers come
\* between two attempts at mail of one account.
THEOREM RateAlwaysSpaced == Spec => RateSpacing
<1>1. Init => TypeInv /\ PaceInv
  BY InitTypeInv, PaceInit
<1>2. TypeInv /\ [Next]_vars => TypeInv'
  BY TypeInvStep
<1>3. TypeInv /\ PaceInv /\ [Next]_vars => PaceInv'
  BY PaceStep
<1>4. TypeInv /\ PaceInv /\ [Next]_vars =>
        [\A a \in Accounts :
           picks'[a].count # picks[a].count /\ picks[a].count > 0 =>
             picks'[a].last >= picks[a].last + Interval[a]]_vars
  BY SlotsSpaced
<1> QED
  BY <1>1, <1>2, <1>3, <1>4, PTL DEF Spec, RateSpacing

\* A gate never opens earlier than it said.
LEMMA GatesOnlyClose ==
    ASSUME TypeInv, [Next]_vars, NEW a \in Accounts
    PROVE  gate'[a].next >= gate[a].next
<1>1. gate[a].next \in Nat
  BY NumberTypes
<1>2. ASSUME NEW w \in Workers, Take(w) PROVE gate'[a].next >= gate[a].next
  <2>1. CASE a # held[w].acct \/ IsTest(held[w])
    BY <1>1, <1>2, <2>1, TakeGates
  <2>2. CASE a = held[w].acct /\ ~IsTest(held[w])
    <3>1. now \in Nat /\ Interval[a] \in Nat
      BY NumberTypes
    <3>2. \/ gate'[a].next = Later(gate[a].next, now) + Interval[a]
          \/ gate'[a].next = gate[a].next
      BY <1>2, <2>2, TakeGates
    <3> QED
      BY <1>1, <3>1, <3>2 DEF Later
  <2> QED
    BY <2>1, <2>2
<1>3. ASSUME NEW w \in Workers, Attempt(w) PROVE gate'[a].next >= gate[a].next
  BY <1>1, <1>3, AttemptStep DEF GatesAfterAttempt
<1>4. CASE gate' = gate
  BY <1>1, <1>4
<1>5. ASSUME NEW w \in Workers, Retire(w) \/ Scan(w) \/ Requeue(w) \/ Release(w)
      PROVE  gate' = gate
  BY <1>5 DEF Retire, Scan, Requeue, Release
<1>6. ASSUME NEW b \in Accounts, NEW p, NEW t, Enqueue(b, p, t)
      PROVE  gate' = gate
  BY <1>6 DEF Enqueue
<1>7. CASE Close \/ Tick \/ UNCHANGED vars
  BY <1>4, <1>7 DEF Close, Tick, vars
<1> QED
  BY <1>2, <1>3, <1>4, <1>5, <1>6, <1>7 DEF Next

-----------------------------------------------------------------------------
(* How often a job is tried.                                               *)

\* A job that waits for an attempt: its history is its own, nothing it was
\* told is final, and the attempts it had and the retries it has left add up.
ToTry(e) ==
    LET j == log[e.seq]
    IN  /\ ~j.final /\ j.acct = e.acct
        /\ j.attempts + e.retries <= Retries[e.acct]

\* A job at the relay: this attempt has begun, and left no copy yet.
Trying(e) ==
    LET j == log[e.seq]
    IN  /\ ~j.final /\ j.acct = e.acct
        /\ j.attempts + e.retries <= 1 + Retries[e.acct]
        /\ j.copies <= IF DryRun[e.acct] THEN 0 ELSE j.attempts - 1

WithinRetries(s) ==
    /\ log[s].attempts <= 1 + Retries[log[s].acct]
    /\ log[s].copies <= IF DryRun[log[s].acct] THEN 0 ELSE log[s].attempts

TriesInv ==
    /\ TypeInv /\ OneOwner
    /\ \A e \in entries : ToTry(e)
    /\ \A w \in Workers :
         /\ pc[w] \in { "taking", "requeue" } => ToTry(held[w])
         /\ pc[w] = "attempt" => Trying(held[w])
    /\ \A s \in Seqs : s < nextSeq => WithinRetries(s)

\* The numbers in a job's history.
LEMMA JobTypes ==
    ASSUME TypeInv, NEW s \in Seqs, s < nextSeq
    PROVE  /\ log[s] \in Jobs /\ log[s].acct \in Accounts
           /\ log[s].attempts \in Nat /\ log[s].copies \in Nat
           /\ log[s].prio \in Priorities
           /\ Retries[log[s].acct] \in Nat
<1>1. log[s] \in Jobs
  BY DEF TypeInv, Owned
<1>2. /\ log[s].acct \in Accounts /\ log[s].prio \in Priorities
      /\ log[s].attempts \in Nat /\ log[s].copies \in Nat
  BY <1>1 DEF Jobs
<1> QED
  BY <1>1, <1>2, ConstantTypes

\* Other jobs do not see what happens to one.
LEMMA TriesFrame ==
    ASSUME NEW e, log'[e.seq] = log[e.seq]
    PROVE  /\ ToTry(e) => ToTry(e)'
           /\ Trying(e) => Trying(e)'
  BY DEF ToTry, Trying

LEMMA TriesInit == Init => TriesInv
<1> SUFFICES ASSUME Init PROVE TriesInv
  OBVIOUS
<1>1. TypeInv
  BY InitTypeInv
<1>2. OneOwner
  BY DEF Init, OneOwner, Busy
<1>3. ~(\E s \in Seqs : s < nextSeq)
  BY ConstantTypes DEF Init, Seqs
<1> QED
  BY <1>1, <1>2, <1>3 DEF Init, TriesInv

\* submit: a job that was never tried, and has its account's retries.
LEMMA TriesEnqueue ==
    ASSUME TriesInv, TypeInv', OneOwner',
           NEW a \in Accounts, NEW o \in Offers, Enqueue(a, o.prio, o.test)
    PROVE  TriesInv'
<1> DEFINE r == [ acct |-> a, prio |-> o.prio, test |-> o.test, attempts |-> 0,
                  copies |-> 0, final |-> FALSE ]
<1> PICK n : n = NewEntry(a, o.prio, o.test)
  OBVIOUS
<1>1. /\ entries' = entries \cup {n} /\ nextSeq' = nextSeq + 1
      /\ log' = [log EXCEPT ![nextSeq] = r]
      /\ held' = held
      /\ pc' = IF Started THEN pc ELSE [w \in Workers |-> "idle"]
  BY DEF Enqueue
<1>2. nextSeq \in Seqs /\ log \in [Seqs -> Jobs \cup {NoEntry}]
  BY ConstantTypes DEF Enqueue, TriesInv, TypeInv, TypeOK, Seqs
<1>3. /\ n.seq = nextSeq /\ n.acct = a
      /\ n.retries = 0 \/ n.retries = Retries[a]
  BY DEF NewEntry
<1>4. log'[nextSeq] = r /\ \A s \in Seqs : s # nextSeq => log'[s] = log[s]
  BY <1>1, <1>2
<1>5. Retries[a] \in Nat
  BY ConstantTypes
<1>6. ToTry(n)'
  BY <1>3, <1>4, <1>5 DEF ToTry
<1>7. ASSUME NEW e, e.seq \in Seqs, e.seq < nextSeq
      PROVE  (ToTry(e) => ToTry(e)') /\ (Trying(e) => Trying(e)')
  <2>1. log'[e.seq] = log[e.seq]
    BY <1>2, <1>4, <1>7 DEF Seqs
  <2> QED
    BY <2>1, TriesFrame
<1>8. \A e \in entries' : ToTry(e)'
  <2>1. \A e \in entries : e.seq \in Seqs /\ e.seq < nextSeq /\ ToTry(e)
    BY DEF TriesInv, TypeInv, TypeOK, Owned, Entries
  <2> QED
    BY <1>1, <1>6, <1>7, <2>1
<1>9. ASSUME NEW w \in Workers
      PROVE  /\ pc'[w] \in { "taking", "requeue" } => ToTry(held[w])'
             /\ pc'[w] = "attempt" => Trying(held[w])'
  <2> SUFFICES ASSUME pc'[w] \in { "taking", "requeue", "attempt" }
               PROVE  /\ pc'[w] \in { "taking", "requeue" } => ToTry(held[w])'
                      /\ pc'[w] = "attempt" => Trying(held[w])'
    OBVIOUS
  <2>1. pc'[w] = pc[w]
    BY <1>1
  <2>2. held[w].seq \in Seqs /\ held[w].seq < nextSeq
    BY <2>1, HeldType DEF TriesInv
  <2>3. log'[held[w].seq] = log[held[w].seq]
    BY <1>2, <1>4, <2>2 DEF Seqs
  <2> QED
    BY <1>1, <2>1, <2>3 DEF TriesInv, ToTry, Trying
<1>10. ASSUME NEW s \in Seqs, s < nextSeq' PROVE WithinRetries(s)'
  <2>1. CASE s = nextSeq
    BY <1>4, <1>5, <2>1 DEF WithinRetries
  <2>2. CASE s # nextSeq
    <3>1. s < nextSeq
      BY <1>1, <1>2, <1>10, <2>2 DEF Seqs
    <3> QED
      BY <1>4, <2>2, <3>1 DEF TriesInv, WithinRetries
  <2> QED
    BY <2>1, <2>2
<1> QED
  BY <1>1, <1>8, <1>9, <1>10 DEF TriesInv

\* Steps that leave the histories alone, and move jobs unchanged if at all.
LEMMA TriesQuiet ==
    ASSUME TriesInv, TypeInv', OneOwner', log' = log, nextSeq' = nextSeq,
           \A e \in entries' : ToTry(e),
           \A w \in Workers :
             /\ pc'[w] \in { "taking", "requeue" } => ToTry(held'[w])
             /\ pc'[w] = "attempt" => Trying(held'[w])
    PROVE  TriesInv'
<1>1. ASSUME NEW e PROVE ToTry(e)' = ToTry(e) /\ Trying(e)' = Trying(e)
  BY DEF ToTry, Trying
<1>2. \A e \in entries' : ToTry(e)'
  BY <1>1
<1>3. ASSUME NEW w \in Workers
      PROVE  /\ pc'[w] \in { "taking", "requeue" } => ToTry(held[w])'
             /\ pc'[w] = "attempt" => Trying(held[w])'
  BY DEF ToTry, Trying
<1>4. \A s \in Seqs : s < nextSeq' => WithinRetries(s)'
  BY DEF TriesInv, WithinRetries
<1> QED
  BY <1>2, <1>3, <1>4 DEF TriesInv

\* The end of pick begins an attempt.
LEMMA TriesTake ==
    ASSUME TriesInv, TypeInv', OneOwner', NEW w \in Workers, Take(w)
    PROVE  TriesInv'
<1> PICK s : s = held[w].seq
  OBVIOUS
<1>1. /\ pc[w] = "taking" /\ pc'[w] = "attempt" /\ Busy' = Busy
      /\ \A v \in Workers \ {w} : pc'[v] = pc[v] /\ held'[v] = held[v]
  BY TakeTypeInv DEF TriesInv
<1>2. /\ s \in Seqs /\ s < nextSeq /\ held[w] \in Entries /\ w \in Busy
      /\ log[s] \in Jobs
  BY <1>1, HeldType DEF TriesInv
<1>3. /\ held \in [Workers -> Entries \cup {NoEntry}]
      /\ log \in [Seqs -> Jobs \cup {NoEntry}]
  BY DEF TriesInv, TypeInv, TypeOK
<1>4. /\ log' = [log EXCEPT ![s].attempts = @ + 1]
      /\ held' = [held EXCEPT ![w].last = now]
      /\ UNCHANGED << entries, nextSeq >>
  BY DEF Take
<1>5. /\ \A t \in Seqs : t # s => log'[t] = log[t]
      /\ log'[s] = [log[s] EXCEPT !.attempts = @ + 1]
  BY <1>2, <1>3, <1>4
<1>6. /\ log'[s].attempts = log[s].attempts + 1
      /\ log'[s].copies = log[s].copies
      /\ log'[s].acct = log[s].acct /\ log'[s].final = log[s].final
  BY <1>2, <1>5 DEF Jobs
<1>7. /\ held'[w].seq = s /\ held'[w].acct = held[w].acct
      /\ held'[w].retries = held[w].retries
  BY <1>2, <1>3, <1>4 DEF Entries
<1>8. ToTry(held[w]) /\ WithinRetries(s)
  BY <1>1, <1>2 DEF TriesInv
<1>9. /\ log[s].attempts \in Nat /\ log[s].copies \in Nat
      /\ held[w].retries \in Nat /\ Retries[held[w].acct] \in Nat
  BY <1>2, JobTypes, ConstantTypes DEF TriesInv, Entries
<1>10. /\ ~log[s].final /\ log[s].acct = held[w].acct
       /\ log[s].attempts + held[w].retries <= Retries[held[w].acct]
       /\ log[s].copies <= IF DryRun[held[w].acct] THEN 0 ELSE log[s].attempts
  BY <1>8 DEF ToTry, WithinRetries
<1>11. Trying(held[w])'
  BY <1>6, <1>7, <1>9, <1>10 DEF Trying
<1>12. ASSUME NEW e, e.seq \in Seqs, e.seq # s
       PROVE  (ToTry(e) => ToTry(e)') /\ (Trying(e) => Trying(e)')
  BY <1>5, <1>12, TriesFrame
<1>13. \A e \in entries' : ToTry(e)'
  <2>1. \A e \in entries : e.seq \in Seqs /\ e.seq # s /\ ToTry(e)
    BY <1>2 DEF TriesInv, OneOwner, TypeInv, TypeOK, Entries
  <2> QED
    BY <1>4, <1>12, <2>1
<1>14. ASSUME NEW v \in Workers \ {w}, pc'[v] \in { "taking", "requeue", "attempt" }
       PROVE  /\ pc'[v] \in { "taking", "requeue" } => ToTry(held[v])'
              /\ pc'[v] = "attempt" => Trying(held[v])'
  <2>1. v \in Busy /\ held[v].seq \in Seqs
    BY <1>1, <1>14, HeldType DEF TriesInv
  <2>2. held[v].seq # s
    BY <1>2, <2>1 DEF TriesInv, OneOwner
  <2>3. log'[held[v].seq] = log[held[v].seq] /\ held'[v] = held[v] /\ pc'[v] = pc[v]
    BY <1>1, <1>5, <2>1, <2>2
  <2> QED
    BY <2>3 DEF TriesInv, ToTry, Trying
<1>15. ASSUME NEW t \in Seqs, t < nextSeq' PROVE WithinRetries(t)'
  <2>1. CASE t = s
    BY <1>6, <1>9, <1>10, <2>1 DEF WithinRetries
  <2>2. CASE t # s
    BY <1>4, <1>5, <1>15, <2>2 DEF TriesInv, WithinRetries
  <2> QED
    BY <2>1, <2>2
<1> QED
  BY <1>1, <1>11, <1>13, <1>14, <1>15 DEF TriesInv

\* An attempt ends: for good, or with one retry fewer.
LEMMA TriesAttempt ==
    ASSUME TriesInv, TypeInv', OneOwner', NEW w \in Workers, Attempt(w)
    PROVE  TriesInv'
<1> PICK s : s = held[w].seq
  OBVIOUS
<1>1. /\ pc[w] = "attempt" /\ pc'[w] \in { "finish", "requeue" }
      /\ held'[w].seq = s
      /\ \A v \in Workers \ {w} : pc'[v] = pc[v] /\ held'[v] = held[v]
  BY AttemptHeld DEF TriesInv
<1>2. /\ s \in Seqs /\ s < nextSeq /\ held[w] \in Entries /\ w \in Busy
  BY <1>1, HeldType DEF TriesInv
<1>3. UNCHANGED << entries, nextSeq >>
  BY AttemptStep DEF TriesInv
<1>4. /\ \A t \in Seqs : t # s => log'[t] = log[t]
      /\ SameJob(log'[s], log[s])
      /\ log'[s].copies \in { log[s].copies, log[s].copies + 1 }
      /\ Dry(w) => log'[s].copies = log[s].copies
      /\ pc'[w] = "requeue" => ~log'[s].final
  BY AttemptStep DEF TriesInv, LogAfterAttempt
<1>5. Trying(held[w])
  BY <1>1 DEF TriesInv
<1>6. /\ log[s].attempts \in Nat /\ log[s].copies \in Nat
      /\ held[w].retries \in Nat /\ Retries[held[w].acct] \in Nat
  BY <1>2, JobTypes, ConstantTypes DEF TriesInv, Entries
<1>7. /\ log[s].acct = held[w].acct
      /\ log[s].attempts + held[w].retries <= 1 + Retries[held[w].acct]
      /\ log[s].copies <=
           IF DryRun[held[w].acct] THEN 0 ELSE log[s].attempts - 1
  BY <1>5 DEF Trying
<1>8. /\ log'[s].attempts = log[s].attempts /\ log'[s].acct = held[w].acct
      /\ log'[s].copies <= IF DryRun[held[w].acct] THEN 0 ELSE log[s].attempts
  BY <1>4, <1>6, <1>7 DEF SameJob, Dry
<1>9. ASSUME pc'[w] = "requeue" PROVE ToTry(held[w])'
  <2>1. ~FinishedAttempt(w)
    BY <1>1, <1>9 DEF FinishedAttempt, Goto, TriesInv, TypeInv, TypeOK
  <2>2. PICK e \in RelayErrors : /\ ~GivesUp(held[w], e)
                                 /\ held' = [held EXCEPT ![w] = ForRetry(held[w], e)]
    BY <2>1, AttemptStep DEF TriesInv, RetriedAttempt
  <2>3. /\ ForRetry(held[w], e).retries = held[w].retries - 1
        /\ ForRetry(held[w], e).acct = held[w].acct
    BY <1>2 DEF ForRetry, Entries
  <2>4. held'[w] = ForRetry(held[w], e)
    BY <2>2 DEF TriesInv, TypeInv, TypeOK
  <2> QED
    BY <1>1, <1>4, <1>6, <1>7, <1>8, <1>9, <2>3, <2>4 DEF ToTry
<1>10. \A e \in entries' : ToTry(e)'
  <2>1. \A e \in entries : e.seq \in Seqs /\ e.seq # s /\ ToTry(e)
    BY <1>2 DEF TriesInv, OneOwner, TypeInv, TypeOK, Entries
  <2> QED
    BY <1>3, <1>4, <2>1, TriesFrame
<1>11. ASSUME NEW v \in Workers \ {w}, pc'[v] \in { "taking", "requeue", "attempt" }
       PROVE  /\ pc'[v] \in { "taking", "requeue" } => ToTry(held[v])'
              /\ pc'[v] = "attempt" => Trying(held[v])'
  <2>1. v \in Busy /\ held[v].seq \in Seqs
    BY <1>1, <1>11, HeldType DEF TriesInv
  <2>2. held[v].seq # s
    BY <1>2, <2>1 DEF TriesInv, OneOwner
  <2>3. log'[held[v].seq] = log[held[v].seq] /\ held'[v] = held[v] /\ pc'[v] = pc[v]
    BY <1>1, <1>4, <2>1, <2>2
  <2> QED
    BY <2>3 DEF TriesInv, ToTry, Trying
<1>12. ASSUME NEW t \in Seqs, t < nextSeq' PROVE WithinRetries(t)'
  <2>1. CASE t = s
    BY <1>6, <1>7, <1>8, <2>1 DEF WithinRetries
  <2>2. CASE t # s
    BY <1>3, <1>4, <1>12, <2>2 DEF TriesInv, WithinRetries
  <2> QED
    BY <2>1, <2>2
<1> QED
  BY <1>1, <1>9, <1>10, <1>11, <1>12 DEF TriesInv

LEMMA TriesStep ==
    ASSUME TriesInv, [Next]_vars
    PROVE  TriesInv'
<1>1. TypeInv' /\ OneOwner'
  BY TypeInvStep, OneOwnerStep DEF TriesInv
<1>2. ASSUME NEW a \in Accounts, NEW o \in Offers, Enqueue(a, o.prio, o.test)
      PROVE  TriesInv'
  BY <1>1, <1>2, TriesEnqueue
<1>3. ASSUME NEW w \in Workers, Scan(w) PROVE TriesInv'
  <2>1. /\ pc'[w] = "taking" /\ held'[w] \in entries /\ entries' \subseteq entries
        /\ \A v \in Workers \ {w} : pc'[v] = pc[v] /\ held'[v] = held[v]
        /\ log' = log /\ nextSeq' = nextSeq
    BY <1>3, ScanTypeInv DEF TriesInv, Scan
  <2> QED
    BY <1>1, <2>1, TriesQuiet DEF TriesInv
<1>4. ASSUME NEW w \in Workers, Take(w) PROVE TriesInv'
  BY <1>1, <1>4, TriesTake
<1>5. ASSUME NEW w \in Workers, Attempt(w) PROVE TriesInv'
  BY <1>1, <1>5, TriesAttempt
<1>6. ASSUME NEW w \in Workers, Requeue(w) PROVE TriesInv'
  <2>1. /\ pc[w] = "requeue" /\ pc'[w] = "idle"
        /\ entries' = entries \cup { held[w] }
        /\ \A v \in Workers \ {w} : pc'[v] = pc[v] /\ held'[v] = held[v]
        /\ log' = log /\ nextSeq' = nextSeq
    BY <1>6, RequeueTypeInv DEF TriesInv, Requeue
  <2> QED
    BY <1>1, <2>1, TriesQuiet DEF TriesInv
<1>7. ASSUME NEW w \in Workers, Release(w) PROVE TriesInv'
  <2>1. /\ pc'[w] = "idle" /\ entries' = entries
        /\ \A v \in Workers \ {w} : pc'[v] = pc[v] /\ held'[v] = held[v]
        /\ log' = log /\ nextSeq' = nextSeq
    BY <1>7, ReleaseTypeInv DEF TriesInv, Release
  <2> QED
    BY <1>1, <2>1, TriesQuiet DEF TriesInv
<1>8. ASSUME NEW w \in Workers, Retire(w) PROVE TriesInv'
  <2>1. /\ pc'[w] = "retired" /\ entries' = entries /\ held' = held
        /\ \A v \in Workers \ {w} : pc'[v] = pc[v]
        /\ log' = log /\ nextSeq' = nextSeq
    BY <1>8, RetireTypeInv DEF TriesInv
  <2> QED
    BY <1>1, <2>1, TriesQuiet DEF TriesInv
<1>9. CASE Tick \/ Close \/ UNCHANGED vars
  BY <1>1, <1>9, QuietTypeInv, TriesQuiet DEF TriesInv
<1> QED
  BY <1>2, <1>3, <1>4, <1>5, <1>6, <1>7, <1>8, <1>9 DEF Next

\* However a job's attempts end and whoever makes them, it is tried no more
\* often than its account's retries allow, it is never tried again after an
\* outcome that another attempt cannot change, and the relay holds no more
\* copies of it than it had attempts, none on a dry run.
THEOREM RetriesAlwaysBounded == Spec => []RetriesBounded
<1>1. Init => TriesInv
  BY TriesInit
<1>2. TriesInv /\ [Next]_vars => TriesInv'
  BY TriesStep
<1>3. TriesInv => RetriesBounded
  <2> SUFFICES ASSUME TriesInv PROVE RetriesBounded
    OBVIOUS
  <2>1. \A w \in Busy : w \in Workers
    BY DEF Busy
  <2> QED
    BY <2>1 DEF TriesInv, RetriesBounded, ToTry, Trying, WithinRetries
<1> QED
  BY <1>1, <1>2, <1>3, PTL DEF Spec

-----------------------------------------------------------------------------
(* When a job is tried again.                                              *)

Base == Earlier(RetryDelay, MaxPause)

\* Its delay never shrinks below the base, and a test has no retries.
Patient(e) == e.delay >= RetryDelay /\ (IsTest(e) => e.retries = 0)

\* A job that failed waits, by its own delay or by its account's pause, at
\* least the base delay after the failure.
Spaced(e) ==
    e.kind = "built" =>
        \/ e.last + Base <= e.notBefore
        \/ e.last + Base <= gate[e.acct].next

SpacingInv ==
    /\ TypeInv
    /\ \A e \in entries : Patient(e) /\ Spaced(e)
    /\ \A w \in Busy : Patient(held[w])
    /\ \A w \in Workers :
         /\ pc[w] = "requeue" => Spaced(held[w])
         /\ pc[w] = "taking" /\ held[w].kind = "built" =>
              now >= held[w].last + Base

LEMMA BaseType == Base \in Nat /\ Base <= RetryDelay
  BY ConstantTypes DEF Base, Earlier

\* A job that waits goes on waiting: gates only close.
LEMMA SpacedFrame ==
    ASSUME TypeInv, TypeInv', [Next]_vars, NEW e \in Entries, Spaced(e)
    PROVE  Spaced(e)'
<1>1. /\ e.acct \in Accounts /\ e.notBefore \in Nat /\ e.last \in Nat
  BY DEF Entries
<1>2. gate[e.acct].next \in Nat /\ gate'[e.acct].next \in Nat
  BY <1>1 DEF TypeInv, TypeOK, Gates
<1>3. gate'[e.acct].next >= gate[e.acct].next
  BY <1>1, GatesOnlyClose
<1> QED
  BY <1>1, <1>2, <1>3, BaseType DEF Spaced

\* How a failed attempt sends its job back.
LEMMA RetrySpaced ==
    ASSUME TypeInv, NEW w \in Workers, Attempt(w), pc'[w] = "requeue",
           Patient(held[w])
    PROVE  Patient(held'[w]) /\ Spaced(held[w])'
<1> DEFINE h == held[w]
           a == h.acct
<1>1. pc[w] = "attempt" /\ h \in Entries /\ a \in Accounts
  BY AttemptStep, HeldType
<1>2. ~FinishedAttempt(w)
  BY DEF FinishedAttempt, Goto, TypeInv, TypeOK
<1>3. PICK e \in RelayErrors : /\ ~GivesUp(h, e)
                               /\ held' = [held EXCEPT ![w] = ForRetry(h, e)]
                               /\ gate' = GateAfter(e, h)
  BY <1>2, AttemptStep DEF RetriedAttempt
<1>4. held'[w] = ForRetry(h, e)
  BY <1>3 DEF TypeInv, TypeOK
<1>5. h.retries # 0 /\ ~IsTest(h)
  BY <1>3 DEF GivesUp, Patient
<1>6. now \in Nat /\ h.delay \in Nat /\ h.delay >= RetryDelay /\ RetryDelay \in Nat
  BY <1>1, ConstantTypes DEF TypeInv, TypeOK, Entries, Patient
<1>7. CASE Classify(e) # "ConnectionFailed"
  <2>1. /\ ForRetry(h, e).kind = "built" /\ ForRetry(h, e).last = now
        /\ ForRetry(h, e).delay = 2 * h.delay
        /\ ForRetry(h, e).notBefore = now + h.delay
    BY <1>1, <1>7 DEF ForRetry, Entries
  <2> QED
    BY <1>4, <1>6, <2>1, BaseType DEF Patient, Spaced, IsTest
<1>8. CASE Classify(e) = "ConnectionFailed"
  <2> DEFINE q == Paused(gate[a], now, RetryDelay)
  <2>1. /\ ForRetry(h, e).kind = "built" /\ ForRetry(h, e).last = now
        /\ ForRetry(h, e).delay = h.delay
        /\ ForRetry(h, e).acct = a
    BY <1>1, <1>8 DEF ForRetry, Entries
  <2>2. gate[a] \in Gates /\ gate \in [Accounts -> Gates]
    BY <1>1 DEF TypeInv, TypeOK
  <2>3. q.next >= now + Base
    BY <1>6, <2>2, PausedGate DEF Base
  <2> HIDE DEF q
  <2>4. gate' = [gate EXCEPT ![a] = q]
    BY <1>3, <1>5, <1>8 DEF GateAfter, q
  <2>5. gate'[a].next >= now + Base
    BY <1>1, <2>2, <2>3, <2>4
  <2> QED
    BY <1>4, <1>6, <2>1, <2>5, BaseType DEF Patient, Spaced, IsTest
<1> QED
  BY <1>7, <1>8

\* Steps that hand no job from one place to another.
LEMMA SpacingQuiet ==
    ASSUME SpacingInv, TypeInv', [Next]_vars, now' >= now,
           \A e \in entries' : e \in entries,
           \A w \in Workers : pc'[w] \in { "taking", "requeue" } => pc'[w] = pc[w],
           \A w \in Busy' : w \in Busy /\ held'[w] = held[w]
    PROVE  SpacingInv'
<1>1. ASSUME NEW e \in entries' PROVE Patient(e) /\ Spaced(e)'
  BY <1>1, SpacedFrame DEF SpacingInv, TypeInv, TypeOK
<1>2. ASSUME NEW w \in Workers, pc'[w] = "requeue" PROVE Spaced(held[w])'
  <2>1. w \in Busy' /\ pc[w] = "requeue"
    BY <1>2 DEF Busy
  <2>2. held'[w] = held[w] /\ held[w] \in Entries
    BY <2>1 DEF SpacingInv, TypeInv, Owned
  <2>3. Spaced(held[w])
    BY <2>1 DEF SpacingInv
  <2> PICK h : h = held[w]
    OBVIOUS
  <2>4. Spaced(h)'
    BY <2>2, <2>3, SpacedFrame DEF SpacingInv
  <2> QED
    BY <2>2, <2>4 DEF Spaced
<1>3. ASSUME NEW w \in Workers, pc'[w] = "taking", held'[w].kind = "built"
      PROVE  now' >= held'[w].last + Base
  <2>1. w \in Busy' /\ pc[w] = "taking"
    BY <1>3 DEF Busy
  <2>2. held'[w] = held[w] /\ held[w] \in Entries
    BY <2>1 DEF SpacingInv, TypeInv, Owned
  <2>3. now \in Nat /\ now' \in Nat /\ held[w].last \in Nat
    BY <2>2 DEF SpacingInv, TypeInv, TypeOK, Entries
  <2> QED
    BY <1>3, <2>1, <2>2, <2>3, BaseType DEF SpacingInv
<1>4. \A w \in Busy' : Patient(held'[w])
  BY DEF SpacingInv
<1> QED
  BY <1>1, <1>2, <1>3, <1>4 DEF SpacingInv, Patient

LEMMA SpacingStep ==
    ASSUME SpacingInv, [Next]_vars
    PROVE  SpacingInv'
<1>1. TypeInv /\ TypeInv'
  BY TypeInvStep DEF SpacingInv
<1>2. now \in Nat
  BY <1>1 DEF TypeInv, TypeOK
<1>3. ASSUME NEW a \in Accounts, NEW o \in Offers, Enqueue(a, o.prio, o.test)
      PROVE  SpacingInv'
  <2> PICK n : n = NewEntry(a, o.prio, o.test)
    OBVIOUS
  <2>1. /\ entries' = entries \cup {n} /\ UNCHANGED << now, gate, held >>
        /\ \A w \in Workers : pc'[w] \in { "taking", "requeue" } => pc'[w] = pc[w]
    BY <1>3 DEF Enqueue
  <2>2. Busy' = Busy
    BY <1>1, <1>3, EnqueueTypeInv, ConstantTypes
  <2>3. Patient(n) /\ n.kind # "built"
    BY ConstantTypes DEF NewEntry, Patient, IsTest
  <2>4. \A e : Spaced(e)' <=> Spaced(e)
    BY <2>1 DEF Spaced
  <2>5. \A e \in entries' : Patient(e) /\ Spaced(e)'
    BY <2>1, <2>3, <2>4 DEF SpacingInv, Spaced
  <2>6. ASSUME NEW w \in Workers
        PROVE  /\ pc'[w] = "requeue" => Spaced(held[w])'
               /\ pc'[w] = "taking" /\ held'[w].kind = "built" =>
                    now' >= held'[w].last + Base
    BY <2>1 DEF SpacingInv, Spaced
  <2>7. \A w \in Busy' : Patient(held'[w])
    BY <2>1, <2>2 DEF SpacingInv
  <2> QED
    BY <1>1, <2>5, <2>6, <2>7 DEF SpacingInv, Patient
<1>4. ASSUME NEW w \in Workers, Scan(w) PROVE SpacingInv'
  <2>1. /\ pc'[w] = "taking" /\ held'[w] \in entries /\ entries' \subseteq entries
        /\ held'[w] \in Eligible
        /\ \A v \in Workers \ {w} : pc'[v] = pc[v] /\ held'[v] = held[v]
        /\ Busy' = Busy \cup {w} /\ w \notin Busy
        /\ UNCHANGED << now, gate >>
    BY <1>1, <1>4, ScanTypeInv DEF Scan
  <2> PICK h : h = held'[w]
    OBVIOUS
  <2>2. h \in Entries /\ Patient(h) /\ Spaced(h) /\ EligibleAt(h) <= now
    BY <1>1, <2>1 DEF SpacingInv, TypeInv, TypeOK, Eligible
  <2>3. ASSUME h.kind = "built" PROVE now >= h.last + Base
    <3>1. /\ h.acct \in Accounts /\ h.notBefore \in Nat /\ h.last \in Nat
      BY <2>2 DEF Entries
    <3>2. gate[h.acct].next \in Nat
      BY <1>1, <3>1, NumberTypes
    <3>3. h.notBefore <= now /\ gate[h.acct].next <= now
      BY <1>2, <2>2, <2>3, <3>1, <3>2 DEF EligibleAt, IsTest, Later
    <3> QED
      BY <1>2, <2>2, <2>3, <3>1, <3>2, <3>3, BaseType DEF Spaced
  <2>4. \A e : Spaced(e)' <=> Spaced(e)
    BY <2>1 DEF Spaced
  <2>5. \A e \in entries' : Patient(e) /\ Spaced(e)'
    BY <2>1, <2>4 DEF SpacingInv
  <2>6. ASSUME NEW v \in Workers
        PROVE  /\ pc'[v] = "requeue" => Spaced(held[v])'
               /\ pc'[v] = "taking" /\ held'[v].kind = "built" =>
                    now' >= held'[v].last + Base
    <3>1. CASE v = w
      BY <2>1, <2>3, <3>1
    <3>2. CASE v # w
      BY <2>1, <3>2 DEF SpacingInv, Spaced
    <3> QED
      BY <3>1, <3>2
  <2>7. \A v \in Busy' : Patient(held'[v])
    <3>1. \A v \in Busy : v \in Workers
      BY DEF Busy
    <3> QED
      BY <2>1, <2>2, <3>1 DEF SpacingInv
  <2> QED
    BY <1>1, <2>5, <2>6, <2>7 DEF SpacingInv, Patient
<1>5. ASSUME NEW w \in Workers, Take(w) \/ Attempt(w) PROVE SpacingInv'
  <2>1. /\ pc'[w] # "taking" /\ Busy' = Busy /\ w \in Busy
        /\ \A v \in Workers \ {w} : pc'[v] = pc[v] /\ held'[v] = held[v]
        /\ UNCHANGED << now, entries >>
    <3>1. CASE Take(w)
      BY <1>1, <3>1, TakeTypeInv, HeldType DEF Take
    <3>2. CASE Attempt(w)
      BY <1>1, <3>2, AttemptTypeInv, AttemptHeld, AttemptStep, HeldType
    <3> QED
      BY <1>5, <3>1, <3>2
  <2>2. /\ Patient(held'[w])
        /\ pc'[w] = "requeue" => Spaced(held[w])'
    <3>1. Patient(held[w]) /\ held[w] \in Entries
      BY <1>1, <2>1 DEF SpacingInv, TypeInv, Owned
    <3>2. CASE Take(w)
      <4>1. held'[w] = [held[w] EXCEPT !.last = now] /\ pc'[w] = "attempt"
        BY <1>1, <3>2, TakeTypeInv DEF Take, TypeInv, TypeOK
      <4> QED
        BY <3>1, <4>1 DEF Patient, IsTest, Entries
    <3>3. CASE Attempt(w)
      <4>1. CASE pc'[w] = "requeue"
        BY <1>1, <3>1, <3>3, <4>1, RetrySpaced
      <4>2. CASE pc'[w] # "requeue"
        <5>1. ~RetriedAttempt(w)
          BY <1>1, <4>2 DEF RetriedAttempt, Goto, TypeInv, TypeOK
        <5>2. held'[w] = held[w]
          BY <1>1, <3>3, <5>1, AttemptStep DEF FinishedAttempt
        <5> QED
          BY <3>1, <4>2, <5>2
      <4> QED
        BY <4>1, <4>2
    <3> QED
      BY <1>5, <3>2, <3>3
  <2>3. \A e \in entries' : Patient(e) /\ Spaced(e)'
    BY <1>1, <2>1, SpacedFrame DEF SpacingInv, TypeInv, TypeOK
  <2>4. ASSUME NEW v \in Workers \ {w}
        PROVE  /\ pc'[v] = "requeue" => Spaced(held[v])'
               /\ pc'[v] = "taking" /\ held'[v].kind = "built" =>
                    now' >= held'[v].last + Base
    <3>1. ASSUME pc'[v] = "requeue" PROVE Spaced(held[v])'
      <4>1. pc[v] = "requeue" /\ held'[v] = held[v] /\ held[v] \in Entries
        BY <1>1, <2>1, <3>1, HeldType
      <4> PICK h : h = held[v]
        OBVIOUS
      <4>2. Spaced(h)'
        BY <1>1, <4>1, SpacedFrame DEF SpacingInv
      <4> QED
        BY <4>1, <4>2 DEF Spaced
    <3> QED
      BY <2>1, <3>1 DEF SpacingInv
  <2>5. \A v \in Busy' : Patient(held'[v])
    <3>1. \A v \in Busy : v \in Workers
      BY DEF Busy
    <3> QED
      BY <2>1, <2>2, <3>1 DEF SpacingInv
  <2> QED
    BY <1>1, <2>1, <2>2, <2>3, <2>4, <2>5 DEF SpacingInv, Patient
<1>6. ASSUME NEW w \in Workers, Requeue(w) PROVE SpacingInv'
  <2>1. /\ pc[w] = "requeue" /\ pc'[w] = "idle" /\ w \in Busy
        /\ entries' = entries \cup { held[w] } /\ held[w] \in Entries
        /\ \A v \in Workers \ {w} : pc'[v] = pc[v] /\ held'[v] = held[v]
        /\ Busy' = Busy \ {w} /\ UNCHANGED << now, gate >>
    BY <1>1, <1>6, RequeueTypeInv DEF Requeue
  <2>2. \A e : Spaced(e)' <=> Spaced(e)
    BY <2>1 DEF Spaced
  <2>3. Patient(held[w]) /\ Spaced(held[w])
    BY <2>1 DEF SpacingInv
  <2>4. \A e \in entries' : Patient(e) /\ Spaced(e)'
    BY <2>1, <2>2, <2>3 DEF SpacingInv
  <2>5. ASSUME NEW v \in Workers
        PROVE  /\ pc'[v] = "requeue" => Spaced(held[v])'
               /\ pc'[v] = "taking" /\ held'[v].kind = "built" =>
                    now' >= held'[v].last + Base
    BY <2>1 DEF SpacingInv, Spaced
  <2>6. \A v \in Busy' : Patient(held'[v])
    <3>1. \A v \in Busy' : v \in Busy /\ v \in Workers \ {w}
      BY <2>1 DEF Busy
    <3> QED
      BY <2>1, <3>1 DEF SpacingInv
  <2> QED
    BY <1>1, <2>4, <2>5, <2>6 DEF SpacingInv, Patient
<1>7. ASSUME NEW w \in Workers, Retire(w) \/ Release(w) PROVE SpacingInv'
  <2>1. /\ pc'[w] \notin { "taking", "requeue" }
        /\ entries' = entries /\ now' = now
        /\ \A v \in Workers \ {w} : pc'[v] = pc[v] /\ held'[v] = held[v]
        /\ Busy' = Busy \ {w}
    <3>1. CASE Retire(w)
      BY <1>1, <3>1, RetireTypeInv DEF Busy
    <3>2. CASE Release(w)
      BY <1>1, <3>2, ReleaseTypeInv DEF Release
    <3> QED
      BY <1>7, <3>1, <3>2
  <2>2. \A v \in Busy' : v \in Busy /\ held'[v] = held[v]
    BY <2>1 DEF Busy
  <2> QED
    BY <1>1, <1>2, <2>1, <2>2, SpacingQuiet
<1>8. CASE Tick \/ Close \/ UNCHANGED vars
  BY <1>1, <1>8, QuietTypeInv, SpacingQuiet
<1> QED
  BY <1>3, <1>4, <1>5, <1>6, <1>7, <1>8 DEF Next

\* However an attempt failed, its job is tried again no earlier than the base
\* delay after it, whatever pauses and recoveries other workers bring to the
\* account's gate in between.
THEOREM RetriesAlwaysSpaced == Spec => []RetrySpacing
<1>1. Init => SpacingInv
  BY InitTypeInv DEF Init, SpacingInv, Busy
<1>2. SpacingInv /\ [Next]_vars => SpacingInv'
  BY SpacingStep
<1>3. SpacingInv => RetrySpacing
  BY DEF SpacingInv, RetrySpacing, Base
<1> QED
  BY <1>1, <1>2, <1>3, PTL DEF Spec

-----------------------------------------------------------------------------
(* What goes before a job.                                                 *)

SameAsSubmitted(r, q) == r.acct = q.acct /\ r.prio = q.prio /\ r.test = q.test

\* What was submitted stays what it was.
LEMMA JobsKept ==
    ASSUME TypeInv, [Next]_vars, NEW s \in Seqs, s < nextSeq
    PROVE  /\ log'[s].acct = log[s].acct /\ log'[s].prio = log[s].prio
           /\ log'[s].test = log[s].test
<1>1. log \in [Seqs -> Jobs \cup {NoEntry}] /\ log[s] \in Jobs
  BY DEF TypeInv, TypeOK, Owned
<1>2. ASSUME NEW a \in Accounts, NEW p, NEW t, Enqueue(a, p, t)
      PROVE  log'[s] = log[s]
  <2>1. nextSeq \in Seqs /\ s # nextSeq
    BY <1>2, ConstantTypes DEF Enqueue, TypeInv, TypeOK, Seqs
  <2> QED
    BY <1>1, <1>2, <2>1 DEF Enqueue
<1>3. ASSUME NEW w \in Workers, Take(w) PROVE SameAsSubmitted(log'[s], log[s])
  <2>1. log' = [log EXCEPT ![held[w].seq].attempts = @ + 1] /\ held[w].seq \in Seqs
    BY <1>3, HeldType DEF Take, Goto
  <2>2. CASE s = held[w].seq
    BY <1>1, <2>1, <2>2 DEF Jobs, SameAsSubmitted
  <2>3. CASE s # held[w].seq
    BY <1>1, <2>1, <2>3 DEF SameAsSubmitted
  <2> QED
    BY <2>2, <2>3
<1>4. ASSUME NEW w \in Workers, Attempt(w) PROVE SameAsSubmitted(log'[s], log[s])
  BY <1>4, AttemptStep DEF LogAfterAttempt, SameJob, SameAsSubmitted
<1>5. ASSUME NEW w \in Workers, Retire(w) \/ Scan(w) \/ Requeue(w) \/ Release(w)
      PROVE  log' = log
  BY <1>5 DEF Retire, Scan, Requeue, Release
<1>6. CASE Tick \/ Close \/ UNCHANGED vars
  BY <1>6, QuietTypeInv
<1> QED
  BY <1>2, <1>3, <1>4, <1>5, <1>6 DEF Next, SameAsSubmitted

\* An entry is true to what was submitted: its account, whether it is a test,
\* and its deadline, the moment of the submission plus the allowance.
Genuine(e) ==
    LET j == log[e.seq]
    IN  /\ j.acct = e.acct /\ j.test = IsTest(e)
        /\ e.deadline = e.at + Allowance[j.prio]

\* What is in a worker's hands between the scan and its end went before
\* nothing that is more urgent.
Urgent == \A w \in Workers : pc[w] = "taking" =>
              \A e \in Eligible : held[w].deadline <= e.deadline

OrderInv ==
    /\ SpacingInv /\ Holder /\ Urgent
    /\ \A e \in entries : Genuine(e)
    /\ \A w \in Busy : Genuine(held[w])

LEMMA GenuineFrame ==
    ASSUME TypeInv, [Next]_vars, NEW e \in Entries, e.seq < nextSeq, Genuine(e)
    PROVE  Genuine(e)'
<1>1. e.seq \in Seqs
  BY DEF Entries
<1>2. SameAsSubmitted(log'[e.seq], log[e.seq])
  BY <1>1, JobsKept DEF SameAsSubmitted
<1> QED
  BY <1>2 DEF Genuine, SameAsSubmitted, IsTest

\* A worker keeps what an entry was submitted as.
SameEntry(e, f) ==
    /\ e.seq = f.seq /\ e.acct = f.acct /\ IsTest(e) = IsTest(f)
    /\ e.at = f.at /\ e.deadline = f.deadline

LEMMA GenuineStep ==
    ASSUME OrderInv, [Next]_vars
    PROVE  /\ \A e \in entries' : Genuine(e)'
           /\ \A w \in Busy' : Genuine(held[w])'
<1>1. TypeInv /\ TypeInv'
  BY TypeInvStep DEF OrderInv, SpacingInv
<1>2. ASSUME NEW e \in entries PROVE Genuine(e)'
  BY <1>1, <1>2, GenuineFrame DEF OrderInv, TypeInv, TypeOK, Owned
<1>3. ASSUME NEW w \in Busy, NEW h, h = held[w] PROVE h \in Entries /\ Genuine(h)'
  <2>1. h \in Entries /\ h.seq < nextSeq /\ Genuine(h)
    BY <1>1, <1>3 DEF OrderInv, TypeInv, Owned
  <2> QED
    BY <1>1, <2>1, GenuineFrame
<1>4. ASSUME NEW w \in Busy, SameEntry(held'[w], held[w])
      PROVE  Genuine(held[w])'
  <2> PICK h : h = held[w]
    OBVIOUS
  <2>1. Genuine(h)'
    BY <1>3
  <2> QED
    BY <1>4, <2>1 DEF Genuine, SameEntry
<1>5. \A w \in Busy : w \in Workers
  BY DEF Busy
<1>6. ASSUME NEW a \in Accounts, NEW o \in Offers, Enqueue(a, o.prio, o.test)
      PROVE  /\ \A e \in entries' : Genuine(e)'
             /\ \A w \in Busy' : Genuine(held[w])'
  <2> PICK n : n = NewEntry(a, o.prio, o.test)
    OBVIOUS
  <2> DEFINE r == [ acct |-> a, prio |-> o.prio, test |-> o.test, attempts |-> 0,
                    copies |-> 0, final |-> FALSE ]
  <2>1. /\ entries' = entries \cup {n} /\ held' = held
        /\ log' = [log EXCEPT ![nextSeq] = r]
    BY <1>6 DEF Enqueue
  <2>2. nextSeq \in Seqs /\ log \in [Seqs -> Jobs \cup {NoEntry}]
    BY <1>6, <1>1, ConstantTypes DEF Enqueue, TypeInv, TypeOK, Seqs
  <2>3. log'[nextSeq] = r
    BY <2>1, <2>2
  <2>4. Genuine(n)'
    <3>1. n.seq = nextSeq /\ n.acct = a /\ n.deadline = n.at + Allowance[o.prio]
      BY DEF NewEntry
    <3>2. IsTest(n) = o.test
      BY ConstantTypes DEF NewEntry, IsTest
    <3> QED
      BY <2>3, <3>1, <3>2 DEF Genuine, IsTest
  <2>5. Busy' = Busy
    BY <1>1, <1>6, EnqueueTypeInv, ConstantTypes
  <2> QED
    BY <1>2, <1>4, <2>1, <2>4, <2>5 DEF SameEntry
<1>7. ASSUME NEW w \in Workers, Scan(w)
      PROVE  /\ \A e \in entries' : Genuine(e)'
             /\ \A v \in Busy' : Genuine(held[v])'
  <2>1. /\ held'[w] \in entries /\ entries' \subseteq entries
        /\ \A v \in Workers \ {w} : held'[v] = held[v]
        /\ Busy' = Busy \cup {w} /\ w \notin Busy
    BY <1>1, <1>7, ScanTypeInv
  <2> PICK h : h = held'[w]
    OBVIOUS
  <2>2. Genuine(h)'
    BY <1>2, <2>1
  <2>3. Genuine(held[w])'
    BY <2>2 DEF Genuine, IsTest
  <2>4. \A v \in Busy : v # w /\ held'[v] = held[v]
    BY <1>5, <2>1
  <2> QED
    BY <1>2, <1>4, <2>1, <2>3, <2>4 DEF SameEntry
<1>8. ASSUME NEW w \in Workers, Take(w)
      PROVE  /\ \A e \in entries' : Genuine(e)'
             /\ \A v \in Busy' : Genuine(held[v])'
  <2>1. /\ entries' = entries /\ Busy' = Busy /\ w \in Busy
        /\ \A v \in Workers \ {w} : held'[v] = held[v]
        /\ held' = [held EXCEPT ![w].last = now]
    BY <1>1, <1>8, TakeTypeInv, HeldType DEF Take
  <2>2. SameEntry(held'[w], held[w])
    BY <1>1, <1>3, <2>1 DEF TypeInv, TypeOK, Entries, SameEntry, IsTest
  <2> QED
    BY <1>2, <1>4, <1>5, <2>1, <2>2 DEF SameEntry
<1>9. ASSUME NEW w \in Workers, Attempt(w)
      PROVE  /\ \A e \in entries' : Genuine(e)'
             /\ \A v \in Busy' : Genuine(held[v])'
  <2>1. /\ entries' = entries /\ Busy' = Busy /\ w \in Busy
        /\ \A v \in Workers \ {w} : held'[v] = held[v]
    BY <1>1, <1>9, AttemptTypeInv, AttemptHeld, AttemptStep, HeldType
  <2>2. SameEntry(held'[w], held[w])
    <3>1. held[w] \in Entries /\ Patient(held[w])
      BY <1>3, <2>1 DEF OrderInv, SpacingInv
    <3>2. CASE FinishedAttempt(w)
      BY <3>2 DEF FinishedAttempt, SameEntry
    <3>3. CASE RetriedAttempt(w)
      <4>1. PICK e \in RelayErrors :
              /\ ~GivesUp(held[w], e)
              /\ held' = [held EXCEPT ![w] = ForRetry(held[w], e)]
        BY <3>3 DEF RetriedAttempt
      <4>2. held'[w] = ForRetry(held[w], e) /\ ~IsTest(held[w])
        BY <1>1, <3>1, <4>1 DEF TypeInv, TypeOK, GivesUp, Patient
      <4> QED
        BY <3>1, <4>2 DEF ForRetry, Entries, SameEntry, IsTest
    <3> QED
      BY <1>1, <1>9, <3>2, <3>3, AttemptStep
  <2> QED
    BY <1>2, <1>4, <1>5, <2>1, <2>2 DEF SameEntry
<1>10. ASSUME NEW w \in Workers, Requeue(w)
       PROVE  /\ \A e \in entries' : Genuine(e)'
              /\ \A v \in Busy' : Genuine(held[v])'
  <2>1. /\ entries' = entries \cup { held[w] } /\ w \in Busy
        /\ \A v \in Workers \ {w} : held'[v] = held[v]
        /\ Busy' = Busy \ {w}
    BY <1>1, <1>10, RequeueTypeInv
  <2> PICK h : h = held[w]
    OBVIOUS
  <2>2. Genuine(h)'
    BY <1>3, <2>1
  <2>3. \A v \in Busy' : v \in Busy /\ held'[v] = held[v]
    BY <1>5, <2>1
  <2> QED
    BY <1>2, <1>4, <2>1, <2>2, <2>3 DEF SameEntry
<1>11. ASSUME NEW w \in Workers, Retire(w) \/ Release(w)
       PROVE  /\ \A e \in entries' : Genuine(e)'
              /\ \A v \in Busy' : Genuine(held[v])'
  <2>1. /\ entries' = entries
        /\ \A v \in Workers \ {w} : held'[v] = held[v]
        /\ Busy' = Busy \ {w}
    <3>1. CASE Retire(w)
      BY <1>1, <3>1, RetireTypeInv DEF Busy
    <3>2. CASE Release(w)
      BY <1>1, <3>2, ReleaseTypeInv DEF Release
    <3> QED
      BY <1>11, <3>1, <3>2
  <2>2. \A v \in Busy' : v \in Busy /\ held'[v] = held[v]
    BY <1>5, <2>1
  <2> QED
    BY <1>2, <1>4, <2>1, <2>2 DEF SameEntry
<1>12. CASE Tick \/ Close \/ UNCHANGED vars
  BY <1>1, <1>2, <1>4, <1>12, QuietTypeInv DEF SameEntry
<1> QED
  BY <1>6, <1>7, <1>8, <1>9, <1>10, <1>11, <1>12 DEF Next

\* While a worker is between the scan and its end, no job becomes eligible
\* behind its back.
LEMMA UrgentStep ==
    ASSUME OrderInv, [Next]_vars
    PROVE  Urgent'
<1>1. TypeInv /\ TypeInv' /\ Holder'
  BY TypeInvStep, HolderStep DEF OrderInv, SpacingInv
<1>2. now \in Nat
  BY <1>1 DEF TypeInv, TypeOK
<1>3. ASSUME NEW v \in Workers, pc[v] = "taking", pc'[v] = "taking",
             held'[v] = held[v], entries' = entries, now' = now
      PROVE  \A e \in Eligible' : held'[v].deadline <= e.deadline
  <2> SUFFICES ASSUME NEW e \in Eligible' PROVE e \in Eligible
    BY <1>3 DEF OrderInv, Urgent
  <2>1. e \in entries /\ e \in Entries /\ EligibleAt(e)' <= now
    BY <1>1, <1>3 DEF Eligible, TypeInv, TypeOK
  <2>2. e.acct \in Accounts /\ e.notBefore \in Nat
    BY <2>1 DEF Entries
  <2>3. gate[e.acct].next \in Nat /\ gate'[e.acct].next \in Nat
    BY <1>1, <2>2 DEF TypeInv, TypeOK, Gates
  <2>4. gate'[e.acct].next >= gate[e.acct].next
    BY <1>1, <2>2, GatesOnlyClose
  <2>5. EligibleAt(e) <= now
    BY <1>2, <2>1, <2>2, <2>3, <2>4 DEF EligibleAt, Later, IsTest
  <2> QED
    BY <2>1, <2>5 DEF Eligible
<1>4. ASSUME lock = NoWorker, \A v \in Workers : pc'[v] = "taking" => pc[v] = "taking"
      PROVE  Urgent'
  BY <1>4, ConstantTypes DEF OrderInv, Holder, Urgent
<1>5. ASSUME NEW a \in Accounts, NEW o \in Offers, Enqueue(a, o.prio, o.test)
      PROVE  Urgent'
  BY <1>4, <1>5 DEF Enqueue
<1>6. ASSUME NEW w \in Workers, Scan(w) PROVE Urgent'
  <2>1. /\ lock = NoWorker /\ held'[w] \in Eligible
        /\ \A f \in Eligible : f = held'[w] \/ Before(held'[w], f)
        /\ entries' \subseteq entries /\ UNCHANGED << now, gate >>
        /\ \A v \in Workers \ {w} : pc'[v] = pc[v]
    BY <1>1, <1>6, ScanTypeInv DEF Scan
  <2>2. Eligible' \subseteq Eligible
    BY <2>1 DEF Eligible, EligibleAt, IsTest
  <2>3. \A f \in Eligible : f.deadline \in Nat
    BY <1>1 DEF Eligible, TypeInv, TypeOK, Entries
  <2>4. \A f \in Eligible : held'[w].deadline <= f.deadline
    BY <2>1, <2>3 DEF Before
  <2>5. \A v \in Workers \ {w} : pc'[v] # "taking"
    BY <2>1, ConstantTypes DEF OrderInv, Holder
  <2> QED
    BY <2>2, <2>4, <2>5 DEF Urgent
<1>7. ASSUME NEW w \in Workers, Take(w) PROVE Urgent'
  <2>1. /\ pc[w] = "taking" /\ pc'[w] = "attempt"
        /\ \A v \in Workers \ {w} : pc'[v] = pc[v]
    BY <1>1, <1>7, TakeTypeInv
  <2>2. \A v \in Workers : pc'[v] # "taking"
    BY <2>1 DEF OrderInv, Holder
  <2> QED
    BY <2>2 DEF Urgent
<1>8. ASSUME NEW w \in Workers, Attempt(w) PROVE Urgent'
  <2>1. /\ pc'[w] # "taking" /\ entries' = entries /\ now' = now
        /\ \A v \in Workers \ {w} : pc'[v] = pc[v] /\ held'[v] = held[v]
    BY <1>1, <1>8, AttemptHeld, AttemptStep
  <2> QED
    BY <1>3, <2>1 DEF Urgent
<1>9. ASSUME NEW w \in Workers, Requeue(w) PROVE Urgent'
  BY <1>1, <1>4, <1>9, RequeueTypeInv DEF Requeue
<1>10. ASSUME NEW w \in Workers, Release(w) PROVE Urgent'
  BY <1>1, <1>3, <1>10, ReleaseTypeInv DEF Release, Urgent
<1>11. ASSUME NEW w \in Workers, Retire(w) PROVE Urgent'
  BY <1>1, <1>3, <1>11, RetireTypeInv DEF Urgent
<1>12. CASE Tick \/ Close
  BY <1>4, <1>12 DEF Tick, Close
<1>13. CASE UNCHANGED vars
  BY <1>3, <1>13 DEF vars, Urgent
<1> QED
  BY <1>5, <1>6, <1>7, <1>8, <1>9, <1>10, <1>11, <1>12, <1>13 DEF Next

\* A priority is a head start and no more: no job is taken while one is
\* eligible that was submitted longer than its own allowance before it,
\* however often either was tried already and whatever the gates did.
THEOREM NeverOvertaken == Spec => []NoOvertaking
<1>1. Init => OrderInv
  BY InitTypeInv DEF Init, OrderInv, SpacingInv, Holder, Urgent, Busy
<1>2. OrderInv /\ [Next]_vars => OrderInv'
  BY SpacingStep, HolderStep, UrgentStep, GenuineStep DEF OrderInv, SpacingInv
<1>3. OrderInv => NoOvertaking
  <2> SUFFICES ASSUME OrderInv, NEW w \in Workers, pc[w] = "taking",
                      NEW e \in Eligible
               PROVE  held[w].at <= e.at + Allowance[log[e.seq].prio]
    BY DEF NoOvertaking
  <2>1. held[w].deadline <= e.deadline /\ Genuine(e)
    BY DEF OrderInv, Urgent, Eligible
  <2>2. w \in Busy /\ held[w] \in Entries /\ log[held[w].seq] \in Jobs
    BY HeldType DEF OrderInv, SpacingInv
  <2>3. Genuine(held[w])
    BY <2>2 DEF OrderInv
  <2>4. held[w].at \in Nat /\ Allowance[log[held[w].seq].prio] \in Nat
    BY <2>2, ConstantTypes DEF Entries, Jobs
  <2>5. e \in Entries
    BY DEF OrderInv, SpacingInv, TypeInv, TypeOK, Eligible
  <2>6. e.deadline \in Nat /\ held[w].deadline \in Nat
    BY <2>2, <2>5 DEF Entries
  <2> QED
    BY <2>1, <2>3, <2>4, <2>6 DEF Genuine
<1> QED
  BY <1>1, <1>2, <1>3, PTL DEF Spec
=============================================================================
