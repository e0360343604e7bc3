--------------------------- MODULE SendQueueProofs ---------------------------
(***************************************************************************)
(* SendQueue implements Scheduler and keeps MailPromise; its counters, its *)
(* answers and its drain are right, for every number of workers, accounts  *)
(* and jobs and every setting.                                             *)
(*                                                                         *)
(* What Scheduler proves is used through the instance that sees a worker   *)
(* between two steps of finish as one that has not released its job.       *)
(***************************************************************************)
EXTENDS SendQueue, TLAPS, FiniteSetTheorems, SequenceTheorems

SP == INSTANCE SchedulerProofs WITH pc <- SchedulerPC

-----------------------------------------------------------------------------
(* The steps of SendQueue are steps of Scheduler.                          *)

SendPCs == PCs \cup { "count", "report", "settle" }

PCOK == pc \in [Workers -> SendPCs]

\* A step of a worker that Scheduler has too.
LEMMA GotoMapped ==
    ASSUME PCOK, NEW w \in Workers, NEW from \in PCs, NEW to \in PCs,
           Goto(w, from, to)
    PROVE  /\ SP!Goto(w, from, to) /\ Sched!Goto(w, from, to)
           /\ PCOK'
<1>1. SchedulerPC[w] = from
  BY DEF Goto, SchedulerPC, PCs
<1>2. SchedulerPC' = [SchedulerPC EXCEPT ![w] = to]
  BY DEF Goto, SchedulerPC, PCOK, PCs
<1>3. PCOK'
  BY DEF Goto, PCOK, SendPCs
<1> QED
  BY <1>1, <1>2, <1>3 DEF SP!Goto, Sched!Goto

\* The steps of finish that Scheduler does not see.
LEMMA GotoHidden ==
    ASSUME PCOK, NEW w \in Workers,
           NEW from \in { "finish", "count", "report" },
           NEW to \in { "count", "report", "settle" },
           Goto(w, from, to)
    PROVE  SchedulerPC' = SchedulerPC /\ PCOK'
<1>1. SchedulerPC' = SchedulerPC
  BY DEF Goto, SchedulerPC, PCOK, PCs
<1>2. PCOK'
  BY DEF Goto, PCOK, SendPCs
<1> QED
  BY <1>1, <1>2

\* The end of finish is the step in which Scheduler releases the job.
LEMMA GotoSettled ==
    ASSUME PCOK, NEW w \in Workers, Goto(w, "settle", "idle")
    PROVE  /\ SP!Goto(w, "finish", "idle") /\ Sched!Goto(w, "finish", "idle")
           /\ PCOK'
<1>1. SchedulerPC[w] = "finish"
  BY DEF Goto, SchedulerPC
<1>2. SchedulerPC' = [SchedulerPC EXCEPT ![w] = "idle"]
  BY DEF Goto, SchedulerPC, PCOK, PCs
<1>3. PCOK'
  BY DEF Goto, PCOK, SendPCs, PCs
<1> QED
  BY <1>1, <1>2, <1>3 DEF SP!Goto, Sched!Goto

\* The three readings of an operator that does not look at pc are one.
LEMMA SameGate ==
    ASSUME NEW e, NEW entry
    PROVE  /\ SP!GateAfter(e, entry) = GateAfter(e, entry)
           /\ Sched!GateAfter(e, entry) = GateAfter(e, entry)
<1>1. \A s, t : /\ SP!Later(s, t) = Later(s, t)
               /\ Sched!Later(s, t) = Later(s, t)
               /\ SP!Earlier(s, t) = Earlier(s, t)
               /\ Sched!Earlier(s, t) = Earlier(s, t)
  BY Zenon DEF Later, Earlier, SP!Later, SP!Earlier, Sched!Later,
               Sched!Earlier
<1>2. \A f, b : /\ SP!PauseLength(f, b) = PauseLength(f, b)
               /\ Sched!PauseLength(f, b) = PauseLength(f, b)
  <2>1. SP!Doublings = Doublings /\ Sched!Doublings = Doublings
    BY DEF Doublings, SP!Doublings, Sched!Doublings
  <2> QED
    BY <1>1, <2>1 DEF PauseLength, SP!PauseLength, Sched!PauseLength
<1>3. \A g, n, b : /\ SP!Paused(g, n, b) = Paused(g, n, b)
                  /\ Sched!Paused(g, n, b) = Paused(g, n, b)
  BY <1>1, <1>2, Zenon DEF Paused, SP!Paused, Sched!Paused
<1>4. /\ SP!Classify(e) = Classify(e) /\ Sched!Classify(e) = Classify(e)
      /\ SP!IsTest(entry) = IsTest(entry)
      /\ Sched!IsTest(entry) = IsTest(entry)
  BY Zenon DEF Classify, IsTest, NoReplies, SP!Classify, SP!IsTest,
               SP!NoReplies, Sched!Classify, Sched!IsTest, Sched!NoReplies
<1> QED
  BY <1>3, <1>4, Zenon DEF GateAfter, SP!GateAfter, Sched!GateAfter

LEMMA SameRetry ==
    ASSUME NEW e, NEW entry
    PROVE  /\ SP!ForRetry(entry, e) = ForRetry(entry, e)
           /\ Sched!ForRetry(entry, e) = ForRetry(entry, e)
  BY Zenon
  DEF ForRetry, Classify, NoReplies, SP!ForRetry, SP!Classify, SP!NoReplies,
      Sched!ForRetry, Sched!Classify, Sched!NoReplies

LEMMA SameErrors ==
    ASSUME NEW e, NEW entry
    PROVE  /\ SP!Retryable(e) = Retryable(e)
           /\ Sched!Retryable(e) = Retryable(e)
           /\ SP!GivesUp(entry, e) = GivesUp(entry, e)
           /\ Sched!GivesUp(entry, e) = GivesUp(entry, e)
           /\ SP!RelayErrors = RelayErrors /\ Sched!RelayErrors = RelayErrors
           /\ SP!MaybeDelivered = MaybeDelivered
           /\ Sched!MaybeDelivered = MaybeDelivered
           /\ SP!IsTest(entry) = IsTest(entry)
           /\ Sched!IsTest(entry) = IsTest(entry)
  BY Zenon
  DEF Retryable, GivesUp, RelayErrors, MaybeDelivered, IsTest, Replies,
      NoReplies, Transient, SP!Retryable, SP!GivesUp, SP!RelayErrors,
      SP!MaybeDelivered, SP!IsTest, SP!Replies, SP!NoReplies, SP!Transient,
      Sched!Retryable, Sched!GivesUp, Sched!RelayErrors,
      Sched!MaybeDelivered, Sched!IsTest, Sched!Replies, Sched!NoReplies,
      Sched!Transient

\* A submission starts the pool in both.
LEMMA EnqueueMapped ==
    ASSUME PCOK, NEW a, NEW p, NEW test, Enqueue(a, p, test)
    PROVE  /\ SP!Enqueue(a, p, test) /\ Sched!Enqueue(a, p, test)
           /\ PCOK'
<1>1. Started = SP!Started /\ Started = Sched!Started
  BY DEF Started, SP!Started, Sched!Started, SchedulerPC
<1>2. pc' = IF Started THEN pc ELSE [w \in Workers |-> "idle"]
  BY DEF Enqueue
<1>3. SchedulerPC' =
        IF Started THEN SchedulerPC ELSE [w \in Workers |-> "idle"]
  <2>1. CASE Started
    BY <1>2, <2>1 DEF SchedulerPC
  <2>2. CASE ~Started
    BY <1>2, <2>2 DEF SchedulerPC
  <2> QED
    BY <2>1, <2>2
<1>4. PCOK'
  BY <1>2 DEF PCOK, SendPCs, PCs
<1>5. /\ SchedulerPC' =
           IF SP!Started THEN SchedulerPC ELSE [w \in Workers |-> "idle"]
      /\ SchedulerPC' =
           IF Sched!Started THEN SchedulerPC ELSE [w \in Workers |-> "idle"]
  BY <1>1, <1>3
<1>6. /\ SP!NewEntry(a, p, test) = NewEntry(a, p, test)
      /\ Sched!NewEntry(a, p, test) = NewEntry(a, p, test)
  BY Zenon DEF NewEntry, SP!NewEntry, Sched!NewEntry
<1>7. SP!Enqueue(a, p, test)
  BY <1>5, <1>6 DEF Enqueue, SP!Enqueue
<1>8. Sched!Enqueue(a, p, test)
  BY <1>5, <1>6 DEF Enqueue, Sched!Enqueue
<1> QED
  BY <1>4, <1>7, <1>8

\* The scan looks at the queue and the gates only.
LEMMA ScanMapped ==
    ASSUME PCOK, NEW w \in Workers, Scan(w)
    PROVE  SP!Scan(w) /\ Sched!Scan(w) /\ PCOK'
<1>1. /\ SP!Goto(w, "idle", "taking") /\ Sched!Goto(w, "idle", "taking")
      /\ PCOK'
  BY GotoMapped DEF Scan, PCs
<1>2. SP!Eligible = Eligible /\ Sched!Eligible = Eligible
  BY Zenon DEF Eligible, EligibleAt, IsTest, Later, SP!Eligible,
               SP!EligibleAt, SP!IsTest, SP!Later, Sched!Eligible,
               Sched!EligibleAt, Sched!IsTest, Sched!Later
<1>3. \A e : /\ SP!IsBest(e) = IsBest(e) /\ Sched!IsBest(e) = IsBest(e)
            /\ SP!Removed(e) = Removed(e) /\ Sched!Removed(e) = Removed(e)
  BY <1>2, Zenon DEF IsBest, Before, Removed, SP!IsBest, SP!Before,
                     SP!Removed, Sched!IsBest, Sched!Before, Sched!Removed
<1>4. SP!Scan(w)
  BY <1>1, <1>2, <1>3, Zenon DEF Scan, SP!Scan
<1>5. Sched!Scan(w)
  BY <1>1, <1>2, <1>3, Zenon DEF Scan, Sched!Scan
<1> QED
  BY <1>1, <1>4, <1>5

LEMMA TakeMapped ==
    ASSUME PCOK, NEW w \in Workers, Take(w)
    PROVE  SP!Take(w) /\ Sched!Take(w) /\ PCOK'
<1>1. /\ SP!Goto(w, "taking", "attempt")
      /\ Sched!Goto(w, "taking", "attempt")
      /\ PCOK'
  BY GotoMapped DEF Take, PCs
<1>2. SP!Take(w)
  BY <1>1, Zenon DEF Take, IsTest, Taken, Later, SP!Take, SP!IsTest,
                     SP!Taken, SP!Later
<1>3. Sched!Take(w)
  BY <1>1, Zenon DEF Take, IsTest, Taken, Later, Sched!Take, Sched!IsTest,
                     Sched!Taken, Sched!Later
<1> QED
  BY <1>1, <1>2, <1>3

LEMMA AttemptMapped ==
    ASSUME PCOK, NEW w \in Workers, Attempt(w)
    PROVE  SP!Attempt(w) /\ Sched!Attempt(w) /\ PCOK'
<1>1. pc[w] = "attempt"
  BY DEF Attempt
<1>2. SchedulerPC[w] = "attempt"
  BY <1>1 DEF SchedulerPC
<1>3. /\ SP!AttemptKeeps = AttemptKeeps
      /\ Sched!AttemptKeeps = AttemptKeeps
      /\ SP!Dry(w) = Dry(w) /\ Sched!Dry(w) = Dry(w)
  BY Zenon DEF AttemptKeeps, Dry, SP!AttemptKeeps, SP!Dry,
               Sched!AttemptKeeps, Sched!Dry
<1>4. \A c, f : /\ SP!Logged(w, c, f) = Logged(w, c, f)
               /\ Sched!Logged(w, c, f) = Logged(w, c, f)
  BY Zenon DEF Logged, SP!Logged, Sched!Logged
<1>5. ASSUME NEW o, Finish(w, o)
      PROVE  SP!Finish(w, o) /\ Sched!Finish(w, o) /\ PCOK'
  <2>1. /\ SP!Goto(w, "attempt", "finish")
        /\ Sched!Goto(w, "attempt", "finish")
        /\ PCOK'
    BY <1>5, GotoMapped DEF Finish, PCs
  <2> QED
    BY <1>5, <2>1, Zenon DEF Finish, SP!Finish, Sched!Finish
<1>6. CASE AttemptDry(w)
  <2>1. PICK o \in { "ok", "failed" } :
          (IsTest(held[w]) => o = "ok") /\ Finish(w, o)
    BY <1>6 DEF AttemptDry
  <2>2. SP!AttemptDry(w) /\ Sched!AttemptDry(w) /\ PCOK'
    BY <1>3, <1>4, <1>5, <1>6, <2>1, SameErrors
    DEF AttemptDry, SP!AttemptDry, Sched!AttemptDry
  <2> QED
    BY <1>2, <2>2 DEF SP!Attempt, Sched!Attempt
<1>7. CASE AttemptUnbuilt(w)
  <2>1. SP!AttemptUnbuilt(w) /\ Sched!AttemptUnbuilt(w) /\ PCOK'
    BY <1>3, <1>4, <1>5, <1>7
    DEF AttemptUnbuilt, SP!AttemptUnbuilt, Sched!AttemptUnbuilt
  <2> QED
    BY <1>2, <2>1 DEF SP!Attempt, Sched!Attempt
<1>8. CASE AttemptAccepted(w)
  <2>1. SP!Finish(w, "ok") /\ Sched!Finish(w, "ok") /\ PCOK'
    BY <1>5, <1>8 DEF AttemptAccepted
  <2>2. SP!AttemptAccepted(w)
    BY <1>3, <1>4, <1>8, <2>1, Zenon
    DEF AttemptAccepted, Recovered, IsTest, SP!AttemptAccepted,
        SP!Recovered, SP!IsTest
  <2>3. Sched!AttemptAccepted(w)
    BY <1>3, <1>4, <1>8, <2>1, Zenon
    DEF AttemptAccepted, Recovered, IsTest, Sched!AttemptAccepted,
        Sched!Recovered, Sched!IsTest
  <2> QED
    BY <1>2, <2>1, <2>2, <2>3 DEF SP!Attempt, Sched!Attempt
<1>9. CASE AttemptFailed(w)
  <2>1. PICK e \in RelayErrors :
          /\ gate' = GateAfter(e, held[w])
          /\ \E copies \in 0 .. 1 :
               /\ copies = 1 => ~IsTest(held[w]) /\ e \in MaybeDelivered
               /\ Logged(w, copies, ~Retryable(e))
          /\ \/ GivesUp(held[w], e) /\ Finish(w, "failed")
             \/ /\ ~GivesUp(held[w], e)
                /\ Goto(w, "attempt", "requeue")
                /\ held' = [held EXCEPT ![w] = ForRetry(@, e)]
                /\ UNCHANGED outcome
    BY <1>9 DEF AttemptFailed
  <2>2. /\ gate' = SP!GateAfter(e, held[w])
        /\ gate' = Sched!GateAfter(e, held[w])
    BY <2>1, SameGate
  <2>3. PICK copies \in 0 .. 1 :
          /\ copies = 1 => ~IsTest(held[w]) /\ e \in MaybeDelivered
          /\ Logged(w, copies, ~Retryable(e))
    BY <2>1
  <2>4. /\ copies = 1 => ~SP!IsTest(held[w]) /\ e \in SP!MaybeDelivered
        /\ SP!Logged(w, copies, ~SP!Retryable(e))
        /\ copies = 1 => ~Sched!IsTest(held[w]) /\ e \in Sched!MaybeDelivered
        /\ Sched!Logged(w, copies, ~Sched!Retryable(e))
    BY <1>4, <2>3, SameErrors
  <2>5. /\ \/ SP!GivesUp(held[w], e) /\ SP!Finish(w, "failed")
           \/ /\ ~SP!GivesUp(held[w], e)
              /\ SP!Goto(w, "attempt", "requeue")
              /\ held' = [held EXCEPT ![w] = SP!ForRetry(@, e)]
              /\ UNCHANGED outcome
        /\ \/ Sched!GivesUp(held[w], e) /\ Sched!Finish(w, "failed")
           \/ /\ ~Sched!GivesUp(held[w], e)
              /\ Sched!Goto(w, "attempt", "requeue")
              /\ held' = [held EXCEPT ![w] = Sched!ForRetry(@, e)]
              /\ UNCHANGED outcome
        /\ PCOK'
    <3>1. CASE GivesUp(held[w], e) /\ Finish(w, "failed")
      BY <1>5, <3>1, SameErrors
    <3>2. CASE /\ ~GivesUp(held[w], e)
               /\ Goto(w, "attempt", "requeue")
               /\ held' = [held EXCEPT ![w] = ForRetry(@, e)]
               /\ UNCHANGED outcome
      <4>1. /\ SP!Goto(w, "attempt", "requeue")
            /\ Sched!Goto(w, "attempt", "requeue")
            /\ PCOK'
        BY <3>2, GotoMapped DEF PCs
      <4> QED
        BY <3>2, <4>1, SameErrors, SameRetry
    <3> QED
      BY <2>1, <3>1, <3>2
  <2>6. e \in SP!RelayErrors /\ e \in Sched!RelayErrors
    BY SameErrors
  <2>7. ~SP!Dry(w) /\ SP!AttemptKeeps /\ ~Sched!Dry(w) /\ Sched!AttemptKeeps
    BY <1>3, <1>9 DEF AttemptFailed
  <2>8. SP!AttemptFailed(w)
    BY <2>2, <2>4, <2>5, <2>6, <2>7, Zenon DEF SP!AttemptFailed
  <2>9. Sched!AttemptFailed(w)
    BY <2>2, <2>4, <2>5, <2>6, <2>7, Zenon DEF Sched!AttemptFailed
  <2> QED
    BY <1>2, <2>5, <2>8, <2>9 DEF SP!Attempt, Sched!Attempt
<1>10. CASE AttemptPanics(w)
  <2>1. SP!AttemptPanics(w) /\ Sched!AttemptPanics(w) /\ PCOK'
    BY <1>3, <1>4, <1>5, <1>10
    DEF AttemptPanics, SP!AttemptPanics, Sched!AttemptPanics
  <2> QED
    BY <1>2, <2>1 DEF SP!Attempt, Sched!Attempt
<1> QED
  BY <1>6, <1>7, <1>8, <1>9, <1>10 DEF Attempt

LEMMA RequeueMapped ==
    ASSUME PCOK, NEW w \in Workers, Requeue(w)
    PROVE  SP!Requeue(w) /\ Sched!Requeue(w) /\ PCOK'
<1>1. /\ SP!Goto(w, "requeue", "idle") /\ Sched!Goto(w, "requeue", "idle")
      /\ PCOK'
  BY GotoMapped DEF Requeue, PCs
<1> QED
  BY <1>1, Zenon DEF Requeue, Returned, SP!Requeue, SP!Returned,
                     Sched!Requeue, Sched!Returned

LEMMA RetireMapped ==
    ASSUME PCOK, NEW w \in Workers, Retire(w)
    PROVE  SP!Retire(w) /\ Sched!Retire(w) /\ PCOK'
<1>1. /\ SP!Goto(w, "idle", "retired") /\ Sched!Goto(w, "idle", "retired")
      /\ PCOK'
  BY GotoMapped DEF Retire, PCs
<1> QED
  BY <1>1, Zenon DEF Retire, SP!Retire, Sched!Retire

\* finish and the end of the worker's loop: three steps Scheduler does not
\* see, and the release.
LEMMA HiddenMapped ==
    ASSUME PCOK, NEW w \in Workers, Unqueue(w) \/ Count(w) \/ SendResult(w)
    PROVE  UNCHANGED SP!vars /\ UNCHANGED Sched!vars /\ PCOK'
<1>1. SchedulerPC' = SchedulerPC /\ PCOK'
  BY GotoHidden DEF Unqueue, Count, SendResult
<1>2. UNCHANGED << now, entries, nextSeq, closed, lock, gate, held, outcome,
                   log, picks >>
  BY DEF Unqueue, Count, SendResult, WorkerKeeps
<1> QED
  BY <1>1, <1>2 DEF SP!vars, Sched!vars

LEMMA SettleMapped ==
    ASSUME PCOK, NEW w \in Workers, Settle(w)
    PROVE  SP!Release(w) /\ Sched!Release(w) /\ PCOK'
<1>1. /\ SP!Goto(w, "finish", "idle") /\ Sched!Goto(w, "finish", "idle")
      /\ PCOK'
  BY GotoSettled DEF Settle
<1> QED
  BY <1>1, Zenon DEF Settle, WorkerKeeps, SP!Release, Sched!Release

\* The clock and the end of the queue do not look at the workers.
LEMMA QuietMapped ==
    ASSUME PCOK, Tick \/ Close
    PROVE  /\ Tick => SP!Tick /\ Sched!Tick
           /\ Close => SP!Close /\ Sched!Close
           /\ PCOK'
<1>1. pc' = pc
  BY DEF Tick, Close
<1>2. SchedulerPC' = SchedulerPC /\ PCOK'
  BY <1>1 DEF SchedulerPC, PCOK
<1>3. /\ Tick => SP!Tick /\ Sched!Tick
      /\ Close => SP!Close /\ Sched!Close
  BY <1>2, Zenon DEF Tick, Close, EligibleAt, IsTest, Later, SP!Tick,
                     SP!Close, SP!EligibleAt, SP!IsTest, SP!Later,
                     Sched!Tick, Sched!Close, Sched!EligibleAt,
                     Sched!IsTest, Sched!Later
<1> QED
  BY <1>2, <1>3

\* Every step of the queue is a step of the scheduler or none that it sees.
LEMMA SendStepMapped ==
    ASSUME PCOK, [SendNext]_sendVars
    PROVE  [SP!Next]_(SP!vars) /\ [Sched!Next]_(Sched!vars) /\ PCOK'
<1>1. ASSUME NEW a \in Accounts, NEW o \in Offers, Submit(a, o.prio, o.test)
      PROVE  [SP!Next]_(SP!vars) /\ [Sched!Next]_(Sched!vars) /\ PCOK'
  BY <1>1, EnqueueMapped DEF Submit, SP!Next, Sched!Next
<1>2. ASSUME NEW w \in Workers, Schedule(w)
      PROVE  [SP!Next]_(SP!vars) /\ [Sched!Next]_(Sched!vars) /\ PCOK'
  BY <1>2, ScanMapped, TakeMapped, AttemptMapped, RequeueMapped, RetireMapped
  DEF Schedule, SP!Next, Sched!Next
<1>3. ASSUME NEW w \in Workers, Unqueue(w) \/ Count(w) \/ SendResult(w)
      PROVE  [SP!Next]_(SP!vars) /\ [Sched!Next]_(Sched!vars) /\ PCOK'
  BY <1>3, HiddenMapped
<1>4. ASSUME NEW w \in Workers, Settle(w)
      PROVE  [SP!Next]_(SP!vars) /\ [Sched!Next]_(Sched!vars) /\ PCOK'
  BY <1>4, SettleMapped DEF SP!Next, Sched!Next
<1>5. CASE Drop \/ Clock
  BY <1>5, QuietMapped DEF Drop, Clock, SP!Next, Sched!Next
<1>6. ASSUME UNCHANGED vars
      PROVE  [SP!Next]_(SP!vars) /\ [Sched!Next]_(Sched!vars) /\ PCOK'
  BY <1>6 DEF vars, SP!vars, Sched!vars, SchedulerPC, PCOK
<1>7. CASE Poll \/ Announce \/ BeginUnload \/ Drained \/ UNCHANGED sendVars
  BY <1>6, <1>7 DEF Poll, Announce, BeginUnload, Drained, sendVars
<1> QED
  BY <1>1, <1>2, <1>3, <1>4, <1>5, <1>7 DEF SendNext, Work

LEMMA SendInitMapped ==
    ASSUME SendInit
    PROVE  SP!Init /\ Sched!Init /\ PCOK
<1>1. SchedulerPC = [w \in Workers |-> "absent"] /\ PCOK
  BY DEF SendInit, Init, SchedulerPC, PCOK, SendPCs, PCs
<1>2. Init
  BY DEF SendInit
<1>3. SP!NewGate(0) = NewGate(0) /\ Sched!NewGate(0) = NewGate(0)
  BY DEF NewGate, SP!NewGate, Sched!NewGate
<1>4. SP!Init
  BY <1>1, <1>2, <1>3 DEF Init, Seqs, SP!Init, SP!Seqs
<1>5. Sched!Init
  BY <1>1, <1>2, <1>3 DEF Init, Seqs, Sched!Init, Sched!Seqs
<1> QED
  BY <1>1, <1>4, <1>5

\* The whole queue, with its counters, its results and its shutdown, behaves
\* as Scheduler says: what is proved of the scheduler holds of the manager.
THEOREM SendQueueImplementsScheduler == SendSpec => ImplementsScheduler
<1>1. SendInit => Sched!Init /\ PCOK
  BY SendInitMapped
<1>2. PCOK /\ [SendNext]_sendVars => [Sched!Next]_(Sched!vars) /\ PCOK'
  BY SendStepMapped
<1> QED
  BY <1>1, <1>2, PTL DEF SendSpec, ImplementsScheduler, Sched!Spec

-----------------------------------------------------------------------------
(* What the scheduler's proofs say of the queue.                           *)

Inherited ==
    /\ PCOK
    /\ SP!TypeInv /\ SP!OneOwner /\ SP!TriesInv /\ SP!OrderInv

LEMMA InheritedInit == SendInit => Inherited
<1> SUFFICES ASSUME SendInit PROVE Inherited
  OBVIOUS
<1>1. SP!Init /\ PCOK
  BY SendInitMapped
<1>2. SP!TypeInv
  BY <1>1, SP!InitTypeInv, SchedulerAssumption, GateAssumption
  DEF SP!Priorities, SP!Entries, SP!Jobs, SP!Kinds, SP!Seqs, Entries, Jobs,
      Priorities, Kinds, Seqs
<1>3. SP!TriesInv
  BY <1>1, SP!TriesInit, SchedulerAssumption, GateAssumption
  DEF SP!Priorities, SP!Entries, SP!Jobs, SP!Kinds, SP!Seqs, Entries, Jobs,
      Priorities, Kinds, Seqs
<1>4. SP!OneOwner
  BY <1>3 DEF SP!TriesInv
<1>5. SP!OrderInv
  BY <1>1, <1>2 DEF SP!Init, SP!OrderInv, SP!SpacingInv, SP!Holder, SP!Urgent,
                    SP!Busy
<1> QED
  BY <1>1, <1>2, <1>3, <1>4, <1>5 DEF Inherited

LEMMA InheritedStep ==
    ASSUME Inherited, [SendNext]_sendVars
    PROVE  Inherited'
<1>1. PCOK' /\ [SP!Next]_(SP!vars)
  BY SendStepMapped DEF Inherited
<1>2. SP!SpacingInv /\ SP!Holder
  BY DEF Inherited, SP!OrderInv
<1>3. SP!TypeInv'
  BY <1>1, SP!TypeInvStep, SchedulerAssumption, GateAssumption
  DEF Inherited, SP!Priorities, SP!Entries, SP!Jobs, SP!Kinds, SP!Seqs,
      Entries, Jobs, Priorities, Kinds, Seqs
<1>4. SP!OneOwner'
  BY <1>1, SP!OneOwnerStep, SchedulerAssumption, GateAssumption
  DEF Inherited, SP!Priorities, SP!Entries, SP!Jobs, SP!Kinds, SP!Seqs,
      Entries, Jobs, Priorities, Kinds, Seqs
<1>5. SP!TriesInv'
  BY <1>1, SP!TriesStep, SchedulerAssumption, GateAssumption
  DEF Inherited, SP!Priorities, SP!Entries, SP!Jobs, SP!Kinds, SP!Seqs,
      Entries, Jobs, Priorities, Kinds, Seqs
<1>6. SP!SpacingInv'
  BY <1>1, <1>2, SP!SpacingStep, SchedulerAssumption, GateAssumption
  DEF SP!Priorities, SP!Entries, SP!Jobs, SP!Kinds, SP!Seqs,
      Entries, Jobs, Priorities, Kinds, Seqs
<1>7. SP!Holder'
  BY <1>1, <1>2, SP!HolderStep, SchedulerAssumption, GateAssumption
  DEF Inherited, SP!Priorities, SP!Entries, SP!Jobs, SP!Kinds, SP!Seqs,
      Entries, Jobs, Priorities, Kinds, Seqs
<1>8. SP!Urgent'
  BY <1>1, SP!UrgentStep, SchedulerAssumption, GateAssumption
  DEF Inherited, SP!Priorities, SP!Entries, SP!Jobs, SP!Kinds, SP!Seqs,
      Entries, Jobs, Priorities, Kinds, Seqs
<1>9. /\ \A e \in entries' : SP!Genuine(e)'
      /\ \A w \in SP!Busy' : SP!Genuine(held[w])'
  BY <1>1, SP!GenuineStep, SchedulerAssumption, GateAssumption
  DEF Inherited, SP!Priorities, SP!Entries, SP!Jobs, SP!Kinds, SP!Seqs,
      Entries, Jobs, Priorities, Kinds, Seqs
<1> QED
  BY <1>1, <1>3, <1>4, <1>5, <1>6, <1>7, <1>8, <1>9 DEF Inherited, SP!OrderInv

\* What the proofs below need of it, in the queue's own terms.
LEMMA QueueFacts ==
    ASSUME Inherited
    PROVE  /\ pc \in [Workers -> SendPCs]
           /\ held \in [Workers -> Entries \cup { NoEntry }]
           /\ outcome \in [Workers -> { "none", "ok", "failed", "panicked" }]
           /\ log \in [Seqs -> Jobs \cup { NoEntry }]
           /\ entries \subseteq Entries /\ now \in Nat
           /\ nextSeq \in 0 .. MaxJobs
           /\ \A s \in Seqs : s < nextSeq => log[s] \in Jobs
           /\ OneOwner
           /\ \A w \in Busy :
                /\ held[w] \in Entries /\ held[w].seq \in Seqs
                /\ held[w].seq < nextSeq /\ held[w].acct \in Accounts
                /\ log[held[w].seq] \in Jobs
                /\ log[held[w].seq].acct = held[w].acct
                /\ log[held[w].seq].test = IsTest(held[w])
           /\ \A e \in entries : e.seq \in Seqs /\ e.seq < nextSeq
<1>1. SP!Seqs = Seqs /\ SP!Entries = Entries /\ SP!Jobs = Jobs
  BY DEF SP!Seqs, SP!Entries, SP!Jobs, SP!Kinds, SP!Priorities, Seqs, Entries,
         Jobs, Kinds, Priorities
<1>2. SP!Busy = Busy
  BY DEF Inherited, PCOK, SendPCs, PCs, SP!Busy, Busy, SchedulerPC
<1>3. /\ pc \in [Workers -> SendPCs]
      /\ held \in [Workers -> Entries \cup { NoEntry }]
      /\ outcome \in [Workers -> { "none", "ok", "failed", "panicked" }]
      /\ log \in [Seqs -> Jobs \cup { NoEntry }]
      /\ entries \subseteq Entries /\ now \in Nat
      /\ nextSeq \in 0 .. MaxJobs
  BY <1>1 DEF Inherited, PCOK, SP!TypeInv, SP!TypeOK
<1>4. /\ \A s \in Seqs : s < nextSeq => log[s] \in Jobs
      /\ \A w \in Busy : held[w] \in Entries /\ held[w].seq < nextSeq
      /\ \A e \in entries : e.seq < nextSeq
  BY <1>1, <1>2 DEF Inherited, SP!TypeInv, SP!Owned
<1>5. OneOwner
  BY <1>2 DEF Inherited, SP!OneOwner, OneOwner
<1>6. \A e : SP!IsTest(e) = IsTest(e)
  BY DEF SP!IsTest, IsTest
<1>7. \A w \in Busy : /\ log[held[w].seq].acct = held[w].acct
                      /\ log[held[w].seq].test = IsTest(held[w])
  BY <1>2, <1>6 DEF Inherited, SP!OrderInv, SP!Genuine
<1>8. \A e \in Entries : e.seq \in Seqs /\ e.acct \in Accounts
  BY DEF Entries
<1> QED
  BY <1>3, <1>4, <1>5, <1>7, <1>8

-----------------------------------------------------------------------------
(* Which jobs are still on their way.                                      *)

\* The jobs of the queue and of the workers at one of the places P.
OnTheWay(P) ==
    { e.seq : e \in entries } \cup
    { held[w].seq : w \in { v \in Busy : pc[v] \in P } }

Working == { "taking", "attempt", "requeue", "finish" }
Answering == Working \cup { "count", "report" }
Holding == Answering \cup { "settle" }

\* A worker that holds no job holds no entry.
Tidy == \A w \in Workers : w \notin Busy => held[w] = NoEntry

LEMMA OnTheWayIs ==
    ASSUME Inherited
    PROVE  /\ Waiting = OnTheWay(Working)
           /\ Outstanding = OnTheWay(Holding)
           /\ Tidy => OwedAnswers = OnTheWay(Answering)
<1>1. Waiting = OnTheWay(Working)
  BY DEF Waiting, OnTheWay, Working
<1>2. \A w \in Busy : pc[w] \in Holding
  BY QueueFacts DEF Busy, Holding, Answering, Working, SendPCs, PCs
<1>3. Outstanding = OnTheWay(Holding)
  BY <1>2 DEF Outstanding, OnTheWay
<1>4. ASSUME Tidy PROVE OwedAnswers = OnTheWay(Answering)
  <2>1. \A w \in Workers : w \in Busy <=> held[w] # NoEntry
    BY <1>4, QueueFacts, SchedulerAssumption DEF Tidy, Busy
  <2>2. \A w \in Busy : pc[w] \in Answering <=> pc[w] # "settle"
    BY <1>2 DEF Holding, Answering, Working
  <2>3. { v \in Workers : held[v] # NoEntry /\ pc[v] # "settle" }
          = { v \in Busy : pc[v] \in Answering }
    BY <2>1, <2>2 DEF Busy
  <2> QED
    BY <2>3 DEF OwedAnswers, OnTheWay
<1> QED
  BY <1>1, <1>3, <1>4

LEMMA OnTheWayTypes ==
    ASSUME Inherited, NEW P
    PROVE  \A s \in OnTheWay(P) : s \in Seqs /\ s < nextSeq
  BY QueueFacts DEF OnTheWay

\* A submission adds one job.
LEMMA SubmitOnTheWay ==
    ASSUME Inherited, NEW P, NEW a \in Accounts, NEW p, NEW test,
           Submit(a, p, test)
    PROVE  /\ OnTheWay(P)' = OnTheWay(P) \cup { nextSeq }
           /\ nextSeq \notin OnTheWay(P)
           /\ nextSeq \in Seqs /\ nextSeq' = nextSeq + 1
           /\ Busy' = Busy /\ held' = held
           /\ \A w \in Busy : pc'[w] = pc[w]
<1>1. /\ entries' = entries \cup { NewEntry(a, p, test) } /\ held' = held
      /\ pc' = IF Started THEN pc ELSE [w \in Workers |-> "idle"]
      /\ nextSeq < MaxJobs /\ nextSeq' = nextSeq + 1
  BY DEF Submit, Enqueue
<1>2. nextSeq \in Seqs
  BY <1>1, QueueFacts, SchedulerAssumption DEF Seqs
<1>3. nextSeq \notin OnTheWay(P)
  BY <1>2, OnTheWayTypes DEF Seqs
<1>4. Busy' = Busy /\ \A w \in Busy : pc'[w] = pc[w]
  BY <1>1 DEF Busy, Started
<1>5. NewEntry(a, p, test).seq = nextSeq
  BY DEF NewEntry
<1>6. OnTheWay(P)' = OnTheWay(P) \cup { nextSeq }
  BY <1>1, <1>4, <1>5 DEF OnTheWay
<1> QED
  BY <1>1, <1>2, <1>3, <1>4, <1>6

\* The scheduler's steps keep every job on its way.
LEMMA ScheduleOnTheWay ==
    ASSUME Inherited, NEW P, Working \subseteq P, P \subseteq Holding,
           NEW w \in Workers, Schedule(w)
    PROVE  OnTheWay(P)' = OnTheWay(P)
<1> SUFFICES ASSUME NEW s
             PROVE  s \in OnTheWay(P)' <=> s \in OnTheWay(P)
  BY DEF OnTheWay
<1>1. s \in OnTheWay(P) <=>
          \/ \E e \in entries : s = e.seq
          \/ \E v \in Workers : pc[v] \in P /\ s = held[v].seq
  BY DEF OnTheWay, Busy, Holding, Answering, Working
<1>2. s \in OnTheWay(P)' <=>
          \/ \E e \in entries' : s = e.seq
          \/ \E v \in Workers : pc'[v] \in P /\ s = held'[v].seq
  BY DEF OnTheWay, Busy, Holding, Answering, Working
<1>3. /\ pc \in [Workers -> SendPCs]
      /\ held \in [Workers -> Entries \cup { NoEntry }]
  BY QueueFacts
<1>4. /\ "taking" \in P /\ "attempt" \in P /\ "requeue" \in P /\ "finish" \in P
      /\ "idle" \notin P /\ "retired" \notin P
  BY DEF Holding, Answering, Working
<1>5. CASE Retire(w)
  <2>1. \A v \in Workers : pc'[v] \in P <=> pc[v] \in P
    BY <1>3, <1>4, <1>5 DEF Retire, Goto
  <2> QED
    BY <1>1, <1>2, <1>5, <2>1 DEF Retire
<1>6. CASE Scan(w)
  <2>1. PICK e \in entries :
          entries' = entries \ {e} /\ held' = [held EXCEPT ![w] = e]
    BY <1>6 DEF Scan, Eligible, Removed
  <2>2. pc[w] = "idle" /\ pc' = [pc EXCEPT ![w] = "taking"]
    BY <1>6 DEF Scan, Goto
  <2>3. \A v \in Workers : v # w => pc'[v] = pc[v] /\ held'[v] = held[v]
    BY <1>3, <2>1, <2>2
  <2>4. pc'[w] = "taking" /\ held'[w] = e
    BY <1>3, <2>1, <2>2
  <2> QED
    BY <1>1, <1>2, <1>4, <2>1, <2>2, <2>3, <2>4
<1>7. CASE Take(w) \/ Attempt(w)
  <2>1. /\ entries' = entries /\ pc[w] \in P /\ pc'[w] \in P
        /\ \A v \in Workers : v # w => pc'[v] = pc[v]
    BY <1>3, <1>4, <1>7
    DEF Take, Attempt, AttemptDry, AttemptUnbuilt, AttemptAccepted,
        AttemptFailed, AttemptPanics, AttemptKeeps, Finish, Goto
  <2>2. /\ held'[w].seq = held[w].seq
        /\ \A v \in Workers : v # w => held'[v] = held[v]
    <3>1. w \in Busy
      BY <1>7 DEF Take, Attempt, Goto, Busy
    <3>2. held[w] \in Entries
      BY <3>1, QueueFacts
    <3>3. CASE held' = held
      BY <3>3
    <3>4. CASE held' = [held EXCEPT ![w].last = now]
      BY <1>3, <3>2, <3>4 DEF Entries
    <3>5. ASSUME NEW e, held' = [held EXCEPT ![w] = ForRetry(held[w], e)]
          PROVE  /\ held'[w].seq = held[w].seq
                 /\ \A v \in Workers : v # w => held'[v] = held[v]
      BY <1>3, <3>2, <3>5 DEF ForRetry, Entries
    <3>6. \/ held' = held \/ held' = [held EXCEPT ![w].last = now]
          \/ \E e : held' = [held EXCEPT ![w] = ForRetry(held[w], e)]
      BY <1>7
      DEF Take, Attempt, AttemptDry, AttemptUnbuilt, AttemptAccepted,
          AttemptFailed, AttemptPanics, Finish
    <3> QED
      BY <3>3, <3>4, <3>5, <3>6
  <2> QED
    BY <1>1, <1>2, <2>1, <2>2
<1>8. CASE Requeue(w)
  <2>1. /\ pc[w] = "requeue" /\ pc' = [pc EXCEPT ![w] = "idle"]
        /\ entries' = entries \cup { held[w] }
        /\ held' = [held EXCEPT ![w] = NoEntry]
    BY <1>8 DEF Requeue, Goto, Returned
  <2>2. \A v \in Workers : v # w => pc'[v] = pc[v] /\ held'[v] = held[v]
    BY <1>3, <2>1
  <2>3. pc'[w] = "idle"
    BY <1>3, <2>1
  <2> QED
    BY <1>1, <1>2, <1>4, <2>1, <2>2, <2>3
<1> QED
  BY <1>5, <1>6, <1>7, <1>8 DEF Schedule

\* A worker that goes on through finish takes its job out of P or keeps it
\* there.
LEMMA FinishOnTheWay ==
    ASSUME Inherited, NEW P, NEW w \in Workers,
           NEW from \in Holding, NEW to \in Holding, Goto(w, from, to),
           entries' = entries, held' = held
    PROVE  /\ w \in Busy /\ Busy' = Busy
           /\ pc'[w] = to /\ \A v \in Workers : v # w => pc'[v] = pc[v]
           /\ (from \in P <=> to \in P) => OnTheWay(P)' = OnTheWay(P)
           /\ from \in P /\ to \notin P =>
                /\ held[w].seq \in OnTheWay(P)
                /\ OnTheWay(P)' = OnTheWay(P) \ { held[w].seq }
<1>1. /\ pc[w] = from /\ pc'[w] = to
      /\ \A v \in Workers : v # w => pc'[v] = pc[v]
  BY QueueFacts DEF Goto
<1>2. w \in Busy /\ Busy' = Busy
  BY <1>1 DEF Busy, Holding, Answering, Working
<1>3. ASSUME from \in P <=> to \in P
      PROVE  OnTheWay(P)' = OnTheWay(P)
  BY <1>1, <1>2, <1>3 DEF OnTheWay, Busy
<1>4. ASSUME from \in P, to \notin P
      PROVE  /\ held[w].seq \in OnTheWay(P)
             /\ OnTheWay(P)' = OnTheWay(P) \ { held[w].seq }
  <2>1. /\ \A e \in entries : e.seq # held[w].seq
        /\ \A v \in Busy : v # w => held[v].seq # held[w].seq
    BY <1>2, QueueFacts DEF OneOwner
  <2>2. { v \in Busy' : pc'[v] \in P } = { v \in Busy : pc[v] \in P } \ {w}
    BY <1>1, <1>2, <1>4 DEF Busy
  <2>3. w \in { v \in Busy : pc[v] \in P }
    BY <1>1, <1>2, <1>4
  <2> QED
    BY <2>1, <2>2, <2>3 DEF OnTheWay
<1> QED
  BY <1>1, <1>2, <1>3, <1>4

\* The last step of finish lets the job go.
LEMMA SettleOnTheWay ==
    ASSUME Inherited, NEW P, P \subseteq Holding, NEW w \in Workers, Settle(w)
    PROVE  /\ w \in Busy /\ Busy' = Busy \ {w}
           /\ \A v \in Busy' : pc'[v] = pc[v] /\ held'[v] = held[v]
           /\ "settle" \notin P => OnTheWay(P)' = OnTheWay(P)
           /\ "settle" \in P =>
                /\ held[w].seq \in OnTheWay(P)
                /\ OnTheWay(P)' = OnTheWay(P) \ { held[w].seq }
<1>1. /\ pc[w] = "settle" /\ pc'[w] = "idle" /\ entries' = entries
      /\ \A v \in Workers : v # w => pc'[v] = pc[v] /\ held'[v] = held[v]
  BY QueueFacts DEF Settle, Goto, WorkerKeeps
<1>2. w \in Busy /\ Busy' = Busy \ {w}
  BY <1>1 DEF Busy
<1>3. \A v \in Busy' : pc'[v] = pc[v] /\ held'[v] = held[v]
  BY <1>1, <1>2 DEF Busy
<1>4. /\ \A e \in entries : e.seq # held[w].seq
      /\ \A v \in Busy : v # w => held[v].seq # held[w].seq
  BY <1>2, QueueFacts DEF OneOwner
<1>5. { v \in Busy' : pc'[v] \in P } = { v \in Busy : pc[v] \in P } \ {w}
  BY <1>2, <1>3
<1>6. CASE "settle" \notin P
  <2>1. { v \in Busy' : pc'[v] \in P } = { v \in Busy : pc[v] \in P }
    BY <1>1, <1>5, <1>6
  <2>2. \A v \in { u \in Busy : pc[u] \in P } : held'[v] = held[v]
    BY <1>3, <2>1
  <2> QED
    BY <1>1, <1>2, <1>3, <1>6, <2>1, <2>2 DEF OnTheWay
<1>7. CASE "settle" \in P
  <2>1. held[w].seq \in OnTheWay(P)
    BY <1>1, <1>2, <1>7 DEF OnTheWay
  <2>2. ASSUME NEW s
        PROVE  s \in OnTheWay(P)' <=> s \in OnTheWay(P) /\ s # held[w].seq
    <3>1. s \in OnTheWay(P)' <=>
            \/ \E e \in entries : s = e.seq
            \/ \E v \in Busy : v # w /\ pc[v] \in P /\ s = held[v].seq
      BY <1>1, <1>2, <1>3 DEF OnTheWay
    <3>2. s \in OnTheWay(P) <=>
            \/ \E e \in entries : s = e.seq
            \/ \E v \in Busy : pc[v] \in P /\ s = held[v].seq
      BY DEF OnTheWay
    <3> QED
      BY <1>4, <3>1, <3>2
  <2>3. OnTheWay(P)' = OnTheWay(P) \ { held[w].seq }
    BY <2>2 DEF OnTheWay
  <2> QED
    BY <1>2, <1>3, <1>7, <2>1, <2>3
<1> QED
  BY <1>6, <1>7

\* The main thread's other steps, and the clock, move no job.
Elsewhere ==
    Poll \/ Announce \/ BeginUnload \/ Drained \/ Drop \/ Clock
        \/ UNCHANGED sendVars

LEMMA ElsewhereOnTheWay ==
    ASSUME Elsewhere, NEW P
    PROVE  /\ OnTheWay(P)' = OnTheWay(P) /\ Busy' = Busy
           /\ UNCHANGED << entries, nextSeq, pc, held, outcome, log >>
           /\ UNCHANGED << queued, sent, failed, inFlight >>
<1>1. /\ UNCHANGED << entries, nextSeq, pc, held, outcome, log >>
      /\ UNCHANGED << queued, sent, failed, inFlight >>
  BY DEF Elsewhere, Poll, Announce, BeginUnload, Drained, Drop, Clock, Close,
         Tick, stats, sendVars, vars
<1>2. Busy' = Busy
  BY <1>1 DEF Busy
<1> QED
  BY <1>1, <1>2 DEF OnTheWay

-----------------------------------------------------------------------------
(* The types of the manager's own variables.                               *)

SendTypes ==
    /\ results \in Seq(Results) /\ batch \in Seq(Results)
    /\ told \subseteq Results
    /\ queued \in [Accounts -> Int] /\ inFlight \in Int
    /\ sent \in [Accounts -> Nat] /\ failed \in [Accounts -> Nat]

QueueInv == Inherited /\ Tidy /\ SendTypes

LEMMA QueueInit == SendInit => QueueInv
<1> SUFFICES ASSUME SendInit PROVE QueueInv
  OBVIOUS
<1>1. Inherited
  BY InheritedInit
<1>2. Tidy
  BY DEF SendInit, Init, Tidy
<1>3. SendTypes
  BY DEF SendInit, SendTypes
<1> QED
  BY <1>1, <1>2, <1>3 DEF QueueInv

\* The step of a worker changes its own place only.
LEMMA WorkerFrame ==
    ASSUME Inherited, NEW w \in Workers, Schedule(w)
    PROVE  /\ \A v \in Workers : v # w => pc'[v] = pc[v] /\ held'[v] = held[v]
           /\ w \in Busy' \/ held'[w] = NoEntry \/ (w \notin Busy /\ held' = held)
           /\ nextSeq' = nextSeq
           /\ UNCHANGED << stats, inFlight, results, mainThread >>
<1>1. /\ pc \in [Workers -> SendPCs]
      /\ held \in [Workers -> Entries \cup { NoEntry }]
  BY QueueFacts
<1>2. CASE Retire(w)
  BY <1>1, <1>2 DEF Schedule, Retire, Goto, Busy
<1>3. CASE Scan(w)
  BY <1>1, <1>3 DEF Schedule, Scan, Goto, Busy
<1>4. CASE Take(w)
  BY <1>1, <1>4 DEF Schedule, Take, Goto, Busy
<1>5. CASE Attempt(w)
  <2>1. \/ Goto(w, "attempt", "finish") /\ held' = held
        \/ /\ Goto(w, "attempt", "requeue")
           /\ \E e : held' = [held EXCEPT ![w] = ForRetry(held[w], e)]
    BY <1>5 DEF Attempt, AttemptDry, AttemptUnbuilt, AttemptAccepted,
                AttemptFailed, AttemptPanics, Finish
  <2>2. nextSeq' = nextSeq
    BY <1>5 DEF Attempt, AttemptDry, AttemptUnbuilt, AttemptAccepted,
                AttemptFailed, AttemptPanics, AttemptKeeps
  <2> QED
    BY <1>1, <2>1, <2>2 DEF Schedule, Goto, Busy
<1>6. CASE Requeue(w)
  BY <1>1, <1>6 DEF Schedule, Requeue, Goto, Busy
<1> QED
  BY <1>2, <1>3, <1>4, <1>5, <1>6 DEF Schedule

LEMMA QueueStep ==
    ASSUME QueueInv, [SendNext]_sendVars
    PROVE  QueueInv'
<1> USE DEF QueueInv
<1>1. Inherited'
  BY InheritedStep
<1>2. ASSUME NEW a \in Accounts, NEW o \in Offers, Submit(a, o.prio, o.test)
      PROVE  Tidy' /\ SendTypes'
  <2>1. Busy' = Busy /\ held' = held
    BY <1>2, SubmitOnTheWay
  <2>2. SendTypes'
    BY <1>2 DEF Submit, SendTypes, mainThread
  <2> QED
    BY <2>1, <2>2 DEF Tidy
<1>3. ASSUME NEW w \in Workers, Schedule(w) PROVE Tidy' /\ SendTypes'
  <2>1. Tidy'
    BY <1>3, WorkerFrame DEF Tidy, Busy
  <2> QED
    BY <1>3, <2>1 DEF Schedule, SendTypes, stats, mainThread
<1>4. ASSUME NEW w \in Workers, Unqueue(w) \/ Count(w) \/ SendResult(w)
      PROVE  Tidy'
  <2>1. PICK from \in Holding, to \in Holding : Goto(w, from, to)
    BY <1>4 DEF Unqueue, Count, SendResult, Holding, Answering, Working
  <2>2. entries' = entries /\ held' = held
    BY <1>4 DEF Unqueue, Count, SendResult, WorkerKeeps
  <2> QED
    BY <2>1, <2>2, FinishOnTheWay DEF Tidy
<1>5. ASSUME NEW w \in Workers, Unqueue(w) PROVE SendTypes'
  <2>1. held[w].acct \in Accounts
    BY <1>5, QueueFacts DEF Unqueue, Goto, Busy
  <2>2. queued' = [queued EXCEPT ![held[w].acct] = queued[held[w].acct] - 1]
    BY <1>5 DEF Unqueue
  <2>3. queued' \in [Accounts -> Int]
    BY <2>1, <2>2 DEF SendTypes
  <2> QED
    BY <1>5, <2>3 DEF Unqueue, WorkerKeeps, SendTypes, mainThread
<1>6. ASSUME NEW w \in Workers, Count(w) PROVE SendTypes'
  <2> PICK a, c : a = held[w].acct /\ c = CountsAs(held[w], outcome[w])
    OBVIOUS
  <2>1. a \in Accounts
    BY <1>6, QueueFacts DEF Count, Goto, Busy
  <2>2. /\ sent' = [sent EXCEPT ![a] = IF c = "sent" THEN @ + 1 ELSE @]
        /\ failed' = [failed EXCEPT ![a] = IF c = "failed" THEN @ + 1 ELSE @]
    BY <1>6 DEF Count
  <2>3. sent' \in [Accounts -> Nat] /\ failed' \in [Accounts -> Nat]
    BY <2>1, <2>2 DEF SendTypes
  <2> QED
    BY <1>6, <2>3 DEF Count, WorkerKeeps, SendTypes, mainThread
<1>7. ASSUME NEW w \in Workers, SendResult(w) PROVE SendTypes'
  <2>1. w \in Busy
    BY <1>7 DEF SendResult, Goto, Busy
  <2>2. [seq |-> held[w].seq, ok |-> outcome[w] = "ok"] \in Results
    BY <2>1, QueueFacts DEF Results
  <2> QED
    BY <1>7, <2>2 DEF SendResult, WorkerKeeps, SendTypes, mainThread, stats
<1>8. ASSUME NEW w \in Workers, Settle(w) PROVE Tidy' /\ SendTypes'
  <2>1. Tidy'
    BY <1>8, SettleOnTheWay, QueueFacts DEF Settle, Tidy
  <2> QED
    BY <1>8, <2>1 DEF Settle, WorkerKeeps, SendTypes, mainThread, stats
<1>9. ASSUME Elsewhere PROVE Tidy' /\ SendTypes'
  <2>1. Tidy'
    BY <1>9, ElsewhereOnTheWay DEF Tidy
  <2>2. ASSUME Announce PROVE SendTypes'
    BY <2>2, HeadTailProperties DEF Announce, SendTypes, stats
  <2>3. ASSUME Elsewhere, ~Announce PROVE SendTypes'
    BY <2>3 DEF Elsewhere, Poll, BeginUnload, Drained, Drop, Clock, SendTypes,
                stats, mainThread, sendVars
  <2> QED
    BY <1>9, <2>1, <2>2, <2>3
<1> QED
  BY <1>1, <1>2, <1>3, <1>4, <1>5, <1>6, <1>7, <1>8, <1>9
  DEF SendNext, Work, Elsewhere

-----------------------------------------------------------------------------
(* The queue keeps its promise.                                            *)

\* What the steps do to the answers that are owed.
LEMMA OwedStep ==
    ASSUME QueueInv, [SendNext]_sendVars
    PROVE  LET owed == OnTheWay(Answering)
           IN  \/ /\ \E a \in Accounts, o \in Offers : Submit(a, o.prio, o.test)
                  /\ owed' = owed \cup { nextSeq } /\ nextSeq \notin owed
                  /\ nextSeq \in Seqs /\ nextSeq' = nextSeq + 1
                  /\ UNCHANGED << results, batch, told >>
               \/ \E w \in Workers :
                    /\ SendResult(w) /\ w \in Busy /\ held[w].seq \in owed
                    /\ owed' = owed \ { held[w].seq } /\ nextSeq' = nextSeq
                    /\ results' = Append(results, [seq |-> held[w].seq,
                                                   ok |-> outcome[w] = "ok"])
                    /\ UNCHANGED << batch, told >>
               \/ (Poll \/ Announce) /\ owed' = owed /\ nextSeq' = nextSeq
               \/ /\ owed' = owed /\ nextSeq' = nextSeq
                  /\ UNCHANGED << results, batch, told >>
<1> DEFINE owed == OnTheWay(Answering)
<1>1. Inherited
  BY DEF QueueInv
<1>2. Working \subseteq Answering /\ Answering \subseteq Holding
  BY DEF Holding, Answering
<1>3. ASSUME NEW a \in Accounts, NEW o \in Offers, Submit(a, o.prio, o.test)
      PROVE  /\ owed' = owed \cup { nextSeq } /\ nextSeq \notin owed
             /\ nextSeq \in Seqs /\ nextSeq' = nextSeq + 1
             /\ UNCHANGED << results, batch, told >>
  BY <1>1, <1>3, SubmitOnTheWay DEF Submit, mainThread
<1>4. ASSUME NEW w \in Workers, Schedule(w)
      PROVE  /\ owed' = owed /\ nextSeq' = nextSeq
             /\ UNCHANGED << results, batch, told >>
  BY <1>1, <1>2, <1>4, ScheduleOnTheWay, WorkerFrame DEF mainThread
<1>5. ASSUME NEW w \in Workers, Unqueue(w) \/ Count(w)
      PROVE  /\ owed' = owed /\ nextSeq' = nextSeq
             /\ UNCHANGED << results, batch, told >>
  <2>1. PICK from \in Answering, to \in Answering : Goto(w, from, to)
    BY <1>5 DEF Unqueue, Count, Answering, Working
  <2>2. /\ entries' = entries /\ held' = held /\ nextSeq' = nextSeq
        /\ UNCHANGED << results, batch, told >>
    BY <1>5 DEF Unqueue, Count, WorkerKeeps, mainThread
  <2>3. owed' = owed
    BY <1>1, <1>2, <2>1, <2>2, FinishOnTheWay
  <2> QED
    BY <2>2, <2>3
<1>6. ASSUME NEW w \in Workers, SendResult(w)
      PROVE  /\ w \in Busy /\ held[w].seq \in owed
             /\ owed' = owed \ { held[w].seq } /\ nextSeq' = nextSeq
             /\ results' = Append(results, [seq |-> held[w].seq,
                                            ok |-> outcome[w] = "ok"])
             /\ UNCHANGED << batch, told >>
  <2>1. /\ Goto(w, "report", "settle")
        /\ entries' = entries /\ held' = held /\ nextSeq' = nextSeq
        /\ results' = Append(results, [seq |-> held[w].seq,
                                       ok |-> outcome[w] = "ok"])
        /\ UNCHANGED << batch, told >>
    BY <1>6 DEF SendResult, WorkerKeeps, mainThread
  <2>2. /\ "report" \in Answering /\ "settle" \notin Answering
        /\ "report" \in Holding /\ "settle" \in Holding
    BY DEF Holding, Answering, Working
  <2> QED
    BY <1>1, <2>1, <2>2, FinishOnTheWay
<1>7. ASSUME NEW w \in Workers, Settle(w)
      PROVE  /\ owed' = owed /\ nextSeq' = nextSeq
             /\ UNCHANGED << results, batch, told >>
  <2>1. "settle" \notin Answering
    BY DEF Answering, Working
  <2>2. owed' = owed
    BY <1>1, <1>2, <1>7, <2>1, SettleOnTheWay
  <2> QED
    BY <1>7, <2>2 DEF Settle, WorkerKeeps, mainThread
<1>8. ASSUME Elsewhere PROVE owed' = owed /\ nextSeq' = nextSeq
  BY <1>8, ElsewhereOnTheWay
<1>9. ASSUME BeginUnload \/ Drained \/ Drop \/ Clock \/ UNCHANGED sendVars
      PROVE  UNCHANGED << results, batch, told >>
  BY <1>9 DEF BeginUnload, Drained, Drop, Clock, mainThread, sendVars
<1> HIDE DEF owed
<1>10. \/ \E a \in Accounts, o \in Offers : Submit(a, o.prio, o.test)
       \/ \E w \in Workers : Schedule(w)
       \/ \E w \in Workers : Unqueue(w) \/ Count(w)
       \/ \E w \in Workers : SendResult(w)
       \/ \E w \in Workers : Settle(w)
       \/ Poll \/ Announce
       \/ BeginUnload \/ Drained \/ Drop \/ Clock \/ UNCHANGED sendVars
  BY DEF SendNext, Work
<1>11. \/ /\ \E a \in Accounts, o \in Offers : Submit(a, o.prio, o.test)
          /\ owed' = owed \cup { nextSeq } /\ nextSeq \notin owed
          /\ nextSeq \in Seqs /\ nextSeq' = nextSeq + 1
          /\ UNCHANGED << results, batch, told >>
       \/ \E w \in Workers :
            /\ SendResult(w) /\ w \in Busy /\ held[w].seq \in owed
            /\ owed' = owed \ { held[w].seq } /\ nextSeq' = nextSeq
            /\ results' = Append(results, [seq |-> held[w].seq,
                                           ok |-> outcome[w] = "ok"])
            /\ UNCHANGED << batch, told >>
       \/ (Poll \/ Announce) /\ owed' = owed /\ nextSeq' = nextSeq
       \/ /\ owed' = owed /\ nextSeq' = nextSeq
          /\ UNCHANGED << results, batch, told >>
  BY <1>3, <1>4, <1>5, <1>6, <1>7, <1>8, <1>9, <1>10 DEF Elsewhere
<1> QED
  BY <1>11 DEF owed

\* The answers owed are those of the jobs on their way to one.
OwedOnTheWay == OwedAnswers = OnTheWay(Answering)

LEMMA PromiseStep ==
    ASSUME QueueInv, OwedOnTheWay, OwedOnTheWay', [SendNext]_sendVars
    PROVE  [Promise!PromiseNext]_(Promise!promise)
<1>1. /\ OwedAnswers = OnTheWay(Answering)
      /\ OwedAnswers' = OnTheWay(Answering)'
  BY DEF OwedOnTheWay
<1>2. CASE /\ OwedAnswers' = OwedAnswers \cup { nextSeq }
           /\ nextSeq \in Seqs /\ nextSeq' = nextSeq + 1
           /\ UNCHANGED results
  <2>1. nextSeq < MaxJobs
    BY <1>2, SchedulerAssumption DEF Seqs
  <2> QED
    BY <1>2, <2>1 DEF Promise!PromiseNext, Promise!Accept
<1>3. ASSUME NEW w \in Workers, held[w].seq \in OwedAnswers,
             OwedAnswers' = OwedAnswers \ { held[w].seq }, nextSeq' = nextSeq,
             results' = Append(results, [seq |-> held[w].seq,
                                         ok |-> outcome[w] = "ok"])
      PROVE  Promise!PromiseNext
  <2> PICK ok \in BOOLEAN : ok = (outcome[w] = "ok")
    OBVIOUS
  <2>1. Promise!Answer(held[w].seq, ok)
    BY <1>3 DEF Promise!Answer
  <2> QED
    BY <1>3, <2>1 DEF Promise!PromiseNext
<1>4. CASE (Poll \/ Announce) /\ OwedAnswers' = OwedAnswers /\ nextSeq' = nextSeq
  <2>1. CASE Poll
    BY <1>4, <2>1 DEF Poll, Promise!PromiseNext, Promise!Collect
  <2>2. CASE Announce
    BY <1>4, <2>2 DEF Announce, Promise!promise
  <2> QED
    BY <1>4, <2>1, <2>2
<1>5. CASE OwedAnswers' = OwedAnswers /\ nextSeq' = nextSeq /\ UNCHANGED results
  BY <1>5 DEF Promise!promise
<1> QED
  BY <1>1, <1>2, <1>3, <1>4, <1>5, OwedStep

\* Whatever the workers, the relays and the clock do, the plugin sees what
\* MailPromise says: a job that was accepted is answered once and no other
\* is, and a poll takes all there is.
THEOREM PromiseKept == SendSpec => KeepsPromise
<1>1. SendInit => QueueInv
  BY QueueInit
<1>2. QueueInv /\ [SendNext]_sendVars => QueueInv'
  BY QueueStep
<1>3. ASSUME SendInit PROVE Promise!PromiseInit
  <2>1. Busy = {} /\ entries = {} /\ nextSeq = 0 /\ results = << >>
    BY <1>3 DEF SendInit, Init, Busy
  <2>2. OwedAnswers = {}
    BY <1>3, <2>1 DEF SendInit, Init, OwedAnswers
  <2> QED
    BY <2>1, <2>2 DEF Promise!PromiseInit
<1>4. QueueInv => OwedOnTheWay
  BY OnTheWayIs DEF QueueInv, OwedOnTheWay
<1>5. QueueInv /\ OwedOnTheWay /\ OwedOnTheWay' /\ [SendNext]_sendVars
        => [Promise!PromiseNext]_(Promise!promise)
  BY PromiseStep
<1> QED
  BY <1>1, <1>2, <1>3, <1>4, <1>5, PTL
  DEF SendSpec, KeepsPromise, Promise!PromiseSpec

-----------------------------------------------------------------------------
(* The counters.                                                           *)

LEMMA SeqsFinite == IsFiniteSet(Seqs)
<1>1. 0 \in Int /\ MaxJobs - 1 \in Int
  BY SchedulerAssumption
<1> QED
  BY <1>1, FS_Interval DEF Seqs

LEMMA OnTheWayFinite ==
    ASSUME Inherited, NEW P
    PROVE  IsFiniteSet(OnTheWay(P))
  BY OnTheWayTypes, SeqsFinite, FS_Subset

\* in_flight counts the jobs that are in the queue or with a worker.
FlightInv == QueueInv /\ inFlight = Cardinality(OnTheWay(Holding))

LEMMA FlightStep ==
    ASSUME FlightInv, [SendNext]_sendVars
    PROVE  FlightInv'
<1>1. QueueInv' /\ Inherited
  BY QueueStep DEF FlightInv, QueueInv
<1> PICK F : F = OnTheWay(Holding)
  OBVIOUS
<1>2. IsFiniteSet(F) /\ inFlight = Cardinality(F) /\ Cardinality(F) \in Nat
  BY <1>1, OnTheWayFinite, FS_CardinalityType DEF FlightInv
<1>3. ASSUME NEW a \in Accounts, NEW o \in Offers, Submit(a, o.prio, o.test)
      PROVE  inFlight' = Cardinality(OnTheWay(Holding)')
  <2>1. OnTheWay(Holding)' = F \cup { nextSeq } /\ nextSeq \notin F
    BY <1>1, <1>3, SubmitOnTheWay
  <2>2. inFlight' = inFlight + 1
    BY <1>3 DEF Submit
  <2> QED
    BY <1>2, <2>1, <2>2, FS_AddElement
<1>4. ASSUME NEW w \in Workers, Schedule(w)
      PROVE  inFlight' = Cardinality(OnTheWay(Holding)')
  <2>1. OnTheWay(Holding)' = F
    BY <1>1, <1>4, ScheduleOnTheWay DEF Holding, Answering
  <2> QED
    BY <1>2, <1>4, <2>1 DEF Schedule
<1>5. ASSUME NEW w \in Workers, Unqueue(w) \/ Count(w) \/ SendResult(w)
      PROVE  inFlight' = Cardinality(OnTheWay(Holding)')
  <2>1. PICK from \in Holding, to \in Holding : Goto(w, from, to)
    BY <1>5 DEF Unqueue, Count, SendResult, Holding, Answering, Working
  <2>2. entries' = entries /\ held' = held /\ inFlight' = inFlight
    BY <1>5 DEF Unqueue, Count, SendResult, WorkerKeeps
  <2>3. OnTheWay(Holding)' = F
    BY <1>1, <2>1, <2>2, FinishOnTheWay
  <2> QED
    BY <1>2, <2>2, <2>3
<1>6. ASSUME NEW w \in Workers, Settle(w)
      PROVE  inFlight' = Cardinality(OnTheWay(Holding)')
  <2>1. OnTheWay(Holding)' = F \ { held[w].seq } /\ held[w].seq \in F
    BY <1>1, <1>6, SettleOnTheWay DEF Holding
  <2>2. inFlight' = inFlight - 1
    BY <1>6 DEF Settle
  <2> QED
    BY <1>2, <2>1, <2>2, FS_RemoveElement, ZenonT(60)
<1>7. ASSUME Elsewhere PROVE inFlight' = Cardinality(OnTheWay(Holding)')
  BY <1>2, <1>7, ElsewhereOnTheWay
<1>8. inFlight' = Cardinality(OnTheWay(Holding)')
  BY <1>3, <1>4, <1>5, <1>6, <1>7 DEF SendNext, Work, Elsewhere
<1> QED
  BY <1>1, <1>8 DEF FlightInv

LEMMA FlightInit == SendInit => FlightInv
<1> SUFFICES ASSUME SendInit PROVE FlightInv
  OBVIOUS
<1>1. OnTheWay(Holding) = {} /\ inFlight = 0
  BY DEF SendInit, Init, OnTheWay, Busy
<1> QED
  BY <1>1, QueueInit, FS_EmptySet DEF FlightInv

\* in_flight is the number of accepted jobs whose worker has not let go of
\* them, through every retry, panic and requeue: a drain waits for exactly
\* these.
THEOREM InFlightAlwaysExact == SendSpec => []InFlightExact
<1>1. FlightInv /\ [SendNext]_sendVars => FlightInv'
  BY FlightStep
<1>2. FlightInv => InFlightExact
  BY OnTheWayIs DEF FlightInv, QueueInv, InFlightExact
<1> QED
  BY <1>1, <1>2, FlightInit, PTL DEF SendSpec

\* A job stays what was submitted.
LEMMA SubmittedKept ==
    ASSUME Inherited, [SendNext]_sendVars, NEW s \in Seqs, s < nextSeq
    PROVE  /\ log'[s].acct = log[s].acct /\ log'[s].test = log[s].test
           /\ log'[s].prio = log[s].prio
<1>1. [SP!Next]_(SP!vars)
  BY SendStepMapped DEF Inherited
<1>2. SP!TypeInv /\ s \in SP!Seqs
  BY DEF Inherited, Seqs, SP!Seqs
<1> QED
  BY <1>1, <1>2, SP!JobsKept, SchedulerAssumption, GateAssumption
  DEF SP!Priorities, SP!Entries, SP!Jobs, SP!Kinds, SP!Seqs, Entries, Jobs,
      Priorities, Kinds, Seqs

\* The account's jobs that email_stats reports as waiting.
WaitingOf(a) == { s \in OnTheWay(Working) : log[s].acct = a }

QueuedInv ==
    QueueInv /\ \A a \in Accounts : queued[a] = Cardinality(WaitingOf(a))

LEMMA QueuedStep ==
    ASSUME QueuedInv, [SendNext]_sendVars
    PROVE  QueuedInv'
<1>1. QueueInv' /\ Inherited /\ queued \in [Accounts -> Int]
  BY QueueStep DEF QueuedInv, QueueInv, SendTypes
<1> SUFFICES ASSUME NEW b \in Accounts
             PROVE  queued'[b] = Cardinality(WaitingOf(b)')
  BY <1>1 DEF QueuedInv
<1> PICK W, M : W = OnTheWay(Working) /\ M = WaitingOf(b)
  OBVIOUS
<1>2. /\ IsFiniteSet(M) /\ queued[b] = Cardinality(M)
      /\ Cardinality(M) \in Nat
  <2>1. IsFiniteSet(W) /\ M \subseteq W
    BY <1>1, OnTheWayFinite DEF WaitingOf
  <2> QED
    BY <2>1, FS_Subset, FS_CardinalityType DEF QueuedInv
<1>3. \A s \in W : s \in Seqs /\ s < nextSeq /\ log'[s].acct = log[s].acct
  BY <1>1, OnTheWayTypes, SubmittedKept
<1>4. ASSUME OnTheWay(Working)' = W, queued' = queued
      PROVE  queued'[b] = Cardinality(WaitingOf(b)')
  <2>1. WaitingOf(b)' = M
    BY <1>3, <1>4 DEF WaitingOf
  <2> QED
    BY <1>2, <1>4, <2>1
<1>5. ASSUME NEW a \in Accounts, NEW o \in Offers, Submit(a, o.prio, o.test)
      PROVE  queued'[b] = Cardinality(WaitingOf(b)')
  <2>1. /\ OnTheWay(Working)' = W \cup { nextSeq } /\ nextSeq \notin W
        /\ nextSeq \in Seqs
    BY <1>1, <1>5, SubmitOnTheWay
  <2>2. queued' = [queued EXCEPT ![a] = @ + 1]
    BY <1>5 DEF Submit
  <2>3. log'[nextSeq].acct = a
    <3>1. log' = [log EXCEPT ![nextSeq] =
                    [ acct |-> a, prio |-> o.prio, test |-> o.test,
                      attempts |-> 0, copies |-> 0, final |-> FALSE ]]
      BY <1>5 DEF Submit, Enqueue
    <3> QED
      BY <1>1, <2>1, <3>1, QueueFacts
  <2>4. CASE a = b
    <3>1. WaitingOf(b)' = M \cup { nextSeq } /\ nextSeq \notin M
      BY <1>3, <2>1, <2>3, <2>4 DEF WaitingOf
    <3>2. queued'[b] = queued[b] + 1
      BY <1>1, <2>2, <2>4
    <3> QED
      BY <1>2, <3>1, <3>2, FS_AddElement, ZenonT(60)
  <2>5. CASE a # b
    <3>1. WaitingOf(b)' = M
      BY <1>3, <2>1, <2>3, <2>5 DEF WaitingOf
    <3>2. queued'[b] = queued[b]
      BY <1>1, <2>2, <2>5
    <3> QED
      BY <1>2, <3>1, <3>2
  <2> QED
    BY <2>4, <2>5
<1>6. ASSUME NEW w \in Workers, Schedule(w)
      PROVE  queued'[b] = Cardinality(WaitingOf(b)')
  <2>1. OnTheWay(Working)' = W
    BY <1>1, <1>6, ScheduleOnTheWay DEF Holding, Answering
  <2> QED
    BY <1>4, <1>6, <2>1 DEF Schedule, stats
<1>7. ASSUME NEW w \in Workers, Unqueue(w)
      PROVE  queued'[b] = Cardinality(WaitingOf(b)')
  <2> PICK s, a : s = held[w].seq /\ a = held[w].acct
    OBVIOUS
  <2>1. /\ Goto(w, "finish", "count") /\ entries' = entries /\ held' = held
        /\ queued' = [queued EXCEPT ![a] = @ - 1]
    BY <1>7 DEF Unqueue, WorkerKeeps
  <2>2. /\ "finish" \in Working /\ "count" \notin Working
        /\ "finish" \in Holding /\ "count" \in Holding
    BY DEF Holding, Answering, Working
  <2>3. OnTheWay(Working)' = W \ {s} /\ s \in W /\ w \in Busy
    BY <1>1, <2>1, <2>2, FinishOnTheWay
  <2>4. a \in Accounts /\ log[s].acct = a
    BY <1>1, <2>3, QueueFacts
  <2>5. CASE a = b
    <3>1. WaitingOf(b)' = M \ {s} /\ s \in M
      BY <1>3, <2>3, <2>4, <2>5 DEF WaitingOf
    <3>2. queued'[b] = queued[b] - 1
      BY <1>1, <2>1, <2>5
    <3>3. Cardinality(M \ {s}) = Cardinality(M) - 1
      BY <1>2, <3>1, FS_RemoveElement, ZenonT(60)
    <3> QED
      BY <1>2, <3>1, <3>2, <3>3
  <2>6. CASE a # b
    <3>1. WaitingOf(b)' = M
      BY <1>3, <2>3, <2>4, <2>6 DEF WaitingOf
    <3>2. queued'[b] = queued[b]
      BY <1>1, <2>1, <2>4, <2>6
    <3> QED
      BY <1>2, <3>1, <3>2
  <2> QED
    BY <2>5, <2>6
<1>8. ASSUME NEW w \in Workers, Count(w) \/ SendResult(w)
      PROVE  queued'[b] = Cardinality(WaitingOf(b)')
  <2>1. PICK from \in Holding \ Working, to \in Holding \ Working :
          Goto(w, from, to)
    BY <1>8 DEF Count, SendResult, Holding, Answering, Working
  <2>2. entries' = entries /\ held' = held /\ queued' = queued
    BY <1>8 DEF Count, SendResult, WorkerKeeps, stats
  <2>3. OnTheWay(Working)' = W
    BY <1>1, <2>1, <2>2, FinishOnTheWay
  <2> QED
    BY <1>4, <2>2, <2>3
<1>9. ASSUME NEW w \in Workers, Settle(w)
      PROVE  queued'[b] = Cardinality(WaitingOf(b)')
  <2>1. OnTheWay(Working)' = W
    BY <1>1, <1>9, SettleOnTheWay DEF Holding, Answering, Working
  <2> QED
    BY <1>4, <1>9, <2>1 DEF Settle, stats
<1>10. ASSUME Elsewhere PROVE queued'[b] = Cardinality(WaitingOf(b)')
  BY <1>4, <1>10, ElsewhereOnTheWay
<1> QED
  BY <1>5, <1>6, <1>7, <1>8, <1>9, <1>10 DEF SendNext, Work, Elsewhere

\* Of the jobs that wait, those of an account at some levels.
AtLevelsOf(a, levels) == AtLevels(WaitingOf(a), levels)

Bulk == { "low" }
Limited == { "low", "normal" }

LevelsOK(a) ==
    /\ Cardinality(AtLevelsOf(a, Bulk)) <= Limit(a, "low")
    /\ Cardinality(AtLevelsOf(a, Limited)) <= Limit(a, "normal")

\* What waits at these levels does not grow unless one of them is submitted.
LEMMA LevelsStep ==
    ASSUME Inherited, [SendNext]_sendVars, NEW b \in Accounts, NEW levels
    PROVE  \/ AtLevelsOf(b, levels)' \subseteq AtLevelsOf(b, levels)
           \/ \E o \in Offers :
                /\ Submit(b, o.prio, o.test) /\ o.prio \in levels
                /\ AtLevelsOf(b, levels)'
                     \subseteq AtLevelsOf(b, levels) \cup { nextSeq }
<1> PICK W : W = OnTheWay(Working)
  OBVIOUS
<1>1. \A s \in W : /\ s \in Seqs /\ s < nextSeq
                   /\ log'[s].acct = log[s].acct /\ log'[s].prio = log[s].prio
  BY OnTheWayTypes, SubmittedKept
<1>2. ASSUME NEW s \in W
      PROVE  /\ s \in WaitingOf(b)' => s \in WaitingOf(b)
             /\ s \in AtLevelsOf(b, levels)' => s \in AtLevelsOf(b, levels)
  BY <1>1, <1>2 DEF WaitingOf, AtLevelsOf, AtLevels
<1>3. AtLevelsOf(b, levels)' \subseteq OnTheWay(Working)'
  BY DEF AtLevelsOf, AtLevels, WaitingOf
<1>4. ASSUME OnTheWay(Working)' \subseteq W
      PROVE  AtLevelsOf(b, levels)' \subseteq AtLevelsOf(b, levels)
  BY <1>2, <1>3, <1>4
<1>5. ASSUME NEW a \in Accounts, NEW o \in Offers, Submit(a, o.prio, o.test)
      PROVE  \/ AtLevelsOf(b, levels)' \subseteq AtLevelsOf(b, levels)
             \/ /\ a = b /\ o.prio \in levels
                /\ AtLevelsOf(b, levels)'
                     \subseteq AtLevelsOf(b, levels) \cup { nextSeq }
  <2>1. OnTheWay(Working)' = W \cup { nextSeq } /\ nextSeq \in Seqs
    BY <1>5, SubmitOnTheWay
  <2>2. AtLevelsOf(b, levels)' \subseteq AtLevelsOf(b, levels) \cup { nextSeq }
    BY <1>2, <1>3, <2>1
  <2>3. log'[nextSeq].acct = a /\ log'[nextSeq].prio = o.prio
    <3>1. log' = [log EXCEPT ![nextSeq] =
                    [ acct |-> a, prio |-> o.prio, test |-> o.test,
                      attempts |-> 0, copies |-> 0, final |-> FALSE ]]
      BY <1>5 DEF Submit, Enqueue
    <3> QED
      BY <2>1, <3>1, QueueFacts
  <2>4. nextSeq \in AtLevelsOf(b, levels)' => a = b /\ o.prio \in levels
    BY <2>3 DEF AtLevelsOf, AtLevels, WaitingOf
  <2> QED
    BY <2>2, <2>4
<1>6. ASSUME NEW w \in Workers, Schedule(w) PROVE OnTheWay(Working)' \subseteq W
  BY <1>6, ScheduleOnTheWay DEF Holding, Answering
<1>7. ASSUME NEW w \in Workers, Unqueue(w) \/ Count(w) \/ SendResult(w)
      PROVE  OnTheWay(Working)' \subseteq W
  <2>1. PICK from \in Holding, to \in Holding \ Working : Goto(w, from, to)
    BY <1>7 DEF Unqueue, Count, SendResult, Holding, Answering, Working
  <2>2. entries' = entries /\ held' = held
    BY <1>7 DEF Unqueue, Count, SendResult, WorkerKeeps
  <2> QED
    BY <2>1, <2>2, FinishOnTheWay
<1>8. ASSUME NEW w \in Workers, Settle(w) PROVE OnTheWay(Working)' \subseteq W
  BY <1>8, SettleOnTheWay DEF Holding, Answering, Working
<1>9. CASE Elsewhere
  BY <1>4, <1>9, ElsewhereOnTheWay
<1> QED
  BY <1>4, <1>5, <1>6, <1>7, <1>8, <1>9 DEF SendNext, Work, Elsewhere

\* A job is admitted only below the limit of its level, which counts all that
\* waits: so what waits at this level and below stays within it.
LEMMA LevelsKept ==
    ASSUME QueuedInv, [SendNext]_sendVars, NEW b \in Accounts, NEW levels,
           NEW bound \in Int, Cardinality(AtLevelsOf(b, levels)) <= bound,
           \A p \in levels \cap Priorities : Limit(b, p) <= bound
    PROVE  Cardinality(AtLevelsOf(b, levels)') <= bound
<1>1. Inherited /\ QueuedInv' /\ Inherited'
  BY QueuedStep DEF QueuedInv, QueueInv
<1> PICK M, N : M = AtLevelsOf(b, levels) /\ N = WaitingOf(b)
  OBVIOUS
<1> PICK K : K = AtLevelsOf(b, levels)'
  OBVIOUS
<1>2. /\ M \subseteq N /\ IsFiniteSet(M) /\ IsFiniteSet(N)
      /\ Cardinality(M) <= Cardinality(N)
      /\ Cardinality(M) \in Nat /\ Cardinality(N) \in Nat
      /\ queued[b] = Cardinality(N)
  <2>1. M \subseteq N /\ N \subseteq OnTheWay(Working) /\ queued[b] = Cardinality(N)
    BY DEF AtLevelsOf, AtLevels, WaitingOf, QueuedInv
  <2>2. IsFiniteSet(N)
    BY <1>1, <2>1, OnTheWayFinite, FS_Subset
  <2> QED
    BY <2>1, <2>2, FS_Subset, FS_CardinalityType
<1>3. CASE K \subseteq M
  <2>1. Cardinality(K) <= Cardinality(M) /\ Cardinality(K) \in Nat
    BY <1>2, <1>3, FS_Subset, FS_CardinalityType
  <2> QED
    BY <1>2, <2>1
<1>4. ASSUME NEW o \in Offers, Submit(b, o.prio, o.test), o.prio \in levels,
             K \subseteq M \cup { nextSeq }
      PROVE  Cardinality(K) <= bound
  <2>1. o.prio \in Priorities /\ queued[b] < Limit(b, o.prio)
    BY <1>4, SchedulerAssumption DEF Submit
  <2>2. Limit(b, o.prio) <= bound /\ Limit(b, o.prio) \in Int
    BY <1>4, <2>1, SendQueueAssumption, GateAssumption DEF Limit, Priorities
  <2>3. /\ IsFiniteSet(M \cup { nextSeq })
        /\ Cardinality(M \cup { nextSeq }) <= Cardinality(M) + 1
        /\ Cardinality(M \cup { nextSeq }) \in Nat
    BY <1>2, FS_AddElement, FS_CardinalityType
  <2>4. Cardinality(K) <= Cardinality(M \cup { nextSeq }) /\ Cardinality(K) \in Nat
    BY <1>4, <2>3, FS_Subset, FS_CardinalityType
  <2> QED
    BY <1>2, <2>1, <2>2, <2>3, <2>4
<1> QED
  BY <1>1, <1>3, <1>4, LevelsStep

LEMMA LimitsOrdered ==
    ASSUME NEW a \in Accounts
    PROVE  /\ Limit(a, "low") \in Nat /\ Limit(a, "normal") \in Nat
           /\ Limit(a, "low") = QueueLimit[a] - QueueLimit[a] \div 4
           /\ Limit(a, "normal") = QueueLimit[a]
           /\ QueueLimit[a] \div 4 \in Nat
           /\ Limit(a, "low") <= Limit(a, "normal")
<1>1. QueueLimit[a] \in Nat
  BY SendQueueAssumption
<1>2. QueueLimit[a] \div 4 \in Nat /\ QueueLimit[a] \div 4 <= QueueLimit[a]
  BY <1>1
<1> QED
  BY <1>1, <1>2 DEF Limit

LimitsInv == QueuedInv /\ \A a \in Accounts : LevelsOK(a)

LEMMA LimitsAlways == SendSpec => []LimitsInv
<1>1. SendInit => LimitsInv
  <2> SUFFICES ASSUME SendInit PROVE LimitsInv
    OBVIOUS
  <2>1. OnTheWay(Working) = {} /\ \A a \in Accounts : queued[a] = 0
    BY DEF SendInit, Init, OnTheWay, Busy
  <2>2. \A a \in Accounts : WaitingOf(a) = {}
    BY <2>1 DEF WaitingOf
  <2>3. \A a \in Accounts : AtLevelsOf(a, Bulk) = {} /\ AtLevelsOf(a, Limited) = {}
    BY <2>2 DEF AtLevelsOf, AtLevels
  <2>4. ASSUME NEW a \in Accounts PROVE LevelsOK(a)
    <3>1. Limit(a, "low") \in Nat /\ Limit(a, "normal") \in Nat
      BY LimitsOrdered
    <3>2. /\ Cardinality(AtLevelsOf(a, Bulk)) = 0
          /\ Cardinality(AtLevelsOf(a, Limited)) = 0
      BY <2>3, FS_EmptySet
    <3> QED
      BY <3>1, <3>2 DEF LevelsOK
  <2> QED
    BY <2>1, <2>2, <2>4, QueueInit, FS_EmptySet DEF QueuedInv, LimitsInv
<1>2. LimitsInv /\ [SendNext]_sendVars => LimitsInv'
  <2> SUFFICES ASSUME LimitsInv, [SendNext]_sendVars PROVE LimitsInv'
    OBVIOUS
  <2>1. QueuedInv /\ QueuedInv'
    BY QueuedStep DEF LimitsInv
  <2>2. ASSUME NEW a \in Accounts PROVE LevelsOK(a)'
    <3>1. /\ Cardinality(AtLevelsOf(a, Bulk)) <= Limit(a, "low")
          /\ Cardinality(AtLevelsOf(a, Limited)) <= Limit(a, "normal")
      BY DEF LimitsInv, LevelsOK
    <3>2. /\ Limit(a, "low") \in Int /\ Limit(a, "normal") \in Int
          /\ \A p \in Bulk : Limit(a, p) <= Limit(a, "low")
          /\ \A p \in Limited : Limit(a, p) <= Limit(a, "normal")
      BY LimitsOrdered DEF Bulk, Limited
    <3>3. Cardinality(AtLevelsOf(a, Bulk)') <= Limit(a, "low")
      BY <2>1, <3>1, <3>2, LevelsKept
    <3>4. Cardinality(AtLevelsOf(a, Limited)') <= Limit(a, "normal")
      BY <2>1, <3>1, <3>2, LevelsKept
    <3>5. Limit(a, "low")' = Limit(a, "low") /\ Limit(a, "normal")' = Limit(a, "normal")
      BY DEF Limit
    <3> QED
      BY <3>3, <3>4, <3>5 DEF LevelsOK, Bulk, Limited
  <2> QED
    BY <2>1, <2>2 DEF LimitsInv
<1> QED
  BY <1>1, <1>2, PTL DEF SendSpec

\* queued is exactly the account's jobs that wait: the limit of a queue is
\* neither reached early nor passed, and whatever way a job ends, its slot
\* comes back.  Whatever the limit is, LOW never takes more of a queue than
\* its share, and LOW and NORMAL together never more than the whole.
THEOREM QueuedAlwaysExact == SendSpec => []QueuedExact
<1>1. LimitsInv => QueuedExact
  <2> SUFFICES ASSUME LimitsInv, NEW a \in Accounts
               PROVE  LET mine == { s \in Waiting : log[s].acct = a }
                      IN  /\ queued[a] = Cardinality(mine)
                          /\ Cardinality(AtLevels(mine, { "low" })) <= Limit(a, "low")
                          /\ Cardinality(AtLevels(mine, { "low", "normal" }))
                                <= Limit(a, "normal")
    BY DEF QueuedExact
  <2>1. { s \in Waiting : log[s].acct = a } = WaitingOf(a)
    BY OnTheWayIs DEF LimitsInv, QueuedInv, QueueInv, WaitingOf
  <2> QED
    BY <2>1 DEF LimitsInv, QueuedInv, LevelsOK, AtLevelsOf, Bulk, Limited
<1> QED
  BY <1>1, LimitsAlways, PTL

\* The account has nothing but bulk mail waiting.
OnlyBulk(a) == \A s \in Waiting : log[s].acct = a => log[s].prio = "low"

\* While nothing but LOW mail waits, a quarter of the queue, rounded down, is
\* free for NORMAL.
QuarterFree ==
    \A a \in Accounts :
        OnlyBulk(a) => queued[a] + QueueLimit[a] \div 4 <= Limit(a, "normal")

\* "A bulk mailing can never lock out a password reset": a mailing alone, of
\* any size, leaves a quarter of the queue free, so a NORMAL message still
\* gets in (and the limit never refuses HIGH).  The quarter is rounded down: a queue_limit
\* below four keeps nothing, and there a mailing does lock NORMAL out.
THEOREM BulkLeavesAQuarter == SendSpec => []QuarterFree
<1>1. LimitsInv => QuarterFree
  <2> SUFFICES ASSUME LimitsInv, NEW a \in Accounts, OnlyBulk(a)
               PROVE  queued[a] + QueueLimit[a] \div 4 <= Limit(a, "normal")
    BY DEF QuarterFree
  <2>1. Waiting = OnTheWay(Working)
    BY OnTheWayIs DEF LimitsInv, QueuedInv, QueueInv
  <2>2. AtLevelsOf(a, Bulk) = WaitingOf(a)
    BY <2>1 DEF OnlyBulk, AtLevelsOf, AtLevels, WaitingOf, Bulk
  <2>3. queued[a] <= Limit(a, "low") /\ queued[a] \in Int
    BY <2>2 DEF LimitsInv, LevelsOK, QueuedInv, QueueInv, SendTypes
  <2>4. QueueLimit[a] \in Nat
    BY SendQueueAssumption
  <2> QED
    BY <2>3, <2>4, LimitsOrdered
<1> QED
  BY <1>1, LimitsAlways, PTL

-----------------------------------------------------------------------------
(* Where the answers are.                                                  *)

SeqsOf(c) == { c[i].seq : i \in DOMAIN c }
RecordsOf(c) == { c[i] : i \in DOMAIN c }

\* No job has two answers in a channel.
Apart(c) == \A i, j \in DOMAIN c : c[i].seq = c[j].seq => i = j

LEMMA AppendAnswer ==
    ASSUME NEW c \in Seq(Results), NEW r \in Results
    PROVE  /\ SeqsOf(Append(c, r)) = SeqsOf(c) \cup { r.seq }
           /\ RecordsOf(Append(c, r)) = RecordsOf(c) \cup {r}
           /\ Apart(c) /\ r.seq \notin SeqsOf(c) => Apart(Append(c, r))
<1> PICK d : d = Append(c, r)
  OBVIOUS
<1>1. /\ DOMAIN d = DOMAIN c \cup { Len(c) + 1 }
      /\ d[Len(c) + 1] = r
      /\ \A i \in DOMAIN c : d[i] = c[i] /\ i # Len(c) + 1
  OBVIOUS
<1>2. SeqsOf(d) = SeqsOf(c) \cup { r.seq }
  BY <1>1 DEF SeqsOf
<1>3. RecordsOf(d) = RecordsOf(c) \cup {r}
  BY <1>1 DEF RecordsOf
<1>4. ASSUME Apart(c), r.seq \notin SeqsOf(c) PROVE Apart(d)
  BY <1>1, <1>4 DEF Apart, SeqsOf
<1> QED
  BY <1>2, <1>3, <1>4

LEMMA TailAnswer ==
    ASSUME NEW c \in Seq(Results), c # << >>
    PROVE  /\ Head(c) \in Results /\ Tail(c) \in Seq(Results)
           /\ SeqsOf(c) = SeqsOf(Tail(c)) \cup { Head(c).seq }
           /\ RecordsOf(c) = RecordsOf(Tail(c)) \cup { Head(c) }
           /\ Apart(c) => Apart(Tail(c)) /\ Head(c).seq \notin SeqsOf(Tail(c))
<1> PICK d, h, n : d = Tail(c) /\ h = Head(c) /\ n = Len(c)
  OBVIOUS
<1>1. /\ h \in Results /\ d \in Seq(Results) /\ h = c[1]
      /\ n \in Nat /\ n > 0 /\ DOMAIN c = 1 .. n /\ DOMAIN d = 1 .. (n - 1)
      /\ \A i \in 1 .. (n - 1) : d[i] = c[i + 1]
  BY HeadTailProperties, LenProperties
<1>2. /\ \A i \in 1 .. (n - 1) : i + 1 \in 1 .. n /\ i + 1 # 1
      /\ \A i \in 1 .. n : i = 1 \/ (i - 1 \in 1 .. (n - 1) /\ i = (i - 1) + 1)
      /\ 1 \in 1 .. n
  BY <1>1
<1>3. ASSUME NEW i \in 1 .. n PROVE c[i] = h \/ c[i] \in RecordsOf(d)
  <2>1. CASE i = 1
    BY <1>1, <2>1
  <2>2. CASE i # 1
    <3>1. i - 1 \in 1 .. (n - 1) /\ c[i] = d[i - 1]
      BY <1>1, <1>2, <2>2
    <3> QED
      BY <1>1, <3>1 DEF RecordsOf
  <2> QED
    BY <2>1, <2>2
<1>4. RecordsOf(c) = RecordsOf(d) \cup {h}
  <2>1. \A x \in RecordsOf(c) : x \in RecordsOf(d) \/ x = h
    <3>1. \A x \in RecordsOf(c) : \E i \in 1 .. n : x = c[i]
      BY <1>1 DEF RecordsOf
    <3> QED
      BY <1>3, <3>1
  <2>2. h \in RecordsOf(c)
    BY <1>1, <1>2 DEF RecordsOf
  <2>3. \A x \in RecordsOf(d) : x \in RecordsOf(c)
    BY <1>1, <1>2 DEF RecordsOf
  <2> QED
    BY <2>1, <2>2, <2>3
<1>5. /\ SeqsOf(c) = { x.seq : x \in RecordsOf(c) }
      /\ SeqsOf(d) = { x.seq : x \in RecordsOf(d) }
  BY DEF SeqsOf, RecordsOf
<1>6. SeqsOf(c) = SeqsOf(d) \cup { h.seq }
  BY <1>4, <1>5
<1>7. ASSUME Apart(c) PROVE Apart(d) /\ h.seq \notin SeqsOf(d)
  <2>1. Apart(d)
    <3> SUFFICES ASSUME NEW i \in 1 .. (n - 1), NEW j \in 1 .. (n - 1),
                        d[i].seq = d[j].seq
                 PROVE  i = j
      BY <1>1 DEF Apart
    <3>1. i + 1 = j + 1
      BY <1>1, <1>2, <1>7 DEF Apart
    <3> QED
      BY <3>1
  <2>2. ASSUME NEW i \in 1 .. (n - 1) PROVE d[i].seq # h.seq
    BY <1>1, <1>2, <1>7 DEF Apart
  <2> QED
    BY <1>1, <2>1, <2>2 DEF SeqsOf
<1> QED
  BY <1>1, <1>4, <1>6, <1>7

ToldSeqs == { r.seq : r \in told }

\* Every accepted job owes an answer, or its answer is in one place.
Homed ==
    LET owed == OnTheWay(Answering)
        sentBack == SeqsOf(results)
        polled == SeqsOf(batch)
    IN  /\ Apart(results) /\ Apart(batch)
        /\ \A q, r \in told : q.seq = r.seq => q = r
        /\ owed \cap sentBack = {} /\ owed \cap polled = {}
        /\ owed \cap ToldSeqs = {} /\ sentBack \cap polled = {}
        /\ sentBack \cap ToldSeqs = {} /\ polled \cap ToldSeqs = {}
        /\ Submitted = owed \cup sentBack \cup polled \cup ToldSeqs

HomedInv == QueueInv /\ Homed

LEMMA HomedInit == SendInit => HomedInv
<1> SUFFICES ASSUME SendInit PROVE HomedInv
  OBVIOUS
<1>1. /\ OnTheWay(Answering) = {} /\ results = << >> /\ batch = << >>
      /\ told = {} /\ Submitted = {}
  BY SchedulerAssumption
  DEF SendInit, Init, OnTheWay, Busy, Submitted, Seqs
<1>2. SeqsOf(<< >>) = {} /\ Apart(<< >>) /\ ToldSeqs = {}
  BY <1>1 DEF SeqsOf, Apart, ToldSeqs
<1> QED
  BY <1>1, <1>2, QueueInit DEF HomedInv, Homed

LEMMA HomedStep ==
    ASSUME HomedInv, [SendNext]_sendVars
    PROVE  HomedInv'
<1>1. QueueInv /\ QueueInv' /\ Inherited
  BY QueueStep DEF HomedInv, QueueInv
<1>2. results \in Seq(Results) /\ batch \in Seq(Results) /\ nextSeq \in Nat
  BY <1>1, QueueFacts DEF QueueInv, SendTypes
<1> PICK O, R, B, T, S :
      /\ O = OnTheWay(Answering) /\ R = SeqsOf(results) /\ B = SeqsOf(batch)
      /\ T = ToldSeqs /\ S = Submitted
  OBVIOUS
<1>3. /\ Apart(results) /\ Apart(batch)
      /\ \A q, r \in told : q.seq = r.seq => q = r
      /\ O \cap R = {} /\ O \cap B = {} /\ O \cap T = {}
      /\ R \cap B = {} /\ R \cap T = {} /\ B \cap T = {}
      /\ S = O \cup R \cup B \cup T
  BY DEF HomedInv, Homed
<1>4. nextSeq' = nextSeq => Submitted' = S
  BY DEF Submitted
<1>5. UNCHANGED told => ToldSeqs' = T
  BY DEF ToldSeqs
<1>6. CASE /\ \E a \in Accounts, o \in Offers : Submit(a, o.prio, o.test)
           /\ OnTheWay(Answering)' = O \cup { nextSeq } /\ nextSeq \notin O
           /\ nextSeq \in Seqs /\ nextSeq' = nextSeq + 1
           /\ UNCHANGED << results, batch, told >>
  <2>1. Submitted' = S \cup { nextSeq } /\ nextSeq \notin S
    BY <1>2, <1>6 DEF Submitted, Seqs
  <2>2. nextSeq \notin R /\ nextSeq \notin B /\ nextSeq \notin T
    BY <1>3, <2>1
  <2> QED
    BY <1>1, <1>3, <1>5, <1>6, <2>1, <2>2 DEF HomedInv, Homed
<1>7. ASSUME NEW w \in Workers, SendResult(w), w \in Busy, held[w].seq \in O,
             OnTheWay(Answering)' = O \ { held[w].seq }, nextSeq' = nextSeq,
             results' = Append(results, [seq |-> held[w].seq,
                                         ok |-> outcome[w] = "ok"]),
             UNCHANGED << batch, told >>
      PROVE  HomedInv'
  <2> PICK s, r : s = held[w].seq /\ r = [seq |-> s, ok |-> outcome[w] = "ok"]
    OBVIOUS
  <2>1. s \in O /\ r \in Results /\ r.seq = s /\ results' = Append(results, r)
    BY <1>1, <1>7, QueueFacts DEF Results
  <2>2. SeqsOf(results)' = R \cup {s} /\ Apart(results)'
    BY <1>2, <1>3, <2>1, AppendAnswer
  <2>3. SeqsOf(batch)' = B /\ ToldSeqs' = T /\ Submitted' = S
    BY <1>4, <1>5, <1>7
  <2>4. OnTheWay(Answering)' = O \ {s}
    BY <1>7
  <2> QED
    BY <1>1, <1>3, <1>7, <2>1, <2>2, <2>3, <2>4 DEF HomedInv, Homed
<1>8. CASE (Poll \/ Announce) /\ OnTheWay(Answering)' = O /\ nextSeq' = nextSeq
  <2>1. CASE Poll
    <3>1. /\ batch = << >> /\ batch' = results /\ results' = << >>
          /\ told' = told
      BY <2>1 DEF Poll
    <3>2. SeqsOf(<< >>) = {} /\ Apart(<< >>)
      BY DEF SeqsOf, Apart
    <3>3. /\ B = {} /\ SeqsOf(batch)' = R /\ SeqsOf(results)' = {}
          /\ Apart(batch)' /\ Apart(results)' /\ ToldSeqs' = T
      BY <1>3, <1>5, <3>1, <3>2
    <3> QED
      BY <1>1, <1>3, <1>4, <1>8, <3>1, <3>3 DEF HomedInv, Homed
  <2>2. CASE Announce
    <3> PICK h : h = Head(batch)
      OBVIOUS
    <3>1. /\ batch # << >> /\ batch' = Tail(batch) /\ results' = results
          /\ told' = told \cup {h}
      BY <2>2 DEF Announce
    <3>2. /\ B = SeqsOf(batch)' \cup { h.seq } /\ h.seq \notin SeqsOf(batch)'
          /\ Apart(batch)'
      BY <1>2, <1>3, <3>1, TailAnswer
    <3>3. ToldSeqs' = T \cup { h.seq }
      BY <3>1 DEF ToldSeqs
    <3>4. h.seq \notin T /\ h.seq \notin O /\ h.seq \notin R
      BY <1>3, <3>2
    <3>5. \A q, r \in told' : q.seq = r.seq => q = r
      BY <1>3, <3>1, <3>4 DEF ToldSeqs
    <3>6. SeqsOf(results)' = R /\ Apart(results)' /\ Submitted' = S
      BY <1>3, <1>4, <1>8, <3>1
    <3>7. OnTheWay(Answering)' = O
      BY <1>8
    <3> PICK P : P = SeqsOf(batch)'
      OBVIOUS
    <3>8. /\ O \cap P = {} /\ R \cap P = {} /\ P \cap ToldSeqs' = {}
          /\ O \cap ToldSeqs' = {} /\ R \cap ToldSeqs' = {}
          /\ S = O \cup R \cup P \cup ToldSeqs'
      BY <1>3, <3>2, <3>3, <3>4
    <3> QED
      BY <1>1, <1>3, <3>2, <3>5, <3>6, <3>7, <3>8 DEF HomedInv, Homed
  <2> QED
    BY <1>8, <2>1, <2>2
<1>9. CASE /\ OnTheWay(Answering)' = O /\ nextSeq' = nextSeq
           /\ UNCHANGED << results, batch, told >>
  BY <1>1, <1>3, <1>4, <1>5, <1>9 DEF HomedInv, Homed
<1> QED
  BY <1>1, <1>6, <1>7, <1>8, <1>9, OwedStep

\* A job that is somewhere is in one place.
LEMMA OneHomeIs ==
    ASSUME HomedInv, NEW s \in Submitted
    PROVE  Cardinality(Homes(s)) = 1
<1> PICK E, W, R, B, T :
      /\ E = { f \in entries : f.seq = s }
      /\ W = { v \in Busy : pc[v] # "settle" /\ held[v].seq = s }
      /\ R = { j \in DOMAIN results : results[j].seq = s }
      /\ B = { j \in DOMAIN batch : batch[j].seq = s }
      /\ T = { q \in told : q.seq = s }
  OBVIOUS
<1>1. Inherited /\ OneOwner
  BY QueueFacts DEF HomedInv, QueueInv
<1>2. /\ \A x, y \in E : x = y
      /\ \A x, y \in W : x = y
      /\ E # {} => W = {}
  BY <1>1 DEF OneOwner
<1>3. /\ \A x, y \in R : x = y
      /\ \A x, y \in B : x = y
      /\ \A x, y \in T : x = y
  BY DEF HomedInv, Homed, Apart
<1>4. \A v \in Busy : pc[v] \in Answering <=> pc[v] # "settle"
  BY <1>1, QueueFacts
  DEF Busy, Holding, Answering, Working, SendPCs, PCs
<1>5. s \in OnTheWay(Answering) <=> E # {} \/ W # {}
  BY <1>4 DEF OnTheWay
<1>6. /\ s \in SeqsOf(results) <=> R # {}
      /\ s \in SeqsOf(batch) <=> B # {}
      /\ s \in ToldSeqs <=> T # {}
  BY DEF SeqsOf, ToldSeqs
<1>7. /\ E # {} \/ W # {} \/ R # {} \/ B # {} \/ T # {}
      /\ E # {} \/ W # {} => R = {} /\ B = {} /\ T = {}
      /\ R # {} => B = {} /\ T = {}
      /\ B # {} => T = {}
  BY <1>5, <1>6 DEF HomedInv, Homed
<1>8. Homes(s) = { << "queue", e >> : e \in E } \cup
                 { << "worker", w >> : w \in W } \cup
                 { << "channel", i >> : i \in R } \cup
                 { << "batch", i >> : i \in B } \cup
                 { << "told", r >> : r \in T }
  BY DEF Homes
<1>9. \E x : Homes(s) = {x}
  <2>1. CASE E # {}
    <3> PICK x : x \in E
      BY <2>1
    <3>1. E = {x} /\ W = {} /\ R = {} /\ B = {} /\ T = {}
      BY <1>2, <1>7
    <3>2. Homes(s) = { << "queue", x >> }
      BY <1>8, <3>1
    <3> QED
      BY <3>2
  <2>2. CASE E = {} /\ W # {}
    <3> PICK x : x \in W
      BY <2>2
    <3>1. W = {x} /\ R = {} /\ B = {} /\ T = {}
      BY <1>2, <1>7
    <3>2. Homes(s) = { << "worker", x >> }
      BY <1>8, <2>2, <3>1
    <3> QED
      BY <3>2
  <2>3. CASE E = {} /\ W = {} /\ R # {}
    <3> PICK x : x \in R
      BY <2>3
    <3>1. R = {x} /\ B = {} /\ T = {}
      BY <1>3, <1>7
    <3>2. Homes(s) = { << "channel", x >> }
      BY <1>8, <2>3, <3>1
    <3> QED
      BY <3>2
  <2>4. CASE E = {} /\ W = {} /\ R = {} /\ B # {}
    <3> PICK x : x \in B
      BY <2>4
    <3>1. B = {x} /\ T = {}
      BY <1>3, <1>7
    <3>2. Homes(s) = { << "batch", x >> }
      BY <1>8, <2>4, <3>1
    <3> QED
      BY <3>2
  <2>5. CASE E = {} /\ W = {} /\ R = {} /\ B = {}
    <3> PICK x : x \in T
      BY <1>7, <2>5
    <3>1. T = {x}
      BY <1>3
    <3>2. Homes(s) = { << "told", x >> }
      BY <1>8, <2>5, <3>1
    <3> QED
      BY <3>2
  <2> QED
    BY <2>1, <2>2, <2>3, <2>4, <2>5
<1> QED
  BY <1>9, FS_Singleton

LEMMA HomedAlways == SendSpec => []HomedInv
<1>1. HomedInv /\ [SendNext]_sendVars => HomedInv'
  BY HomedStep
<1> QED
  BY <1>1, HomedInit, PTL DEF SendSpec

\* An accepted job is in exactly one place from its submission to its
\* callback: none is lost, and none is answered or announced twice.
THEOREM OneHomeAlways == SendSpec => []OneHome
<1>1. HomedInv => OneHome
  BY OneHomeIs DEF OneHome
<1> QED
  BY <1>1, HomedAlways, PTL

-----------------------------------------------------------------------------
(* What drain returns.                                                     *)

DrainInv ==
    /\ HomedInv /\ FlightInv
    /\ phase = "unloaded" /\ lost = 0 => OnTheWay(Holding) = {}

\* Only a submission adds a job.
LEMMA NoneAdded ==
    ASSUME Inherited, [SendNext]_sendVars
    PROVE  \/ \E a \in Accounts, o \in Offers : Submit(a, o.prio, o.test)
           \/ OnTheWay(Holding)' \subseteq OnTheWay(Holding)
<1>1. ASSUME NEW w \in Workers, Schedule(w)
      PROVE  OnTheWay(Holding)' \subseteq OnTheWay(Holding)
  BY <1>1, ScheduleOnTheWay DEF Holding, Answering
<1>2. ASSUME NEW w \in Workers, Unqueue(w) \/ Count(w) \/ SendResult(w)
      PROVE  OnTheWay(Holding)' \subseteq OnTheWay(Holding)
  <2>1. PICK from \in Holding, to \in Holding : Goto(w, from, to)
    BY <1>2 DEF Unqueue, Count, SendResult, Holding, Answering, Working
  <2>2. entries' = entries /\ held' = held
    BY <1>2 DEF Unqueue, Count, SendResult, WorkerKeeps
  <2> QED
    BY <2>1, <2>2, FinishOnTheWay
<1>3. ASSUME NEW w \in Workers, Settle(w)
      PROVE  OnTheWay(Holding)' \subseteq OnTheWay(Holding)
  BY <1>3, SettleOnTheWay
<1>4. ASSUME Elsewhere PROVE OnTheWay(Holding)' \subseteq OnTheWay(Holding)
  BY <1>4, ElsewhereOnTheWay
<1> QED
  BY <1>1, <1>2, <1>3, <1>4 DEF SendNext, Work, Elsewhere

LEMMA DrainStep ==
    ASSUME DrainInv, [SendNext]_sendVars
    PROVE  DrainInv'
<1>1. HomedInv' /\ FlightInv' /\ Inherited
  BY HomedStep, FlightStep DEF DrainInv, HomedInv, QueueInv
<1> SUFFICES ASSUME phase' = "unloaded", lost' = 0
             PROVE  OnTheWay(Holding)' = {}
  BY <1>1 DEF DrainInv
<1>2. ASSUME inFlight = 0 PROVE OnTheWay(Holding) = {}
  <2>1. IsFiniteSet(OnTheWay(Holding)) /\ Cardinality(OnTheWay(Holding)) = 0
    BY <1>1, <1>2, OnTheWayFinite DEF DrainInv, FlightInv
  <2> QED
    BY <2>1, FS_EmptySet
<1>3. inFlight \in Nat
  BY <1>1, OnTheWayFinite, FS_CardinalityType DEF DrainInv, FlightInv
<1>4. ASSUME NEW a \in Accounts, NEW o \in Offers, Submit(a, o.prio, o.test)
      PROVE  FALSE
  BY <1>4 DEF Submit, mainThread
<1>5. CASE BeginUnload
  <2>1. inFlight = 0
    BY <1>3, <1>5 DEF BeginUnload
  <2> QED
    BY <1>2, <1>5, <2>1, ElsewhereOnTheWay DEF Elsewhere
<1>6. CASE Drained
  <2>1. inFlight = 0
    BY <1>6 DEF Drained
  <2> QED
    BY <1>2, <1>6, <2>1, ElsewhereOnTheWay DEF Elsewhere
<1>7. ASSUME phase' = phase, lost' = lost PROVE OnTheWay(Holding)' = {}
  BY <1>1, <1>4, <1>7, NoneAdded DEF DrainInv
<1>8. ASSUME NEW w \in Workers, Work(w) PROVE phase' = phase /\ lost' = lost
  BY <1>8 DEF Work, Schedule, Unqueue, Count, SendResult, Settle, WorkerKeeps,
              mainThread
<1>9. ASSUME Poll \/ Announce \/ Drop \/ Clock \/ UNCHANGED sendVars
      PROVE  phase' = phase /\ lost' = lost
  BY <1>9 DEF Poll, Announce, Drop, Clock, mainThread, sendVars
<1> QED
  BY <1>4, <1>5, <1>6, <1>7, <1>8, <1>9 DEF SendNext

\* drain tells the truth: when the unload ends and says that nothing was
\* lost, every accepted job has its outcome, and no job is left with a
\* worker or in the queue.
THEOREM DrainAlwaysTruthful == SendSpec => []DrainTruthful
<1>1. SendInit => DrainInv
  BY HomedInit, FlightInit DEF SendInit, DrainInv
<1>2. DrainInv /\ [SendNext]_sendVars => DrainInv'
  BY DrainStep
<1>3. DrainInv => DrainTruthful
  <2> SUFFICES ASSUME DrainInv, phase = "unloaded", lost = 0,
                      NEW s \in Submitted
               PROVE  \E r \in Known : r.seq = s
    BY DEF DrainTruthful
  <2>1. OnTheWay(Answering) = {}
    BY DEF DrainInv, OnTheWay, Holding
  <2>2. s \in SeqsOf(results) \/ s \in SeqsOf(batch) \/ s \in ToldSeqs
    BY <2>1 DEF DrainInv, HomedInv, Homed
  <2> QED
    BY <2>2 DEF Known, SeqsOf, ToldSeqs
<1> QED
  BY <1>1, <1>2, <1>3, PTL DEF SendSpec

-----------------------------------------------------------------------------
(* A result is counted before it is told.                                  *)

\* What a worker says of the job it finished, and the workers that are about
\* to say it.
Record(w) == [seq |-> held[w].seq, ok |-> outcome[w] = "ok"]
Reporting == { Record(w) : w \in { v \in Busy : pc[v] = "report" } }

\* The outcomes that are known to the main thread or about to be.
Decided == Known \cup Reporting

LEMMA KnownIs == Known = RecordsOf(results) \cup RecordsOf(batch) \cup told
  BY DEF Known, RecordsOf

LEMMA RecordType ==
    ASSUME Inherited, NEW w \in Busy
    PROVE  /\ Record(w) \in Results /\ Record(w).seq = held[w].seq
           /\ Record(w).ok = (outcome[w] = "ok")
  BY QueueFacts DEF Record, Results

LEMMA DecidedTypes ==
    ASSUME HomedInv
    PROVE  /\ \A r \in Decided : r \in Results /\ r.seq \in Seqs /\ r.seq < nextSeq
           /\ \A r \in Known : /\ r.seq \in Submitted
                               /\ r.seq \notin OnTheWay(Answering)
<1>1. Inherited /\ SendTypes
  BY DEF HomedInv, QueueInv
<1>2. \A r \in Reporting : r \in Results /\ r.seq < nextSeq
  BY <1>1, RecordType, QueueFacts DEF Reporting
<1>3. \A r \in Known : r \in Results
  <2>1. /\ \A i \in DOMAIN results : results[i] \in Results
        /\ \A i \in DOMAIN batch : batch[i] \in Results
    BY <1>1 DEF SendTypes
  <2> QED
    BY <1>1, <2>1 DEF Known, SendTypes
<1>4. \A r \in Known :
        r.seq \in SeqsOf(results) \cup SeqsOf(batch) \cup ToldSeqs
  BY DEF Known, SeqsOf, ToldSeqs
<1>5. \A r \in Known : /\ r.seq \in Submitted
                       /\ r.seq \notin OnTheWay(Answering)
  BY <1>4 DEF HomedInv, Homed
<1>6. \A r \in Known : r.seq < nextSeq
  BY <1>5 DEF Submitted
<1>7. \A r \in Results : r.seq \in Seqs
  BY DEF Results
<1> QED
  BY <1>2, <1>3, <1>5, <1>6, <1>7 DEF Decided

\* The main thread's steps decide nothing.
LEMMA KnownElsewhere ==
    ASSUME SendTypes, Elsewhere
    PROVE  Known' = Known
<1>1. CASE Poll
  <2>1. RecordsOf(<< >>) = {}
    BY DEF RecordsOf
  <2> QED
    BY <1>1, <2>1, KnownIs DEF Poll, Known, RecordsOf
<1>2. CASE Announce
  <2>1. /\ batch # << >> /\ batch' = Tail(batch) /\ results' = results
        /\ told' = told \cup { Head(batch) }
    BY <1>2 DEF Announce
  <2>2. RecordsOf(batch) = RecordsOf(batch') \cup { Head(batch) }
    BY <2>1, TailAnswer DEF SendTypes
  <2> QED
    BY <2>1, <2>2 DEF Known, RecordsOf
<1>3. CASE BeginUnload \/ Drained \/ Drop \/ Clock \/ UNCHANGED sendVars
  BY <1>3 DEF BeginUnload, Drained, Drop, Clock, Known, mainThread, sendVars
<1> QED
  BY <1>1, <1>2, <1>3 DEF Elsewhere

\* Only the step that counts a job decides its outcome.
LEMMA DecidedStep ==
    ASSUME QueueInv, [SendNext]_sendVars
    PROVE  \/ Decided' \subseteq Decided /\ sent' = sent /\ failed' = failed
           \/ \E w \in Busy : Count(w) /\ Decided' \subseteq Decided \cup { Record(w) }
<1>1. Inherited /\ SendTypes
  BY DEF QueueInv
<1>2. ASSUME \A v \in Busy' : pc'[v] = "report" =>
               /\ v \in Busy /\ pc[v] = "report"
               /\ held'[v] = held[v] /\ outcome'[v] = outcome[v]
      PROVE  Reporting' \subseteq Reporting
  BY <1>2 DEF Reporting, Record
<1>3. ASSUME NEW a \in Accounts, NEW o \in Offers, Submit(a, o.prio, o.test)
      PROVE  Decided' \subseteq Decided /\ sent' = sent /\ failed' = failed
  <2>1. /\ Busy' = Busy /\ held' = held /\ outcome' = outcome
        /\ \A w \in Busy : pc'[w] = pc[w]
    BY <1>1, <1>3, SubmitOnTheWay DEF Submit, Enqueue
  <2>2. Reporting' \subseteq Reporting
    BY <1>2, <2>1
  <2>3. Known' = Known /\ sent' = sent /\ failed' = failed
    BY <1>3 DEF Submit, Known, mainThread
  <2> QED
    BY <2>2, <2>3 DEF Decided
<1>4. ASSUME NEW w \in Workers, Schedule(w)
      PROVE  Decided' \subseteq Decided /\ sent' = sent /\ failed' = failed
  <2>1. \A v \in Workers : v # w => pc'[v] = pc[v] /\ held'[v] = held[v]
    BY <1>1, <1>4, WorkerFrame
  <2>2. /\ pc'[w] \in { "retired", "taking", "attempt", "finish", "requeue",
                        "idle" }
        /\ \A v \in Workers : v # w => outcome'[v] = outcome[v]
    BY <1>1, <1>4, QueueFacts
    DEF Schedule, Retire, Scan, Take, Requeue, Attempt, AttemptDry,
        AttemptUnbuilt, AttemptAccepted, AttemptFailed, AttemptPanics,
        Finish, Goto
  <2>3. Reporting' \subseteq Reporting
    BY <1>2, <2>1, <2>2 DEF Busy
  <2>4. Known' = Known /\ sent' = sent /\ failed' = failed
    BY <1>4 DEF Schedule, Known, mainThread, stats
  <2> QED
    BY <2>3, <2>4 DEF Decided
<1>5. ASSUME NEW w \in Workers, Unqueue(w)
      PROVE  Decided' \subseteq Decided /\ sent' = sent /\ failed' = failed
  <2>1. pc' = [pc EXCEPT ![w] = "count"] /\ held' = held /\ outcome' = outcome
    BY <1>5 DEF Unqueue, Goto
  <2>2. Reporting' \subseteq Reporting
    BY <1>1, <1>2, <2>1, QueueFacts DEF Busy
  <2>3. Known' = Known /\ sent' = sent /\ failed' = failed
    BY <1>5 DEF Unqueue, WorkerKeeps, Known, mainThread
  <2> QED
    BY <2>2, <2>3 DEF Decided
<1>6. ASSUME NEW w \in Workers, Count(w)
      PROVE  w \in Busy /\ Decided' \subseteq Decided \cup { Record(w) }
  <2>1. /\ pc[w] = "count" /\ pc' = [pc EXCEPT ![w] = "report"]
        /\ held' = held /\ outcome' = outcome
    BY <1>6 DEF Count, Goto
  <2>2. w \in Busy /\ Record(w)' = Record(w)
    BY <2>1 DEF Busy, Record
  <2>3. \A v \in Busy' : pc'[v] = "report" /\ v # w =>
                           v \in Busy /\ pc[v] = "report"
    BY <1>1, <2>1, QueueFacts DEF Busy
  <2>4. Reporting' \subseteq Reporting \cup { Record(w)' }
    BY <2>1, <2>3 DEF Reporting, Record
  <2>5. Known' = Known
    BY <1>6 DEF Count, WorkerKeeps, Known, mainThread
  <2> QED
    BY <2>2, <2>4, <2>5 DEF Decided
<1>7. ASSUME NEW w \in Workers, SendResult(w)
      PROVE  Decided' \subseteq Decided /\ sent' = sent /\ failed' = failed
  <2>1. /\ pc[w] = "report" /\ pc' = [pc EXCEPT ![w] = "settle"]
        /\ held' = held /\ outcome' = outcome
        /\ sent' = sent /\ failed' = failed
        /\ results' = Append(results, Record(w))
        /\ batch' = batch /\ told' = told
    BY <1>7 DEF SendResult, Goto, WorkerKeeps, mainThread, stats, Record
  <2>2. w \in Busy /\ Record(w) \in Reporting
    BY <2>1 DEF Busy, Reporting
  <2>3. Reporting' \subseteq Reporting
    BY <1>1, <1>2, <2>1, QueueFacts DEF Busy
  <2>4. RecordsOf(results') = RecordsOf(results) \cup { Record(w) }
    BY <1>1, <2>1, <2>2, RecordType, AppendAnswer DEF SendTypes
  <2>5. Known' = Known \cup { Record(w) }
    BY <2>1, <2>4 DEF Known, RecordsOf
  <2> QED
    BY <2>1, <2>2, <2>3, <2>5 DEF Decided
<1>8. ASSUME NEW w \in Workers, Settle(w)
      PROVE  Decided' \subseteq Decided /\ sent' = sent /\ failed' = failed
  <2>1. /\ pc' = [pc EXCEPT ![w] = "idle"]
        /\ held' = [held EXCEPT ![w] = NoEntry]
        /\ outcome' = [outcome EXCEPT ![w] = "none"]
    BY <1>8 DEF Settle, Goto
  <2>2. Reporting' \subseteq Reporting
    BY <1>1, <1>2, <2>1, QueueFacts DEF Busy
  <2>3. Known' = Known /\ sent' = sent /\ failed' = failed
    BY <1>8 DEF Settle, WorkerKeeps, Known, mainThread, stats
  <2> QED
    BY <2>2, <2>3 DEF Decided
<1>9. ASSUME Elsewhere
      PROVE  Decided' \subseteq Decided /\ sent' = sent /\ failed' = failed
  <2>1. Reporting' \subseteq Reporting
    BY <1>2, <1>9, ElsewhereOnTheWay
  <2> QED
    BY <1>1, <1>9, <2>1, KnownElsewhere, ElsewhereOnTheWay DEF Decided
<1> QED
  BY <1>3, <1>4, <1>5, <1>6, <1>7, <1>8, <1>9 DEF SendNext, Work, Elsewhere

\* Of those, the messages of an account that were sent, or that failed.
DecidedMail(a, ok) ==
    { r \in Decided : r.ok = ok /\ log[r.seq].acct = a /\ ~log[r.seq].test }

CountedInv ==
    /\ HomedInv
    /\ \A a \in Accounts :
         /\ sent[a] >= Cardinality(DecidedMail(a, TRUE))
         /\ failed[a] >= Cardinality(DecidedMail(a, FALSE))

\* Results that agree on the outcome differ in the job: there are no more of
\* them than jobs.
LEMMA MailFinite ==
    ASSUME HomedInv, NEW a, NEW ok
    PROVE  /\ IsFiniteSet(DecidedMail(a, ok))
           /\ Cardinality(DecidedMail(a, ok)) \in Nat
<1> PICK S : S = DecidedMail(a, ok)
  OBVIOUS
<1> DEFINE f == [r \in S |-> r.seq]
<1>1. \A r \in S : r \in Results /\ r.seq \in Seqs /\ r.ok = ok
  BY DecidedTypes DEF DecidedMail
<1>2. \A q, r \in S : q.seq = r.seq => q = r
  BY <1>1 DEF Results
<1>3. f \in [S -> Seqs]
  BY <1>1
<1>4. \A q, r \in S : f[q] = f[r] => q = r
  BY <1>2
<1> HIDE DEF f
<1>5. f \in Injection(S, Seqs)
  BY <1>3, <1>4 DEF Injection, IsInjective
<1>6. IsFiniteSet(S)
  BY <1>5, SeqsFinite, FS_Injection
<1> QED
  BY <1>6, FS_CardinalityType

LEMMA OneMore ==
    ASSUME NEW S, IsFiniteSet(S), NEW T, NEW r, T \subseteq S \cup {r}
    PROVE  Cardinality(T) <= Cardinality(S) + 1
<1>1. PICK R : R = S \cup {r}
  OBVIOUS
<1>2. /\ IsFiniteSet(R)
      /\ Cardinality(R) = IF r \in S THEN Cardinality(S)
                                     ELSE Cardinality(S) + 1
  BY <1>1, FS_AddElement
<1>3. Cardinality(T) <= Cardinality(R)
  BY <1>1, <1>2, FS_Subset
<1>4. Cardinality(S) \in Nat /\ Cardinality(R) \in Nat /\ Cardinality(T) \in Nat
  BY <1>1, <1>2, FS_Subset, FS_CardinalityType
<1> QED
  BY <1>2, <1>3, <1>4

\* Said of every state, for the step to use it of the next one.
MailMeasured ==
    \A a \in Accounts, ok \in BOOLEAN : Cardinality(DecidedMail(a, ok)) \in Nat

LEMMA CountedStep ==
    ASSUME CountedInv, HomedInv', [SendNext]_sendVars, MailMeasured'
    PROVE  CountedInv'
<1>1. QueueInv /\ Inherited /\ SendTypes
  BY DEF CountedInv, HomedInv, QueueInv
<1> SUFFICES ASSUME NEW a \in Accounts
             PROVE  /\ sent'[a] >= Cardinality(DecidedMail(a, TRUE)')
                    /\ failed'[a] >= Cardinality(DecidedMail(a, FALSE)')
  BY DEF CountedInv
<1>2. ASSUME NEW r \in Decided
      PROVE  /\ log'[r.seq].acct = log[r.seq].acct
             /\ log'[r.seq].test = log[r.seq].test
  BY <1>1, DecidedTypes, SubmittedKept DEF CountedInv
<1>3. sent[a] \in Nat /\ failed[a] \in Nat
  BY <1>1 DEF SendTypes
<1>4. ASSUME NEW ok \in BOOLEAN, DecidedMail(a, ok)' \subseteq DecidedMail(a, ok)
      PROVE  Cardinality(DecidedMail(a, ok)') <= Cardinality(DecidedMail(a, ok))
  BY <1>4, MailFinite, FS_Subset DEF CountedInv
<1>5. ASSUME NEW ok \in BOOLEAN, NEW r,
             DecidedMail(a, ok)' \subseteq DecidedMail(a, ok) \cup {r}
      PROVE  Cardinality(DecidedMail(a, ok)')
               <= Cardinality(DecidedMail(a, ok)) + 1
  BY <1>5, MailFinite, OneMore DEF CountedInv
<1>0. PICK yes, no, yes1, no1 :
      /\ yes = Cardinality(DecidedMail(a, TRUE))
      /\ no = Cardinality(DecidedMail(a, FALSE))
      /\ yes1 = Cardinality(DecidedMail(a, TRUE)')
      /\ no1 = Cardinality(DecidedMail(a, FALSE)')
  OBVIOUS
<1>6. /\ yes \in Nat /\ no \in Nat /\ yes1 \in Nat /\ no1 \in Nat
      /\ sent[a] >= yes /\ failed[a] >= no
  BY <1>0, MailFinite DEF CountedInv, MailMeasured
<1>7. CASE Decided' \subseteq Decided /\ sent' = sent /\ failed' = failed
  <2>1. \A ok \in BOOLEAN : DecidedMail(a, ok)' \subseteq DecidedMail(a, ok)
    BY <1>2, <1>7 DEF DecidedMail
  <2>2. yes1 <= yes /\ no1 <= no
    BY <1>0, <1>4, <2>1
  <2>3. sent'[a] >= yes1 /\ failed'[a] >= no1
    BY <1>3, <1>6, <1>7, <2>2
  <2> QED
    BY <1>0, <2>3
<1>8. ASSUME NEW w \in Busy, Count(w), Decided' \subseteq Decided \cup { Record(w) }
      PROVE  /\ sent'[a] >= Cardinality(DecidedMail(a, TRUE)')
             /\ failed'[a] >= Cardinality(DecidedMail(a, FALSE)')
  <2> PICK b, c, r : /\ b = held[w].acct /\ c = CountsAs(held[w], outcome[w])
                     /\ r = Record(w)
    OBVIOUS
  <2>1. /\ sent' = [sent EXCEPT ![b] = IF c = "sent" THEN @ + 1 ELSE @]
        /\ failed' = [failed EXCEPT ![b] = IF c = "failed" THEN @ + 1 ELSE @]
        /\ log' = log
    BY <1>8 DEF Count, WorkerKeeps
  <2>2. /\ b \in Accounts /\ log[r.seq].acct = b
        /\ log[r.seq].test = IsTest(held[w])
        /\ r.ok = (outcome[w] = "ok") /\ r.ok \in BOOLEAN
        /\ outcome[w] \in { "none", "ok", "failed", "panicked" }
    BY <1>1, QueueFacts, RecordType DEF Busy, Results
  <2>3. \A ok \in BOOLEAN : DecidedMail(a, ok)' \subseteq DecidedMail(a, ok) \cup {r}
    BY <1>8, <2>1 DEF DecidedMail
  <2>4. ASSUME NEW ok \in BOOLEAN, a # b \/ r.ok # ok \/ log[r.seq].test
        PROVE  DecidedMail(a, ok)' \subseteq DecidedMail(a, ok)
    BY <1>8, <2>1, <2>2, <2>4 DEF DecidedMail
  <2>5. ~log[r.seq].test => c = (IF r.ok THEN "sent" ELSE "failed")
    BY <2>2 DEF CountsAs
  <2>6. /\ sent'[a] = IF a = b /\ c = "sent" THEN sent[a] + 1 ELSE sent[a]
        /\ failed'[a] = IF a = b /\ c = "failed" THEN failed[a] + 1 ELSE failed[a]
    BY <1>1, <2>1 DEF SendTypes
  <2>7. yes1 <= yes + 1 /\ no1 <= no + 1
    BY <1>0, <1>5, <2>3
  <2>8. ~(a = b /\ c = "sent") => yes1 <= yes
    <3> SUFFICES ASSUME ~(a = b /\ c = "sent") PROVE yes1 <= yes
      OBVIOUS
    <3>1. a # b \/ r.ok # TRUE \/ log[r.seq].test
      BY <2>5
    <3>2. DecidedMail(a, TRUE)' \subseteq DecidedMail(a, TRUE)
      BY <2>4, <3>1
    <3> QED
      BY <1>0, <1>4, <3>2
  <2>9. ~(a = b /\ c = "failed") => no1 <= no
    <3> SUFFICES ASSUME ~(a = b /\ c = "failed") PROVE no1 <= no
      OBVIOUS
    <3>1. a # b \/ r.ok # FALSE \/ log[r.seq].test
      BY <2>2, <2>5
    <3>2. DecidedMail(a, FALSE)' \subseteq DecidedMail(a, FALSE)
      BY <2>4, <3>1
    <3> QED
      BY <1>0, <1>4, <3>2
  <2>11. PICK s0, f0, s1, f1 : /\ s0 = sent[a] /\ f0 = failed[a]
                            /\ s1 = sent'[a] /\ f1 = failed'[a]
    OBVIOUS
  <2>10. s1 >= yes1 /\ f1 >= no1
    BY <1>3, <1>6, <2>6, <2>7, <2>8, <2>9, <2>11
  <2> QED
    BY <1>0, <2>10, <2>11
<1> QED
  BY <1>1, <1>7, <1>8, DecidedStep

\* A script that reads email_stats from a callback finds the message it was
\* told about counted already, and no longer among those that wait.
THEOREM CountedAlwaysBeforeTold == SendSpec => []CountedBeforeTold
<1>1. SendInit => CountedInv
  <2> SUFFICES ASSUME SendInit PROVE CountedInv
    OBVIOUS
  <2>1. HomedInv
    BY HomedInit
  <2>2. Busy = {} /\ results = << >> /\ batch = << >> /\ told = {}
    BY DEF SendInit, Init, Busy
  <2>3. Decided = {}
    BY <2>2 DEF Decided, Known, Reporting
  <2>4. \A a \in Accounts, ok \in BOOLEAN : DecidedMail(a, ok) = {}
    BY <2>3 DEF DecidedMail
  <2>5. \A a \in Accounts : sent[a] = 0 /\ failed[a] = 0
    BY DEF SendInit
  <2>6. \A a \in Accounts : /\ Cardinality(DecidedMail(a, TRUE)) = 0
                            /\ Cardinality(DecidedMail(a, FALSE)) = 0
    BY <2>4, FS_EmptySet
  <2>7. 0 >= 0
    OBVIOUS
  <2>8. \A a \in Accounts : /\ sent[a] >= Cardinality(DecidedMail(a, TRUE))
                            /\ failed[a] >= Cardinality(DecidedMail(a, FALSE))
    BY <2>5, <2>6, <2>7, Zenon
  <2> QED
    BY <2>1, <2>8 DEF CountedInv
<1>2. HomedInv => MailMeasured
  BY MailFinite DEF MailMeasured
<1>3. CountedInv /\ HomedInv' /\ MailMeasured' /\ [SendNext]_sendVars
        => CountedInv'
  BY CountedStep
<1>4. CountedInv => CountedBeforeTold
  <2> SUFFICES ASSUME CountedInv PROVE CountedBeforeTold
    OBVIOUS
  <2>1. HomedInv /\ Inherited
    BY DEF CountedInv, HomedInv, QueueInv
  <2>2. ASSUME NEW a \in Accounts
        PROVE  /\ sent[a] >= Cardinality(KnownMail(a, TRUE))
               /\ failed[a] >= Cardinality(KnownMail(a, FALSE))
    <3>1. ASSUME NEW ok \in BOOLEAN
          PROVE  /\ Cardinality(KnownMail(a, ok)) <= Cardinality(DecidedMail(a, ok))
                 /\ Cardinality(KnownMail(a, ok)) \in Nat
                 /\ Cardinality(DecidedMail(a, ok)) \in Nat
      <4>1. KnownMail(a, ok) \subseteq DecidedMail(a, ok)
        BY DEF KnownMail, DecidedMail, Decided
      <4> QED
        BY <2>1, <4>1, MailFinite, FS_Subset, FS_CardinalityType
    <3>2. /\ sent[a] >= Cardinality(DecidedMail(a, TRUE))
          /\ failed[a] >= Cardinality(DecidedMail(a, FALSE))
          /\ sent[a] \in Nat /\ failed[a] \in Nat
      BY DEF CountedInv, HomedInv, QueueInv, SendTypes
    <3>3. ASSUME NEW n \in Nat, NEW d \in Nat, NEW k \in Nat, n >= d, k <= d
          PROVE  n >= k
      BY <3>3
    <3>4. sent[a] >= Cardinality(KnownMail(a, TRUE))
      BY <3>1, <3>2, <3>3, Zenon
    <3>5. failed[a] >= Cardinality(KnownMail(a, FALSE))
      BY <3>1, <3>2, <3>3, Zenon
    <3> QED
      BY <3>4, <3>5
  <2>3. \A r \in Known : r.seq \notin Waiting
    <3>1. OnTheWay(Working) \subseteq OnTheWay(Answering)
      BY DEF OnTheWay, Answering
    <3> QED
      BY <2>1, <3>1, DecidedTypes, OnTheWayIs
  <2> QED
    BY <2>2, <2>3 DEF CountedBeforeTold
<1> QED
  BY <1>1, <1>2, <1>3, <1>4, HomedAlways, PTL DEF SendSpec

-----------------------------------------------------------------------------
(* What "sent" says of the relay.                                          *)

\* A message that left its account's dry run, or none that did.
Arrived(s) == DryRun[log[s].acct] <=> log[s].copies = 0

\* What is known as sent has arrived, and so has what a worker is about to
\* report as sent.
SentInv ==
    /\ HomedInv
    /\ \A r \in Known : r.ok /\ ~log[r.seq].test => Arrived(r.seq)
    /\ \A w \in { v \in Busy : pc[v] \in { "finish", "count", "report" } } :
         outcome[w] = "ok" /\ ~log[held[w].seq].test => Arrived(held[w].seq)

\* Only the worker that holds a job, and only before it has an outcome,
\* writes the job's history.
LEMMA HistoryFrame ==
    ASSUME Inherited, [SendNext]_sendVars, NEW s \in Seqs, s < nextSeq
    PROVE  \/ log'[s] = log[s]
           \/ \E w \in Busy : /\ pc[w] \in { "taking", "attempt" }
                              /\ held[w].seq = s
<1>1. /\ log \in [Seqs -> Jobs \cup { NoEntry }] /\ log[s] \in Jobs
      /\ held \in [Workers -> Entries \cup { NoEntry }]
  BY QueueFacts
<1>2. ASSUME NEW a \in Accounts, NEW o \in Offers, Submit(a, o.prio, o.test)
      PROVE  log'[s] = log[s]
  <2>1. PICK r : log' = [log EXCEPT ![nextSeq] = r]
    BY <1>2 DEF Submit, Enqueue
  <2>2. s # nextSeq
    BY QueueFacts, SchedulerAssumption DEF Seqs
  <2> QED
    BY <1>1, <2>1, <2>2
<1>3. ASSUME NEW w \in Workers, Schedule(w)
      PROVE  \/ log'[s] = log[s]
             \/ /\ w \in Busy /\ pc[w] \in { "taking", "attempt" }
                /\ held[w].seq = s
  <2>1. CASE Retire(w) \/ Scan(w) \/ Requeue(w)
    BY <2>1 DEF Retire, Scan, Requeue
  <2>2. CASE Take(w)
    BY <1>1, <2>2 DEF Take, Goto, Busy
  <2>3. CASE Attempt(w)
    <3>1. pc[w] = "attempt" /\ w \in Busy
      BY <2>3 DEF Attempt, Busy
    <3>2. PICK c, f : Logged(w, c, f)
      BY <2>3 DEF Attempt, AttemptDry, AttemptUnbuilt, AttemptAccepted,
                  AttemptFailed, AttemptPanics
    <3> QED
      BY <1>1, <3>1, <3>2 DEF Logged
  <2> QED
    BY <1>3, <2>1, <2>2, <2>3 DEF Schedule
<1>4. ASSUME NEW w \in Workers, Unqueue(w) \/ Count(w) \/ SendResult(w) \/ Settle(w)
      PROVE  log'[s] = log[s]
  BY <1>4 DEF Unqueue, Count, SendResult, Settle, WorkerKeeps
<1>5. ASSUME Elsewhere PROVE log'[s] = log[s]
  BY <1>5, ElsewhereOnTheWay
<1> QED
  BY <1>2, <1>3, <1>4, <1>5 DEF SendNext, Work, Elsewhere

\* What is known grows by what a worker sends.
LEMMA KnownStep ==
    ASSUME QueueInv, [SendNext]_sendVars
    PROVE  \/ Known' = Known
           \/ \E w \in Busy : pc[w] = "report" /\ Known' = Known \cup { Record(w) }
<1>1. Inherited /\ SendTypes
  BY DEF QueueInv
<1>2. ASSUME NEW a \in Accounts, NEW o \in Offers, Submit(a, o.prio, o.test)
      PROVE  Known' = Known
  BY <1>2 DEF Submit, Known, mainThread
<1>3. ASSUME NEW w \in Workers,
             Schedule(w) \/ Unqueue(w) \/ Count(w) \/ Settle(w)
      PROVE  Known' = Known
  <2>1. UNCHANGED << results, batch, told >>
    BY <1>3 DEF Schedule, Unqueue, Count, Settle, WorkerKeeps, mainThread
  <2> QED
    BY <2>1 DEF Known
<1>4. ASSUME NEW w \in Workers, SendResult(w)
      PROVE  /\ w \in Busy /\ pc[w] = "report"
             /\ Known' = Known \cup { Record(w) }
  <2>1. /\ pc[w] = "report"
        /\ results' = Append(results, Record(w))
        /\ batch' = batch /\ told' = told
    BY <1>4 DEF SendResult, Goto, WorkerKeeps, mainThread, Record
  <2>2. w \in Busy
    BY <2>1 DEF Busy
  <2>3. RecordsOf(results') = RecordsOf(results) \cup { Record(w) }
    BY <1>1, <2>1, <2>2, RecordType, AppendAnswer DEF SendTypes
  <2> QED
    BY <2>1, <2>2, <2>3 DEF Known, RecordsOf
<1>5. ASSUME Elsewhere PROVE Known' = Known
  BY <1>1, <1>5, KnownElsewhere
<1> QED
  BY <1>2, <1>3, <1>4, <1>5 DEF SendNext, Work, Elsewhere

\* An attempt that ends "ok" wrote a dry run or left a copy at the relay.
LEMMA AttemptArrives ==
    ASSUME Inherited, NEW w \in Workers, Attempt(w), outcome'[w] = "ok",
           pc'[w] = "finish", ~log'[held'[w].seq].test
    PROVE  Arrived(held[w].seq)'
<1> PICK s, j : s = held[w].seq /\ j = log[s]
  OBVIOUS
<1>1. pc[w] = "attempt" /\ w \in Busy /\ SchedulerPC[w] = "attempt"
  BY DEF Attempt, Busy, SchedulerPC
<1>2. /\ log \in [Seqs -> Jobs \cup { NoEntry }] /\ s \in Seqs /\ j \in Jobs
      /\ j.acct = held[w].acct /\ j.test = IsTest(held[w])
      /\ outcome \in [Workers -> { "none", "ok", "failed", "panicked" }]
      /\ pc \in [Workers -> SendPCs]
  BY <1>1, QueueFacts
<1>3. /\ j.copies \in Nat /\ DryRun[j.acct] \in BOOLEAN
      /\ DryRun[j.acct] => j.copies = 0
  <2>1. SP!Trying(held[w])
    BY <1>1 DEF Inherited, SP!TriesInv
  <2>2. j.copies \in Nat /\ DryRun[j.acct] \in BOOLEAN
    BY <1>2, SchedulerAssumption DEF Jobs, Entries
  <2> QED
    BY <1>2, <2>1, <2>2 DEF SP!Trying
<1>4. ~ \E o \in { "failed", "panicked" } : Finish(w, o)
  BY <1>2 DEF Finish
<1>5. ~Goto(w, "attempt", "requeue")
  BY <1>2 DEF Goto
<1>6. AttemptDry(w) \/ AttemptAccepted(w)
  BY <1>4, <1>5 DEF Attempt, AttemptUnbuilt, AttemptFailed, AttemptPanics
<1>7. held' = held
  BY <1>6 DEF AttemptDry, AttemptAccepted, Finish
<1>8. CASE AttemptDry(w)
  <2>1. /\ DryRun[j.acct]
        /\ log' = [log EXCEPT ![s].copies = @ + 0, ![s].final = TRUE]
    BY <1>2, <1>8 DEF AttemptDry, Dry, Logged
  <2>2. log'[s].acct = j.acct /\ log'[s].copies = j.copies + 0
    BY <1>2, <2>1 DEF Jobs
  <2>3. DryRun[log'[s].acct] /\ log'[s].copies = 0
    <3>1. DryRun[log'[s].acct] /\ j.copies = 0
      BY <1>3, <2>1, <2>2, Zenon
    <3> QED
      BY ONLY <2>2, <3>1, SMT
  <2>4. held'[w].seq = s
    BY <1>7
  <2> QED
    BY <2>3, <2>4, Zenon DEF Arrived
<1>9. CASE AttemptAccepted(w)
  <2>1. PICK c : /\ ~DryRun[j.acct] /\ c = IF IsTest(held[w]) THEN 0 ELSE 1
                 /\ log' = [log EXCEPT ![s].copies = @ + c, ![s].final = TRUE]
    BY <1>2, <1>9 DEF AttemptAccepted, Dry, Logged
  <2>2. /\ log'[s].acct = j.acct /\ log'[s].copies = j.copies + c
        /\ log'[s].test = j.test
    BY <1>2, <2>1 DEF Jobs
  <2>3. c = 1
    BY <1>2, <1>7, <2>1, <2>2
  <2>4. ~DryRun[log'[s].acct] /\ log'[s].copies # 0
    <3>1. ~DryRun[log'[s].acct]
      BY <2>1, <2>2, Zenon
    <3>2. j.copies \in Nat /\ log'[s].copies = j.copies + c
      BY <1>3, <2>2
    <3> QED
      BY ONLY <2>3, <3>1, <3>2, SMT
  <2>5. held'[w].seq = s
    BY <1>7
  <2> QED
    BY <2>4, <2>5, Zenon DEF Arrived
<1> QED
  BY <1>6, <1>8, <1>9

\* A worker about to report a job had its outcome already, or gets it now.
LEMMA ReportFrame ==
    ASSUME Inherited, [SendNext]_sendVars, NEW w \in Busy',
           pc'[w] \in { "finish", "count", "report" }
    PROVE  \/ /\ w \in Busy /\ pc[w] \in { "finish", "count", "report" }
              /\ held'[w] = held[w] /\ outcome'[w] = outcome[w]
           \/ Attempt(w)
<1> DEFINE Reports == { "finish", "count", "report" }
           Goal == \/ /\ w \in Busy /\ pc[w] \in Reports
                      /\ held'[w] = held[w] /\ outcome'[w] = outcome[w]
                   \/ Attempt(w)
<1>1. ASSUME NEW a \in Accounts, NEW o \in Offers, Submit(a, o.prio, o.test)
      PROVE  Goal
  <2>1. /\ Busy' = Busy /\ held' = held /\ outcome' = outcome
        /\ \A v \in Busy : pc'[v] = pc[v]
    BY <1>1, SubmitOnTheWay DEF Submit, Enqueue
  <2> QED
    BY <2>1
<1>2. w \in Workers /\ pc[w] \in Reports => w \in Busy
  BY DEF Busy
<1>3. ASSUME NEW v \in Workers, Schedule(v)
      PROVE  Goal
  <2>1. \A u \in Workers : u # v => pc'[u] = pc[u] /\ held'[u] = held[u]
    BY <1>3, WorkerFrame
  <2>2. \/ Attempt(v)
        \/ /\ pc'[v] \in { "retired", "taking", "attempt", "idle" }
           /\ outcome' = outcome
    BY <1>3, QueueFacts DEF Schedule, Retire, Scan, Take, Requeue, Goto
  <2>3. \A u \in Workers : u # v => outcome'[u] = outcome[u]
    BY <1>3, QueueFacts
    DEF Schedule, Retire, Scan, Take, Requeue, Attempt, AttemptDry,
        AttemptUnbuilt, AttemptAccepted, AttemptFailed, AttemptPanics, Finish
  <2> QED
    BY <1>2, <2>1, <2>2, <2>3 DEF Busy
<1>4. ASSUME NEW v \in Workers, Unqueue(v) \/ Count(v) \/ SendResult(v)
      PROVE  Goal
  <2>1. PICK from \in Reports : Goto(v, from, pc'[v])
    BY <1>4, QueueFacts DEF Unqueue, Count, SendResult, Goto
  <2>2. held' = held /\ outcome' = outcome
    BY <1>4 DEF Unqueue, Count, SendResult
  <2>3. pc[w] \in Reports
    BY <2>1, QueueFacts DEF Goto, Busy
  <2> QED
    BY <1>2, <2>2, <2>3 DEF Busy
<1>5. ASSUME NEW v \in Workers, Settle(v)
      PROVE  Goal
  <2>1. /\ pc' = [pc EXCEPT ![v] = "idle"]
        /\ held' = [held EXCEPT ![v] = NoEntry]
        /\ outcome' = [outcome EXCEPT ![v] = "none"]
    BY <1>5 DEF Settle, Goto
  <2>2. w # v
    BY <2>1, QueueFacts DEF Busy
  <2> QED
    BY <1>2, <2>1, <2>2, QueueFacts DEF Busy
<1>6. ASSUME Elsewhere PROVE Goal
  BY <1>6, ElsewhereOnTheWay
<1> QED
  BY <1>1, <1>3, <1>4, <1>5, <1>6 DEF SendNext, Work, Elsewhere

LEMMA SentStep ==
    ASSUME SentInv, HomedInv', [SendNext]_sendVars
    PROVE  SentInv'
<1>1. HomedInv /\ QueueInv /\ Inherited
  BY DEF SentInv, HomedInv, QueueInv
<1>2. ASSUME NEW s \in Seqs, s < nextSeq, log'[s] = log[s]
      PROVE  /\ Arrived(s) => Arrived(s)'
             /\ log'[s].test = log[s].test
  BY <1>2 DEF Arrived
<1>3. ASSUME NEW w \in Busy, pc[w] \in { "finish", "count", "report" }
      PROVE  /\ held[w].seq \in Seqs /\ held[w].seq < nextSeq
             /\ log'[held[w].seq] = log[held[w].seq]
  <2>1. /\ held[w].seq \in Seqs /\ held[w].seq < nextSeq
        /\ \A v \in Busy : held[v].seq = held[w].seq => v = w
    BY <1>1, <1>3, QueueFacts DEF OneOwner
  <2> QED
    BY <1>1, <1>3, <2>1, HistoryFrame
<1>4. ASSUME NEW r \in Known, r.ok, ~log'[r.seq].test
      PROVE  Arrived(r.seq)'
  <2>1. /\ r.seq \in Seqs /\ r.seq < nextSeq
        /\ r.seq \notin OnTheWay(Answering)
    BY <1>1, DecidedTypes DEF Submitted
  <2>2. log'[r.seq] = log[r.seq]
    BY <1>1, <2>1, HistoryFrame DEF OnTheWay, Answering, Working
  <2>3. ~log[r.seq].test
    BY <1>4, <2>2
  <2>4. Arrived(r.seq)
    BY <1>4, <2>3 DEF SentInv
  <2> QED
    BY <1>2, <2>1, <2>2, <2>4
<1>6. ASSUME NEW r \in Known', r.ok, ~log'[r.seq].test
      PROVE  Arrived(r.seq)'
  <2>1. CASE r \in Known
    BY <1>4, <1>6, <2>1
  <2>2. ASSUME NEW w \in Busy, pc[w] = "report", r = Record(w)
        PROVE  Arrived(r.seq)'
    <3>1. r.seq = held[w].seq /\ outcome[w] = "ok"
      BY <1>1, <1>6, <2>2, RecordType
    <3>2. ~log[held[w].seq].test
      BY <1>3, <1>6, <2>2, <3>1
    <3>3. Arrived(held[w].seq)
      BY <2>2, <3>1, <3>2 DEF SentInv
    <3> QED
      BY <1>2, <1>3, <2>2, <3>1, <3>3
  <2> QED
    BY <1>1, <2>1, <2>2, KnownStep
<1>7. ASSUME NEW w \in Busy', pc'[w] \in { "finish", "count", "report" },
             outcome'[w] = "ok", ~log'[held'[w].seq].test
      PROVE  Arrived(held[w].seq)'
  <2>1. CASE Attempt(w)
    <3>1. pc'[w] = "finish"
      BY <1>1, <1>7, <2>1, QueueFacts
      DEF Attempt, AttemptDry, AttemptUnbuilt, AttemptAccepted, AttemptFailed,
          AttemptPanics, Finish, Goto, Busy
    <3>2. w \in Workers
      BY DEF Busy
    <3> QED
      BY <1>1, <1>7, <2>1, <3>1, <3>2, AttemptArrives
  <2>2. CASE /\ w \in Busy /\ pc[w] \in { "finish", "count", "report" }
             /\ held'[w] = held[w] /\ outcome'[w] = outcome[w]
    <3>1. PICK s : s = held[w].seq
      OBVIOUS
    <3>2. /\ s \in Seqs /\ s < nextSeq /\ log'[s] = log[s]
      BY <1>3, <2>2, <3>1
    <3>3. Arrived(s)
      BY <1>7, <2>2, <3>1, <3>2 DEF SentInv
    <3> QED
      BY <1>2, <2>2, <3>1, <3>2, <3>3
  <2> QED
    BY <1>1, <1>7, <2>1, <2>2, ReportFrame
<1>8. (\A r \in Known : r.ok /\ ~log[r.seq].test => Arrived(r.seq))'
  BY <1>6, Zenon
<1>9. (\A w \in { v \in Busy : pc[v] \in { "finish", "count", "report" } } :
         outcome[w] = "ok" /\ ~log[held[w].seq].test => Arrived(held[w].seq))'
  BY <1>7, Zenon
<1> QED
  BY <1>8, <1>9, Zenon DEF SentInv

\* A message announced as sent is at the relay, or nowhere at all on a
\* dry-run account.
THEOREM SentAlwaysDelivered == SendSpec => []SentMeansDelivered
<1>1. SendInit => SentInv
  <2> SUFFICES ASSUME SendInit PROVE SentInv
    OBVIOUS
  <2>1. Busy = {} /\ results = << >> /\ batch = << >> /\ told = {}
    BY DEF SendInit, Init, Busy
  <2> QED
    BY <2>1, HomedInit DEF SentInv, Known
<1>2. SentInv /\ HomedInv' /\ [SendNext]_sendVars => SentInv'
  BY SentStep
<1>3. SentInv => SentMeansDelivered
  BY DEF SentInv, SentMeansDelivered, Arrived
<1> QED
  BY <1>1, <1>2, <1>3, HomedAlways, PTL DEF SendSpec

-----------------------------------------------------------------------------
(* What the queue inherits.                                                *)

\* In the whole send queue too, whatever finish and the main thread leave half
\* done, a job is tried within its retries and at its pace, is not passed over
\* for later mail, and no account is closed longer than a pause and a slot.
COROLLARY SendQueueKeepsPace ==
    SendSpec => /\ []RetriesBounded /\ []NoOvertaking /\ []RetrySpacing
                /\ []LockoutBounded
<1>1. SendSpec => SP!Spec
  <2>1. SendInit => SP!Init /\ PCOK
    BY SendInitMapped
  <2>2. PCOK /\ [SendNext]_sendVars => [SP!Next]_(SP!vars) /\ PCOK'
    BY SendStepMapped
  <2> QED
    BY <2>1, <2>2, PTL DEF SendSpec, SP!Spec
<1>2. SP!Spec => []SP!RetriesBounded
  BY SP!RetriesAlwaysBounded, SchedulerAssumption, GateAssumption
  DEF SP!Priorities, SP!Entries, SP!Jobs, SP!Kinds, SP!Seqs, Entries, Jobs,
      Priorities, Kinds, Seqs
<1>3. SP!Spec => []SP!NoOvertaking
  BY SP!NeverOvertaken, SchedulerAssumption, GateAssumption
  DEF SP!Priorities, SP!Entries, SP!Jobs, SP!Kinds, SP!Seqs, Entries, Jobs,
      Priorities, Kinds, Seqs
<1>4. SP!Spec => []SP!RetrySpacing
  BY SP!RetriesAlwaysSpaced, SchedulerAssumption, GateAssumption
  DEF SP!Priorities, SP!Entries, SP!Jobs, SP!Kinds, SP!Seqs, Entries, Jobs,
      Priorities, Kinds, Seqs
<1>5. SP!Spec => []SP!LockoutBounded
  BY SP!LockoutAlwaysBounded, SchedulerAssumption, GateAssumption
  DEF SP!Priorities, SP!Entries, SP!Jobs, SP!Kinds, SP!Seqs, Entries, Jobs,
      Priorities, Kinds, Seqs
<1>6. \A w \in Workers, at \in { "taking", "attempt", "requeue" } :
          SchedulerPC[w] = at <=> pc[w] = at
  BY DEF SchedulerPC
<1>7. SP!RetriesBounded => RetriesBounded
  <2>1. ASSUME NEW w \in Busy, pc[w] \in { "taking", "attempt", "requeue" }
        PROVE  w \in SP!Busy /\ SchedulerPC[w] = pc[w]
    BY <2>1 DEF Busy, SP!Busy, SchedulerPC
  <2>2. Seqs = SP!Seqs
    BY DEF Seqs, SP!Seqs
  <2>3. ASSUME SP!RetriesBounded, NEW w \in Busy,
               pc[w] \in { "taking", "attempt", "requeue" }
        PROVE  ~log[held[w].seq].final
    BY <2>1, <2>3, Zenon DEF SP!RetriesBounded
  <2> QED
    BY <2>2, <2>3, Zenon DEF SP!RetriesBounded, RetriesBounded
<1>8. SP!NoOvertaking => NoOvertaking
  BY <1>6 DEF SP!NoOvertaking, NoOvertaking, SP!Eligible, Eligible,
              SP!EligibleAt, EligibleAt, SP!Later, Later, SP!IsTest, IsTest
<1>9. SP!RetrySpacing => RetrySpacing
  BY <1>6 DEF SP!RetrySpacing, RetrySpacing, SP!Earlier, Earlier
<1>10. SP!LockoutBounded => LockoutBounded
  BY DEF SP!LockoutBounded, LockoutBounded
<1> QED
  BY <1>1, <1>2, <1>3, <1>4, <1>5, <1>7, <1>8, <1>9, <1>10, PTL
=============================================================================
