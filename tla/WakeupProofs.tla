---------------------------- MODULE WakeupProofs ----------------------------
(***************************************************************************)
(* Wakeup implements Scheduler, loses no wake-up and parks no worker, for  *)
(* every number of workers, accounts and jobs and every idle wait.         *)
(***************************************************************************)
EXTENDS Wakeup, SchedulerProofs, FiniteSetTheorems

-----------------------------------------------------------------------------
(* The steps of Wakeup are steps of Scheduler.                             *)

LEMMA WakeStep == [WakeNext]_wakeVars => [Next]_vars
<1> SUFFICES ASSUME [WakeNext]_wakeVars PROVE [Next]_vars
  OBVIOUS
<1>1. ASSUME NEW a \in Accounts, NEW o \in Offers, Submit(a, o.prio, o.test)
      PROVE  [Next]_vars
  BY <1>1 DEF Submit, Next
<1>2. CASE DropManager
  BY <1>2 DEF DropManager, Next
<1>3. ASSUME NEW t \in notifying, NotifyAll(t) PROVE [Next]_vars
  BY <1>3 DEF NotifyAll
<1>4. ASSUME NEW w \in Workers,
             Look(w) \/ Sleep(w) \/ WakeUp(w) \/ Serve(w) \/ PutBack(w)
      PROVE  [Next]_vars
  BY <1>4 DEF Look, Sleep, WakeUp, Serve, PutBack, Next
<1>5. CASE TimePasses
  BY <1>5 DEF TimePasses, Next
<1>6. CASE UNCHANGED wakeVars
  BY <1>6 DEF wakeVars
<1> QED
  BY <1>1, <1>2, <1>3, <1>4, <1>5, <1>6 DEF WakeNext

\* Whatever the condition variable does, the queue, the gates and the workers
\* behave as Scheduler says: everything proved of it holds here.
THEOREM WakeupImplementsScheduler == WakeSpec => Spec
<1>1. WakeInit => Init
  BY DEF WakeInit
<1>2. [WakeNext]_wakeVars => [Next]_vars
  BY WakeStep
<1> QED
  BY <1>1, <1>2, PTL DEF WakeSpec, Spec

\* In particular an account is never closed longer than a pause and a slot,
\* its slots stay an interval apart, and a job keeps one owner, whenever the
\* workers sleep and whatever wakes them.
COROLLARY WakeupKeepsPace ==
    WakeSpec => []LockoutBounded /\ RateSpacing /\ []OneOwner
  BY WakeupImplementsScheduler, LockoutAlwaysBounded, RateAlwaysSpaced,
     OneOwnerAlways

-----------------------------------------------------------------------------
(* How long a worker sleeps.                                               *)

\* A set of numbers has a least one: its initial segments are finite sets,
\* which inclusion orders well.
LEMMA LeastNumber ==
    ASSUME NEW T, T \subseteq Nat, T # {}
    PROVE  \E x \in T : \A y \in T : x <= y
<1> DEFINE U == { 0 .. n : n \in T }
           R == StrictSubsetOrdering(Nat)
<1>1. \A n \in Nat : 0 .. n \in FiniteSubsetsOf(Nat)
  BY FS_Interval DEF FiniteSubsetsOf
<1>2. U \subseteq FiniteSubsetsOf(Nat) /\ U # {}
  BY <1>1
<1>3. IsWellFoundedOn(R, FiniteSubsetsOf(Nat))
  BY FS_StrictSubsetOrderingWellFounded
<1>4. \E X \in U : \A Y \in U : ~(<< Y, X >> \in R)
  <2> HIDE DEF U, R
  <2> QED
    BY <1>2, <1>3, WFMin
<1>5. PICK x \in T : \A y \in T : ~(<< 0 .. y, 0 .. x >> \in R)
  BY <1>4
<1>6. \A y \in T : x <= y
  <2> SUFFICES ASSUME NEW y \in T, ~(x <= y) PROVE FALSE
    OBVIOUS
  <2>1. x \in Nat /\ y \in Nat /\ y < x
    OBVIOUS
  <2>2. 0 .. y \subseteq 0 .. x /\ x \in 0 .. x /\ x \notin 0 .. y
    BY <2>1
  <2>3. 0 .. y \in SUBSET Nat /\ 0 .. x \in SUBSET Nat
    BY <2>1
  <2>4. << 0 .. y, 0 .. x >> \in R
    BY <2>2, <2>3 DEF StrictSubsetOrdering
  <2> QED
    BY <1>5, <2>4
<1> QED
  BY <1>6

\* The moments at which queued jobs become eligible are moments.
LEMMA EligibleAtType ==
    ASSUME TypeInv, NEW e \in Entries
    PROVE  /\ EligibleAt(e) \in Nat
           /\ EligibleAt(e) >= e.notBefore
<1>1. e.notBefore \in Nat /\ e.acct \in Accounts
  BY DEF Entries
<1>2. gate[e.acct].next \in Nat
  BY <1>1, NumberTypes
<1> QED
  BY <1>1, <1>2 DEF EligibleAt, Later

\* next_entry waits until the first of them, and never past the idle wait.
LEMMA WakeTimeBounds ==
    ASSUME TypeInv
    PROVE  /\ WakeTime \in Nat
           /\ WakeTime <= now + IdleWait
           /\ \A e \in entries : WakeTime <= EligibleAt(e)
<1> DEFINE T == { EligibleAt(e) : e \in entries }
<1>1. \A e \in entries : EligibleAt(e) \in Nat
  BY EligibleAtType DEF TypeInv, TypeOK
<1>2. now \in Nat /\ IdleWait \in Nat
  BY WakeupAssumption DEF TypeInv, TypeOK
<1>3. CASE \E e \in entries : EligibleAt(e) <= now + IdleWait
  <2> DEFINE least == CHOOSE t \in T : \A e \in entries : t <= EligibleAt(e)
  <2>1. WakeTime = least
    BY <1>3 DEF WakeTime
  <2>2. T \subseteq Nat /\ T # {}
    BY <1>1, <1>3
  <2>3. \E t \in T : \A u \in T : t <= u
    <3> HIDE DEF T
    <3> QED
      BY <2>2, LeastNumber
  <2>4. \E t \in T : \A e \in entries : t <= EligibleAt(e)
    BY <2>3
  <2>5. least \in T /\ \A e \in entries : least <= EligibleAt(e)
    <3> HIDE DEF T
    <3> QED
      BY <2>4
  <2> QED
    <3> HIDE DEF T, least
    <3> QED
      BY <1>1, <1>2, <1>3, <2>1, <2>2, <2>5
<1>4. CASE ~(\E e \in entries : EligibleAt(e) <= now + IdleWait)
  <2>1. WakeTime = now + IdleWait
    BY <1>4 DEF WakeTime
  <2> QED
    BY <1>1, <1>2, <1>4, <2>1
<1> QED
  BY <1>3, <1>4

-----------------------------------------------------------------------------
(* Who sleeps.                                                             *)

\* A job on its way back to the queue is marked as built.
BuiltBack == \A w \in Workers : pc[w] = "requeue" => held[w].kind = "built"

\* What the later invariants rest on: until has its type, a sleeper holds no
\* job, and nobody sleeps past the idle wait.
SleepInv ==
    /\ TypeInv /\ BuiltBack
    /\ WakeTypeOK
    /\ \A w \in Sleepers : until[w] <= now + IdleWait

\* Gates only close, so a queued job never becomes eligible earlier than the
\* workers that went to sleep saw.
LEMMA EligibleOnlyLater ==
    ASSUME TypeInv, TypeInv', [Next]_vars, NEW e \in Entries
    PROVE  /\ EligibleAt(e) \in Nat /\ EligibleAt(e)' \in Nat
           /\ EligibleAt(e)' >= EligibleAt(e)
<1>1. e.acct \in Accounts /\ e.notBefore \in Nat
  BY DEF Entries
<1>2. gate[e.acct].next \in Nat /\ gate'[e.acct].next \in Nat
  BY <1>1 DEF TypeInv, TypeOK, Gates
<1>3. gate'[e.acct].next >= gate[e.acct].next
  BY <1>1, GatesOnlyClose
<1> QED
  BY <1>1, <1>2, <1>3 DEF EligibleAt, Later, IsTest

LEMMA BuiltBackStep ==
    ASSUME TypeInv, BuiltBack, [Next]_vars
    PROVE  BuiltBack'
<1>1. ASSUME NEW a \in Accounts, NEW p, NEW t, Enqueue(a, p, t)
      PROVE  BuiltBack'
  BY <1>1 DEF Enqueue, BuiltBack
<1>2. ASSUME NEW w \in Workers, Scan(w) PROVE BuiltBack'
  BY <1>2, ScanTypeInv DEF BuiltBack
<1>3. ASSUME NEW w \in Workers, Take(w) PROVE BuiltBack'
  BY <1>3, TakeTypeInv, ZenonT(60) DEF BuiltBack
<1>4. ASSUME NEW w \in Workers, Attempt(w) PROVE BuiltBack'
  <2>1. /\ pc' \in [Workers -> PCs]
        /\ \A v \in Workers \ {w} : pc'[v] = pc[v] /\ held'[v] = held[v]
    BY <1>4, AttemptHeld
  <2>2. ASSUME pc'[w] = "requeue" PROVE held'[w].kind = "built"
    <3>1. pc[w] = "attempt" /\ held[w] \in Entries
      BY <1>4, AttemptStep, HeldType
    <3>2. held \in [Workers -> Entries \cup { NoEntry }] /\ pc \in [Workers -> PCs]
      BY DEF TypeInv, TypeOK
    <3>3. ~FinishedAttempt(w)
      BY <2>2, <3>2 DEF FinishedAttempt, Goto
    <3>4. PICK e \in RelayErrors : held'[w] = ForRetry(held[w], e)
      BY <1>4, <3>2, <3>3, AttemptStep DEF RetriedAttempt
    <3>5. ForRetry(held[w], e).kind = "built"
      BY <3>1 DEF ForRetry, Entries
    <3> QED
      BY <3>4, <3>5
  <2> QED
    BY <2>1, <2>2 DEF BuiltBack
<1>5. ASSUME NEW w \in Workers, Requeue(w) PROVE BuiltBack'
  BY <1>5, RequeueTypeInv DEF BuiltBack
<1>6. ASSUME NEW w \in Workers, Release(w) PROVE BuiltBack'
  BY <1>6, ReleaseTypeInv DEF BuiltBack
<1>7. ASSUME NEW w \in Workers, Retire(w) PROVE BuiltBack'
  BY <1>7, RetireTypeInv DEF BuiltBack
<1>8. CASE Tick \/ Close \/ UNCHANGED vars
  BY <1>8, QuietTypeInv DEF BuiltBack
<1> QED
  BY <1>1, <1>2, <1>3, <1>4, <1>5, <1>6, <1>7, <1>8 DEF Next

\* A step that puts nobody to sleep and moves no sleeper.
LEMMA SleepersQuiet ==
    ASSUME SleepInv, TypeInv', BuiltBack', now' >= now,
           until' \in [Workers -> Nat \cup {Awake}],
           notifying' \subseteq Workers \cup {MainThread},
           \A w \in Workers : until'[w] # Awake =>
               /\ until'[w] = until[w] /\ pc'[w] = "idle"
               /\ w \notin notifying'
    PROVE  SleepInv'
<1>1. now \in Nat /\ now' \in Nat /\ IdleWait \in Nat
  BY WakeupAssumption DEF SleepInv, TypeInv, TypeOK
<1>2. WakeTypeOK'
  BY DEF WakeTypeOK, Sleepers, Asleep
<1>3. ASSUME NEW w \in Sleepers' PROVE until'[w] <= now' + IdleWait
  <2>1. w \in Sleepers /\ until'[w] = until[w]
    BY <1>3 DEF Sleepers, Asleep
  <2>2. until[w] <= now + IdleWait /\ until[w] \in Nat
    BY <2>1 DEF SleepInv, WakeTypeOK, Sleepers, Asleep
  <2> QED
    BY <1>1, <2>1, <2>2
<1> QED
  BY <1>2, <1>3 DEF SleepInv

\* notify_one puts nobody to sleep, and leaves one worker up.
LEMMA NotifyOneStep ==
    ASSUME until \in [Workers -> Nat \cup {Awake}], NotifyOne
    PROVE  /\ until' \in [Workers -> Nat \cup {Awake}]
           /\ \A w \in Workers : until'[w] = until[w] \/ until'[w] = Awake
           /\ \E w \in Workers : until'[w] = Awake
<1>1. CASE Sleepers = {} /\ UNCHANGED until
  BY <1>1, WakeupAssumption DEF Sleepers, Asleep
<1>2. CASE \E w \in Sleepers : until' = [until EXCEPT ![w] = Awake]
  BY <1>2 DEF Sleepers
<1> QED
  BY <1>1, <1>2 DEF NotifyOne

\* A worker goes to sleep.
LEMMA SleepStep ==
    ASSUME SleepInv, NEW w \in Workers, Sleep(w)
    PROVE  /\ SleepInv'
           /\ until'[w] = WakeTime
           /\ \A v \in Workers \ {w} : until'[v] = until[v]
           /\ UNCHANGED << vars, notifying >>
<1>1. /\ UNCHANGED << vars, notifying >> /\ pc[w] = "idle" /\ w \notin notifying
      /\ until' = [until EXCEPT ![w] = WakeTime]
  BY DEF Sleep, CanLook
<1>2. WakeTime \in Nat /\ WakeTime <= now + IdleWait
  BY WakeTimeBounds DEF SleepInv
<1>3. until \in [Workers -> Nat \cup {Awake}]
  BY DEF SleepInv, WakeTypeOK
<1>4. /\ until' \in [Workers -> Nat \cup {Awake}] /\ until'[w] = WakeTime
      /\ \A v \in Workers \ {w} : until'[v] = until[v]
  BY <1>1, <1>2, <1>3
<1>5. TypeInv' /\ BuiltBack'
  BY <1>1, TypeInvStep, BuiltBackStep DEF SleepInv
<1>6. ASSUME NEW v \in Sleepers'
      PROVE  pc'[v] = "idle" /\ v \notin notifying' /\ until'[v] <= now' + IdleWait
  <2>1. v = w \/ (v \in Sleepers /\ until'[v] = until[v])
    BY <1>4, <1>6 DEF Sleepers, Asleep
  <2> QED
    BY <1>1, <1>2, <1>4, <2>1 DEF SleepInv, WakeTypeOK, vars
<1>7. WakeTypeOK'
  BY <1>1, <1>4, <1>6 DEF WakeTypeOK, SleepInv
<1> QED
  BY <1>1, <1>4, <1>5, <1>6, <1>7 DEF SleepInv

\* What a busy worker does moves no other, and its own next place is not
\* asleep.
LEMMA ServeStep ==
    ASSUME SleepInv, NEW w \in Workers, Look(w) \/ Serve(w) \/ Requeue(w)
    PROVE  /\ ~Asleep(w) /\ now' = now
           /\ \A v \in Workers \ {w} : pc'[v] = pc[v]
<1>1. CASE Look(w)
  <2>1. ~Asleep(w)
    BY <1>1 DEF Look, CanLook
  <2>2. CASE Retire(w)
    BY <2>1, <2>2, RetireTypeInv DEF SleepInv
  <2>3. CASE Scan(w)
    BY <2>1, <2>3, ScanTypeInv DEF SleepInv, Scan
  <2> QED
    BY <1>1, <2>2, <2>3 DEF Look
<1>2. CASE Take(w)
  BY <1>2, TakeTypeInv DEF SleepInv, WakeTypeOK, Sleepers, Take
<1>3. CASE Attempt(w)
  BY <1>3, AttemptStep, AttemptHeld DEF SleepInv, WakeTypeOK, Sleepers
<1>4. CASE Release(w)
  BY <1>4, ReleaseTypeInv DEF SleepInv, WakeTypeOK, Sleepers, Release
<1>5. CASE Requeue(w)
  BY <1>5, RequeueTypeInv DEF SleepInv, WakeTypeOK, Sleepers, Requeue
<1> QED
  BY <1>1, <1>2, <1>3, <1>4, <1>5 DEF Serve

LEMMA SleepInvInit == WakeInit => SleepInv
<1> SUFFICES ASSUME WakeInit PROVE SleepInv
  OBVIOUS
<1>1. TypeInv
  BY InitTypeInv DEF WakeInit
<1>2. Sleepers = {} /\ until \in [Workers -> Nat \cup {Awake}] /\ notifying = {}
  BY DEF WakeInit, Sleepers, Asleep
<1>3. BuiltBack
  BY DEF WakeInit, Init, BuiltBack
<1> QED
  BY <1>1, <1>2, <1>3 DEF SleepInv, WakeTypeOK

LEMMA SleepInvStep ==
    ASSUME SleepInv, [WakeNext]_wakeVars
    PROVE  SleepInv'
<1>1. TypeInv' /\ BuiltBack'
  BY WakeStep, TypeInvStep, BuiltBackStep DEF SleepInv
<1>2. /\ until \in [Workers -> Nat \cup {Awake}]
      /\ notifying \subseteq Workers \cup {MainThread}
      /\ \A w \in Workers : until[w] # Awake => pc[w] = "idle" /\ w \notin notifying
      /\ now \in Nat
  BY DEF SleepInv, TypeInv, TypeOK, WakeTypeOK, Sleepers, Asleep
<1>3. ASSUME NEW a \in Accounts, NEW o \in Offers, Submit(a, o.prio, o.test)
      PROVE  SleepInv'
  <2>1. /\ until' \in [Workers -> Nat \cup {Awake}]
        /\ \A w \in Workers : until'[w] = until[w] \/ until'[w] = Awake
    BY <1>2, <1>3, NotifyOneStep DEF Submit
  <2>2. /\ \A w \in Workers : pc[w] = "idle" => pc'[w] = "idle"
        /\ now' = now /\ notifying' = notifying
    BY <1>3 DEF Submit, Enqueue
  <2> QED
    BY <1>1, <1>2, <2>1, <2>2, SleepersQuiet
<1>4. CASE DropManager
  BY <1>1, <1>2, <1>4, WakeupAssumption, SleepersQuiet
     DEF DropManager, Announces, Close
<1>5. ASSUME NEW t \in notifying, NotifyAll(t) PROVE SleepInv'
  BY <1>1, <1>2, <1>5, SleepersQuiet DEF NotifyAll, vars
<1>6. ASSUME NEW w \in Workers, Look(w) \/ Serve(w) PROVE SleepInv'
  BY <1>1, <1>2, <1>6, ServeStep, SleepersQuiet DEF Look, Serve, Asleep
<1>7. ASSUME NEW w \in Workers, Sleep(w) PROVE SleepInv'
  BY <1>7, SleepStep
<1>8. ASSUME NEW w \in Workers, WakeUp(w) PROVE SleepInv'
  BY <1>1, <1>2, <1>8, SleepersQuiet DEF WakeUp, vars
<1>9. ASSUME NEW w \in Workers, PutBack(w) PROVE SleepInv'
  BY <1>1, <1>2, <1>9, ServeStep, SleepersQuiet DEF PutBack, Announces, Asleep
<1>10. CASE TimePasses
  BY <1>1, <1>2, <1>10, SleepersQuiet DEF TimePasses, Tick
<1>11. CASE UNCHANGED wakeVars
  BY <1>1, <1>2, <1>11, SleepersQuiet DEF wakeVars, vars
<1> QED
  BY <1>3, <1>4, <1>5, <1>6, <1>7, <1>8, <1>9, <1>10, <1>11 DEF WakeNext

-----------------------------------------------------------------------------
(* The three properties.                                                   *)

LEMMA SleepInvAlways == WakeSpec => []SleepInv
<1>1. WakeInit => SleepInv
  BY SleepInvInit
<1>2. SleepInv /\ [WakeNext]_wakeVars => SleepInv'
  BY SleepInvStep
<1> QED
  BY <1>1, <1>2, PTL DEF WakeSpec

LEMMA NobodyParkedStep ==
    ASSUME SleepInv, NobodyParked, [WakeNext]_wakeVars
    PROVE  NobodyParked'
<1>1. until \in [Workers -> Nat \cup {Awake}]
  BY DEF SleepInv, WakeTypeOK
<1>2. ASSUME NEW a \in Accounts, NEW o \in Offers, Submit(a, o.prio, o.test)
      PROVE  NobodyParked'
  BY <1>2 DEF Submit, Enqueue, NobodyParked
<1>3. CASE DropManager
  BY <1>3 DEF DropManager, Announces, NobodyParked
<1>4. ASSUME NEW t \in notifying, NotifyAll(t) PROVE NobodyParked'
  BY <1>4 DEF NotifyAll, NobodyParked, Sleepers, Asleep
<1>5. ASSUME NEW w \in Workers, Look(w) \/ Serve(w) PROVE NobodyParked'
  <2>1. closed' = closed
    <3>1. CASE Attempt(w)
      BY <3>1, AttemptStep DEF SleepInv
    <3>2. CASE Look(w) \/ Take(w) \/ Release(w)
      BY <3>2 DEF Look, Retire, Scan, Take, Release
    <3> QED
      BY <1>5, <3>1, <3>2 DEF Serve
  <2> QED
    BY <1>5, <2>1 DEF Look, Serve, NobodyParked, Sleepers, Asleep
<1>6. ASSUME NEW w \in Workers, Sleep(w) PROVE NobodyParked'
  BY <1>6 DEF Sleep, vars, NobodyParked
<1>7. ASSUME NEW w \in Workers, WakeUp(w) PROVE NobodyParked'
  BY <1>1, <1>7 DEF WakeUp, vars, NobodyParked, Sleepers, Asleep
<1>8. ASSUME NEW w \in Workers, PutBack(w) PROVE NobodyParked'
  BY <1>8 DEF PutBack, Requeue, Announces, NobodyParked, Sleepers, Asleep
<1>9. CASE TimePasses
  BY <1>9 DEF TimePasses, Tick, NobodyParked, Sleepers, Asleep
<1>10. CASE UNCHANGED wakeVars
  BY <1>10 DEF wakeVars, vars, NobodyParked, Sleepers, Asleep
<1> QED
  BY <1>2, <1>3, <1>4, <1>5, <1>6, <1>7, <1>8, <1>9, <1>10 DEF WakeNext

\* Once the manager is dropped and its notify_all is through, no worker
\* sleeps, however many there are and whatever they were doing: the drop
\* need not wait for a worker's own time-out.
THEOREM NobodyParkedAlways == WakeSpec => []NobodyParked
<1>1. WakeInit => NobodyParked
  BY DEF WakeInit, NobodyParked, Sleepers, Asleep
<1>2. SleepInv /\ NobodyParked /\ [WakeNext]_wakeVars => NobodyParked'
  BY NobodyParkedStep
<1> QED
  BY <1>1, <1>2, SleepInvAlways, PTL DEF WakeSpec

\* The two bounds, for a step that adds no job and puts nobody to sleep.
LEMMA TimelyQuiet ==
    ASSUME SleepInv, TypeInv', WakesInTime, [Next]_vars,
           closed => closed', entries' \subseteq entries,
           notifying \subseteq notifying',
           \A w \in Workers : until'[w] = until[w] \/ until'[w] = Awake
    PROVE  WakesInTime'
<1>1. IdleWait \in Nat
  BY WakeupAssumption
<1>2. ASSUME NEW w \in Sleepers', NEW e \in entries'
      PROVE  /\ w \in Sleepers /\ e \in entries /\ until'[w] = until[w]
             /\ until[w] \in Nat
             /\ EligibleAt(e) \in Nat /\ EligibleAt(e)' \in Nat
             /\ EligibleAt(e)' >= EligibleAt(e)
  <2>1. w \in Sleepers /\ until'[w] = until[w] /\ until[w] \in Nat
    BY <1>2 DEF Sleepers, Asleep, SleepInv, WakeTypeOK
  <2>2. e \in entries /\ e \in Entries
    BY <1>2 DEF SleepInv, TypeInv, TypeOK
  <2> QED
    BY <2>1, <2>2, EligibleOnlyLater DEF SleepInv
<1>3. ASSUME notifying' = {}, ~closed', NEW w \in Sleepers', NEW e \in entries',
             e.kind = "built"
      PROVE  until'[w] <= EligibleAt(e)'
  <2>1. until[w] <= EligibleAt(e)
    BY <1>2, <1>3 DEF WakesInTime, RetryWakesAll
  <2> QED
    BY <1>2, <1>3, <2>1
<1>4. ASSUME NEW w \in Sleepers', NEW e \in entries', e.kind # "built"
      PROVE  until'[w] <= EligibleAt(e)' + IdleWait
  <2>1. until[w] <= EligibleAt(e) + IdleWait
    BY <1>2, <1>4 DEF WakesInTime, OversleepBounded
  <2> QED
    BY <1>1, <1>2, <1>4, <2>1
<1> QED
  BY <1>3, <1>4 DEF WakesInTime, RetryWakesAll, OversleepBounded

LEMMA WakesInTimeStep ==
    ASSUME SleepInv, WakesInTime, [WakeNext]_wakeVars
    PROVE  WakesInTime'
<1>1. TypeInv' /\ [Next]_vars /\ TypeInv /\ SleepInv'
  BY WakeStep, TypeInvStep, SleepInvStep DEF SleepInv
<1>2. until \in [Workers -> Nat \cup {Awake}] /\ now \in Nat /\ IdleWait \in Nat
  BY WakeupAssumption DEF SleepInv, WakeTypeOK, TypeInv, TypeOK
<1>3. ASSUME NEW a \in Accounts, NEW o \in Offers, Submit(a, o.prio, o.test)
      PROVE  WakesInTime'
  <2> PICK n : n = NewEntry(a, o.prio, o.test)
    OBVIOUS
  <2>1. /\ entries' = entries \cup {n} /\ closed' = closed /\ gate' = gate
        /\ now' = now /\ notifying' = notifying
        /\ nextSeq < MaxJobs
    BY <1>3 DEF Submit, Enqueue
  <2>2. n \in Entries /\ n.kind # "built" /\ n.notBefore = now
    <3>1. n.kind # "built" /\ n.notBefore = now
      BY DEF NewEntry
    <3>2. n \in Entries
      BY <1>1, <2>1, NewEntryType, ConstantTypes DEF TypeInv
    <3> QED
      BY <3>1, <3>2
  <2>3. \A w \in Workers : until'[w] = until[w] \/ until'[w] = Awake
    BY <1>2, <1>3, NotifyOneStep DEF Submit
  <2>4. ASSUME NEW w \in Sleepers'
        PROVE  w \in Sleepers /\ until'[w] = until[w] /\ until[w] <= now + IdleWait
    BY <2>3, <2>4 DEF Sleepers, Asleep, SleepInv
  <2>5. \A e \in entries : EligibleAt(e)' = EligibleAt(e)
    BY <2>1 DEF EligibleAt, IsTest
  <2>6. RetryWakesAll'
    BY <2>1, <2>2, <2>4, <2>5 DEF WakesInTime, RetryWakesAll
  <2>7. ASSUME NEW w \in Sleepers' PROVE until'[w] <= EligibleAt(n)' + IdleWait
    <3>1. EligibleAt(n)' = EligibleAt(n)
      BY <2>1 DEF EligibleAt, IsTest
    <3>2. EligibleAt(n) \in Nat /\ EligibleAt(n) >= now
      BY <1>1, <2>2, EligibleAtType
    <3>3. until[w] \in Nat
      BY <1>2, <2>4 DEF Sleepers, Asleep
    <3> QED
      BY <1>2, <2>4, <2>7, <3>1, <3>2, <3>3
  <2>8. OversleepBounded'
    BY <2>1, <2>4, <2>5, <2>7 DEF WakesInTime, OversleepBounded
  <2> QED
    BY <2>6, <2>8 DEF WakesInTime
<1>4. CASE DropManager
  BY <1>1, <1>4, TimelyQuiet DEF DropManager, Announces, Close
<1>5. ASSUME NEW t \in notifying, NotifyAll(t) PROVE WakesInTime'
  BY <1>5 DEF NotifyAll, WakesInTime, RetryWakesAll, OversleepBounded,
              Sleepers, Asleep
<1>6. ASSUME NEW w \in Workers, Look(w) \/ Serve(w) PROVE WakesInTime'
  <2>1. closed' = closed /\ entries' \subseteq entries
    <3>1. CASE Attempt(w)
      BY <3>1, AttemptStep DEF SleepInv
    <3>2. CASE Look(w) \/ Take(w) \/ Release(w)
      BY <3>2 DEF Look, Retire, Scan, Removed, Take, Release
    <3> QED
      BY <1>6, <3>1, <3>2 DEF Serve
  <2> QED
    BY <1>1, <1>6, <2>1, TimelyQuiet DEF Look, Serve
<1>7. ASSUME NEW w \in Workers, Sleep(w) PROVE WakesInTime'
  <2>1. /\ until'[w] = WakeTime /\ UNCHANGED << vars, notifying >>
        /\ \A v \in Workers \ {w} : until'[v] = until[v]
    BY <1>7, SleepStep
  <2>2. \A e \in entries : EligibleAt(e)' = EligibleAt(e) /\ EligibleAt(e) \in Nat
    BY <1>1, <2>1, EligibleAtType DEF vars, EligibleAt, IsTest, TypeInv, TypeOK
  <2>3. \A v \in Sleepers' : v = w \/ (v \in Sleepers /\ until'[v] = until[v])
    BY <2>1 DEF Sleepers, Asleep
  <2>4. WakeTime \in Nat /\ \A e \in entries : WakeTime <= EligibleAt(e)
    BY <1>1, WakeTimeBounds
  <2>5. RetryWakesAll'
    BY <2>1, <2>2, <2>3, <2>4 DEF WakesInTime, RetryWakesAll, vars
  <2>6. ASSUME NEW v \in Sleepers', NEW e \in entries, e.kind # "built"
        PROVE  until'[v] <= EligibleAt(e) + IdleWait
    <3>1. CASE v = w
      BY <1>2, <2>1, <2>2, <2>4, <3>1
    <3>2. CASE v \in Sleepers /\ until'[v] = until[v]
      BY <2>6, <3>2 DEF WakesInTime, OversleepBounded
    <3> QED
      BY <2>3, <3>1, <3>2
  <2>7. OversleepBounded'
    BY <2>1, <2>2, <2>6 DEF OversleepBounded, vars
  <2> QED
    BY <2>5, <2>7 DEF WakesInTime
<1>8. ASSUME NEW w \in Workers, WakeUp(w) PROVE WakesInTime'
  BY <1>1, <1>2, <1>8, TimelyQuiet DEF WakeUp, vars
<1>9. ASSUME NEW w \in Workers, PutBack(w) PROVE WakesInTime'
  <2>1. /\ entries' = entries \cup { held[w] } /\ held[w].kind = "built"
        /\ until' = until /\ gate' = gate /\ notifying' # {}
    BY <1>9 DEF PutBack, Requeue, Returned, Goto, Announces, SleepInv, BuiltBack
  <2>2. \A e \in entries : EligibleAt(e)' = EligibleAt(e)
    BY <2>1 DEF EligibleAt, IsTest
  <2> QED
    BY <2>1, <2>2 DEF WakesInTime, RetryWakesAll, OversleepBounded,
                      Sleepers, Asleep
<1>10. CASE TimePasses
  BY <1>1, <1>10, TimelyQuiet DEF TimePasses, Tick
<1>11. CASE UNCHANGED wakeVars
  BY <1>1, <1>11, TimelyQuiet DEF wakeVars, vars
<1> QED
  BY <1>3, <1>4, <1>5, <1>6, <1>7, <1>8, <1>9, <1>10, <1>11 DEF WakeNext

\* The notify_all after a requeue reaches every sleeper, so none sleeps past
\* a retry; the notify_one of a submission reaches one, and another may
\* oversleep a new job by the idle wait at most.
THEOREM WakesInTimeAlways == WakeSpec => []WakesInTime
<1>1. WakeInit => WakesInTime
  BY DEF WakeInit, Init, WakesInTime, RetryWakesAll, OversleepBounded,
         Sleepers, Asleep
<1>2. SleepInv /\ WakesInTime /\ [WakeNext]_wakeVars => WakesInTime'
  BY WakesInTimeStep
<1> QED
  BY <1>1, <1>2, SleepInvAlways, PTL DEF WakeSpec
-----------------------------------------------------------------------------
(* Who looks.                                                              *)

\* Nothing is submitted in the future, and whoever owes a notification is up:
\* a worker between two jobs, or the thread that dropped the manager.
LookInv ==
    /\ \A e \in entries : e.kind # "built" => e.at <= now
    /\ \A w \in Workers : w \in notifying => pc[w] = "idle"
    /\ MainThread \in notifying => closed

\* A worker that owes a notification does nothing else, and no job that goes
\* back is new.
LEMMA LookInvStep ==
    ASSUME SleepInv, LookInv, [WakeNext]_wakeVars
    PROVE  LookInv'
<1>1. /\ TypeInv /\ now \in Nat
      /\ \A e \in entries : e.at \in Nat /\ e \in Entries
  BY DEF SleepInv, TypeInv, TypeOK, Entries
<1>2. ASSUME UNCHANGED notifying, entries' \subseteq entries, now' \in Nat,
             now' >= now, closed => closed',
             \A w \in Workers : w \in notifying => pc'[w] = pc[w]
      PROVE  LookInv'
  BY <1>1, <1>2 DEF LookInv
<1>3. ASSUME NEW a \in Accounts, NEW o \in Offers, Submit(a, o.prio, o.test)
      PROVE  LookInv'
  <2> PICK n : n = NewEntry(a, o.prio, o.test)
    OBVIOUS
  <2>1. /\ entries' = entries \cup {n} /\ closed' = closed
        /\ now' = now /\ notifying' = notifying
        /\ \A w \in Workers : pc[w] = "idle" => pc'[w] = "idle"
    BY <1>3 DEF Submit, Enqueue
  <2>2. n.at = now
    BY DEF NewEntry
  <2> QED
    BY <1>1, <2>1, <2>2 DEF LookInv
<1>4. CASE DropManager
  BY <1>4, WakeupAssumption DEF DropManager, Close, Announces, LookInv
<1>5. ASSUME NEW t \in notifying, NotifyAll(t) PROVE LookInv'
  BY <1>5 DEF NotifyAll, vars, LookInv
<1>6. ASSUME NEW w \in Workers, Look(w) PROVE LookInv'
  <2>1. w \notin notifying /\ notifying' = notifying
    BY <1>6 DEF Look, CanLook
  <2>2. CASE Retire(w)
    BY <1>1, <1>2, <2>1, <2>2, RetireTypeInv
  <2>3. CASE Scan(w)
    <3>1. now' = now /\ closed' = closed
      BY <2>3 DEF Scan
    <3> QED
      BY <1>1, <1>2, <2>1, <2>3, <3>1, ScanTypeInv
  <2> QED
    BY <1>6, <2>2, <2>3 DEF Look
<1>7. ASSUME NEW w \in Workers, Serve(w) PROVE LookInv'
  <2>1. notifying' = notifying
    BY <1>7 DEF Serve
  <2>2. CASE Take(w)
    <3>1. /\ UNCHANGED << now, entries, closed >> /\ pc[w] = "taking"
          /\ \A v \in Workers \ {w} : pc'[v] = pc[v]
      BY <1>1, <2>2, TakeTypeInv DEF Take
    <3> QED
      BY <1>1, <1>2, <2>1, <3>1 DEF LookInv
  <2>3. CASE Attempt(w)
    <3>1. /\ UNCHANGED << now, entries, closed >> /\ pc[w] = "attempt"
          /\ \A v \in Workers \ {w} : pc'[v] = pc[v]
      BY <1>1, <2>3, AttemptStep, AttemptHeld
    <3> QED
      BY <1>1, <1>2, <2>1, <3>1 DEF LookInv
  <2>4. CASE Release(w)
    <3>1. /\ UNCHANGED << now, entries, closed >> /\ pc[w] = "finish"
          /\ \A v \in Workers \ {w} : pc'[v] = pc[v]
      BY <1>1, <2>4, ReleaseTypeInv DEF Release
    <3> QED
      BY <1>1, <1>2, <2>1, <3>1 DEF LookInv
  <2> QED
    BY <1>7, <2>2, <2>3, <2>4 DEF Serve
<1>8. ASSUME NEW w \in Workers, Sleep(w) PROVE LookInv'
  BY <1>1, <1>2, <1>8 DEF Sleep, vars
<1>9. ASSUME NEW w \in Workers, WakeUp(w) PROVE LookInv'
  BY <1>1, <1>2, <1>9 DEF WakeUp, vars
<1>10. ASSUME NEW w \in Workers, PutBack(w) PROVE LookInv'
  <2>1. /\ entries' = entries \cup { held[w] } /\ held[w].kind = "built"
        /\ UNCHANGED << now, closed >> /\ notifying' = notifying \cup {w}
        /\ pc'[w] = "idle" /\ \A v \in Workers \ {w} : pc'[v] = pc[v]
    BY <1>1, <1>10, RequeueTypeInv
       DEF PutBack, Requeue, Announces, Goto, SleepInv, BuiltBack
  <2> QED
    BY <2>1, WakeupAssumption DEF LookInv
<1>11. CASE TimePasses
  BY <1>1, <1>2, <1>11 DEF TimePasses, Tick
<1>12. CASE UNCHANGED wakeVars
  BY <1>1, <1>2, <1>12 DEF wakeVars, vars
<1> QED
  BY <1>3, <1>4, <1>5, <1>6, <1>7, <1>8, <1>9, <1>10, <1>11, <1>12 DEF WakeNext

\* A message back for a retry: the worker that owes its notify_all is up, and
\* once that is through no sleeper sleeps past it.
LEMMA RetryWatched ==
    ASSUME SleepInv, LookInv, WakesInTime, ~closed, Sleepers # {},
           NEW e \in entries, e.kind = "built"
    PROVE  \E w \in Workers : Watches(w, e)
<1>1. \A w \in Sleepers : w \in Workers /\ pc[w] = "idle" /\ w \notin notifying
  BY DEF SleepInv, WakeTypeOK, Sleepers
<1>2. CASE notifying = {}
  <2>1. PICK w \in Sleepers : TRUE
    OBVIOUS
  <2>2. until[w] <= EligibleAt(e)
    BY <1>2, <2>1 DEF WakesInTime, RetryWakesAll
  <2> QED
    BY <1>1, <2>1, <2>2 DEF Watches
<1>3. CASE notifying # {}
  <2>1. PICK t \in notifying : TRUE
    BY <1>3
  <2>2. t \in Workers /\ pc[t] = "idle"
    BY <2>1 DEF LookInv, SleepInv, WakeTypeOK
  <2>3. ~Asleep(t)
    BY <1>1, <2>1, <2>2 DEF Sleepers
  <2> QED
    BY <2>2, <2>3 DEF Watches
<1> QED
  BY <1>2, <1>3

\* The new jobs, whose submission woke one worker.
NewWatched(e) ==
    \/ \E w \in Workers : Watches(w, e)
    \/ \E w \in Workers : WentBy(w, e)

NewJobsWatched ==
    closed \/ Sleepers = {} \/
        \A e \in entries : e.kind # "built" => NewWatched(e)

\* A worker that a step does not move goes on watching, since gates only
\* close, and goes on with its job.
LEMMA WatchesOn ==
    ASSUME SleepInv, TypeInv', [Next]_vars, NEW e \in Entries,
           NEW w \in Workers, Watches(w, e), pc'[w] = pc[w],
           until'[w] = until[w] \/ until'[w] = Awake
    PROVE  Watches(w, e)'
<1>1. pc'[w] = "idle"
  BY DEF Watches
<1>2. CASE until'[w] = Awake
  BY <1>1, <1>2 DEF Watches, Asleep
<1>3. CASE until'[w] = until[w] /\ until[w] # Awake
  <2>1. until[w] \in Nat /\ until[w] <= EligibleAt(e)
    BY <1>3 DEF Watches, Asleep, SleepInv, WakeTypeOK
  <2>2. /\ EligibleAt(e) \in Nat /\ EligibleAt(e)' \in Nat
        /\ EligibleAt(e)' >= EligibleAt(e)
    BY EligibleOnlyLater DEF SleepInv
  <2>3. until'[w] <= EligibleAt(e)'
    BY ONLY <1>3, <2>1, <2>2
  <2> QED
    BY <1>1, <2>3 DEF Watches
<1> QED
  BY <1>2, <1>3

LEMMA WentByOn ==
    ASSUME NEW e \in Entries, NEW w \in Workers, WentBy(w, e),
           pc'[w] = pc[w], held'[w] = held[w]
    PROVE  WentBy(w, e)'
BY DEF WentBy, Busy

\* A step in which no worker moves.
LEMMA WatchKept ==
    ASSUME SleepInv, TypeInv', [Next]_vars, NEW e \in Entries, NewWatched(e),
           held' = held,
           \A w \in Workers :
               /\ pc[w] # "absent" => pc'[w] = pc[w]
               /\ until'[w] = until[w] \/ until'[w] = Awake
    PROVE  NewWatched(e)'
<1>1. ASSUME NEW w \in Workers, Watches(w, e) PROVE Watches(w, e)'
  <2>1. pc'[w] = pc[w]
    BY <1>1 DEF Watches
  <2> QED
    BY <1>1, <2>1, WatchesOn
<1>2. ASSUME NEW w \in Workers, WentBy(w, e) PROVE WentBy(w, e)'
  <2>1. pc'[w] = pc[w]
    BY <1>2 DEF WentBy, Busy
  <2> QED
    BY <1>2, <2>1, WentByOn
<1> QED
  BY <1>1, <1>2 DEF NewWatched

\* An attempt takes time at the relay, and its worker goes on being the one
\* that took another job.
LEMMA WatchDuringAttempt ==
    ASSUME SleepInv, TypeInv', [Next]_vars, NEW w \in Workers, Attempt(w),
           until' = until, NEW e \in Entries, e.at <= now, NewWatched(e)
    PROVE  NewWatched(e)'
<1>1. /\ pc[w] = "attempt" /\ pc'[w] \in { "finish", "requeue" }
      /\ held[w] \in Entries /\ held'[w] \in Entries
      /\ \A v \in Workers \ {w} : pc'[v] = pc[v] /\ held'[v] = held[v]
  BY AttemptHeld, HeldType DEF SleepInv
<1>2. ASSUME NEW v \in Workers, Watches(v, e) PROVE Watches(v, e)'
  <2>1. pc'[v] = pc[v]
    BY <1>1, <1>2 DEF Watches
  <2> QED
    BY <1>2, <2>1, WatchesOn
<1>3. ASSUME NEW v \in Workers \ {w}, WentBy(v, e) PROVE WentBy(v, e)'
  BY <1>1, <1>3, WentByOn
<1>4. ASSUME WentBy(w, e) PROVE WentBy(w, e)'
  <2>1. held[w].last >= e.at
    BY <1>1, <1>4 DEF WentBy
  <2>2. held'[w].last = held[w].last \/ held'[w].last = now
    <3>1. FinishedAttempt(w) \/ RetriedAttempt(w)
      BY AttemptStep DEF SleepInv
    <3>2. CASE FinishedAttempt(w)
      BY <3>2 DEF FinishedAttempt
    <3>3. CASE RetriedAttempt(w)
      <4>1. PICK x \in RelayErrors : held'[w] = ForRetry(held[w], x)
        <5>1. held \in [Workers -> Entries \cup { NoEntry }]
          BY DEF SleepInv, TypeInv, TypeOK
        <5> QED
          BY <3>3, <5>1 DEF RetriedAttempt
      <4>2. ForRetry(held[w], x).last = now
        BY <1>1 DEF ForRetry, Entries
      <4> QED
        BY <4>1, <4>2
    <3> QED
      BY <3>1, <3>2, <3>3
  <2>3. held'[w].last >= e.at
    BY <2>1, <2>2
  <2> QED
    BY <1>1, <2>3 DEF WentBy, Busy
<1> QED
  BY <1>2, <1>3, <1>4 DEF NewWatched

LEMMA NewJobsStep ==
    ASSUME SleepInv, LookInv, NewJobsWatched, [WakeNext]_wakeVars
    PROVE  NewJobsWatched'
<1>1. /\ TypeInv' /\ [Next]_vars /\ TypeInv
      /\ until \in [Workers -> Nat \cup {Awake}]
      /\ \A e \in entries : e \in Entries
  BY WakeStep, TypeInvStep DEF SleepInv, WakeTypeOK, TypeInv, TypeOK
<1>2. ASSUME NEW v \in Workers, pc'[v] = "idle", until'[v] = Awake
      PROVE  NewJobsWatched'
  BY <1>2 DEF NewJobsWatched, NewWatched, Watches, Asleep
<1>3. ASSUME ~closed, Sleepers # {}, NEW e \in entries, e.kind # "built"
      PROVE  NewWatched(e) /\ e.at <= now
  BY <1>3 DEF NewJobsWatched, LookInv
<1>4. ASSUME entries' \subseteq entries, held' = held, closed => closed',
             \A w \in Workers :
               /\ pc'[w] = pc[w]
               /\ until'[w] = until[w] \/ until'[w] = Awake
      PROVE  NewJobsWatched'
  <2>1. Sleepers' \subseteq Sleepers
    BY <1>4 DEF Sleepers, Asleep
  <2> QED
    BY <1>1, <1>3, <1>4, <2>1, WatchKept DEF NewJobsWatched
<1>5. ASSUME NEW a \in Accounts, NEW o \in Offers, Submit(a, o.prio, o.test)
      PROVE  NewJobsWatched'
  <2> PICK n : n = NewEntry(a, o.prio, o.test)
    OBVIOUS
  <2>1. /\ entries' = entries \cup {n} /\ closed' = closed /\ held' = held
        /\ \A w \in Workers : pc[w] # "absent" => pc'[w] = pc[w]
    BY <1>5 DEF Submit, Enqueue, Started
  <2>2. \A w \in Workers : until'[w] = until[w] \/ until'[w] = Awake
    BY <1>1, <1>5, NotifyOneStep DEF Submit
  <2>3. CASE Sleepers = {}
    <3>1. Sleepers' = {}
      BY <2>2, <2>3 DEF Sleepers, Asleep
    <3> QED
      BY <3>1 DEF NewJobsWatched
  <2>4. CASE Sleepers # {}
    <3>1. PICK w \in Sleepers : until' = [until EXCEPT ![w] = Awake]
      BY <1>5, <2>4 DEF Submit, NotifyOne
    <3>2. w \in Workers /\ pc[w] = "idle"
      BY <3>1 DEF SleepInv, WakeTypeOK, Sleepers
    <3>3. pc'[w] = "idle" /\ until'[w] = Awake
      BY <1>1, <2>1, <3>1, <3>2
    <3> QED
      BY <1>2, <3>2, <3>3
  <2> QED
    BY <2>3, <2>4
<1>6. CASE DropManager
  BY <1>6 DEF DropManager, Close, NewJobsWatched
<1>7. ASSUME NEW t \in notifying, NotifyAll(t) PROVE NewJobsWatched'
  BY <1>7 DEF NotifyAll, NewJobsWatched, Sleepers, Asleep
<1>8. ASSUME NEW w \in Workers, Look(w) PROVE NewJobsWatched'
  <2>1. CASE Retire(w)
    BY <2>1 DEF Retire, NewJobsWatched
  <2>2. CASE Scan(w)
    BY <1>1, <2>2, ScanTypeInv DEF NewJobsWatched, NewWatched, WentBy
  <2> QED
    BY <1>8, <2>1, <2>2 DEF Look
<1>9. ASSUME NEW w \in Workers, Serve(w) PROVE NewJobsWatched'
  <2>1. until' = until /\ ~Asleep(w)
    BY <1>9, ServeStep DEF Serve
  <2>2. Sleepers' = Sleepers
    BY <2>1 DEF Sleepers, Asleep
  <2>3. CASE Take(w)
    <3>1. /\ UNCHANGED << entries, closed >> /\ w \in Busy'
          /\ held'[w].last = now
      <4>1. held'[w] = [held[w] EXCEPT !.last = now] /\ held[w] \in Entries
        BY <1>1, <2>3, TakeTypeInv, HeldType
      <4>2. held'[w].last = now
        BY <4>1 DEF Entries
      <4>3. UNCHANGED << entries, closed >> /\ pc'[w] = "attempt"
        BY <1>1, <2>3, TakeTypeInv DEF Take
      <4> QED
        BY <4>2, <4>3 DEF Busy
    <3>2. \A e \in entries : e.kind # "built" => WentBy(w, e)'
      BY <3>1 DEF LookInv, WentBy
    <3> QED
      BY <3>1, <3>2 DEF NewJobsWatched, NewWatched
  <2>4. CASE Attempt(w)
    <3>1. UNCHANGED << entries, closed >>
      BY <1>1, <2>4, AttemptStep
    <3>2. ASSUME ~closed, Sleepers # {}, NEW e \in entries, e.kind # "built"
          PROVE  NewWatched(e)'
      BY <1>1, <1>3, <2>1, <2>4, <3>2, WatchDuringAttempt
    <3> QED
      BY <2>2, <3>1, <3>2 DEF NewJobsWatched
  <2>5. CASE Release(w)
    <3>1. pc'[w] = "idle" /\ until'[w] = Awake
      BY <1>1, <2>1, <2>5, ReleaseTypeInv DEF Asleep
    <3> QED
      BY <1>2, <3>1
  <2> QED
    BY <1>9, <2>3, <2>4, <2>5 DEF Serve
<1>10. ASSUME NEW w \in Workers, Sleep(w) PROVE NewJobsWatched'
  <2>1. until'[w] = WakeTime /\ UNCHANGED vars /\ pc[w] = "idle"
    BY <1>10, SleepStep DEF Sleep
  <2>2. ASSUME NEW e \in entries PROVE Watches(w, e)'
    <3>1. EligibleAt(e)' = EligibleAt(e)
      BY <2>1 DEF vars, EligibleAt, IsTest
    <3>2. until'[w] <= EligibleAt(e)'
      BY <1>1, <2>1, <3>1, WakeTimeBounds
    <3> QED
      BY <2>1, <3>2 DEF Watches, vars
  <2>3. entries' = entries
    BY <2>1 DEF vars
  <2> QED
    BY <2>2, <2>3 DEF NewJobsWatched, NewWatched
<1>11. ASSUME NEW w \in Workers, WakeUp(w) PROVE NewJobsWatched'
  <2>1. pc[w] = "idle" /\ pc' = pc /\ until'[w] = Awake
    BY <1>1, <1>11 DEF WakeUp, vars, SleepInv, WakeTypeOK, Sleepers
  <2> QED
    BY <1>2, <2>1
<1>12. ASSUME NEW w \in Workers, PutBack(w) PROVE NewJobsWatched'
  <2>1. until' = until /\ ~Asleep(w) /\ pc'[w] = "idle"
    BY <1>1, <1>12, ServeStep, RequeueTypeInv DEF PutBack
  <2> QED
    BY <1>2, <2>1 DEF Asleep
<1>13. CASE TimePasses
  BY <1>4, <1>13 DEF TimePasses, Tick
<1>14. CASE UNCHANGED wakeVars
  BY <1>4, <1>14 DEF wakeVars, vars
<1> QED
  BY <1>5, <1>6, <1>7, <1>8, <1>9, <1>10, <1>11, <1>12, <1>13, <1>14 DEF WakeNext

\* No wake-up is lost: while workers sleep, every queued job has a worker
\* without a job that is up, or sleeps no longer than until the job is
\* eligible.  The one exception is a new job that a worker went by for
\* another; a retry has none.  The argument has a part for each: a submission
\* wakes a sleeper, which looks, and then sleeps no longer than the job or
\* holds a job taken since; and who puts a retry back is up until its
\* notify_all is through.
THEOREM SomeoneAlwaysLooks == WakeSpec => []SomeoneLooks
<1>1. WakeInit => LookInv /\ NewJobsWatched
  BY DEF WakeInit, Init, LookInv, NewJobsWatched
<1>2. SleepInv /\ LookInv /\ [WakeNext]_wakeVars => LookInv'
  BY LookInvStep
<1>3. SleepInv /\ LookInv /\ NewJobsWatched /\ [WakeNext]_wakeVars
        => NewJobsWatched'
  BY NewJobsStep
<1>4. SleepInv /\ LookInv /\ WakesInTime /\ NewJobsWatched => SomeoneLooks
  <2> SUFFICES ASSUME SleepInv, LookInv, WakesInTime, NewJobsWatched,
                      ~closed, Sleepers # {}, NEW e \in entries
               PROVE  \/ \E w \in Workers : Watches(w, e)
                      \/ e.kind # "built" /\ \E w \in Workers : WentBy(w, e)
    BY DEF SomeoneLooks
  <2>1. CASE e.kind = "built"
    BY <2>1, RetryWatched
  <2>2. CASE e.kind # "built"
    BY <2>2 DEF NewJobsWatched, NewWatched
  <2> QED
    BY <2>1, <2>2
<1> QED
  BY <1>1, <1>2, <1>3, <1>4, SleepInvAlways, WakesInTimeAlways, PTL DEF WakeSpec
=============================================================================
