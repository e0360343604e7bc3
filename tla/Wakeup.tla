------------------------------- MODULE Wakeup -------------------------------
(***************************************************************************)
(* The condition variable under the scheduler of src/sender.rs: when a     *)
(* worker with nothing to do goes to sleep, for how long, and what wakes   *)
(* it.  Every step is a step of Scheduler, or one that Scheduler does not  *)
(* see.                                                                    *)
(*                                                                         *)
(* submit notifies one worker with the queue locked.  A requeue and the    *)
(* drop of the manager notify all of them after they unlocked it, so other *)
(* threads run between the change and the call.  A worker also wakes when  *)
(* its time is up, or spuriously, and however it woke it looks again.      *)
(***************************************************************************)
EXTENDS Scheduler

CONSTANTS
    MainThread,  \* the thread that submits and drops the manager
    Awake,       \* in place of a time: the worker is not asleep
    IdleWait     \* IDLE_WAIT

ASSUME WakeupAssumption ==
    /\ Workers # {}
    /\ MainThread \notin Workers
    /\ Awake \notin Nat
    /\ IdleWait \in Nat \ {0}

VARIABLES
    until,      \* until[w]: when a sleeping worker wakes by itself
    notifying   \* the threads that changed the queue and have not called
                \* notify_all yet

wakeVars == << vars, until, notifying >>

Asleep(w) == until[w] # Awake
Sleepers == { w \in Workers : Asleep(w) }

WakeInit ==
    /\ Init
    /\ until = [w \in Workers |-> Awake]
    /\ notifying = {}

\* Mutant: a submission wakes nobody.
NotifyOne_Never == UNCHANGED until

\* notify_one: some sleeper, if there is one.
NotifyOne ==
    \/ Sleepers = {} /\ UNCHANGED until
    \/ \E w \in Sleepers : until' = [until EXCEPT ![w] = Awake]

\* submit
Submit(a, p, test) ==
    /\ Enqueue(a, p, test)
    /\ NotifyOne
    /\ UNCHANGED notifying

\* Mutant: the change is made and nobody is told.
Announces_Never(t) == UNCHANGED notifying

\* A change whose notify_all comes once the queue is unlocked.
Announces(t) == notifying' = notifying \cup {t}

\* Drop of the manager.
DropManager ==
    /\ Close
    /\ Announces(MainThread)
    /\ UNCHANGED until

NotifyAll(t) ==
    /\ t \in notifying
    /\ notifying' = notifying \ {t}
    /\ until' = [w \in Workers |-> Awake]
    /\ UNCHANGED vars

\* A worker that is neither asleep nor about to notify.
CanLook(w) == ~Asleep(w) /\ w \notin notifying

\* next_entry finds a job, or the queue closed.
Look(w) ==
    /\ CanLook(w)
    /\ Retire(w) \/ Scan(w)
    /\ UNCHANGED << until, notifying >>

\* Mutant: the wait is not capped.
WakeTime_Uncapped ==
    IF entries = {} THEN now + IdleWait
    ELSE CHOOSE t \in { EligibleAt(e) : e \in entries } :
            \A e \in entries : t <= EligibleAt(e)

\* When a worker that found nothing looks again: at the first moment that
\* pick saw a job become eligible, and no later than the idle wait.
WakeTime ==
    IF \E e \in entries : EligibleAt(e) <= now + IdleWait
    THEN CHOOSE t \in { EligibleAt(e) : e \in entries } :
            \A e \in entries : t <= EligibleAt(e)
    ELSE now + IdleWait

\* next_entry finds nothing eligible and waits, which unlocks the queue.
Sleep(w) ==
    /\ CanLook(w)
    /\ pc[w] = "idle" /\ lock = NoWorker /\ ~closed
    /\ Eligible = {}
    /\ until' = [until EXCEPT ![w] = WakeTime]
    /\ UNCHANGED << vars, notifying >>

\* The time is up, or the wake-up is spurious.
WakeUp(w) ==
    /\ Asleep(w)
    /\ until' = [until EXCEPT ![w] = Awake]
    /\ UNCHANGED << vars, notifying >>

\* The job it holds.
Serve(w) ==
    /\ Take(w) \/ Attempt(w) \/ Release(w)
    /\ UNCHANGED << until, notifying >>

\* The end of an attempt that will be tried again.
PutBack(w) ==
    /\ Requeue(w)
    /\ Announces(w)
    /\ UNCHANGED until

TimePasses == Tick /\ UNCHANGED << until, notifying >>

WakeNext ==
    \/ \E a \in Accounts, o \in Offers : Submit(a, o.prio, o.test)
    \/ DropManager
    \/ \E t \in notifying : NotifyAll(t)
    \/ \E w \in Workers :
         \/ Look(w) \/ Sleep(w) \/ WakeUp(w) \/ Serve(w) \/ PutBack(w)
    \/ TimePasses

WakeSpec == WakeInit /\ [][WakeNext]_wakeVars

-----------------------------------------------------------------------------
(* What makes it correct.                                                  *)

\* A sleeping worker holds no job and sleeps until some moment; only the
\* main thread and a worker between two jobs owe a notification.
WakeTypeOK ==
    /\ until \in [Workers -> Nat \cup {Awake}]
    /\ notifying \subseteq Workers \cup {MainThread}
    /\ \A w \in Sleepers : pc[w] = "idle" /\ w \notin notifying

\* A worker without a job that looks at the queue no later than e becomes
\* eligible, whatever happens at the relays.
Watches(w, e) ==
    pc[w] = "idle" /\ (~Asleep(w) \/ until[w] <= EligibleAt(e))

\* A worker that is at another job, which it took since e was submitted.
WentBy(w, e) ==
    w \in Busy /\ (pc[w] = "taking" \/ held[w].last >= e.at)

\* No wake-up is lost: while workers sleep, a queued job has one of them that
\* looks in time.  The wake-up of a new job can be spent, but only on another
\* job: the worker that notify_one chose, or one that finished and looked,
\* took that one instead.  The new job may then be eligible and wait, for that
\* worker's relay or out another's idle wait, whichever ends first: so
\* IDLE_WAIT is more than "a safety net: every change to the queue wakes the
\* workers anyway" (sender.rs:44-46).  A message back for a retry never waits
\* so.
SomeoneLooks ==
    closed \/ Sleepers = {} \/ \A e \in entries :
        \/ \E w \in Workers : Watches(w, e)
        \/ e.kind # "built" /\ \E w \in Workers : WentBy(w, e)

\* A message that goes back for a retry is seen by all the workers: once its
\* notify_all is through, none of them sleeps past its next attempt, and so
\* the worker that gives it back need not be the one that takes it.
RetryWakesAll ==
    notifying = {} /\ ~closed =>
        \A e \in entries, w \in Sleepers :
            e.kind = "built" => until[w] <= EligibleAt(e)

\* A submission wakes one worker only, so the others may sleep past the moment
\* the job becomes eligible, but never by more than the idle wait.
OversleepBounded ==
    \A w \in Sleepers, e \in entries :
        e.kind # "built" => until[w] <= EligibleAt(e) + IdleWait

\* No worker sleeps longer than the code's two ways of waking it allow.
WakesInTime == RetryWakesAll /\ OversleepBounded

\* Once the manager is dropped and has notified, every worker is up: none
\* parks on a queue that nobody will notify again.
NobodyParked == closed /\ MainThread \notin notifying => Sleepers = {}
=============================================================================
