----------------------------- MODULE Scheduler ------------------------------
(***************************************************************************)
(* The scheduler of src/sender.rs: one queue under one mutex, the workers  *)
(* that take the best eligible job out of it, the gate that paces each     *)
(* account, and the attempt that ends or goes back into the queue.         *)
(*                                                                         *)
(* Workers interleave wherever the code takes or releases a lock: the scan *)
(* of pick (queue lock, each gate's lock for an instant), its end (the     *)
(* gate's lock, inside the queue's), the outcome of an attempt (the gate's *)
(* lock only) and the requeue (the queue's lock).  An attempt at the relay *)
(* takes any time between Take and its outcome.                            *)
(*                                                                         *)
(* The queue lock is held across a scan of memory only, so the clock does  *)
(* not advance while it is held.  A condition-variable wait is a worker    *)
(* that has not looked yet: wait_timeout makes it look again within        *)
(* IDLE_WAIT whatever the notifications do.                                *)
(***************************************************************************)
EXTENDS Gate, Relay, FiniteSets

CONSTANTS
    Workers,     \* the pool; WORKER_COUNT threads in the code
    NoWorker,    \* the queue lock is free
    Accounts,    \* accounts, open or closed: a queued job keeps its handle
    Interval,    \* Interval[a]: 60 s / rate_limit, 0 when unlimited
    Retries,     \* Retries[a]: attempts after the first
    DryRun,      \* DryRun[a]: nothing is sent, messages go to files
    RetryDelay,  \* RETRY_DELAY
    Allowance,   \* Allowance[p]: the head start a priority concedes
    NoEntry,     \* what a worker with no job holds
    Offers,      \* bound: the submissions scripts make, [prio, test]
    MaxJobs,     \* bound: how many jobs are ever submitted
    Horizon      \* bound: how long the clock runs with nothing to wait for

Priorities == { "low", "normal", "high" }
Kinds == { "send", "built", "test" }
Seqs == 0 .. MaxJobs - 1

\* A job in the queue.  The last two fields are history: when it was
\* submitted, and when its last attempt began and, once it is over, ended.
Entries ==
    [ seq : Seqs, acct : Accounts, kind : Kinds, deadline : Nat,
      notBefore : Nat, retries : Nat, delay : Nat, at : Nat, last : Nat ]

\* What the history keeps of a job: what was submitted, how many attempts
\* began, how many copies the relay may hold, and whether its last attempt
\* had an outcome that another cannot change.
Jobs ==
    [ acct : Accounts, prio : Priorities, test : BOOLEAN, attempts : Nat,
      copies : Nat, final : BOOLEAN ]

ASSUME SchedulerAssumption ==
    /\ NoWorker \notin Workers
    /\ NoEntry \notin Entries
    /\ NoEntry \notin Jobs
    /\ Interval \in [Accounts -> Nat]
    /\ Retries \in [Accounts -> Nat]
    /\ DryRun \in [Accounts -> BOOLEAN]
    /\ RetryDelay \in Nat
    /\ Allowance \in [Priorities -> Nat]
    /\ \A o \in Offers :
         /\ o.prio \in Priorities /\ o.test \in BOOLEAN
         /\ o.test => o.prio = "high"
    /\ MaxJobs \in Nat
    /\ Horizon \in Nat

VARIABLES
    now,       \* the clock
    entries,   \* Queue.entries, a set: pick orders it by (deadline, seq)
    nextSeq,   \* Queue.next_seq
    closed,    \* Queue.closed
    lock,      \* who holds the queue mutex between two steps
    gate,      \* gate[a]
    pc,        \* pc[w]: where each worker is
    held,      \* held[w]: the entry it took out of the queue
    outcome,   \* outcome[w]: how the attempt it finished ended
    log,       \* history: log[s], what became of job s
    picks      \* history: picks[a], the slots a rate-limited account spent
               \* and when it spent the last one

vars == << now, entries, nextSeq, closed, lock, gate, pc, held, outcome,
           log, picks >>

-----------------------------------------------------------------------------
IsTest(e) == e.kind = "test"

\* A connection test ignores the account's gate; mail waits for both.
EligibleAt(e) ==
    IF IsTest(e) THEN e.notBefore ELSE Later(e.notBefore, gate[e.acct].next)

Eligible == { e \in entries : EligibleAt(e) <= now }

\* Mutant: the retry delay decides the order instead of the deadline.
Before_ByNotBefore(e, f) ==
    \/ e.notBefore < f.notBefore
    \/ e.notBefore = f.notBefore /\ e.seq < f.seq

Before(e, f) ==
    \/ e.deadline < f.deadline
    \/ e.deadline = f.deadline /\ e.seq < f.seq

IsBest(e) == \A f \in Eligible : f = e \/ Before(e, f)

Started == \E w \in Workers : pc[w] # "absent"

Init ==
    /\ now = 0
    /\ entries = {} /\ nextSeq = 0 /\ closed = FALSE /\ lock = NoWorker
    /\ gate = [a \in Accounts |-> NewGate(0)]
    /\ pc = [w \in Workers |-> "absent"]
    /\ held = [w \in Workers |-> NoEntry]
    /\ outcome = [w \in Workers |-> "none"]
    /\ log = [s \in Seqs |-> NoEntry]
    /\ picks = [a \in Accounts |-> [count |-> 0, last |-> 0]]

\* The entry submit builds.  A connection test is never retried.
NewEntry(a, p, test) ==
    [ seq |-> nextSeq, acct |-> a, kind |-> IF test THEN "test" ELSE "send",
      deadline |-> now + Allowance[p], notBefore |-> now,
      retries |-> IF test THEN 0 ELSE Retries[a],
      delay |-> RetryDelay, at |-> now, last |-> now ]

\* submit, past its checks; the first one spawns the pool.
Enqueue(a, p, test) ==
    /\ lock = NoWorker /\ ~closed
    /\ nextSeq < MaxJobs
    /\ pc' = IF Started THEN pc ELSE [w \in Workers |-> "idle"]
    /\ nextSeq' = nextSeq + 1
    /\ entries' = entries \cup { NewEntry(a, p, test) }
    /\ log' = [log EXCEPT ![nextSeq] =
         [ acct |-> a, prio |-> p, test |-> test, attempts |-> 0,
           copies |-> 0, final |-> FALSE ]]
    /\ UNCHANGED << now, closed, lock, gate, held, outcome, picks >>

\* Drop of the manager: every worker that looks at the queue now retires.
Close ==
    /\ lock = NoWorker /\ ~closed
    /\ closed' = TRUE
    /\ UNCHANGED << now, entries, nextSeq, lock, gate, pc, held, outcome,
                    log, picks >>

-----------------------------------------------------------------------------
(* A worker.                                                               *)

Goto(w, from, to) ==
    /\ pc[w] = from
    /\ pc' = [pc EXCEPT ![w] = to]

\* Mutant: a worker retires only once the closed queue is empty.
Retire_WhenEmpty(w) ==
    /\ closed /\ lock = NoWorker /\ entries = {}
    /\ Goto(w, "idle", "retired")
    /\ UNCHANGED << now, entries, nextSeq, closed, lock, gate, held, outcome,
                    log, picks >>

\* next_entry on a closed queue.
Retire(w) ==
    /\ closed /\ lock = NoWorker
    /\ Goto(w, "idle", "retired")
    /\ UNCHANGED << now, entries, nextSeq, closed, lock, gate, held, outcome,
                    log, picks >>

\* Mutant: pick copies the entry instead of removing it.
Removed_Copied(e) == entries

Removed(e) == entries \ {e}

\* The scan of pick: the best eligible job leaves the queue.  The worker
\* keeps the queue lock, but not the gate's.
Scan(w) ==
    /\ ~closed /\ lock = NoWorker
    /\ Goto(w, "idle", "taking")
    /\ \E e \in Eligible :
         /\ IsBest(e)
         /\ entries' = Removed(e)
         /\ held' = [held EXCEPT ![w] = e]
    /\ lock' = w
    /\ UNCHANGED << now, nextSeq, closed, gate, outcome, log, picks >>

\* The end of pick: mail spends a slot of its account's gate, whatever
\* another worker did to that gate since the scan.
Take(w) ==
    LET a == held[w].acct
    IN  /\ Goto(w, "taking", "attempt")
        /\ lock' = NoWorker
        /\ log' = [log EXCEPT ![held[w].seq].attempts = @ + 1]
        /\ held' = [held EXCEPT ![w].last = now]
        /\ gate' = IF IsTest(held[w]) THEN gate
                   ELSE [gate EXCEPT ![a] = Taken(@, now, Interval[a])]
        /\ picks' = IF IsTest(held[w]) \/ Interval[a] = 0 THEN picks
                    ELSE [picks EXCEPT ![a] =
                            [count |-> @.count + 1, last |-> now]]
        /\ UNCHANGED << now, entries, nextSeq, closed, outcome >>

\* What the history learns at the end of an attempt.
Logged(w, copies, final) ==
    log' = [log EXCEPT ![held[w].seq].copies = @ + copies,
                       ![held[w].seq].final = final]

\* attempt returns a result.
Finish(w, o) ==
    /\ Goto(w, "attempt", "finish")
    /\ outcome' = [outcome EXCEPT ![w] = o]
    /\ UNCHANGED held

AttemptKeeps ==
    UNCHANGED << now, entries, nextSeq, closed, lock, picks >>

\* Mutant: the early return of a dry run is missing.
Dry_Unchecked(w) == FALSE

Dry(w) == DryRun[held[w].acct]

\* A dry run writes the message to a file; a test has nothing to prove.
\* Building or writing may fail.  Nothing is retried.
AttemptDry(w) ==
    /\ Dry(w)
    /\ \E o \in { "ok", "failed" } :
         /\ IsTest(held[w]) => o = "ok"
         /\ Finish(w, o)
    /\ Logged(w, 0, TRUE)
    /\ AttemptKeeps /\ UNCHANGED gate

\* The draft could not be built, or the relay opened a session but did not
\* answer the test's probe: final, and the gate hears nothing of it.
AttemptUnbuilt(w) ==
    /\ ~Dry(w)
    /\ held[w].kind \in { "send", "test" }
    /\ Finish(w, "failed")
    /\ Logged(w, 0, TRUE)
    /\ AttemptKeeps /\ UNCHANGED gate

\* The relay accepted the message, or answered the test.
AttemptAccepted(w) ==
    /\ ~Dry(w)
    /\ Finish(w, "ok")
    /\ gate' = [gate EXCEPT ![held[w].acct] = Recovered(@)]
    /\ Logged(w, IF IsTest(held[w]) THEN 0 ELSE 1, TRUE)
    /\ AttemptKeeps

\* An unreachable relay pauses the account; a test leaves it alone.
GateAfter(e, entry) ==
    IF Classify(e) = "ConnectionFailed" /\ ~IsTest(entry)
    THEN [gate EXCEPT ![entry.acct] = Paused(@, now, RetryDelay)]
    ELSE gate

\* Mutant: the requeued entry keeps its retries.
ForRetry_KeepsRetries(entry, e) ==
    LET refused == Classify(e) # "ConnectionFailed"
    IN  [entry EXCEPT !.kind = "built", !.last = now,
                      !.notBefore = IF refused THEN now + entry.delay ELSE @,
                      !.delay = IF refused THEN 2 * @ ELSE @]

\* Mutant: only an unreachable relay delays a retry.
ForRetry_NoBackoff(entry, e) ==
    [entry EXCEPT !.kind = "built", !.last = now, !.retries = @ - 1]

\* The entry as it goes back: already built, one retry fewer, and after a
\* refusal held back by a delay that doubles.
ForRetry(entry, e) ==
    LET refused == Classify(e) # "ConnectionFailed"
    IN  [entry EXCEPT !.kind = "built", !.last = now,
                      !.retries = @ - 1,
                      !.notBefore = IF refused THEN now + entry.delay ELSE @,
                      !.delay = IF refused THEN 2 * @ ELSE @]

\* Mutant: the retries are checked one attempt too late.
GivesUp_OffByOne(entry, e) == entry.retries < 0 \/ ~Retryable(e)

GivesUp(entry, e) == entry.retries = 0 \/ ~Retryable(e)

\* The relay failed: the rest of attempt, up to the requeue.
AttemptFailed(w) ==
    /\ ~Dry(w)
    /\ \E e \in RelayErrors :
         /\ gate' = GateAfter(e, held[w])
         /\ \E copies \in 0 .. 1 :
              /\ copies = 1 => ~IsTest(held[w]) /\ e \in MaybeDelivered
              /\ Logged(w, copies, ~Retryable(e))
         /\ \/ GivesUp(held[w], e) /\ Finish(w, "failed")
            \/ /\ ~GivesUp(held[w], e)
               /\ Goto(w, "attempt", "requeue")
               /\ held' = [held EXCEPT ![w] = ForRetry(@, e)]
               /\ UNCHANGED outcome
    /\ AttemptKeeps

\* A panic unwinds to the worker's loop and takes the entry with it.
AttemptPanics(w) ==
    /\ Finish(w, "panicked")
    /\ Logged(w, 0, TRUE)
    /\ AttemptKeeps /\ UNCHANGED gate

Attempt(w) ==
    /\ pc[w] = "attempt"
    /\ \/ AttemptDry(w) \/ AttemptUnbuilt(w) \/ AttemptAccepted(w)
       \/ AttemptFailed(w) \/ AttemptPanics(w)

\* Mutant: the entry is not pushed back.
Returned_Lost(w) == entries

Returned(w) == entries \cup { held[w] }

\* Back into the queue, still in flight.  A closed queue takes it too.
Requeue(w) ==
    /\ lock = NoWorker
    /\ Goto(w, "requeue", "idle")
    /\ entries' = Returned(w)
    /\ held' = [held EXCEPT ![w] = NoEntry]
    /\ UNCHANGED << now, nextSeq, closed, lock, gate, outcome, log, picks >>

\* The worker is done with a finished job and looks for the next one.
Release(w) ==
    /\ Goto(w, "finish", "idle")
    /\ held' = [held EXCEPT ![w] = NoEntry]
    /\ outcome' = [outcome EXCEPT ![w] = "none"]
    /\ UNCHANGED << now, entries, nextSeq, closed, lock, gate, log, picks >>

-----------------------------------------------------------------------------
\* The clock may always reach what a queued job waits for; Horizon bounds
\* the time that passes with nothing to wait for.
Tick ==
    /\ lock = NoWorker
    /\ now < Horizon \/ \E e \in entries : EligibleAt(e) > now
    /\ now' = now + 1
    /\ UNCHANGED << entries, nextSeq, closed, lock, gate, pc, held, outcome,
                    log, picks >>

Next ==
    \/ \E a \in Accounts, o \in Offers : Enqueue(a, o.prio, o.test)
    \/ Close
    \/ \E w \in Workers :
         \/ Retire(w) \/ Scan(w) \/ Take(w) \/ Attempt(w) \/ Requeue(w)
         \/ Release(w)
    \/ Tick

Spec == Init /\ [][Next]_vars

-----------------------------------------------------------------------------
(* What makes it correct.                                                  *)

PCs == { "absent", "idle", "taking", "attempt", "requeue", "finish",
         "retired" }

\* The workers that hold a job.
Busy == { w \in Workers : pc[w] \notin { "absent", "idle", "retired" } }

\* Every variable holds what the code's types allow, and no retry counter
\* goes below zero.
TypeOK ==
    /\ now \in Nat
    /\ entries \subseteq Entries
    /\ nextSeq \in 0 .. MaxJobs
    /\ closed \in BOOLEAN
    /\ lock \in Workers \cup { NoWorker }
    /\ gate \in [Accounts -> Gates]
    /\ pc \in [Workers -> PCs]
    /\ held \in [Workers -> Entries \cup { NoEntry }]
    /\ outcome \in [Workers -> { "none", "ok", "failed", "panicked" }]
    /\ log \in [Seqs -> Jobs \cup { NoEntry }]
    /\ picks \in [Accounts -> [count : Nat, last : Nat]]

\* A job has one owner: the queue holds it once, or one worker does.  Two
\* owners would send a message twice and run its callback twice.
OneOwner ==
    /\ \A e, f \in entries : e.seq = f.seq => e = f
    /\ \A w \in Busy, e \in entries : held[w].seq # e.seq
    /\ \A v, w \in Busy : held[v].seq = held[w].seq => v = w

\* An outcome that trying again cannot change is never tried again, and no
\* message is tried more often than its account's retries allow, nor is it
\* ever at the relay more often than it was tried, or at all on a dry run.
RetriesBounded ==
    /\ \A e \in entries : ~log[e.seq].final
    /\ \A w \in Busy : pc[w] \in { "taking", "attempt", "requeue" } =>
         ~log[held[w].seq].final
    /\ \A s \in Seqs : s < nextSeq =>
         /\ log[s].attempts <= 1 + Retries[log[s].acct]
         /\ log[s].copies <= IF DryRun[log[s].acct] THEN 0 ELSE log[s].attempts

\* No job is passed over for one submitted later than its own allowance: a
\* LOW message that waited long enough beats a fresh NORMAL, and a HIGH one
\* is passed over only for what was there before it.
NoOvertaking ==
    \A w \in Workers : pc[w] = "taking" =>
        \A e \in Eligible : held[w].at <= e.at + Allowance[log[e.seq].prio]

\* However an attempt failed, the next attempt of the same message starts
\* at least the base delay later: the retry delay after a refusal, the
\* account's pause after a connection failure.
RetrySpacing ==
    \A w \in Workers :
        pc[w] = "taking" /\ held[w].kind = "built" =>
            now >= held[w].last + Earlier(RetryDelay, MaxPause)

\* The rate limit holds between any two attempts at mail of one account,
\* whatever retries, pauses and recoveries happen between them.
RateSpacing ==
    [][\A a \in Accounts :
         picks'[a].count # picks[a].count /\ picks[a].count > 0 =>
             picks'[a].last >= picks[a].last + Interval[a]]_vars

\* Whatever several workers report of one dead relay, an account is never
\* locked out for longer than the longest pause and one send slot.
LockoutBounded ==
    \A a \in Accounts : gate[a].next <= now + MaxPause + Interval[a]

\* "An outage costs one probe per pause" (the module comment of sender.rs,
\* and Gate::pause): while the relay fails, no two workers try it after the
\* same pause.  Stated of accounts without a rate limit, whose gate only a
\* pause moves.  The code does not keep it.
OneProbePerPause ==
    \A a \in Accounts : Interval[a] = 0 /\ gate[a].failures > 0 =>
        \A v, w \in { u \in Workers :
                        /\ pc[u] = "attempt" /\ ~IsTest(held[u])
                        /\ held[u].acct = a
                        /\ held[u].last >= gate[a].next } : v = w
=============================================================================
