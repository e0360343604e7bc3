----------------------------- MODULE SendQueue ------------------------------
(***************************************************************************)
(* SendManager of src/sender.rs around its scheduler, and the plugin's     *)
(* calls into it: the admission check of a submission, the counters behind *)
(* email_stats and in_flight, each an atomic of its own, the channel that  *)
(* carries results to the main thread, the tick that announces them to the *)
(* scripts, and the unload that waits for the queue to empty.              *)
(*                                                                         *)
(* A worker's steps are those of Scheduler, except that Release is taken   *)
(* apart into the four steps of finish and of the worker's loop.  The main *)
(* thread submits, polls, announces, drains.  A submission is one step:    *)
(* only the main thread adds jobs, and the workers only ever lower the     *)
(* counter its check reads.                                                *)
(***************************************************************************)
EXTENDS Scheduler, Sequences

CONSTANTS
    QueueLimit,  \* QueueLimit[a]: queue_limit
    Grace,       \* SHUTDOWN_GRACE
    Unloads      \* bound: whether the server may unload, a Boolean

ASSUME SendQueueAssumption ==
    /\ QueueLimit \in [Accounts -> Nat \ {0}]
    /\ Grace \in Nat
    /\ Unloads \in BOOLEAN

VARIABLES
    queued,    \* Stats of each account: queued[a], sent[a], failed[a]
    sent,
    failed,
    inFlight,  \* SendManager.in_flight
    results,   \* the channel from the workers to the main thread
    batch,     \* results polled and not announced yet
    phase,     \* the main thread: running, draining or unloaded
    drainEnd,  \* when the drain gives up
    lost,      \* what drain returned
    told       \* history: the results announced to the scripts

stats == << queued, sent, failed >>
mainThread == << batch, phase, drainEnd, lost, told >>
sendVars == << vars, stats, inFlight, results, mainThread >>

Results == [ seq : Seqs, ok : BOOLEAN ]

\* Queued messages at which a priority is refused: LOW leaves the last
\* quarter alone, HIGH is never refused by the limit.
Limit(a, p) ==
    CASE p = "low"    -> QueueLimit[a] - QueueLimit[a] \div 4
      [] p = "normal" -> QueueLimit[a]
      [] p = "high"   -> CounterMax

SendInit ==
    /\ Init
    /\ queued = [a \in Accounts |-> 0]
    /\ sent = [a \in Accounts |-> 0]
    /\ failed = [a \in Accounts |-> 0]
    /\ inFlight = 0
    /\ results = << >> /\ batch = << >>
    /\ phase = "running" /\ drainEnd = 0 /\ lost = 0
    /\ told = {}

-----------------------------------------------------------------------------
(* The main thread.                                                        *)

\* check_room and submit.  A refused job changes nothing here.
Submit(a, p, test) ==
    /\ phase = "running"
    /\ queued[a] < Limit(a, p)
    /\ Enqueue(a, p, test)
    /\ queued' = [queued EXCEPT ![a] = @ + 1]
    /\ inFlight' = inFlight + 1
    /\ UNCHANGED << sent, failed, results, mainThread >>

\* Mutant: the results stay in the channel.
Poll_Peeks ==
    /\ phase = "running" /\ batch = << >> /\ results # << >>
    /\ batch' = results
    /\ UNCHANGED << vars, stats, inFlight, results, phase, drainEnd, lost,
                    told >>

\* poll_results: everything the workers finished since the last tick.
Poll ==
    /\ phase = "running" /\ batch = << >> /\ results # << >>
    /\ batch' = results
    /\ results' = << >>
    /\ UNCHANGED << vars, stats, inFlight, phase, drainEnd, lost, told >>

\* One turn of process_pending_sends: the callbacks of one result.  The
\* script they run may submit before the next turn.
Announce ==
    /\ phase = "running" /\ batch # << >>
    /\ told' = told \cup { Head(batch) }
    /\ batch' = Tail(batch)
    /\ UNCHANGED << vars, stats, inFlight, results, phase, drainEnd, lost >>

\* on_unload, between two ticks: it waits only if something is pending.
BeginUnload ==
    /\ Unloads
    /\ phase = "running" /\ batch = << >>
    /\ IF inFlight > 0
       THEN phase' = "draining" /\ drainEnd' = now + Grace
       ELSE phase' = "unloaded" /\ UNCHANGED drainEnd
    /\ UNCHANGED << vars, stats, inFlight, results, batch, lost, told >>

\* drain returns: nothing is pending, or the grace ran out.
Drained ==
    /\ phase = "draining"
    /\ inFlight = 0 \/ now >= drainEnd
    /\ phase' = "unloaded"
    /\ lost' = inFlight
    /\ UNCHANGED << vars, stats, inFlight, results, batch, drainEnd, told >>

\* Drop of the manager, after the unload.
Drop ==
    /\ phase = "unloaded"
    /\ Close
    /\ UNCHANGED << stats, inFlight, results, mainThread >>

-----------------------------------------------------------------------------
(* A worker.                                                               *)

\* Mutant: a requeued job falls through to the end of the worker's loop.
Schedule_DropsInFlight(w) ==
    /\ \/ /\ Retire(w) \/ Scan(w) \/ Take(w) \/ Attempt(w)
          /\ UNCHANGED inFlight
       \/ Requeue(w) /\ inFlight' = inFlight - 1
    /\ UNCHANGED << stats, results, mainThread >>

\* The steps of the scheduler touch no counter and send no result.
Schedule(w) ==
    /\ Retire(w) \/ Scan(w) \/ Take(w) \/ Attempt(w) \/ Requeue(w)
    /\ UNCHANGED << stats, inFlight, results, mainThread >>

WorkerKeeps ==
    /\ UNCHANGED << now, entries, nextSeq, closed, lock, gate, log, picks >>
    /\ UNCHANGED mainThread

\* Mutant: a connection test does not give its slot back.
Unqueue_MailOnly(w) ==
    /\ Goto(w, "finish", "count")
    /\ queued' = [queued EXCEPT ![held[w].acct] =
                    IF IsTest(held[w]) THEN @ ELSE @ - 1]
    /\ UNCHANGED << sent, failed, inFlight, results, held, outcome >>
    /\ WorkerKeeps

\* finish, or the panic branch of the worker: the job leaves queued ...
Unqueue(w) ==
    /\ Goto(w, "finish", "count")
    /\ queued' = [queued EXCEPT ![held[w].acct] = @ - 1]
    /\ UNCHANGED << sent, failed, inFlight, results, held, outcome >>
    /\ WorkerKeeps

\* Mutant: a message that was retried is not taken for mail.
CountsAs_FirstTryOnly(entry, o) ==
    CASE o = "panicked" -> "failed"
      [] o # "panicked" /\ entry.kind # "send" -> "none"
      [] OTHER -> IF o = "ok" THEN "sent" ELSE "failed"

\* Which counter a finished job adds to: a test adds to none, unless it
\* panicked.
CountsAs(entry, o) ==
    CASE o = "panicked" -> "failed"
      [] o # "panicked" /\ IsTest(entry) -> "none"
      [] OTHER -> IF o = "ok" THEN "sent" ELSE "failed"

\* ... and only then is counted.
Count(w) ==
    LET a == held[w].acct
        counter == CountsAs(held[w], outcome[w])
    IN  /\ Goto(w, "count", "report")
        /\ sent' = [sent EXCEPT ![a] = IF counter = "sent" THEN @ + 1 ELSE @]
        /\ failed' =
             [failed EXCEPT ![a] = IF counter = "failed" THEN @ + 1 ELSE @]
        /\ UNCHANGED << queued, inFlight, results, held, outcome >>
        /\ WorkerKeeps

\* Mutant: only a panic is reported as a failure.
SendResult_PanicsOnly(w) ==
    /\ Goto(w, "report", "settle")
    /\ results' = Append(results, [seq |-> held[w].seq,
                                  ok |-> outcome[w] # "panicked"])
    /\ UNCHANGED << stats, inFlight, held, outcome >>
    /\ WorkerKeeps

\* The result goes into the channel.
SendResult(w) ==
    /\ Goto(w, "report", "settle")
    /\ results' = Append(results,
                         [seq |-> held[w].seq, ok |-> outcome[w] = "ok"])
    /\ UNCHANGED << stats, inFlight, held, outcome >>
    /\ WorkerKeeps

\* Mutant: the worker keeps the entry of the job it settled.
Settle_KeepsEntry(w) ==
    /\ Goto(w, "settle", "idle")
    /\ inFlight' = inFlight - 1
    /\ outcome' = [outcome EXCEPT ![w] = "none"]
    /\ UNCHANGED << stats, results, held >>
    /\ WorkerKeeps

\* The result is in the channel: the job is no longer in flight.
Settle(w) ==
    /\ Goto(w, "settle", "idle")
    /\ inFlight' = inFlight - 1
    /\ held' = [held EXCEPT ![w] = NoEntry]
    /\ outcome' = [outcome EXCEPT ![w] = "none"]
    /\ UNCHANGED << stats, results >>
    /\ WorkerKeeps

Work(w) ==
    \/ Schedule(w)
    \/ Unqueue(w) \/ Count(w) \/ SendResult(w) \/ Settle(w)

Clock == Tick /\ UNCHANGED << stats, inFlight, results, mainThread >>

SendNext ==
    \/ \E a \in Accounts, o \in Offers : Submit(a, o.prio, o.test)
    \/ Poll \/ Announce \/ BeginUnload \/ Drained \/ Drop
    \/ \E w \in Workers : Work(w)
    \/ Clock

SendSpec == SendInit /\ [][SendNext]_sendVars

\* Workers are scheduled and an attempt ends (the transport has a timeout);
\* the server ticks, which polls and announces; the drain looks again every
\* 50 ms; time passes.  Nothing makes a script submit or the server unload.
Fairness ==
    /\ \A w \in Workers : WF_sendVars(Work(w))
    /\ WF_sendVars(Poll) /\ WF_sendVars(Announce)
    /\ WF_sendVars(Drained) /\ WF_sendVars(Drop)
    /\ WF_sendVars(Clock)

FairSpec == SendSpec /\ Fairness

-----------------------------------------------------------------------------
(* It implements the scheduler: between a finished attempt and the end of  *)
(* the worker's loop, the scheduler sees a worker that has not released    *)
(* its job yet.                                                            *)

SchedulerPC ==
    [w \in Workers |-> IF pc[w] \in { "count", "report", "settle" }
                       THEN "finish" ELSE pc[w]]

Sched == INSTANCE Scheduler WITH pc <- SchedulerPC

\* Every behaviour of the whole queue is one of the scheduler, so what holds
\* of the scheduler (pacing, order, retries, one owner) holds here too.
ImplementsScheduler == Sched!Spec

\* The jobs that owe an answer: not those whose worker has sent it already.
OwedAnswers ==
    { e.seq : e \in entries } \cup
    { held[w].seq : w \in { v \in Workers :
        held[v] # NoEntry /\ pc[v] # "settle" } }

Promise == INSTANCE MailPromise
    WITH accepted <- nextSeq, pending <- OwedAnswers, channel <- results

\* It keeps the promise that the plugin is written against: whatever the
\* workers, the relays and the clock do, every step of the queue is an
\* acceptance, one answer to one job that owes one, a poll that takes all
\* there is, or invisible to the main thread.
KeepsPromise == Promise!PromiseSpec

-----------------------------------------------------------------------------
(* What makes it correct.                                                  *)

Submitted == { s \in Seqs : s < nextSeq }

\* The jobs the queue and the workers still owe an answer.
Outstanding == { e.seq : e \in entries } \cup { held[w].seq : w \in Busy }

\* The jobs email_stats should report as waiting: in the queue, or with a
\* worker that has not reached the first counter of finish.
Waiting ==
    { e.seq : e \in entries } \cup
    { held[w].seq : w \in { v \in Busy :
        pc[v] \in { "taking", "attempt", "requeue", "finish" } } }

Known == { results[i] : i \in DOMAIN results }
             \cup { batch[i] : i \in DOMAIN batch } \cup told

\* in_flight is exactly the jobs not yet answered, through every retry and
\* every panic: it is what shutdown waits on.
InFlightExact == inFlight = Cardinality(Outstanding)

\* The jobs of a set that were submitted at one of levels.
AtLevels(jobs, levels) == { s \in jobs : log[s].prio \in levels }

\* queued is exactly the account's jobs that wait, so a full queue is really
\* full and every way a job can end gives its slot back; and what waits keeps
\* the limits, retries included: bulk mail leaves the last quarter to others,
\* and only HIGH goes beyond queue_limit.
QueuedExact ==
    \A a \in Accounts :
        LET mine == { s \in Waiting : log[s].acct = a }
        IN  /\ queued[a] = Cardinality(mine)
            /\ Cardinality(AtLevels(mine, { "low" })) <= Limit(a, "low")
            /\ Cardinality(AtLevels(mine, { "low", "normal" }))
                  <= Limit(a, "normal")

\* Where job s is: each element is one place.
Homes(s) ==
    { << "queue", e >> : e \in { f \in entries : f.seq = s } } \cup
    { << "worker", w >> : w \in { v \in Busy :
        pc[v] # "settle" /\ held[v].seq = s } } \cup
    { << "channel", i >> : i \in { j \in DOMAIN results :
        results[j].seq = s } } \cup
    { << "batch", i >> : i \in { j \in DOMAIN batch : batch[j].seq = s } } \cup
    { << "told", r >> : r \in { q \in told : q.seq = s } }

\* An accepted job is in one place and one only, from the queue through its
\* retries to its callback: it is never lost and never answered twice ("the
\* callback runs once with the final outcome").
OneHome == \A s \in Submitted : Cardinality(Homes(s)) = 1

\* drain told the truth: if it returned zero, every accepted job had its
\* outcome, and none was left behind in the queue or with a worker.
DrainTruthful ==
    phase = "unloaded" /\ lost = 0 =>
        \A s \in Submitted : \E r \in Known : r.seq = s

KnownMail(a, ok) ==
    { r \in Known : r.ok = ok /\ log[r.seq].acct = a /\ ~log[r.seq].test }

\* A script that reads email_stats from a callback finds the message it was
\* told about already counted, and no longer queued.
CountedBeforeTold ==
    /\ \A a \in Accounts :
         /\ sent[a] >= Cardinality(KnownMail(a, TRUE))
         /\ failed[a] >= Cardinality(KnownMail(a, FALSE))
    /\ \A r \in Known : r.seq \notin Waiting

\* "Sent" is never a guess: a message announced as sent is at the relay, or
\* nowhere at all on a dry-run account.
SentMeansDelivered ==
    \A r \in Known : r.ok /\ ~log[r.seq].test =>
        (DryRun[log[r.seq].acct] <=> log[r.seq].copies = 0)

\* Every accepted job's callback runs, unless the server starts to unload.
EventuallyTold ==
    \A s \in Seqs :
        s < nextSeq ~> (phase # "running" \/ \E r \in told : r.seq = s)

\* Once unloading starts it ends, and every worker then retires: none is
\* left parked on the queue.
ShutdownEnds ==
    phase = "draining" ~>
        (phase = "unloaded" /\ \A w \in Workers : pc[w] = "retired")
=============================================================================
