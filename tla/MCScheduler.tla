---------------------------- MODULE MCScheduler -----------------------------
(***************************************************************************)
(* Instances of Scheduler for TLC.  Time is scaled: one tick stands for    *)
(* RETRY_DELAY, and the priorities concede 0, 1 and 2 ticks.               *)
(***************************************************************************)
EXTENDS Scheduler, TLC

\* Per-account settings: the same for every account, but the dry ones.
CONSTANTS TheInterval, TheRetries, DryAccounts

MCInterval == [a \in Accounts |-> TheInterval]
MCRetries == [a \in Accounts |-> TheRetries]
MCDryRun == [a \in Accounts |-> a \in DryAccounts]

MCAllowance == [p \in Priorities |->
    CASE p = "high" -> 0 [] p = "normal" -> 1 [] p = "low" -> 2]

\* What scripts submit: mail of a priority, or a connection test, which the
\* plugin always queues as HIGH.
Mail(p) == [prio |-> p, test |-> FALSE]
Probe == [prio |-> "high", test |-> TRUE]
MailOnly == { Mail("normal") }
MailAndProbes == { Mail("normal"), Probe }
Extremes == { Mail("high"), Mail("low"), Probe }

\* The pool's workers are interchangeable.
Symmetry == Permutations(Workers)
=============================================================================
