------------------------------ MODULE MCWakeup ------------------------------
(***************************************************************************)
(* Instances of Wakeup for TLC, with MCScheduler's scale of time: one tick *)
(* is RETRY_DELAY, and the priorities concede 0, 1 and 2 ticks.            *)
(***************************************************************************)
EXTENDS Wakeup, TLC

\* One rate limit, on some of the accounts; nothing is a dry run.
CONSTANTS TheInterval, LimitedAccounts, TheRetries

MCInterval == [a \in Accounts |->
    IF a \in LimitedAccounts THEN TheInterval ELSE 0]
MCRetries == [a \in Accounts |-> TheRetries]
MCDryRun == [a \in Accounts |-> FALSE]

MCAllowance == [p \in Priorities |->
    CASE p = "high" -> 0 [] p = "normal" -> 1 [] p = "low" -> 2]

Mail(p) == [prio |-> p, test |-> FALSE]
MailOnly == { Mail("normal") }

\* The pool's workers are interchangeable.
Symmetry == Permutations(Workers)
=============================================================================
