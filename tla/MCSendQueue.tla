---------------------------- MODULE MCSendQueue -----------------------------
(***************************************************************************)
(* Instances of SendQueue for TLC, with the settings and the submissions   *)
(* of MCScheduler's kind.                                                  *)
(***************************************************************************)
EXTENDS SendQueue, TLC

\* Per-account settings: the same for every account, but a dry one has
\* a queue of one message.
CONSTANTS TheInterval, TheRetries, TheQueueLimit, DryAccounts

MCInterval == [a \in Accounts |-> TheInterval]
MCRetries == [a \in Accounts |-> TheRetries]
MCQueueLimit == [a \in Accounts |-> IF a \in DryAccounts THEN 1 ELSE TheQueueLimit]
MCDryRun == [a \in Accounts |-> a \in DryAccounts]

MCAllowance == [p \in Priorities |->
    CASE p = "high" -> 0 [] p = "normal" -> 1 [] p = "low" -> 2]

Mail(p) == [prio |-> p, test |-> FALSE]
Probe == [prio |-> "high", test |-> TRUE]
MailOnly == { Mail("normal") }
MailAndProbes == { Mail("normal"), Probe }

\* The pool's workers are interchangeable.
Symmetry == Permutations(Workers)
=============================================================================
