--------------------------- MODULE MCMessageBuild ---------------------------
(***************************************************************************)
(* MessageBuild for TLC: one template that fills in the subject and the    *)
(* HTML body from the variable, one that is plain.                         *)
(***************************************************************************)
EXTENDS MessageBuild

MCTemplates ==
    { [subject |-> "hole", text |-> "", html |-> "hole"],
      [subject |-> "plain", text |-> "plain", html |-> ""] }
=============================================================================
