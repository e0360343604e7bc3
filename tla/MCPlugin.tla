------------------------------ MODULE MCPlugin ------------------------------
(***************************************************************************)
(* Instances of Plugin for TLC: a gamemode and a filterscript that both    *)
(* define the callback of a send.                                          *)
(***************************************************************************)
EXTENDS Plugin, TLC

CONSTANTS gamemode, filterscript, OnMailSent

\* Both scripts have everything.
MCDefines == [s \in Scripts |-> Publics \cup Broadcasts]

\* Scripts with the same publics are interchangeable.
Symmetry == Permutations(Scripts)
=============================================================================
