-------------------------- MODULE MCTemplateCache --------------------------
(***************************************************************************)
(* TemplateCache for TLC: the paths, the files and the stamps are          *)
(* interchangeable.                                                        *)
(***************************************************************************)
EXTENDS TemplateCache, TLC

Symmetry ==
    Permutations(Paths) \cup Permutations(Files) \cup Permutations(Stamps)
=============================================================================
