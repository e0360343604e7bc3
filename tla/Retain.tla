------------------------------- MODULE Retain -------------------------------
(***************************************************************************)
(* Vec::retain and Iterator::filter: the members of a sequence that are in *)
(* a set, in their order.  Sequences!SelectSeq is the same thing with a    *)
(* test for the set; this one is a function of two values, so that         *)
(* SequenceLemmas can say what it does to every sequence.                  *)
(***************************************************************************)
EXTENDS Naturals, Sequences

Retain(seq, S) ==
    LET kept[i \in 0 .. Len(seq)] ==
            IF i = 0 THEN << >>
            ELSE IF seq[i] \in S THEN Append(kept[i - 1], seq[i])
            ELSE kept[i - 1]
    IN  kept[Len(seq)]
=============================================================================
