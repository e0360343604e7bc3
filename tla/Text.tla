-------------------------------- MODULE Text --------------------------------
(***************************************************************************)
(* The operations of Rust's str and HashMap that the readers of texts use. *)
(* A text is a sequence of symbols: a character, or a word that no reader  *)
(* looks into.                                                             *)
(***************************************************************************)
EXTENDS Naturals, SequencesExt

Whitespace == { " ", "\t", "\n", "\r" }

\* The part of a text between its first and its last symbol outside S.
TrimOf(text, S) ==
    SubSeq(text, SelectInSeq(text, LAMBDA c : c \notin S),
           SelectLastInSeq(text, LAMBDA c : c \notin S))

Trim(text) == IF ToSet(text) \subseteq Whitespace THEN << >> ELSE TrimOf(text, Whitespace)

TrimNewlines(text) ==
    IF ToSet(text) \subseteq { "\n" } THEN << >> ELSE TrimOf(text, { "\n" })

TrimEnd(text) ==
    SubSeq(text, 1, SelectLastInSeq(text, LAMBDA c : c \notin Whitespace))

\* What follows the first n symbols.
Rest(text, n) == SubSeq(text, n + 1, Len(text))

WithoutPrefix(text, c) ==
    IF text # << >> /\ Head(text) = c THEN Tail(text) ELSE text

WithoutSuffix(text, c) ==
    IF text # << >> /\ Last(text) = c THEN Front(text) ELSE text

\* A symbol more: a piece ends, or the last one goes on.
Continued(pieces, ends, c) ==
    IF ends THEN Append(pieces, << >>)
    ELSE Append(Front(pieces), Append(Last(pieces), c))

\* The pieces that the symbols at the positions in cuts separate.
Pieces(text, cuts) ==
    LET placed[i \in 0 .. Len(text)] ==
            IF i = 0 THEN << << >> >>
            ELSE Continued(placed[i - 1], i \in cuts, text[i])
    IN  placed[Len(text)]

Occurrences(text, c) == { i \in DOMAIN text : text[i] = c }

\* str::lines: a line break ends a line, and what follows the last is one only
\* if it is not empty.
Lines(text) ==
    LET pieces == Pieces(text, Occurrences(text, "\n"))
        lines == IF Last(pieces) = << >> THEN Front(pieces) ELSE pieces
    IN  [i \in DOMAIN lines |->
            IF i < Len(pieces) THEN WithoutSuffix(lines[i], "\r") ELSE lines[i]]

\* A table collected from << key, value >> pairs: the later of two equal keys.
Table(pairs) ==
    [k \in { pairs[i][1] : i \in DOMAIN pairs } |->
        pairs[SelectLastInSeq(pairs, LAMBDA p : p[1] = k)][2]]
=============================================================================
