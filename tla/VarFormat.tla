----------------------------- MODULE VarFormat ------------------------------
(***************************************************************************)
(* The value of a template variable: the specifiers of src/format.rs and   *)
(* how email_set_var (src/natives/template.rs) fills them from its         *)
(* arguments.  A number is one symbol, as the gamemode will see it         *)
(* written; a run of digits in a precision may be a symbol as well.        *)
(***************************************************************************)
EXTENDS Text

CONSTANTS
    Digits,
    Precisions    \* those of their sequences that are a number a usize holds

ASSUME DigitsAssumption == Digits \cap { "%", ".", "d", "i", "s", "r", "f" } = {}

Literal(text) == [kind |-> "text", text |-> text]
Hole(kind, places) == [kind |-> kind, places |-> places]

\* A precision goes on.
Continues(spec, c) ==
    \/ Len(spec) = 1 /\ c = "."
    \/ Len(spec) > 1 /\ c \in Digits

\* What a specifier letter makes of the "%" or "%.N" before it.  Only a float
\* takes a precision, and digits that are no number count as none.
Specifies(spec, c) ==
    \/ c = "f"
    \/ c \in { "d", "i", "s", "r" } /\ Rest(spec, 2) \notin Precisions

Kind(c) == IF c = "i" THEN "d" ELSE c

Flushed(s) ==
    IF s.text = << >> THEN s.pieces ELSE Append(s.pieces, Literal(s.text))

\* Not a specifier this plugin knows: the characters stay.
Unknown(s, c) == [s EXCEPT !.text = @ \o s.spec \o << c >>, !.spec = << >>]

\* One character of parse: text, or part of the specifier that is open.
Read(s, c) ==
    CASE s.spec = << >> /\ c # "%" -> [s EXCEPT !.text = Append(@, c)]
      [] s.spec = << >> /\ c = "%" -> [s EXCEPT !.spec = << c >>]
      [] s.spec # << >> /\ Continues(s.spec, c) -> [s EXCEPT !.spec = Append(@, c)]
      [] s.spec # << >> /\ c = "%" ->
            [s EXCEPT !.text = Append(@, c), !.spec = << >>]
      [] s.spec # << >> /\ Specifies(s.spec, c) ->
            [pieces |-> Append(Flushed(s), Hole(Kind(c), Rest(s.spec, 2))),
             text |-> << >>, spec |-> << >>]
      [] OTHER -> Unknown(s, c)

ParsePieces(source) ==
    LET read[i \in 0 .. Len(source)] ==
            IF i = 0 THEN [pieces |-> << >>, text |-> << >>, spec |-> << >>]
            ELSE Read(read[i - 1], source[i])
        s == read[Len(source)]
    IN  Flushed([s EXCEPT !.text = @ \o s.spec])

IsRaw(pieces) == \E i \in DOMAIN pieces : pieces[i].kind = "r"

IsHole(piece) == piece.kind # "text"

\* Holes are filled in order; one with no argument left is dropped.
RenderPieces(pieces, arguments) ==
    LET Before(i) == Cardinality({ k \in 1 .. i : IsHole(pieces[k]) })
        Written(i) ==
            CASE ~IsHole(pieces[i]) -> pieces[i].text
              [] IsHole(pieces[i]) /\ Before(i) <= Len(arguments) ->
                    arguments[Before(i)]
              [] OTHER -> << >>
    IN  FlattenSeq([i \in DOMAIN pieces |-> Written(i)])

\* email_set_var: with nothing after it the value is text as written.
SetVar(value, arguments) ==
    IF arguments = << >> THEN [text |-> value, raw |-> FALSE]
    ELSE [text |-> RenderPieces(ParsePieces(value), arguments),
          raw |-> IsRaw(ParsePieces(value))]
=============================================================================
