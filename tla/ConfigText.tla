----------------------------- MODULE ConfigText -----------------------------
(***************************************************************************)
(* The KEY=value reader of src/config.rs: parse for a file, parse_inline   *)
(* for the settings string of email_connect.  The spellings of a key are   *)
(* symbols of their own: no reader looks into them but normalize_key.      *)
(***************************************************************************)
EXTENDS Text

CONSTANT
    Normal   \* Normal[w]: the key w in lower case, without its smtp_

Letter(c) == IF c \in DOMAIN Normal THEN Normal[c] ELSE c

NormalizeKey(key) == [i \in DOMAIN Trim(key) |-> Letter(Trim(key)[i])]

-----------------------------------------------------------------------------
(* A value.                                                                *)

Quoted(text, q) == Len(text) >= 2 /\ Head(text) = q /\ Last(text) = q
Inside(text) == SubSeq(text, 2, Len(text) - 1)

Escapes == [c \in { "n", "r", "t", "\\", "\"" } |->
    CASE c = "n" -> "\n" [] c = "r" -> "\r" [] c = "t" -> "\t" [] OTHER -> c]

Unescaped(c) == IF c \in DOMAIN Escapes THEN << Escapes[c] >> ELSE << "\\", c >>

\* A character: what has been read so far, and whether a backslash is open.
Unescaping(s, c) ==
    CASE s.open -> [out |-> s.out \o Unescaped(c), open |-> FALSE]
      [] ~s.open /\ c = "\\" -> [out |-> s.out, open |-> TRUE]
      [] OTHER -> [out |-> Append(s.out, c), open |-> FALSE]

ReadEscapes(text) ==
    LET read[i \in 0 .. Len(text)] ==
            IF i = 0 THEN [out |-> << >>, open |-> FALSE]
            ELSE Unescaping(read[i - 1], text[i])
    IN  read[Len(text)]

Unescape(text) ==
    LET read == ReadEscapes(text)
    IN  IF read.open THEN Append(read.out, "\\") ELSE read.out

\* A # starts a comment where the value starts or after whitespace.
CommentAt(text, i) == text[i] = "#" /\ (i = 1 \/ text[i - 1] \in Whitespace)

StripInlineComment(text) ==
    LET marks == { i \in DOMAIN text : CommentAt(text, i) }
    IN  IF marks = {} THEN text
        ELSE SubSeq(text, 1, (CHOOSE i \in marks : \A j \in marks : i <= j) - 1)

ParseValue(text) ==
    CASE Quoted(text, "'")  -> Inside(text)
      [] Quoted(text, "\"") -> Unescape(Inside(text))
      [] OTHER              -> TrimEnd(StripInlineComment(text))

-----------------------------------------------------------------------------
(* A statement, and the two forms.                                         *)

IsComment(line) == line = << >> \/ Head(line) \in { "#", ";" }

\* The pair a statement sets, in a sequence of its own, or nothing.
ParseLine(raw) ==
    LET trimmed == Trim(WithoutSuffix(raw, "\r"))
        line == IF Len(trimmed) > 1 /\ trimmed[1] = "export" /\ trimmed[2] = " "
                THEN Trim(Rest(trimmed, 2)) ELSE trimmed
        equals == SelectInSeq(line, LAMBDA c : c = "=")
        key == NormalizeKey(SubSeq(line, 1, equals - 1))
    IN  IF IsComment(trimmed) \/ equals = 0 \/ key = << >> THEN << >>
        ELSE << << key, ParseValue(Trim(Rest(line, equals))) >> >>

Statements(pieces) ==
    Table(FlattenSeq([i \in DOMAIN pieces |-> ParseLine(pieces[i])]))

Parse(contents) == Statements(Lines(WithoutPrefix(contents, "BOM")))

\* Mutant: the scan does not know escapes.
Scan_NoEscape(s, c, at) ==
    CASE s.quote = "none" /\ c \in { "'", "\"" } -> [s EXCEPT !.quote = c]
      [] s.quote = c -> [s EXCEPT !.quote = "none"]
      [] s.quote = "none" /\ c \in { ";", "\n" } -> [s EXCEPT !.cuts = @ \cup {at}]
      [] OTHER -> s

\* One character of split_statements: a quote, the end of one, a separator.
Scan(s, c, at) ==
    CASE s.escaped -> [s EXCEPT !.escaped = FALSE]
      [] ~s.escaped /\ s.quote = "\"" /\ c = "\\" -> [s EXCEPT !.escaped = TRUE]
      [] ~s.escaped /\ s.quote = "none" /\ c \in { "'", "\"" } ->
            [s EXCEPT !.quote = c]
      [] ~s.escaped /\ s.quote = c -> [s EXCEPT !.quote = "none"]
      [] ~s.escaped /\ s.quote = "none" /\ c \in { ";", "\n" } ->
            [s EXCEPT !.cuts = @ \cup {at}]
      [] OTHER -> s

Scanned(text) ==
    LET scan[i \in 0 .. Len(text)] ==
            IF i = 0 THEN [quote |-> "none", escaped |-> FALSE, cuts |-> {}]
            ELSE Scan(scan[i - 1], text[i], i)
    IN  scan[Len(text)]

SplitStatements(text) == Pieces(text, Scanned(text).cuts)

ParseInline(text) == Statements(SplitStatements(text))
=============================================================================
