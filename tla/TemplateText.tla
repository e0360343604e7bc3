---------------------------- MODULE TemplateText ----------------------------
(***************************************************************************)
(* Templates, src/template.rs: render, and the two file formats of parse.  *)
(* A section header is one symbol, whatever its case, and so are <title>   *)
(* and </title>, and the entities that escape_html writes.                 *)
(***************************************************************************)
EXTENDS Text

-----------------------------------------------------------------------------
(* render.                                                                 *)

Entity(c) ==
    CASE c = "<" -> "&lt;" [] c = ">" -> "&gt;" [] c = "&" -> "&amp;"
      [] c = "\"" -> "&quot;" [] c = "'" -> "&#39;" [] OTHER -> c

EscapeHtml(text) == [i \in DOMAIN text |-> Entity(text[i])]

IsBrace(c) == c \in { "{", "}" }

\* A variable is put in as it is, or escaped when it lands in HTML.
Value(var, html) == IF html /\ ~var.raw THEN EscapeHtml(var.text) ELSE var.text

\* Mutant: the search goes on inside the value.
Placed_Rescans(key, vars, html, rest) ==
    IF key \in DOMAIN vars
    THEN [out |-> << >>, rest |-> Value(vars[key], html) \o rest]
    ELSE [out |-> << "{" >> \o key \o << "}" >>, rest |-> rest]

\* A placeholder: the value is written, and the search goes on behind it.  An
\* unknown key stays, braces and all.
Placed(key, vars, html, rest) ==
    [out |-> IF key \in DOMAIN vars THEN Value(vars[key], html)
             ELSE << "{" >> \o key \o << "}" >>,
     rest |-> rest]

\* What is written for the brace that tail starts with, and what is left.
AtBrace(tail, vars, html) ==
    LET brace == Head(tail)
        end == SelectInSeq(tail, LAMBDA c : c = "}")
    IN  CASE Len(tail) > 1 /\ tail[2] = brace ->
                [out |-> << brace >>, rest |-> Rest(tail, 2)]
          [] brace = "}" /\ ~(Len(tail) > 1 /\ tail[2] = brace) ->
                [out |-> << brace >>, rest |-> Tail(tail)]
          [] brace = "{" /\ end = 0 /\ ~(Len(tail) > 1 /\ tail[2] = brace) ->
                [out |-> tail, rest |-> << >>]
          [] OTHER ->
                Placed(SubSeq(tail, 2, end - 1), vars, html, Rest(tail, end))

\* One round of the loop.
Round(s, vars, html) ==
    LET at == SelectInSeq(s.rest, IsBrace)
        next == AtBrace(Rest(s.rest, at - 1), vars, html)
    IN  IF at = 0 THEN [out |-> s.out \o s.rest, rest |-> << >>]
        ELSE [out |-> s.out \o SubSeq(s.rest, 1, at - 1) \o next.out,
              rest |-> next.rest]

\* A round that finds a brace consumes at least one symbol, and any other is
\* the last: there are no more rounds than symbols.
Render(source, vars, html) ==
    LET round[i \in 0 .. Len(source)] ==
            IF i = 0 THEN [out |-> << >>, rest |-> source]
            ELSE Round(round[i - 1], vars, html)
    IN  round[Len(source)].out

-----------------------------------------------------------------------------
(* parse.                                                                  *)

Headers == { "[subject]", "[text]", "[body]", "[plain]", "[html]" }

\* Any other name in brackets is a section too, one that is swallowed.
AnyHeader == Headers \cup { "[other]" }

SectionOf(header) ==
    CASE header \in { "[text]", "[body]", "[plain]" } -> "text"
      [] header = "[subject]" -> "subject"
      [] header = "[html]" -> "html"
      [] OTHER -> "swallowed"

IsHeader(line, S) == Len(Trim(line)) = 1 /\ Trim(line)[1] \in S

Empty == [subject |-> << >>, text |-> << >>, html |-> << >>]

\* The lines read since the last header become the section they belong to.
Flush(s) ==
    LET value == TrimNewlines(s.buffer)
    IN  CASE s.current = "subject" -> [s.tpl EXCEPT !.subject = Trim(value)]
          [] s.current = "text" -> [s.tpl EXCEPT !.text = value]
          [] s.current = "html" -> [s.tpl EXCEPT !.html = value]
          [] OTHER -> s.tpl

\* Mutant: an unknown header does not end the section before it.
OnLine_UnknownIgnored(s, line) ==
    IF IsHeader(line, Headers)
    THEN [tpl |-> Flush(s), current |-> SectionOf(Trim(line)[1]), buffer |-> << >>]
    ELSE IF s.current = "none" THEN s
    ELSE [s EXCEPT !.buffer = @ \o line \o << "\n" >>]

\* What comes before the first header is not kept.
OnLine(s, line) ==
    IF IsHeader(line, AnyHeader)
    THEN [tpl |-> Flush(s), current |-> SectionOf(Trim(line)[1]), buffer |-> << >>]
    ELSE IF s.current = "none" THEN s
    ELSE [s EXCEPT !.buffer = @ \o line \o << "\n" >>]

ReadLines(lines) ==
    LET read[i \in 0 .. Len(lines)] ==
            IF i = 0 THEN [tpl |-> Empty, current |-> "none", buffer |-> << >>]
            ELSE OnLine(read[i - 1], lines[i])
    IN  read[Len(lines)]

ParseSections(contents) == Flush(ReadLines(Lines(contents)))

HasSections(contents) ==
    \E i \in DOMAIN Lines(contents) : IsHeader(Lines(contents)[i], Headers)

\* The part between <title> and the first </title> after it.
TitleOf(contents) ==
    LET open == SelectInSeq(contents, LAMBDA c : c = "<title>")
        close == SelectInSeq(Rest(contents, open), LAMBDA c : c = "</title>")
    IN  IF open = 0 \/ close = 0 THEN << >>
        ELSE Trim(SubSeq(Rest(contents, open), 1, close - 1))

TrimEndNewlines(text) ==
    SubSeq(text, 1, SelectLastInSeq(text, LAMBDA c : c # "\n"))

\* html: the name of the file ends in .html or .htm.
ParseTemplate(contents, html) ==
    CASE HasSections(contents) -> ParseSections(contents)
      [] ~HasSections(contents) /\ html ->
            [Empty EXCEPT !.subject = TitleOf(contents),
                          !.html = TrimEndNewlines(contents)]
      [] OTHER -> [Empty EXCEPT !.text = TrimEndNewlines(contents)]
=============================================================================
