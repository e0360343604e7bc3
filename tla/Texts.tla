------------------------------- MODULE Texts --------------------------------
(***************************************************************************)
(* The readers of texts as a machine of one call: a text that is written   *)
(* as its author means it is given to the reader, and what the reader      *)
(* makes of it is compared with what was meant.                            *)
(***************************************************************************)
EXTENDS ConfigText, VarFormat, TemplateText, SandboxPath

CONSTANTS
    Configs,     \* two settings, how each is written, and the form
    Mails,       \* a template, the variables it is rendered with, and the part
    Templates,   \* sections or a document, and how its lines end
    Requests     \* paths, as their parts

VARIABLES
    input,     \* what is read
    output     \* what the reader made of it, in a sequence of its own

textVars == << input, output >>

Reads(result) ==
    /\ output = << >>
    /\ output' = << result >>
    /\ UNCHANGED input

-----------------------------------------------------------------------------
(* A setting as its author writes it.                                      *)

Escaped(c) ==
    CASE c = "\n" -> << "\\", "n" >>
      [] c = "\r" -> << "\\", "r" >>
      [] c \in { "\\", "\"" } -> << "\\", c >>
      [] OTHER -> << c >>

InDoubleQuotes(value) ==
    << "\"" >> \o FlattenSeq([i \in DOMAIN value |-> Escaped(value[i])]) \o << "\"" >>

\* Loosely quoted, a path keeps its backslashes as they are.
Written(value, style) ==
    CASE style = "double" -> InDoubleQuotes(value)
      [] style = "single" -> << "'" >> \o value \o << "'" >>
      [] style = "loose"  -> << "\"" >> \o value \o << "\"" >>
      [] OTHER            -> value

\* The grammar of the module comment of src/config.rs: which values may be
\* written in which style, and what the inline form adds to it.
Fits(setting, form) ==
    LET value == setting.value
    IN  CASE setting.style = "double" -> TRUE
          [] setting.style = "single" ->
                /\ ToSet(value) \cap { "\n", "\r" } = {}
                /\ form = "inline" => "'" \notin ToSet(value)
          [] setting.style = "loose" ->
                /\ ToSet(value) \cap { "\n", "\r", "\"" } = {}
                /\ \A i \in DOMAIN value : value[i] = "\\" =>
                    i < Len(value) /\ value[i + 1] \notin DOMAIN Escapes
          [] OTHER ->
                /\ ToSet(value) \cap { "\n", "\r" } = {}
                /\ Trim(value) = value
                /\ \A i \in DOMAIN value :
                    value[i] = "#" => i > 1 /\ value[i - 1] \notin Whitespace
                /\ \A q \in { "'", "\"" } : ~Quoted(value, q)
                /\ form = "inline" => ToSet(value) \cap { ";", "'", "\"" } = {}

Setting(s) == s.lead \o s.name \o << " ", "=", " " >> \o Written(s.value, s.style)

\* A setting: blanks and perhaps "export ", a key that no reader takes for
\* anything else, and a value of any characters.
Blanks == { " ", "\t" }

IsLead(lead) ==
    /\ lead \in Seq(STRING)
    /\ \E n \in 0 .. Len(lead) :
        /\ \A i \in 1 .. n : lead[i] \in Blanks
        /\ Rest(lead, n) \in { << >>, << "export", " " >> }

IsName(name) ==
    /\ name \in Seq(STRING) \ { << >> }
    /\ \A i \in DOMAIN name :
        name[i] \notin Whitespace \cup { "=", "#", ";", "'", "\"", "export", "BOM" }

IsSetting(s) ==
    /\ IsLead(s.lead) /\ IsName(s.name) /\ s.value \in Seq(STRING)
    /\ s.style \in { "double", "single", "loose", "plain" }

\* What may stand between two settings.
IsBreak(break, form) ==
    IF form = "file" THEN break \in { << "\n" >>, << "\r", "\n" >> }
    ELSE /\ break \in Seq(STRING)
         /\ \E n \in DOMAIN break :
             /\ break[n] \in { ";", "\n" }
             /\ \A i \in DOMAIN break \ {n} : break[i] \in Blanks

Both == Setting(input.first) \o input.break \o Setting(input.second)

ReadFile ==
    /\ input.what = "file"
    /\ Reads(Parse(Both \o << "\n" >>))

ReadInline ==
    /\ input.what = "inline"
    /\ Reads(ParseInline(Both))

\* "Same grammar as the file on purpose: one parser means one set of rules for
\* a password, wherever it was written": a value that fits the style it is
\* written in arrives as it is, in a file and in a settings string, and takes
\* nothing of the setting behind it; of a key written twice the later counts.
ConfigRoundTrip ==
    input.what \in { "file", "inline" } /\ output # << >> =>
        output[1] = Table(<< << NormalizeKey(input.first.name), input.first.value >>,
                             << NormalizeKey(input.second.name), input.second.value >> >>)

-----------------------------------------------------------------------------
(* A mail as the gamemode composes it: a template of symbols and keys,     *)
(* which have no braces, and a value of texts and arguments.               *)

IsKey(part) == part.kind = "key"

IsTemplate(parts) ==
    /\ parts \in Seq([kind : { "symbol", "key" }, text : Seq(STRING)])
    /\ \A i \in DOMAIN parts :
        IF IsKey(parts[i])
        THEN \A j \in DOMAIN parts[i].text : ~IsBrace(parts[i].text[j])
        ELSE Len(parts[i].text) = 1

\* A doubled brace is a literal one.
PartSource(part) ==
    CASE IsKey(part) -> << "{" >> \o part.text \o << "}" >>
      [] ~IsKey(part) /\ IsBrace(part.text[1]) -> part.text \o part.text
      [] OTHER -> part.text

TemplateSource(parts) ==
    FlattenSeq([i \in DOMAIN parts |-> PartSource(parts[i])])

\* A percent sign, with or without a precision.
IsSpec(text) ==
    /\ text[1] = "%"
    /\ Len(text) > 1 => text[2] = "."
    /\ \A i \in 3 .. Len(text) : text[i] \in Digits

\* A character; a doubled percent sign; a percent sign with the letter of an
\* argument behind it, or with a character that says nothing.
IsValuePart(part) ==
    LET spec == Front(part.spelled)
        c == Last(part.spelled)
    IN  CASE Len(part.spelled) = 1 ->
                c # "%" /\ ~part.filled /\ part.text = part.spelled
          [] part.spelled = << "%", "%" >> -> ~part.filled /\ part.text = << "%" >>
          [] OTHER ->
                /\ part.spelled # << >> /\ IsSpec(spec)
                /\ c # "%" /\ ~Continues(spec, c)
                /\ part.filled <=> Specifies(spec, c)
                /\ ~part.filled => part.text = part.spelled

\* "100%": what is begun at the end is text as well.
IsOpenSpec(part) ==
    /\ part.spelled # << >> /\ IsSpec(part.spelled)
    /\ ~part.filled /\ part.text = part.spelled

IsValue(parts) ==
    /\ parts \in Seq([filled : BOOLEAN, spelled : Seq(STRING), text : Seq(STRING)])
    /\ \A i \in DOMAIN parts :
        \/ IsValuePart(parts[i])
        \/ i = Len(parts) /\ IsOpenSpec(parts[i])

\* A value with arguments spells its texts and names a specifier for each
\* argument; one without is as it is.
ValueSource(parts) ==
    LET formatted == \E i \in DOMAIN parts : parts[i].filled
    IN  FlattenSeq([i \in DOMAIN parts |->
            IF formatted THEN parts[i].spelled ELSE parts[i].text])

Arguments(parts) ==
    FlattenSeq([i \in DOMAIN parts |->
        IF parts[i].filled THEN << parts[i].text >> ELSE << >>])

ReadMail ==
    /\ input.what = "mail"
    /\ LET var == SetVar(ValueSource(input.value), Arguments(input.value))
       IN  Reads(Render(TemplateSource(input.template),
                        [k \in { input.key } |-> var], input.html))

\* What the recipient is meant to see: each text once and as it is, each value
\* in the place of its key, escaped in HTML unless an argument is trusted.
Meant(mail) ==
    LET value == FlattenSeq([i \in DOMAIN mail.value |-> mail.value[i].text])
        trusted == \E i \in DOMAIN mail.value :
                       mail.value[i].filled /\ Last(mail.value[i].spelled) = "r"
        Place(part) ==
            CASE ~IsKey(part) -> part.text
              [] IsKey(part) /\ part.text = mail.key ->
                    IF mail.html /\ ~trusted THEN EscapeHtml(value) ELSE value
              [] OTHER -> << "{" >> \o part.text \o << "}" >>
    IN  FlattenSeq([i \in DOMAIN mail.template |-> Place(mail.template[i])])

\* "Walks the template once and never re-scans what it wrote": a nickname that
\* spells a placeholder or a specifier arrives as those characters, whatever
\* stands around it; doubled braces and percent signs arrive single; a key
\* nobody set arrives visibly.
FilledOnce ==
    input.what = "mail" /\ output # << >> => output[1] = Meant(input)

-----------------------------------------------------------------------------
(* A template as its author saves it.                                      *)

\* A text that holds no header of a section.
IsLoose(text) ==
    text \in Seq(STRING) /\ \A i \in DOMAIN text : text[i] \notin AnyHeader \cup { "\r" }

\* What stands before the first section is lines; one of the sections is known.
IsTemplateFile(t) ==
    /\ IsLoose(t.preamble) /\ (t.preamble = << >> \/ Last(t.preamble) = "\n")
    /\ t.sections \in Seq([header : AnyHeader, body : Seq(STRING)])
    /\ \A i \in DOMAIN t.sections : IsLoose(t.sections[i].body)
    /\ \E i \in DOMAIN t.sections : t.sections[i].header \in Headers

\* An editor ends lines with "\n", or with "\r\n".
Saved(text, crlf) ==
    FlattenSeq([i \in DOMAIN text |->
        IF crlf /\ text[i] = "\n" THEN << "\r", "\n" >> ELSE << text[i] >>])

SectionSource(section) == << section.header, "\n" >> \o section.body \o << "\n" >>

TemplateFile(t) ==
    Saved(t.preamble \o FlattenSeq([i \in DOMAIN t.sections |->
                                       SectionSource(t.sections[i])]), t.crlf)

ReadTemplate ==
    /\ input.what = "template"
    /\ Reads(ParseTemplate(TemplateFile(input), input.html))

\* The last section of a name, without the blank lines around it.
Body(t, name) ==
    LET last == SelectLastInSeq(t.sections, LAMBDA s : SectionOf(s.header) = name)
    IN  IF last = 0 THEN << >> ELSE TrimNewlines(t.sections[last].body)

\* "Sections may appear in any order and any of them may be omitted": each
\* body is that of its own header, whatever stands before, between or behind
\* them, however the lines end and whatever the file is called.
SectionsApart ==
    input.what = "template" /\ output # << >> =>
        output[1] = [subject |-> Trim(Body(input, "subject")),
                     text |-> Body(input, "text"), html |-> Body(input, "html")]

-----------------------------------------------------------------------------
(* A path as the system would follow it.                                   *)

ReadPath ==
    /\ input.what = "path"
    /\ Reads(Resolve(input))

\* Where the parts lead on the disk when no symlink is met: one step of it, and
\* nowhere once a step is not possible.
Nowhere == << "nowhere" >>

Follow(at, part) ==
    LET next == Step(at, part)
    IN  IF at = Nowhere \/ ~Found(next) \/ Disk[at].kind # "folder"
           \/ IsSymlink(next)
        THEN Nowhere ELSE next

LeadsTo(path) ==
    LET at[i \in 0 .. Len(Joined(path))] ==
            IF i = 0 THEN << >> ELSE Follow(at[i - 1], Joined(path)[i])
    IN  at[Len(Joined(path))]

FileInside(p) == IsPrefix(Root, p) /\ Disk[p].kind = "file"

\* "What is read afterwards is the checked path": every path that reaches a
\* file of the server folder through folders alone is accepted and is that
\* file; what is accepted is always a file in the server folder that the disk
\* reaches through folders alone, and the one the path names if it names any.
CheckedIsTheFile ==
    input.what = "path" /\ output # << >> =>
        LET target == LeadsTo(input)
            Reached(p) == LeadsTo([absolute |-> TRUE, parts |-> p]) = p
        IN  /\ target # Nowhere /\ FileInside(target) => output[1] = << target >>
            /\ output[1] # << >> =>
                /\ FileInside(output[1][1]) /\ Reached(output[1][1])
                /\ target # Nowhere => output[1][1] = target

-----------------------------------------------------------------------------
ASSUME TextAssumption ==
    /\ \A c \in Configs :
        /\ c.what \in { "file", "inline" } /\ IsBreak(c.break, c.what)
        /\ IsSetting(c.first) /\ IsSetting(c.second)
    /\ \A m \in Mails :
        /\ m.what = "mail" /\ m.html \in BOOLEAN /\ m.key \in Seq(STRING)
        /\ IsTemplate(m.template) /\ IsValue(m.value)
    /\ \A t \in Templates :
        t.what = "template" /\ t.html \in BOOLEAN /\ t.crlf \in BOOLEAN
        /\ IsTemplateFile(t)
    /\ \A r \in Requests :
        /\ r.what = "path" /\ r.absolute \in BOOLEAN
        /\ r.parts \in Seq(Names \cup { ".", ".." })
    /\ << "nowhere" >> \notin DOMAIN Disk

TextInit ==
    /\ \/ /\ input \in Configs
          /\ Fits(input.first, input.what) /\ Fits(input.second, input.what)
       \/ input \in Mails
       \/ input \in Templates
       \/ input \in Requests
    /\ output = << >>

TextNext == ReadFile \/ ReadInline \/ ReadMail \/ ReadTemplate \/ ReadPath

TextSpec == TextInit /\ [][TextNext]_textVars
=============================================================================
