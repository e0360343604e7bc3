------------------------------ MODULE MCTexts -------------------------------
(***************************************************************************)
(* Inputs of Texts for TLC: values of up to three symbols out of those the *)
(* grammars treat specially, templates and values of up to three parts,    *)
(* files of up to three sections, paths of up to four parts over a small   *)
(* disk.                                                                   *)
(***************************************************************************)
EXTENDS Texts, TLC

MCNormal == "K" :> "k" @@ "SMTP_K" :> "k" @@ "SMTP_L" :> "l" @@ "k" :> "k"

Symbols == { "a", " ", "#", ";", "=", "\"", "'", "\\", "\n", "n", "\t" }

Named(lead, name, value, style) ==
    [lead |-> lead, name |-> name, value |-> value, style |-> style]

Keys == { << << "export", " " >>, << "K" >> >>, << << " " >>, << "SMTP_K" >> >> }

Firsts ==
    { Named(k[1], k[2], v, s) :
        k \in Keys, v \in BoundedSeq(Symbols, 3), s \in { "double", "single", "loose", "plain" } }

Seconds ==
    { Named(<< >>, << k >>, << "z" >>, "plain") : k \in { "k", "SMTP_L" } }

MCConfigs ==
    [what : { "file" }, break : { << "\n" >>, << "\r", "\n" >> },
     first : Firsts, second : Seconds]
    \cup [what : { "inline" }, break : { << ";" >>, << " ", ";", " " >>, << "\n" >> },
          first : Firsts, second : Seconds]

Part(kind, text) == [kind |-> kind, text |-> text]
TemplateParts ==
    { Part("symbol", << c >>) : c \in { "{", "}", "a" } }
    \cup { Part("key", << "k" >>), Part("key", << "x" >>) }

Literally(spelled, text) == [filled |-> FALSE, spelled |-> spelled, text |-> text]
Filled(spec, text) == [filled |-> TRUE, spelled |-> spec, text |-> text]

MCPrecisions == { << "2" >> }

\* "%%", "50% off", "%.2d" and what a format does not look at; numbers, with a
\* precision beyond every integer as well; and a nickname that spells a placeholder, markup and a specifier.
Nickname == << "{", "k", "}", "<", "%", "s" >>
ValueParts ==
    { Literally(<< "%", "%" >>, << "%" >>), Literally(<< "%", " " >>, << "%", " " >>),
      Literally(<< "%", ".", "2", "d" >>, << "%", ".", "2", "d" >>),
      Literally(<< "&" >>, << "&" >>), Literally(<< "}" >>, << "}" >>), Filled(<< "%", "d" >>, << "7" >>),
      Filled(<< "%", ".", "huge", "d" >>, << "8" >>),
      Filled(<< "%", ".", "2", "f" >>, << "0.50" >>),
      Filled(<< "%", "s" >>, Nickname), Filled(<< "%", "r" >>, Nickname) }

MCValues ==
    BoundedSeq(ValueParts, 2)
    \cup { Append(v, Literally(<< "%" >>, << "%" >>)) : v \in BoundedSeq(ValueParts, 1) }

MCMails ==
    [what : { "mail" }, html : BOOLEAN, key : { << "k" >> },
     template : BoundedSeq(TemplateParts, 3), value : MCValues]

Sections ==
    [header : AnyHeader,
     body : { << >>, << "\n", " ", "a" >>, << "a", "\n", "\n", "b", " " >> }]

MCTemplates ==
    { t \in [what : { "template" }, html : BOOLEAN, crlf : BOOLEAN,
             preamble : { << >>, << "c", "\n" >> },
             sections : BoundedSeq(Sections, 3)] :
        \E i \in DOMAIN t.sections : t.sections[i].header \in Headers }

Folder == [kind |-> "folder"]
AFile == [kind |-> "file"]
Link == [kind |-> "link"]
MCRoot == << "srv" >>

MCDisk ==
    << >> :> Folder @@ << "srv" >> :> Folder @@ << "f" >> :> AFile
    @@ << "srv", "f" >> :> AFile @@ << "srv", "d" >> :> Folder
    @@ << "srv", "d", "f" >> :> AFile @@ << "srv", "l" >> :> Link
    @@ << "srv", "l", "f" >> :> AFile

MCRequests ==
    [what : { "path" }, absolute : BOOLEAN,
     parts : BoundedSeq({ "srv", "d", "f", "l", "..", "." }, 5)]
=============================================================================
