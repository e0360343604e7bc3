---------------------------- MODULE MessageBuild ----------------------------
(***************************************************************************)
(* One message from its draft to the relay: the edits of the natives       *)
(* (src/natives/message.rs and template.rs), and message::build, which     *)
(* reads the attachments one file at a time on a worker while the server's *)
(* files go on changing, then what each attempt of the sender transmits.   *)
(*                                                                         *)
(* A text is empty, "plain" (no line break, no placeholder), "hole" (it    *)
(* holds the placeholder of the one variable) or "break" (it holds what no *)
(* header may: a line break, a NUL or too much); files and data are their  *)
(* sizes.  The failure an edit reports is Plugin's, and an edit that is    *)
(* refused changes nothing here.                                           *)
(***************************************************************************)
EXTENDS Retain, FiniteSets, Functions

CONSTANTS
    Files,         \* the files a gamemode attaches
    Sizes,         \* the sizes a file or a piece of data may have
    Gone,          \* in place of a size: the file cannot be read
    NoTemplate,
    Templates,     \* what email_set_template may load: [subject, text, html]
    MaxBytes,      \* MAX_ATTACHMENT_BYTES
    MaxRecipients, \* MAX_RECIPIENTS
    MaxHeaders,    \* MAX_HEADERS
    Retries,       \* the account's retries
    MaxRewrites    \* bound: how often the files change

ASSUME BuildAssumption ==
    /\ Sizes \subseteq Nat /\ Gone \notin Sizes
    /\ { MaxBytes, MaxRecipients, MaxHeaders, Retries, MaxRewrites } \subseteq Nat

VARIABLES
    disk,      \* the size of each file
    rewrites,  \* how often they have changed
    draft,     \* the MessageDraft
    stage,     \* open, queued, building, built, sent or failed
    loaded,    \* the attachments that build has read, with their sizes
    message,   \* the built message that replaces the draft, as the one member
               \* of a sequence, or NoMessage
    attempts   \* what was handed to the relay so far, attempt by attempt

fileVars == << disk, rewrites >>
buildVars == << fileVars, draft, stage, loaded, message, attempts >>

Unset == "unset"
NoMessage == << >>

EmptyDraft ==
    [from |-> Unset, replyTo |-> Unset, recipients |-> 0, subject |-> "",
     text |-> "", html |-> "", headers |-> << >>, attachments |-> << >>,
     template |-> NoTemplate, var |-> Unset]

BuildInit ==
    /\ disk \in [Files -> Sizes \cup {Gone}]
    /\ rewrites = 0
    /\ draft = EmptyDraft
    /\ stage = "open"
    /\ loaded = << >>
    /\ message = NoMessage
    /\ attempts = << >>

\* The server writes one of its files, or removes it.  Before the file is
\* attached this makes no difference: it is any to begin with.
Rewrite(f) ==
    /\ rewrites < MaxRewrites
    /\ \E i \in DOMAIN draft.attachments : draft.attachments[i].source = f
    /\ \E size \in (Sizes \cup {Gone}) \ { disk[f] } :
        disk' = [disk EXCEPT ![f] = size]
    /\ rewrites' = rewrites + 1
    /\ UNCHANGED << draft, stage, loaded, message, attempts >>

-----------------------------------------------------------------------------
(* The natives that edit a draft.                                          *)

\* address::check_header_value
HeaderSafe(text) == text # "break"

Change(changed) ==
    /\ stage = "open"
    /\ draft' = changed
    /\ UNCHANGED << fileVars, stage, loaded, message, attempts >>

\* An address of the script's own, checked as it is parsed.
SetFrom == Change([draft EXCEPT !.from = "own"])

SetReplyTo == Change([draft EXCEPT !.replyTo = "own"])

\* email_add_to, email_add_cc and email_add_bcc share one limit.
AddRecipient ==
    /\ draft.recipients < MaxRecipients
    /\ Change([draft EXCEPT !.recipients = @ + 1])

SetSubject ==
    \E text \in { "", "plain", "break" } :
        HeaderSafe(text) /\ Change([draft EXCEPT !.subject = text])

SetBody ==
    \E text \in { "", "plain" } : Change([draft EXCEPT !.text = text])

SetHtml ==
    \E text \in { "", "plain" } : Change([draft EXCEPT !.html = text])

\* A name may be one that the message has already, or will have.
AddHeader ==
    /\ Len(draft.headers) < MaxHeaders
    /\ \E name \in { "subject", "other" }, text \in { "plain", "break" } :
        /\ HeaderSafe(text)
        /\ Change([draft EXCEPT !.headers = Append(@, << name, text >>)])

\* The template is the draft's own from here on.
SetTemplate ==
    \E t \in Templates : Change([draft EXCEPT !.template = t])

\* A value may hold anything: nobody checks it here.
SetVar ==
    \E text \in { "plain", "break" } : Change([draft EXCEPT !.var = text])

Total(parts) ==
    LET sum[i \in 0 .. Len(parts)] ==
            IF i = 0 THEN 0 ELSE sum[i - 1] + parts[i].size
    IN  sum[Len(parts)]

\* The sizes counted are those the files had when they were attached.
Fits(size) == Total(draft.attachments) + size <= MaxBytes

\* attachment and push_attachment.
Push(attachment) ==
    /\ Fits(attachment.size)
    /\ Change([draft EXCEPT !.attachments = Append(@, attachment)])

\* email_attach and email_embed.
AttachFile ==
    \E f \in Files, inline \in BOOLEAN :
        /\ disk[f] # Gone
        /\ Push([source |-> f, size |-> disk[f], inline |-> inline])

AttachData ==
    \E size \in Sizes : Push([source |-> "data", size |-> size, inline |-> FALSE])

\* email_send takes the draft as it is, with or without recipients.
Send ==
    /\ stage = "open"
    /\ stage' = "queued"
    /\ UNCHANGED << fileVars, draft, loaded, message, attempts >>

-----------------------------------------------------------------------------
(* message::build, on the worker.                                          *)

\* render: the placeholder of a variable without a value stays as it is.
Rendered(text) == IF text = "hole" /\ draft.var # Unset THEN draft.var ELSE text

\* A template fills in only what nothing set.
Pick(explicit, fromTemplate) ==
    IF explicit = "" THEN Rendered(fromTemplate) ELSE explicit

Parts ==
    IF draft.template = NoTemplate
    THEN [subject |-> draft.subject, text |-> draft.text, html |-> draft.html]
    ELSE [subject |-> Pick(draft.subject, draft.template.subject),
          text |-> Pick(draft.text, draft.template.text),
          html |-> Pick(draft.html, draft.template.html)]

\* Mutant: only the subject that a native sets is checked.
Unusable_Never == FALSE

\* The rendered subject is checked again.
Unusable == draft.template # NoTemplate /\ ~HeaderSafe(Parts.subject)

Put(headers, header) ==
    [name \in DOMAIN headers \cup { header[1] } |->
        IF name = header[1] THEN header[2] ELSE headers[name]]

\* The headers of the message: the account's identity is the sender unless the
\* draft has one, and a custom header replaces the one of its name.
Headers ==
    LET head[i \in 0 .. Len(draft.headers)] ==
            IF i = 0
            THEN [from |-> IF draft.from = Unset THEN "account" ELSE draft.from,
                  replyTo |-> draft.replyTo, subject |-> Parts.subject]
            ELSE Put(head[i - 1], draft.headers[i])
    IN  head[Len(draft.headers)]

Embedded == { a \in Range(draft.attachments) : a.inline }

Inline == Retain(draft.attachments, Embedded)
Attached == Retain(draft.attachments, Range(draft.attachments) \ Embedded)

\* Mutant: every attachment is in the outer multipart, the embedded ones too.
LoadOrder_All == Inline \o draft.attachments

\* Embedded images are read first, with the HTML they belong to.
LoadOrder == Inline \o Attached

\* The checks of build that come before it reads a file.
CanBuild ==
    /\ draft.recipients > 0
    /\ ~Unusable
    /\ Inline # << >> => Parts.html # ""

Begin ==
    /\ stage = "queued" /\ message = NoMessage
    /\ stage' = IF CanBuild THEN "building" ELSE "failed"
    /\ UNCHANGED << fileVars, draft, loaded, message, attempts >>

Upcoming == LoadOrder[Len(loaded) + 1]

\* What load reads: a file as it is now, data as it was given.
Bytes(attachment) ==
    IF attachment.source = "data" THEN attachment.size ELSE disk[attachment.source]

\* Mutant: the embedded images and the other attachments are counted apart.
Counted_Apart == SelectSeq(loaded, LAMBDA p : p.inline = Upcoming.inline)

\* The parts that count against the limit, whatever multipart they are in.
Counted == loaded

\* load: one attachment, counted by what it holds now.
Load ==
    /\ stage = "building" /\ Len(loaded) < Len(LoadOrder)
    /\ IF Bytes(Upcoming) # Gone /\ Total(Counted) + Bytes(Upcoming) <= MaxBytes
       THEN /\ loaded' = Append(loaded, [Upcoming EXCEPT !.size = Bytes(Upcoming)])
            /\ UNCHANGED stage
       ELSE /\ stage' = "failed"
            /\ UNCHANGED loaded
    /\ UNCHANGED << fileVars, draft, message, attempts >>

\* The message is whole.
Assembled ==
    /\ stage = "building" /\ Len(loaded) = Len(LoadOrder)
    /\ message' = << [parts |-> Parts, recipients |-> draft.recipients,
                      headers |-> Headers, attachments |-> loaded] >>
    /\ stage' = "built"
    /\ loaded' = << >>
    /\ UNCHANGED << fileVars, draft, attempts >>

\* A retry finds the message built.
Again ==
    /\ stage = "queued" /\ message # NoMessage
    /\ stage' = "built"
    /\ UNCHANGED << fileVars, draft, loaded, message, attempts >>

\* Mutant: the draft stays in the job, and a retry builds it again.
Kept_Draft == NoMessage

\* The built message replaces the draft for any retry.
Kept == message

\* The relay takes it, refuses it for good, or asks for another attempt.
Transmit ==
    /\ stage = "built"
    /\ attempts' = attempts \o message
    /\ message' = Kept
    /\ stage' \in { "sent", "failed" } \cup
                  (IF Len(attempts) < Retries THEN { "queued" } ELSE {})
    /\ UNCHANGED << fileVars, draft, loaded >>

BuildNext ==
    \/ \E f \in Files : Rewrite(f)
    \/ SetFrom \/ SetReplyTo \/ AddRecipient
    \/ SetSubject \/ SetBody \/ SetHtml \/ AddHeader
    \/ SetTemplate \/ SetVar \/ AttachFile \/ AttachData \/ Send
    \/ Begin \/ Load \/ Assembled \/ Again \/ Transmit

BuildSpec == BuildInit /\ [][BuildNext]_buildVars

-----------------------------------------------------------------------------
(* What makes it correct.                                                  *)

\* Whatever the files grew to after they were attached, no message that is
\* transmitted holds more than MAX_ATTACHMENT_BYTES, the embedded images and
\* the other attachments together; nor does a draft, by what they were then.
WithinLimit ==
    /\ Total(draft.attachments) <= MaxBytes
    /\ \A i \in DOMAIN attempts : Total(attempts[i].attachments) <= MaxBytes

\* Every attempt of a message transmits the same thing, whatever happens to
\* its files in between: a relay that had already accepted a first attempt
\* sees one mail twice, never two different ones.
SameOnRetry ==
    \A i, j \in DOMAIN attempts : attempts[i] = attempts[j]

\* No variable smuggles a header in: no header that reaches the relay has a
\* line break, the subject included, whether a native set it, a template and
\* its variable made it, or a custom header took its place.
NoSmuggledHeader ==
    \A i \in DOMAIN attempts : \A name \in DOMAIN attempts[i].headers :
        HeaderSafe(attempts[i].headers[name])

\* How many attachments there are of one source, and in one multipart.
Times(s, source, inline) ==
    Cardinality({ k \in DOMAIN s : s[k].source = source /\ s[k].inline = inline })

\* Every attachment of the draft is in the message exactly once, and an
\* embedded one is next to the HTML that refers to it.
EveryPartOnce ==
    \A i \in DOMAIN attempts :
        LET parts == attempts[i].attachments
        IN  /\ \A source \in Files \cup { "data" }, inline \in BOOLEAN :
                  Times(parts, source, inline)
                      = Times(draft.attachments, source, inline)
            /\ (\E k \in DOMAIN parts : parts[k].inline) =>
                  attempts[i].parts.html # ""
=============================================================================
