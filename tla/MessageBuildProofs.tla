------------------------- MODULE MessageBuildProofs -------------------------
(***************************************************************************)
(* Proofs about MessageBuild: for every set of files, sizes and templates, *)
(* every limit and every number of retries, what reaches the relay is the  *)
(* same on each attempt, within the limits, and what the draft held.       *)
(***************************************************************************)
EXTENDS MessageBuild, SequenceLemmas

-----------------------------------------------------------------------------
(* Attempts.                                                               *)

EditSteps ==
    \/ SetFrom \/ SetReplyTo \/ AddRecipient
    \/ SetSubject \/ SetBody \/ SetHtml \/ AddHeader
    \/ SetTemplate \/ SetVar \/ AttachFile \/ AttachData

\* Every edit is refused or changes the draft of an open handle.
LEMMA EditsChangeDraft ==
    EditSteps => /\ stage = "open" /\ UNCHANGED << disk, stage, loaded, message, attempts >>
BY DEF EditSteps, SetFrom, SetReplyTo, AddRecipient, SetSubject, SetBody, SetHtml,
       AddHeader, SetTemplate, SetVar, AttachFile, AttachData, Push, Change,
       fileVars

\* What the relay saw is the built message, while there is one, and nothing
\* before there is.
RetryInv ==
    /\ attempts \in Seq(Range(attempts))
    /\ SameOnRetry
    /\ message = NoMessage \/ \E m : message = << m >>
    /\ stage \in { "open", "building" } => attempts = << >> /\ message = NoMessage
    /\ stage = "built" => message # NoMessage
    /\ stage \in { "queued", "built" } =>
        /\ message = NoMessage => attempts = << >>
        /\ \A i \in DOMAIN attempts : attempts[i] = message[1]

LEMMA RetryKept ==
    ASSUME RetryInv, UNCHANGED << stage, message, attempts >>
    PROVE  RetryInv'
BY DEF RetryInv, SameOnRetry

LEMMA RetryInit == BuildInit => RetryInv
BY DEF BuildInit, RetryInv, SameOnRetry, Range

LEMMA AttemptsGrow ==
    ASSUME RetryInv, Transmit
    PROVE  RetryInv'
<1>1. /\ stage = "built" /\ attempts' = attempts \o message /\ message' = message
      /\ stage' \in { "sent", "failed", "queued" }
  <2>1. stage = "built" /\ attempts' = attempts \o message /\ message' = message
    BY Zenon DEF Transmit, Kept
  <2>2. stage' \in { "sent", "failed" } \cup
                    (IF Len(attempts) < Retries THEN { "queued" } ELSE {})
    BY Zenon DEF Transmit
  <2> QED
    BY <2>1, <2>2
<1> PICK m : message = << m >>
  BY DEF Transmit, RetryInv
<1>2. \A i \in DOMAIN attempts : attempts[i] = m
  BY <1>1 DEF RetryInv
<1> DEFINE X == Range(attempts) \cup {m}
<1>3. attempts \in Seq(X) /\ message \in Seq(X) /\ Len(message) = 1
  <2>1. Range(attempts) \subseteq X /\ m \in X
    OBVIOUS
  <2>2. attempts \in Seq(Range(attempts))
    BY DEF RetryInv
  <2> HIDE DEF X
  <2> QED
    BY <2>1, <2>2
<1> HIDE DEF X
<1>4. /\ attempts' \in Seq(X) /\ Len(attempts') = Len(attempts) + 1
      /\ \A i \in 1 .. Len(attempts) + 1 :
            attempts'[i] = IF i <= Len(attempts) THEN attempts[i]
                           ELSE message[i - Len(attempts)]
  BY <1>1, <1>3, ConcatProperties
<1>5. DOMAIN attempts = 1 .. Len(attempts) /\ Len(attempts) \in Nat
      /\ DOMAIN attempts' = 1 .. Len(attempts')
  BY <1>3, <1>4, LenProperties
<1>6. \A i \in DOMAIN attempts' : attempts'[i] = m
  BY <1>2, <1>4, <1>5
<1>7. attempts' \in Seq(Range(attempts'))
  BY <1>4, <1>5, SeqDef DEF Range
<1> QED
  BY <1>1, <1>6, <1>7 DEF RetryInv, SameOnRetry, NoMessage

LEMMA RetryNext == RetryInv /\ [BuildNext]_buildVars => RetryInv'
<1> SUFFICES ASSUME RetryInv, [BuildNext]_buildVars PROVE RetryInv'
  OBVIOUS
<1>1. CASE EditSteps
  BY <1>1, EditsChangeDraft, RetryKept
<1>2. ASSUME NEW f \in Files, Rewrite(f) PROVE RetryInv'
  BY <1>2, RetryKept DEF Rewrite
<1>3. CASE Send
  BY <1>3 DEF Send, RetryInv, SameOnRetry
<1>4. CASE Begin
  BY <1>4 DEF Begin, RetryInv, SameOnRetry
<1>5. CASE Load
  BY <1>5 DEF Load, RetryInv, SameOnRetry
<1>6. CASE Assembled
  BY <1>6 DEF Assembled, RetryInv, SameOnRetry, NoMessage
<1>7. CASE Again
  BY <1>7 DEF Again, RetryInv, SameOnRetry
<1>8. CASE Transmit
  BY <1>8, AttemptsGrow
<1>9. CASE UNCHANGED buildVars
  BY <1>9, RetryKept DEF buildVars
<1> QED
  BY <1>1, <1>2, <1>3, <1>4, <1>5, <1>6, <1>7, <1>8, <1>9
     DEF BuildNext, EditSteps

\* In every run all attempts of a message transmit the same thing, however
\* often it is tried and whatever becomes of its files in between.
THEOREM AlwaysSameOnRetry == BuildSpec => []SameOnRetry
<1>1. RetryInv => SameOnRetry
  BY DEF RetryInv
<1> QED
  BY RetryInit, RetryNext, <1>1, PTL DEF BuildSpec

-----------------------------------------------------------------------------
(* Totals.                                                                 *)

\* What the recursive function of Total is asked to be.
Sums(f, s, n) == f = [i \in 0 .. n |-> IF i = 0 THEN 0 ELSE f[i - 1] + s[i].size]

LEMMA SumsExist ==
    ASSUME NEW s, NEW n \in Nat
    PROVE  \E f : Sums(f, s, n)
<1> DEFINE T == { k \in Nat : \E f : Sums(f, s, k) }
<1>1. 0 \in T
  <2> DEFINE f == [i \in 0 .. 0 |-> 0]
  <2>1. Sums(f, s, 0)
    BY DEF Sums
  <2> QED
    BY <2>1
<1>2. ASSUME NEW k \in T PROVE k + 1 \in T
  <2>1. PICK f : Sums(f, s, k)
    BY <1>2
  <2> DEFINE g == [i \in 0 .. k + 1 |-> IF i = 0 THEN 0 ELSE f[i - 1] + s[i].size]
  <2>2. ASSUME NEW i \in 0 .. k PROVE g[i] = f[i]
    <3>1. i \in 0 .. k + 1
      OBVIOUS
    <3>2. f[i] = IF i = 0 THEN 0 ELSE f[i - 1] + s[i].size
      BY <2>1, Zenon DEF Sums
    <3> QED
      BY <3>1, <3>2, Zenon
  <2>3. \A i \in 0 .. k + 1 : i # 0 => i - 1 \in 0 .. k
    OBVIOUS
  <2>4. Sums(g, s, k + 1)
    BY <2>2, <2>3, Zenon DEF Sums
  <2> QED
    BY <2>4
<1> QED
  BY <1>1, <1>2, NumbersInduction

LEMMA TotalSteps ==
    ASSUME NEW s, NEW n \in Nat, n = Len(s)
    PROVE  \E f : /\ f[0] = 0
                  /\ \A i \in 1 .. n : f[i] = f[i - 1] + s[i].size
                  /\ Total(s) = f[n]
<1> DEFINE f == CHOOSE g : Sums(g, s, n)
<1>1. Sums(f, s, n)
  BY SumsExist
<1>2. Total(s) = f[n]
  BY DEF Total, Sums
<1> HIDE DEF f
<1>3. f[0] = 0
  BY <1>1 DEF Sums
<1>4. ASSUME NEW i \in 1 .. n PROVE f[i] = f[i - 1] + s[i].size
  <2>1. i \in 0 .. n /\ i # 0
    OBVIOUS
  <2> QED
    BY <1>1, <2>1, Zenon DEF Sums
<1> QED
  BY <1>2, <1>3, <1>4

LEMMA TotalEmpty == Total(<< >>) = 0
BY TotalSteps

\* A member more, and its size more.
LEMMA TotalAppend ==
    ASSUME NEW X, \A x \in X : x.size \in Nat,
           NEW s \in Seq(X), NEW y \in X
    PROVE  Total(s) \in Nat /\ Total(Append(s, y)) = Total(s) + y.size
<1> PICK n, t : n = Len(s) /\ t = Append(s, y)
  OBVIOUS
<1>1. /\ n \in Nat /\ n + 1 = Len(t) /\ t[n + 1] = y
      /\ \A i \in 1 .. n : t[i] = s[i] /\ s[i] \in X
  BY AppendProperties, LenProperties, ElementOfSeq
<1>2. PICK f : /\ f[0] = 0
               /\ \A i \in 1 .. n : f[i] = f[i - 1] + s[i].size
               /\ Total(s) = f[n]
  BY <1>1, TotalSteps
<1>3. PICK g : /\ g[0] = 0
               /\ \A i \in 1 .. n + 1 : g[i] = g[i - 1] + t[i].size
               /\ Total(t) = g[n + 1]
  <2> PICK m : m = n + 1
    OBVIOUS
  <2>1. m \in Nat /\ m = Len(t)
    BY <1>1
  <2>2. \E g : /\ g[0] = 0
               /\ \A i \in 1 .. m : g[i] = g[i - 1] + t[i].size
               /\ Total(t) = g[m]
    BY ONLY <2>1, TotalSteps
  <2> QED
    BY <2>2
<1> DEFINE T == { k \in Nat : k <= n => f[k] \in Nat /\ g[k] = f[k] }
<1>4. T = Nat
  <2>1. 0 \in T
    BY <1>2, <1>3
  <2>2. ASSUME NEW k \in T PROVE k + 1 \in T
    <3> k + 1 \in Nat
      OBVIOUS
    <3>1. CASE k + 1 <= n
      <4>1. k + 1 \in 1 .. n /\ k + 1 \in 1 .. n + 1 /\ (k + 1) - 1 = k
        BY <1>1, <3>1
      <4>2. f[k] \in Nat /\ g[k] = f[k]
        BY <1>1, <3>1
      <4>3. f[k + 1] = f[k] + s[k + 1].size /\ g[k + 1] = g[k] + t[k + 1].size
        BY <1>2, <1>3, <4>1, Zenon
      <4>4. t[k + 1].size = s[k + 1].size /\ s[k + 1].size \in Nat
        BY <1>1, <4>1
      <4> QED
        BY <4>2, <4>3, <4>4
    <3>2. CASE ~(k + 1 <= n)
      BY <3>2
    <3> QED
      BY <3>1, <3>2
  <2> HIDE DEF T
  <2>3. T \in SUBSET Nat
    BY DEF T
  <2> QED
    BY <2>1, <2>2, <2>3, NumbersInduction
<1>5. f[n] \in Nat /\ g[n] = f[n]
  BY <1>1, <1>4
<1>6. g[n + 1] = g[n] + y.size
  <2>1. n + 1 \in 1 .. n + 1 /\ (n + 1) - 1 = n
    BY <1>1
  <2> QED
    BY <1>1, <1>3, <2>1, Zenon
<1> QED
  BY <1>2, <1>3, <1>5, <1>6

-----------------------------------------------------------------------------
(* The draft.                                                              *)

Attachments == [source : Files \cup {"data"}, size : Nat, inline : BOOLEAN]
CustomHeaders == { "subject", "other" } \X { "plain" }

Drafts ==
    [from : {Unset, "own"}, replyTo : {Unset, "own"}, recipients : Nat,
     subject : {"", "plain"}, text : {"", "plain"}, html : {"", "plain"},
     headers : Seq(CustomHeaders), attachments : Seq(Attachments),
     template : Templates \cup {NoTemplate}, var : {Unset, "plain", "break"}]

\* What a native stores was checked when it was stored, sizes included.
DraftInv ==
    /\ disk \in [Files -> Sizes \cup {Gone}]
    /\ draft \in Drafts
    /\ Total(draft.attachments) <= MaxBytes

LEMMA DraftInit == BuildInit => DraftInv
<1> SUFFICES ASSUME BuildInit PROVE DraftInv
  OBVIOUS
<1>1. draft = EmptyDraft /\ disk \in [Files -> Sizes \cup {Gone}]
  BY DEF BuildInit
<1>2. << >> \in Seq(CustomHeaders) /\ << >> \in Seq(Attachments)
  OBVIOUS
<1>3. draft \in Drafts /\ draft.attachments = << >>
  BY <1>1, <1>2 DEF EmptyDraft, Drafts, Unset
<1> QED
  BY <1>1, <1>3, TotalEmpty, BuildAssumption DEF DraftInv

LEMMA DraftKept ==
    ASSUME DraftInv, UNCHANGED draft,
           disk' \in [Files -> Sizes \cup {Gone}]
    PROVE  DraftInv'
BY DEF DraftInv

\* An attachment is taken only if it fits.
LEMMA PushFits ==
    ASSUME DraftInv, NEW a \in Attachments, Push(a)
    PROVE  DraftInv'
<1> PICK s : s = draft.attachments
  OBVIOUS
<1>1. /\ draft' = [draft EXCEPT !.attachments = Append(s, a)]
      /\ disk' = disk /\ Total(s) + a.size <= MaxBytes
  BY DEF Push, Fits, Change, fileVars
<1>2. draft \in Drafts /\ s \in Seq(Attachments)
  BY DEF DraftInv, Drafts
<1>3. Append(s, a) \in Seq(Attachments)
  BY <1>2, AppendProperties
<1>4. draft' \in Drafts /\ draft'.attachments = Append(s, a)
  BY <1>1, <1>2, <1>3 DEF Drafts
<1>5. Total(Append(s, a)) = Total(s) + a.size
  <2>1. \A x \in Attachments : x.size \in Nat
    BY DEF Attachments
  <2> QED
    BY <1>2, <2>1, TotalAppend
<1> QED
  BY <1>1, <1>4, <1>5 DEF DraftInv

LEMMA DraftEdited ==
    ASSUME DraftInv, EditSteps
    PROVE  DraftInv'
<1> USE DEF Unset
<1>1. draft \in Drafts /\ DOMAIN disk = Files /\ disk \in [Files -> Sizes \cup {Gone}]
  BY DEF DraftInv
<1>2. ASSUME NEW d \in Drafts, d.attachments = draft.attachments, Change(d)
      PROVE  DraftInv'
  BY <1>2 DEF DraftInv, Change, fileVars
<1>3. CASE SetFrom
  <2>1. [draft EXCEPT !.from = "own"] \in Drafts
    BY <1>1 DEF Drafts
  <2> QED
    BY <1>1, <1>2, <1>3, <2>1 DEF SetFrom, Drafts
<1>4. CASE SetReplyTo
  <2>1. [draft EXCEPT !.replyTo = "own"] \in Drafts
    BY <1>1 DEF Drafts
  <2> QED
    BY <1>1, <1>2, <1>4, <2>1 DEF SetReplyTo, Drafts
<1>5. CASE AddRecipient
  <2>1. draft.recipients + 1 \in Nat
    <3>1. draft.recipients \in Nat
      BY <1>1 DEF Drafts
    <3> QED
      BY <3>1
  <2>2. [draft EXCEPT !.recipients = @ + 1] \in Drafts
    BY <1>1, <2>1 DEF Drafts
  <2> QED
    BY <1>1, <1>2, <1>5, <2>2 DEF AddRecipient, Drafts
<1>6. CASE SetSubject
  <2>1. PICK text \in { "", "plain" } : Change([draft EXCEPT !.subject = text])
    BY <1>6 DEF SetSubject, HeaderSafe
  <2>2. [draft EXCEPT !.subject = text] \in Drafts
    BY <1>1 DEF Drafts
  <2> QED
    BY <1>1, <1>2, <2>1, <2>2 DEF Drafts
<1>7. CASE SetBody
  <2>1. PICK text \in { "", "plain" } : Change([draft EXCEPT !.text = text])
    BY <1>7 DEF SetBody
  <2>2. [draft EXCEPT !.text = text] \in Drafts
    BY <1>1 DEF Drafts
  <2> QED
    BY <1>1, <1>2, <2>1, <2>2 DEF Drafts
<1>8. CASE SetHtml
  <2>1. PICK text \in { "", "plain" } : Change([draft EXCEPT !.html = text])
    BY <1>8 DEF SetHtml
  <2>2. [draft EXCEPT !.html = text] \in Drafts
    BY <1>1 DEF Drafts
  <2> QED
    BY <1>1, <1>2, <2>1, <2>2 DEF Drafts
<1>9. CASE AddHeader
  <2>1. PICK name \in { "subject", "other" }, text \in { "plain", "break" } :
          /\ HeaderSafe(text)
          /\ Change([draft EXCEPT !.headers = Append(@, << name, text >>)])
    BY <1>9 DEF AddHeader
  <2> PICK s : s = draft.headers
    OBVIOUS
  <2>2. << name, text >> \in CustomHeaders /\ s \in Seq(CustomHeaders)
    BY <1>1, <2>1 DEF HeaderSafe, CustomHeaders, Drafts
  <2>3. Append(s, << name, text >>) \in Seq(CustomHeaders)
    BY <2>2, AppendProperties
  <2>4. [draft EXCEPT !.headers = Append(s, << name, text >>)] \in Drafts
    BY <1>1, <2>3 DEF Drafts
  <2>5. Change([draft EXCEPT !.headers = Append(s, << name, text >>)])
    BY <2>1
  <2> QED
    BY <1>1, <1>2, <2>4, <2>5 DEF Drafts
<1>10. CASE SetTemplate
  <2>1. PICK t \in Templates : Change([draft EXCEPT !.template = t])
    BY <1>10 DEF SetTemplate
  <2>2. [draft EXCEPT !.template = t] \in Drafts
    BY <1>1 DEF Drafts
  <2> QED
    BY <1>1, <1>2, <2>1, <2>2 DEF Drafts
<1>11. CASE SetVar
  <2>1. PICK text \in { "plain", "break" } : Change([draft EXCEPT !.var = text])
    BY <1>11 DEF SetVar
  <2>2. [draft EXCEPT !.var = text] \in Drafts
    BY <1>1 DEF Drafts
  <2> QED
    BY <1>1, <1>2, <2>1, <2>2 DEF Drafts
<1>12. CASE AttachFile
  <2>1. PICK f \in Files, inline \in BOOLEAN :
          /\ disk[f] # Gone
          /\ Push([source |-> f, size |-> disk[f], inline |-> inline])
    BY <1>12 DEF AttachFile
  <2>2. disk[f] \in Nat
    BY <1>1, <2>1, BuildAssumption
  <2>3. [source |-> f, size |-> disk[f], inline |-> inline] \in Attachments
    BY <2>2 DEF Attachments
  <2> QED
    BY <2>1, <2>3, PushFits
<1>13. CASE AttachData
  <2>1. PICK size \in Sizes :
          Push([source |-> "data", size |-> size, inline |-> FALSE])
    BY <1>13 DEF AttachData
  <2>2. [source |-> "data", size |-> size, inline |-> FALSE] \in Attachments
    BY BuildAssumption DEF Attachments
  <2> QED
    BY <2>1, <2>2, PushFits
<1> QED
  BY <1>3, <1>4, <1>5, <1>6, <1>7, <1>8, <1>9, <1>10, <1>11, <1>12, <1>13
     DEF EditSteps

LEMMA DraftNext == DraftInv /\ [BuildNext]_buildVars => DraftInv'
<1> SUFFICES ASSUME DraftInv, [BuildNext]_buildVars PROVE DraftInv'
  OBVIOUS
<1>1. disk \in [Files -> Sizes \cup {Gone}]
  BY DEF DraftInv
<1>2. CASE EditSteps
  BY <1>2, DraftEdited
<1>3. ASSUME NEW f \in Files, Rewrite(f) PROVE DraftInv'
  <2>1. PICK size \in Sizes \cup {Gone} : disk' = [disk EXCEPT ![f] = size]
    BY <1>3 DEF Rewrite
  <2>2. disk' \in [Files -> Sizes \cup {Gone}]
    BY <1>1, <2>1
  <2> QED
    BY <1>3, <2>2, DraftKept DEF Rewrite
<1>4. CASE Send \/ Begin \/ Load \/ Assembled \/ Again \/ Transmit
  BY <1>1, <1>4, DraftKept
     DEF Send, Begin, Load, Assembled, Again, Transmit, fileVars
<1>5. CASE UNCHANGED buildVars
  BY <1>1, <1>5, DraftKept DEF buildVars, fileVars
<1> QED
  BY <1>2, <1>3, <1>4, <1>5 DEF BuildNext, EditSteps

-----------------------------------------------------------------------------
(* The headers.                                                            *)

\* What the recursive function of Headers is asked to be.
Stacks(f, first, s, n) ==
    f = [i \in 0 .. n |-> IF i = 0 THEN first ELSE Put(f[i - 1], s[i])]

LEMMA StacksExist ==
    ASSUME NEW first, NEW s, NEW n \in Nat
    PROVE  \E f : Stacks(f, first, s, n)
<1> DEFINE T == { k \in Nat : \E f : Stacks(f, first, s, k) }
<1>1. 0 \in T
  <2> DEFINE f == [i \in 0 .. 0 |-> first]
  <2>1. Stacks(f, first, s, 0)
    BY DEF Stacks
  <2> QED
    BY <2>1
<1>2. ASSUME NEW k \in T PROVE k + 1 \in T
  <2>1. PICK f : Stacks(f, first, s, k)
    BY <1>2
  <2> DEFINE g == [i \in 0 .. k + 1 |-> IF i = 0 THEN first ELSE Put(f[i - 1], s[i])]
  <2>2. ASSUME NEW i \in 0 .. k PROVE g[i] = f[i]
    <3>1. i \in 0 .. k + 1
      OBVIOUS
    <3>2. f[i] = IF i = 0 THEN first ELSE Put(f[i - 1], s[i])
      BY <2>1, Zenon DEF Stacks
    <3> QED
      BY <3>1, <3>2, Zenon
  <2>3. \A i \in 0 .. k + 1 : i # 0 => i - 1 \in 0 .. k
    OBVIOUS
  <2>4. Stacks(g, first, s, k + 1)
    BY <2>2, <2>3, Zenon DEF Stacks
  <2> QED
    BY <2>4
<1> QED
  BY <1>1, <1>2, NumbersInduction

Safe(headers) == \A name \in DOMAIN headers : HeaderSafe(headers[name])

LEMMA PutSafe ==
    ASSUME NEW headers, Safe(headers), NEW h \in CustomHeaders
    PROVE  Safe(Put(headers, h))
<1>1. HeaderSafe(h[2])
  BY DEF CustomHeaders, HeaderSafe
<1> QED
  BY <1>1 DEF Safe, Put

\* A message that build does not refuse has no header that could start
\* another: neither the ones build sets nor a custom one in their place.
LEMMA HeadersSafe ==
    ASSUME draft \in Drafts, ~Unusable
    PROVE  Safe(Headers)
<1> DEFINE first == [from |-> IF draft.from = Unset THEN "account" ELSE draft.from,
                     replyTo |-> draft.replyTo, subject |-> Parts.subject]
<1> PICK s, n : s = draft.headers /\ n = Len(draft.headers)
  OBVIOUS
<1>1. n \in Nat /\ \A i \in 1 .. n : s[i] \in CustomHeaders
  BY LenProperties, ElementOfSeq DEF Drafts
<1>2. HeaderSafe(Parts.subject)
  <2>1. CASE draft.template = NoTemplate
    BY <2>1 DEF Parts, HeaderSafe, Drafts
  <2>2. CASE draft.template # NoTemplate
    BY <2>2 DEF Unusable
  <2> QED
    BY <2>1, <2>2
<1>3. Safe(first)
  <2>1. draft.from \in {Unset, "own"} /\ draft.replyTo \in {Unset, "own"}
    BY DEF Drafts
  <2>2. HeaderSafe(draft.from) /\ HeaderSafe(draft.replyTo) /\ HeaderSafe("account")
    BY <2>1 DEF HeaderSafe, Unset
  <2> QED
    BY <1>2, <2>2 DEF Safe
<1> DEFINE f == CHOOSE g : Stacks(g, first, s, n)
<1>4. Stacks(f, first, s, n)
  BY <1>1, StacksExist
<1>5. Headers = f[n]
  BY DEF Headers, Stacks
<1> HIDE DEF f, first
<1>6. f[0] = first
  BY <1>1, <1>4 DEF Stacks
<1>7. ASSUME NEW i \in 1 .. n PROVE f[i] = Put(f[i - 1], s[i])
  <2>1. i \in 0 .. n /\ i # 0
    BY <1>1
  <2> QED
    BY <1>4, <2>1, Zenon DEF Stacks
<1> DEFINE T == { k \in Nat : k <= n => Safe(f[k]) }
<1>8. T = Nat
  <2>1. 0 \in T
    BY <1>3, <1>6
  <2>2. ASSUME NEW k \in T PROVE k + 1 \in T
    <3> k + 1 \in Nat
      OBVIOUS
    <3>1. CASE k + 1 <= n
      <4>1. k + 1 \in 1 .. n /\ (k + 1) - 1 = k /\ k <= n
        BY <1>1, <3>1
      <4>2. Safe(f[k])
        BY <4>1
      <4>3. f[k + 1] = Put(f[k], s[k + 1])
        BY <1>7, <4>1, Zenon
      <4>4. Safe(f[k + 1])
        BY <1>1, <4>1, <4>2, <4>3, PutSafe
      <4> QED
        BY <4>4
    <3>2. CASE ~(k + 1 <= n)
      BY <3>2
    <3> QED
      BY <3>1, <3>2
  <2> HIDE DEF T
  <2>3. T \in SUBSET Nat
    BY DEF T
  <2> QED
    BY <2>1, <2>2, <2>3, NumbersInduction
<1> QED
  BY <1>1, <1>5, <1>8

-----------------------------------------------------------------------------
(* The attachments, one by one.                                            *)

\* The parts are those of the order, as far as they go, whatever their sizes.
Matches(parts, order) ==
    /\ Len(parts) <= Len(order)
    /\ \A k \in 1 .. Len(parts) :
        parts[k].source = order[k].source /\ parts[k].inline = order[k].inline

LEMMA OrderType ==
    ASSUME DraftInv
    PROVE  /\ Inline \in Seq(Attachments) /\ Attached \in Seq(Attachments)
           /\ LoadOrder \in Seq(Attachments)
           /\ Range(Attached) \cap Embedded = {}
<1>1. draft.attachments \in Seq(Attachments)
  BY DEF DraftInv, Drafts
<1>2. /\ Inline \in Seq(Attachments) /\ Attached \in Seq(Attachments)
      /\ Range(Attached) = Range(draft.attachments)
                             \cap (Range(draft.attachments) \ Embedded)
  BY <1>1, RetainMembers DEF Inline, Attached
<1> QED
  BY <1>2, ConcatProperties DEF LoadOrder

\* What build has read so far: no more than the limit, in the order of the
\* multiparts, and only of a draft that passed the first checks.
LoadedInv ==
    /\ loaded \in Seq(Attachments)
    /\ Total(loaded) <= MaxBytes
    /\ Matches(loaded, LoadOrder)
    /\ stage = "open" => loaded = << >>
    /\ stage = "building" => CanBuild

LEMMA LoadedEmpty ==
    ASSUME DraftInv, loaded = << >>, stage # "building"
    PROVE  LoadedInv
<1>1. Len(LoadOrder) \in Nat
  BY OrderType, LenProperties
<1>2. << >> \in Seq(Attachments) /\ Len(<< >>) = 0
  OBVIOUS
<1> QED
  BY <1>1, <1>2, TotalEmpty, BuildAssumption DEF LoadedInv, Matches

LEMMA LoadedOne ==
    ASSUME DraftInv, LoadedInv, Load
    PROVE  LoadedInv'
<1>1. UNCHANGED << disk, draft >> /\ stage = "building"
  BY DEF Load, fileVars
<1>2. LoadOrder' = LoadOrder /\ CanBuild' = CanBuild
  BY <1>1 DEF LoadOrder, Inline, Attached, Embedded, CanBuild, Unusable,
              Parts, Pick, Rendered
<1>3. CASE UNCHANGED loaded
  BY <1>1, <1>2, <1>3 DEF Load, LoadedInv
<1>4. CASE ~UNCHANGED loaded
  <2> DEFINE size == Bytes(Upcoming)
             part == [Upcoming EXCEPT !.size = size]
  <2>1. /\ Len(loaded) < Len(LoadOrder) /\ size # Gone
        /\ Total(loaded) + size <= MaxBytes
        /\ loaded' = Append(loaded, part) /\ stage' = stage
    BY <1>4, Zenon DEF Load, Counted
  <2> PICK n : n = Len(loaded)
    OBVIOUS
  <2>2. /\ n \in Nat /\ n + 1 \in 1 .. Len(LoadOrder)
        /\ LoadOrder \in Seq(Attachments) /\ loaded \in Seq(Attachments)
    BY <2>1, OrderType, LenProperties DEF LoadedInv
  <2>3. Upcoming \in Attachments /\ Upcoming = LoadOrder[n + 1]
    BY <2>2, ElementOfSeq DEF Upcoming
  <2>4. size \in Nat
    <3>1. CASE Upcoming.source = "data"
      BY <2>3, <3>1 DEF Bytes, Attachments
    <3>2. CASE Upcoming.source # "data"
      <4>1. Upcoming.source \in Files /\ size = disk[Upcoming.source]
        BY <2>3, <3>2 DEF Bytes, Attachments
      <4>2. size \in Sizes \cup {Gone}
        BY <4>1 DEF DraftInv
      <4> QED
        BY <2>1, <4>2, BuildAssumption
    <3> QED
      BY <3>1, <3>2
  <2> HIDE DEF size
  <2>5. /\ part \in Attachments /\ part.size = size
        /\ part.source = LoadOrder[n + 1].source
        /\ part.inline = LoadOrder[n + 1].inline
    BY <2>3, <2>4 DEF Attachments
  <2> HIDE DEF part
  <2>6. Total(loaded') = Total(loaded) + size
    <3>1. \A x \in Attachments : x.size \in Nat
      BY DEF Attachments
    <3> QED
      BY <2>1, <2>2, <2>5, <3>1, TotalAppend
  <2>7. /\ loaded' \in Seq(Attachments) /\ Len(loaded') = n + 1
        /\ \A k \in 1 .. n : loaded'[k] = loaded[k]
        /\ loaded'[n + 1] = part
    BY <2>1, <2>2, <2>5, AppendProperties
  <2>8. Matches(loaded', LoadOrder)
    <3>1. \A k \in 1 .. n : /\ loaded[k].source = LoadOrder[k].source
                            /\ loaded[k].inline = LoadOrder[k].inline
      BY DEF LoadedInv, Matches
    <3> QED
      BY <2>2, <2>5, <2>7, <3>1 DEF Matches
  <2> QED
    BY <1>1, <1>2, <2>1, <2>6, <2>7, <2>8 DEF LoadedInv
<1> QED
  BY <1>3, <1>4

LEMMA LoadedNext ==
    ASSUME DraftInv, LoadedInv, [BuildNext]_buildVars
    PROVE  LoadedInv'
<1>1. ASSUME UNCHANGED << draft, stage, loaded >> PROVE LoadedInv'
  BY <1>1 DEF LoadedInv, LoadOrder, Inline, Attached, Embedded, CanBuild,
              Unusable, Parts, Pick, Rendered
<1>2. ASSUME loaded' = << >>, stage' # "building" PROVE LoadedInv'
  <2>1. DraftInv'
    BY DraftNext
  <2>2. Len(LoadOrder)' \in Nat
    <3>1. draft'.attachments \in Seq(Attachments)
      BY <2>1 DEF DraftInv, Drafts
    <3>2. Inline' \in Seq(Attachments) /\ Attached' \in Seq(Attachments)
      BY <3>1, RetainMembers DEF Inline, Attached
    <3>3. LoadOrder' \in Seq(Attachments)
      BY <3>2, ConcatProperties DEF LoadOrder
    <3> QED
      BY <3>3, LenProperties
  <2>3. << >> \in Seq(Attachments) /\ Len(<< >>) = 0
    OBVIOUS
  <2> QED
    BY <1>2, <2>2, <2>3, TotalEmpty, BuildAssumption DEF LoadedInv, Matches
<1>3. CASE EditSteps
  BY <1>2, <1>3, EditsChangeDraft DEF LoadedInv
<1>4. ASSUME NEW f \in Files, Rewrite(f) PROVE LoadedInv'
  BY <1>1, <1>4 DEF Rewrite
<1>5. CASE Send
  BY <1>2, <1>5 DEF Send, LoadedInv
<1>6. CASE Begin
  BY <1>6 DEF Begin, LoadedInv, LoadOrder, Inline, Attached, Embedded, CanBuild,
              Unusable, Parts, Pick, Rendered
<1>7. CASE Load
  BY <1>7, LoadedOne
<1>8. CASE Assembled
  BY <1>2, <1>8 DEF Assembled
<1>9. CASE Again
  BY <1>9 DEF Again, LoadedInv, LoadOrder, Inline, Attached, Embedded
<1>10. CASE Transmit
  <2>1. stage' \notin { "open", "building" } /\ UNCHANGED << draft, loaded >>
    <3>1. stage' \in { "sent", "failed" } \cup
                      (IF Len(attempts) < Retries THEN { "queued" } ELSE {})
      BY <1>10, Zenon DEF Transmit
    <3> QED
      BY <1>10, <3>1 DEF Transmit
  <2> QED
    BY <2>1 DEF LoadedInv, LoadOrder, Inline, Attached, Embedded
<1>11. CASE UNCHANGED buildVars
  BY <1>1, <1>11 DEF buildVars
<1> QED
  BY <1>3, <1>4, <1>5, <1>6, <1>7, <1>8, <1>9, <1>10, <1>11
     DEF BuildNext, EditSteps

-----------------------------------------------------------------------------
(* What the relay is handed.                                               *)

\* A message within the limit, that smuggles nothing, and in which every
\* attachment has its place.
Faithful(m) ==
    /\ m.attachments \in Seq(Attachments)
    /\ Total(m.attachments) <= MaxBytes
    /\ Safe(m.headers)
    /\ Len(m.attachments) = Len(LoadOrder)
    /\ Matches(m.attachments, LoadOrder)
    /\ Inline # << >> => m.parts.html # ""

FaithfulInv == \A m \in Range(message) \cup Range(attempts) : Faithful(m)

LEMMA FaithfulKept ==
    ASSUME FaithfulInv, UNCHANGED draft,
           Range(message)' \cup Range(attempts)'
             \subseteq Range(message) \cup Range(attempts)
    PROVE  FaithfulInv'
BY DEF FaithfulInv, Faithful, LoadOrder, Inline, Attached, Embedded

LEMMA FaithfulNext ==
    ASSUME DraftInv, LoadedInv, RetryInv, FaithfulInv, [BuildNext]_buildVars
    PROVE  FaithfulInv'
<1>1. ASSUME UNCHANGED << draft, message, attempts >> PROVE FaithfulInv'
  BY <1>1, FaithfulKept
<1>2. CASE EditSteps
  <2>1. message' = << >> /\ attempts' = << >>
    BY <1>2, EditsChangeDraft DEF RetryInv, NoMessage
  <2> QED
    BY <2>1 DEF FaithfulInv, Range
<1>3. ASSUME NEW f \in Files, Rewrite(f) PROVE FaithfulInv'
  BY <1>1, <1>3 DEF Rewrite
<1>4. CASE Send \/ Begin \/ Load \/ Again
  BY <1>1, <1>4 DEF Send, Begin, Load, Again
<1>5. CASE Assembled
  <2> PICK m : m = [parts |-> Parts, recipients |-> draft.recipients,
                    headers |-> Headers, attachments |-> loaded]
    OBVIOUS
  <2>1. /\ message' = << m >> /\ stage = "building"
        /\ Len(loaded) = Len(LoadOrder) /\ UNCHANGED << draft, attempts >>
    BY <1>5 DEF Assembled
  <2>2. CanBuild /\ draft \in Drafts
    BY <2>1 DEF LoadedInv, DraftInv
  <2>3. Safe(Headers)
    BY <2>2, HeadersSafe DEF CanBuild
  <2>4. Faithful(m)
    BY <2>1, <2>2, <2>3 DEF Faithful, LoadedInv, CanBuild
  <2>5. Range(message') = {m} /\ Range(attempts') = Range(attempts)
    BY <2>1 DEF Range
  <2>6. \A x : Faithful(x)' <=> Faithful(x)
    BY <2>1 DEF Faithful, LoadOrder, Inline, Attached, Embedded
  <2> QED
    BY <2>4, <2>5, <2>6 DEF FaithfulInv
<1>6. CASE Transmit
  <2>1. /\ UNCHANGED draft /\ message' = message
        /\ attempts' = attempts \o message /\ stage = "built"
    BY <1>6, Zenon DEF Transmit, Kept
  <2>2. \A i \in DOMAIN attempts' : attempts'[i] \in Range(attempts) \cup Range(message)
    <3> PICK m : message = << m >>
      BY <2>1 DEF RetryInv
    <3> DEFINE X == Range(attempts) \cup {m}
    <3>1. attempts \in Seq(X) /\ message \in Seq(X) /\ Range(message) = {m}
      <4>1. Range(attempts) \subseteq X /\ m \in X
        OBVIOUS
      <4>2. attempts \in Seq(Range(attempts))
        BY DEF RetryInv
      <4>3. Range(message) = {m}
        BY DEF Range
      <4> HIDE DEF X
      <4> QED
        BY <4>1, <4>2, <4>3
    <3> HIDE DEF X
    <3>2. attempts' \in Seq(X)
      BY <2>1, <3>1, ConcatProperties
    <3>3. \A i \in DOMAIN attempts' : attempts'[i] \in X
      BY <3>2, ElementOfSeq, LenProperties
    <3> QED
      BY <3>1, <3>3 DEF X
  <2>3. Range(attempts') \subseteq Range(attempts) \cup Range(message)
    BY <2>2 DEF Range
  <2> QED
    BY <2>1, <2>3, FaithfulKept
<1>7. CASE UNCHANGED buildVars
  BY <1>1, <1>7 DEF buildVars
<1> QED
  BY <1>2, <1>3, <1>4, <1>5, <1>6, <1>7 DEF BuildNext, EditSteps

SentInv == DraftInv /\ LoadedInv /\ RetryInv /\ FaithfulInv

LEMMA SentAlways == BuildSpec => []SentInv
<1>1. BuildInit => SentInv
  <2> SUFFICES ASSUME BuildInit PROVE SentInv
    OBVIOUS
  <2>1. DraftInv /\ RetryInv
    BY DraftInit, RetryInit
  <2>2. loaded = << >> /\ stage = "open" /\ message = << >> /\ attempts = << >>
    BY DEF BuildInit, NoMessage
  <2>3. FaithfulInv
    BY <2>2 DEF FaithfulInv, Range
  <2> QED
    BY <2>1, <2>2, <2>3, LoadedEmpty DEF SentInv
<1>2. SentInv /\ [BuildNext]_buildVars => SentInv'
  BY DraftNext, LoadedNext, RetryNext, FaithfulNext DEF SentInv
<1> QED
  BY <1>1, <1>2, PTL DEF BuildSpec

LEMMA AttemptFaithful ==
    ASSUME SentInv, NEW i \in DOMAIN attempts
    PROVE  Faithful(attempts[i])
BY DEF SentInv, FaithfulInv, Range

\* In every run no message that reaches the relay holds more than
\* MAX_ATTACHMENT_BYTES, however its files grew after they were attached.
THEOREM AlwaysWithinLimit == BuildSpec => []WithinLimit
<1>1. SentInv => WithinLimit
  BY AttemptFaithful DEF WithinLimit, SentInv, DraftInv, Faithful
<1> QED
  BY SentAlways, <1>1, PTL

\* In every run no header that reaches the relay has a line break, whatever
\* templates, variables and custom headers it was made of.
THEOREM NeverSmuggledHeader == BuildSpec => []NoSmuggledHeader
<1>1. SentInv => NoSmuggledHeader
  BY AttemptFaithful DEF NoSmuggledHeader, Faithful, Safe
<1> QED
  BY SentAlways, <1>1, PTL

\* The attachments of the draft, whatever multipart each is in.
LEMMA OrderCount ==
    ASSUME DraftInv, NEW M
    PROVE  Count(LoadOrder, M) = Count(draft.attachments, M)
<1> PICK d, E, n : d = draft.attachments /\ E = Embedded /\ n = Len(d)
  OBVIOUS
<1>1. d \in Seq(Attachments) /\ n \in Nat /\ \A k \in 1 .. n : d[k] \in Range(d)
  BY LenProperties DEF DraftInv, Drafts, Range
<1>2. /\ Inline = Retain(d, E) /\ Attached = Retain(d, Range(d) \ E)
      /\ LoadOrder = Inline \o Attached
  BY DEF Inline, Attached, LoadOrder
<1>3. Inline \in Seq(Attachments) /\ Attached \in Seq(Attachments)
  BY OrderType
<1>4. Count(LoadOrder, M) = Count(Inline, M) + Count(Attached, M)
  BY <1>2, <1>3, CountConcat
<1>5. Count(Inline, M) = CountTo(d, M \cap E, n)
  BY <1>1, <1>2, RetainCount, SMTT(60) DEF Count
<1>6. Count(Attached, M) = CountTo(d, M \ E, n)
  <2>1. Count(Attached, M) = CountTo(d, M \cap (Range(d) \ E), n)
    BY <1>1, <1>2, RetainCount, Zenon DEF Count
  <2> PICK A, B : A = M \cap (Range(d) \ E) /\ B = M \ E
    OBVIOUS
  <2>2. \A k \in 1 .. n : d[k] \in A <=> d[k] \in B
    BY <1>1
  <2>3. CountTo(d, A, n) = CountTo(d, B, n)
    BY ONLY <2>2, CountSame
  <2> QED
    BY <2>1, <2>3
<1>7. CountTo(d, M, n) = CountTo(d, M \cap E, n) + CountTo(d, M \ E, n)
  <2> PICK A, B : A = M \cap E /\ B = M \ E
    OBVIOUS
  <2>1. Splits(M, A, B)
    BY DEF Splits
  <2>2. CountTo(d, M, n) = CountTo(d, A, n) + CountTo(d, B, n)
    BY ONLY <1>1, <2>1, CountSplit
  <2> QED
    BY <2>2
<1> QED
  BY <1>4, <1>5, <1>6, <1>7, Zenon DEF Count

\* A message that has every part in its place has each part once.
LEMMA FaithfulCount ==
    ASSUME DraftInv, NEW m, Faithful(m), NEW M
    PROVE  Count(m.attachments, { a \in Attachments : a.source = M.source /\ a.inline = M.inline })
             = Count(draft.attachments, { a \in Attachments : a.source = M.source /\ a.inline = M.inline })
<1> PICK p, o, S : /\ p = m.attachments /\ o = LoadOrder
                   /\ S = { a \in Attachments : a.source = M.source /\ a.inline = M.inline }
  OBVIOUS
<1>1. p \in Seq(Attachments) /\ o \in Seq(Attachments) /\ Len(p) = Len(o) /\ Matches(p, o)
  BY OrderType DEF Faithful
<1>2. \A k \in 1 .. Len(p) : p[k] \in Attachments /\ o[k] \in Attachments
  BY <1>1, ElementOfSeq, LenProperties
<1>3. \A k \in 1 .. Len(p) : p[k] \in S <=> o[k] \in S
  BY <1>1, <1>2 DEF Matches
<1>4. CountTo(p, S, Len(p)) = CountTo(o, S, Len(p))
  BY ONLY <1>3, CountSame
<1>5. Count(p, S) = Count(o, S)
  BY <1>1, <1>4, Zenon DEF Count
<1> QED
  BY <1>5, OrderCount, Zenon

LEMMA FaithfulEmbeds ==
    ASSUME DraftInv, NEW m, Faithful(m),
           NEW k \in DOMAIN m.attachments, m.attachments[k].inline
    PROVE  m.parts.html # ""
<1>1. /\ m.attachments \in Seq(Attachments) /\ LoadOrder \in Seq(Attachments)
      /\ k \in 1 .. Len(LoadOrder) /\ m.attachments[k].inline = LoadOrder[k].inline
  BY OrderType, LenProperties DEF Faithful, Matches
<1>2. ASSUME Inline = << >> PROVE FALSE
  <2>1. LoadOrder = Attached
    BY <1>2, OrderType, ConcatEmptySeq DEF LoadOrder
  <2>2. LoadOrder[k] \in Range(Attached)
    BY <1>1, <2>1, LenProperties DEF Range
  <2>3. LoadOrder[k] \in Range(draft.attachments)
    <3>1. draft.attachments \in Seq(Attachments)
      BY DEF DraftInv, Drafts
    <3>2. Range(Attached) \subseteq Range(draft.attachments)
      BY <3>1, RetainMembers DEF Attached
    <3> QED
      BY <2>2, <3>2
  <2>4. LoadOrder[k] \in Embedded
    BY <1>1, <2>3 DEF Embedded
  <2> QED
    BY <2>2, <2>4, OrderType
<1> QED
  BY <1>2 DEF Faithful

\* In every run every attachment of the draft is in each message that reaches
\* the relay exactly once, and an embedded one next to the HTML.
THEOREM AlwaysEveryPartOnce == BuildSpec => []EveryPartOnce
<1>1. SentInv => EveryPartOnce
  <2> SUFFICES ASSUME SentInv PROVE EveryPartOnce
    OBVIOUS
  <2>1. DraftInv /\ \A i \in DOMAIN attempts : Faithful(attempts[i])
    BY AttemptFaithful DEF SentInv
  <2>2. ASSUME NEW s \in Seq(Attachments), NEW M
        PROVE  Times(s, M.source, M.inline)
                 = Count(s, { a \in Attachments : a.source = M.source /\ a.inline = M.inline })
    <3> PICK S : S = { a \in Attachments : a.source = M.source /\ a.inline = M.inline }
      OBVIOUS
    <3>1. DOMAIN s = 1 .. Len(s) /\ \A k \in 1 .. Len(s) : s[k] \in Attachments
      BY ElementOfSeq, LenProperties
    <3>2. { k \in DOMAIN s : s[k].source = M.source /\ s[k].inline = M.inline }
            = Places(s, S, Len(s))
      BY <3>1 DEF Places
    <3> QED
      BY <3>2, Zenon DEF Count, CountTo, Times
  <2>3. ASSUME NEW i \in DOMAIN attempts, NEW source, NEW inline
        PROVE  Times(attempts[i].attachments, source, inline)
                 = Times(draft.attachments, source, inline)
    <3> PICK M : M = [source |-> source, inline |-> inline]
      OBVIOUS
    <3>1. /\ attempts[i].attachments \in Seq(Attachments)
          /\ draft.attachments \in Seq(Attachments)
      BY <2>1 DEF Faithful, DraftInv, Drafts
    <3>2. Times(attempts[i].attachments, M.source, M.inline)
            = Times(draft.attachments, M.source, M.inline)
      <4> PICK S : S = { a \in Attachments : a.source = M.source /\ a.inline = M.inline }
        OBVIOUS
      <4>1. Count(attempts[i].attachments, S) = Count(draft.attachments, S)
        BY <2>1, FaithfulCount
      <4>2. \A s \in Seq(Attachments) : Times(s, M.source, M.inline) = Count(s, S)
        BY <2>2
      <4> QED
        BY <3>1, <4>1, <4>2
    <3> QED
      BY <3>2
  <2>4. ASSUME NEW i \in DOMAIN attempts,
               NEW k \in DOMAIN attempts[i].attachments,
               attempts[i].attachments[k].inline
        PROVE  attempts[i].parts.html # ""
    BY <2>1, <2>4, FaithfulEmbeds, Zenon
  <2> QED
    BY <2>3, <2>4, Zenon DEF EveryPartOnce
<1> QED
  BY SentAlways, <1>1, PTL
=============================================================================
