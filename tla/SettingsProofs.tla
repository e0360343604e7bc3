--------------------------- MODULE SettingsProofs ---------------------------
(***************************************************************************)
(* Proofs about Settings, for every source of every length, every URL and  *)
(* every value: the order of a table decides nothing, an account dials     *)
(* what its author wrote, and a password goes in the clear by choice only. *)
(***************************************************************************)
EXTENDS Settings, TLAPS

-----------------------------------------------------------------------------
(* The canonical table.                                                    *)

\* The keys that from_map has been through.
Merged == DOMAIN raw \ todo

TwoSpellings == \E k, l \in DOMAIN raw : k # l /\ Canonical(k) = Canonical(l)

\* One source is read, and it is the one the call asks for.
OriginInv ==
    /\ origin = "none" => raw = << >> /\ todo = {} /\ values = << >>
    /\ origin = "environment" => call = "discover" /\ ReadEnvironment(env) # << >>
    /\ origin = "file" => found /\ call \in { "discover", "file" }
    /\ origin = "url" => call = "url" /\ IsUrl(url)
    /\ origin = "code" => call = "connect"
    /\ origin \in { "none", "environment", "file", "url", "code" }

\* Each setting of the canonical table is that of one key, and no two keys
\* that were merged are the same setting.
MergeInv ==
    /\ todo \subseteq DOMAIN raw
    /\ DOMAIN values = { Canonical(k) : k \in Merged }
    /\ \A k \in Merged : values[Canonical(k)] = raw[k]
    /\ \A k, l \in Merged : Canonical(k) = Canonical(l) => k = l

\* A call that has an answer has merged everything or met a second spelling.
DoneInv ==
    result # Pending /\ origin # "none" =>
        todo = {} \/ (TwoSpellings /\ result.why = "set twice")

LEMMA MergeOne ==
    ASSUME OriginInv, MergeInv, DoneInv, NEW k \in todo, Merge(k)
    PROVE  OriginInv' /\ MergeInv' /\ DoneInv'
<1> DEFINE c == Canonical(k)
<1>0. k \in DOMAIN raw /\ k \notin Merged
  BY DEF MergeInv, Merged
<1>1. CASE c \in DOMAIN values
  <2>1. Fail("set twice")
    BY <1>1, Zenon DEF Merge
  <2>2. PICK l \in Merged : Canonical(l) = c
    BY <1>1 DEF MergeInv
  <2>3. TwoSpellings
    BY <1>0, <2>2 DEF TwoSpellings, Merged
  <2>4. result'.why = "set twice" /\ UNCHANGED << source, origin, raw, todo, values >>
    BY <2>1 DEF Fail, Outcome
  <2> QED
    BY <2>3, <2>4 DEF OriginInv, MergeInv, DoneInv, TwoSpellings, Merged, source
<1>2. CASE c \notin DOMAIN values
  <2>1. /\ values' = Insert(values, c, raw[k]) /\ todo' = todo \ {k}
        /\ UNCHANGED << source, origin, raw, result >> /\ result = Pending
    BY <1>2, Zenon DEF Merge
  <2>2. Merged' = Merged \cup {k}
    BY <1>0, <2>1 DEF Merged
  <2>3. /\ DOMAIN values' = DOMAIN values \cup {c}
        /\ values'[c] = raw[k]
        /\ \A d \in DOMAIN values : values'[d] = values[d]
    BY <1>2, <2>1 DEF Insert
  <2>4. \A l \in Merged : Canonical(l) \in DOMAIN values /\ Canonical(l) # c
    BY <1>2 DEF MergeInv
  <2> HIDE DEF c
  <2>5. DOMAIN values' = { Canonical(l) : l \in Merged' }
    BY <2>2, <2>3 DEF MergeInv, c
  <2>6. \A l \in Merged' : values'[Canonical(l)] = raw'[l]
    BY <2>1, <2>2, <2>3, <2>4 DEF MergeInv, c
  <2>7. \A l, m \in Merged' : Canonical(l) = Canonical(m) => l = m
    BY <2>2, <2>4 DEF MergeInv, c
  <2>8. todo' \subseteq DOMAIN raw'
    BY <2>1 DEF MergeInv
  <2>9. MergeInv'
    BY <2>5, <2>6, <2>7, <2>8 DEF MergeInv
  <2>10. origin # "none"
    BY <1>0 DEF OriginInv
  <2> QED
    BY <2>1, <2>9, <2>10 DEF OriginInv, DoneInv, source
<1> QED
  BY <1>1, <1>2

LEMMA ReadOne ==
    ASSUME OriginInv, NEW chosen, NEW table, Read(chosen, table),
           chosen \in { "environment", "file", "url", "code" },
           chosen = "environment" => call = "discover" /\ ReadEnvironment(env) # << >>,
           chosen = "file" => found /\ call \in { "discover", "file" },
           chosen = "url" => call = "url" /\ IsUrl(url),
           chosen = "code" => call = "connect"
    PROVE  OriginInv' /\ MergeInv' /\ DoneInv'
<1>1. /\ origin' = chosen /\ raw' = table /\ todo' = DOMAIN table
      /\ UNCHANGED << source, values, result >> /\ values = << >>
      /\ result = Pending
  BY DEF Read, OriginInv
<1>2. OriginInv'
  BY <1>1 DEF OriginInv, source
<1>3. Merged' = {} /\ DOMAIN values' = {} /\ todo' \subseteq DOMAIN raw'
  BY <1>1 DEF Merged
<1> QED
  BY <1>1, <1>2, <1>3 DEF MergeInv, DoneInv

TableInv == OriginInv /\ MergeInv /\ DoneInv

LEMMA TableNext == TableInv /\ [SettingsNext]_settingsVars => TableInv'
<1> SUFFICES ASSUME OriginInv, MergeInv, DoneInv, [SettingsNext]_settingsVars
             PROVE  OriginInv' /\ MergeInv' /\ DoneInv'
  BY DEF TableInv
<1>1. ASSUME UNCHANGED << source, origin, raw, todo, values, result >>
      PROVE  OriginInv' /\ MergeInv' /\ DoneInv'
  BY <1>1 DEF OriginInv, MergeInv, DoneInv, TwoSpellings, Merged, source
<1>2. ASSUME NEW why, Fail(why), origin = "none" \/ todo = {}
      PROVE  OriginInv' /\ MergeInv' /\ DoneInv'
  BY <1>2 DEF Fail, OriginInv, MergeInv, DoneInv, Merged, source
<1>3. CASE Environment
  BY <1>3, ReadOne, Zenon DEF Environment
<1>4. CASE File
  <2>1. Read("file", Collected(text)) /\ found /\ call \in { "discover", "file" }
    BY <1>4, Zenon DEF File, WantsFile
  <2> QED
    BY <2>1, ReadOne, Zenon
<1>5. CASE NoFile
  <2>1. origin = "none"
    BY <1>5 DEF NoFile, WantsFile, OriginInv
  <2> QED
    BY <1>2, <1>5, <2>1 DEF NoFile
<1>6. CASE Url
  <2>1. CASE IsUrl(url)
    <3>1. Read("url", UrlTable(Urls[url])) /\ call = "url"
      BY <1>6, <2>1, Zenon DEF Url
    <3> QED
      BY <2>1, <3>1, ReadOne, Zenon
  <2>2. CASE ~IsUrl(url)
    <3>1. origin = "none" /\ Fail("bad url")
      BY <1>6, <2>2 DEF Url, OriginInv
    <3> QED
      BY <1>2, <3>1
  <2> QED
    BY <2>1, <2>2
<1>7. CASE Connect
  BY <1>7, ReadOne, Zenon DEF Connect
<1>8. ASSUME NEW k \in todo, Merge(k) PROVE OriginInv' /\ MergeInv' /\ DoneInv'
  BY <1>8, MergeOne
<1>9. CASE Conclude
  <2>1. /\ UNCHANGED << source, origin, raw, todo, values >>
        /\ todo = {} /\ origin # "none"
    BY <1>9 DEF Conclude
  <2> QED
    BY <2>1 DEF OriginInv, MergeInv, DoneInv, Merged, source
<1>10. CASE Refuse
  <2>1. result.why = "ok" /\ \E why : Fail(why)
    BY <1>10 DEF Refuse, Connecting
  <2>2. result # Pending
    BY <2>1 DEF Pending, Outcome
  <2>3. origin = "none" \/ todo = {}
    BY <2>1, <2>2 DEF DoneInv
  <2> QED
    BY <1>2, <2>1, <2>3
<1>11. CASE Open
  BY <1>1, <1>11 DEF Open
<1>12. CASE UNCHANGED settingsVars
  BY <1>1, <1>12 DEF settingsVars
<1> QED
  BY <1>3, <1>4, <1>5, <1>6, <1>7, <1>8, <1>9, <1>10, <1>11, <1>12
     DEF SettingsNext

LEMMA TableInit == SettingsInit => TableInv
<1> SUFFICES ASSUME SettingsInit PROVE TableInv
  OBVIOUS
<1>1. origin = "none" /\ raw = << >> /\ todo = {} /\ values = << >>
  BY DEF SettingsInit
<1>2. Merged = {} /\ DOMAIN values = {} /\ todo \subseteq DOMAIN raw
  BY <1>1 DEF Merged
<1> QED
  BY <1>1, <1>2 DEF TableInv, OriginInv, MergeInv, DoneInv

\* In every run, in whatever order the table of the source iterates, a setting
\* with two spellings is refused and any other has the value of its only one.
THEOREM NeverCoinFlip == SettingsSpec => []NoCoinFlip
<1>1. TableInv => NoCoinFlip
  <2> SUFFICES ASSUME TableInv, result # Pending, origin # "none"
               PROVE  IF TwoSpellings THEN result.why = "set twice"
                      ELSE \A k \in DOMAIN raw : values[Canonical(k)] = raw[k]
    BY DEF NoCoinFlip, TwoSpellings
  <2>1. CASE todo = {}
    BY <2>1 DEF TableInv, MergeInv, Merged, TwoSpellings
  <2>2. CASE TwoSpellings /\ result.why = "set twice"
    BY <2>2
  <2> QED
    BY <2>1, <2>2 DEF TableInv, DoneInv
<1> QED
  BY TableInit, TableNext, <1>1, PTL DEF SettingsSpec

-----------------------------------------------------------------------------
(* The account.                                                            *)

\* Settings are what the merged table says, checked; an account is what they
\* say, and they would not send a password in the clear.
AccountInv ==
    /\ result.why = "ok" =>
        /\ origin # "none" /\ todo = {}
        /\ result.table = Expanded(values) /\ ~Bad(result.table)
    /\ account # NoAccount =>
        /\ result.why = "ok" /\ ~ClearPassword
        /\ account = [host |-> Get("host", ""), port |-> EffectivePort,
                      encryption |-> Encryption, from |-> From,
                      user |-> Get("user", ""), password |-> Get("password", "")]

LEMMA AccountKept ==
    ASSUME AccountInv, UNCHANGED << origin, todo, values, result, account >>
    PROVE  AccountInv'
<1> USE DEF Get, EffectivePort, Encryption, From, ClearPassword, Authenticating
<1>1. \A k, d : Get(k, d)' = Get(k, d)
  OBVIOUS
<1>2. ClearPassword' = ClearPassword
  OBVIOUS
<1>3. EffectivePort' = EffectivePort /\ Encryption' = Encryption /\ From' = From
  OBVIOUS
<1> HIDE DEF Get, EffectivePort, Encryption, From, ClearPassword, Authenticating
<1> QED
  BY <1>1, <1>2, <1>3 DEF AccountInv

LEMMA AccountNext ==
    ASSUME TableInv, AccountInv, [SettingsNext]_settingsVars
    PROVE  AccountInv'
<1>1. ASSUME result.why # "ok", account' = account, result'.why # "ok"
      PROVE  AccountInv'
  BY <1>1 DEF AccountInv
<1>2. ASSUME NEW chosen, NEW table, Read(chosen, table) PROVE AccountInv'
  <2>1. result.why = "none" /\ result' = result /\ account' = account
    BY <1>2 DEF Read, Pending, Outcome
  <2> QED
    BY <1>1, <2>1
<1>3. ASSUME NEW why, why # "ok", Fail(why), account = NoAccount PROVE AccountInv'
  <2>1. result'.why = why /\ account' = account
    BY <1>3 DEF Fail, Outcome
  <2> QED
    BY <1>3, <2>1 DEF AccountInv
<1>4. result = Pending => account = NoAccount /\ result.why # "ok"
  BY DEF AccountInv, Pending, Outcome
<1>5. CASE Environment \/ File \/ Connect
  BY <1>2, <1>5 DEF Environment, File, Connect
<1>6. CASE NoFile
  BY <1>3, <1>4, <1>6 DEF NoFile
<1>7. CASE Url
  BY <1>2, <1>3, <1>4, <1>7, Zenon DEF Url
<1>8. ASSUME NEW k \in todo, Merge(k) PROVE AccountInv'
  <2>1. CASE Canonical(k) \in DOMAIN values
    BY <1>3, <1>4, <1>8, <2>1, Zenon DEF Merge
  <2>2. CASE Canonical(k) \notin DOMAIN values
    <3>1. result = Pending /\ UNCHANGED << result, account >>
      BY <1>8, <2>2, Zenon DEF Merge
    <3> QED
      BY <1>1, <1>4, <3>1
  <2> QED
    BY <2>1, <2>2
<1>9. CASE Conclude
  <2>1. /\ origin # "none" /\ todo = {} /\ result = Pending
        /\ result' = Checked(values)
        /\ UNCHANGED << origin, todo, values, account >>
    BY <1>9 DEF Conclude
  <2>2. result'.why = "ok" => result'.table = Expanded(values) /\ ~Bad(result'.table)
    <3>1. CASE Unknown(values)
      BY <2>1, <3>1 DEF Checked, Outcome
    <3>2. CASE ~Unknown(values) /\ "url" \in DOMAIN values /\ ~IsUrl(values["url"])
      BY <2>1, <3>2 DEF Checked, Outcome
    <3>3. CASE ~Unknown(values) /\ ~("url" \in DOMAIN values /\ ~IsUrl(values["url"]))
      <4> PICK full : full = Expanded(values)
        OBVIOUS
      <4>1. result' = IF NoHost(full) THEN Outcome("no host", << >>)
                      ELSE IF Bad(full) THEN Outcome("bad value", << >>)
                      ELSE Outcome("ok", full)
        BY <2>1, <3>3 DEF Checked
      <4> QED
        BY <4>1 DEF Outcome
    <3> QED
      BY <3>1, <3>2, <3>3
  <2> QED
    BY <1>4, <2>1, <2>2 DEF AccountInv
<1>10. CASE Refuse
  <2>1. account = NoAccount /\ \E why : why # "ok" /\ Fail(why)
    BY <1>10 DEF Refuse, Connecting
  <2> QED
    BY <1>3, <2>1
<1>11. CASE Open
  <2>1. /\ result.why = "ok" /\ ~ClearPassword
        /\ UNCHANGED << origin, todo, values, result >>
        /\ account' = [host |-> Get("host", ""), port |-> EffectivePort,
                       encryption |-> Encryption, from |-> From,
                       user |-> Get("user", ""), password |-> Get("password", "")]
    BY <1>11 DEF Open, Connecting
  <2> USE DEF Get, EffectivePort, Encryption, From, ClearPassword, Authenticating
  <2>2. \A k, d : Get(k, d)' = Get(k, d)
    BY <2>1
  <2>3. ClearPassword' = ClearPassword
    BY <2>1
  <2>4. EffectivePort' = EffectivePort /\ Encryption' = Encryption /\ From' = From
    BY <2>1
  <2> HIDE DEF Get, EffectivePort, Encryption, From, ClearPassword, Authenticating
  <2> QED
    BY <2>1, <2>2, <2>3, <2>4 DEF AccountInv
<1>12. CASE UNCHANGED settingsVars
  BY <1>12, AccountKept DEF settingsVars
<1> QED
  BY <1>5, <1>6, <1>7, <1>8, <1>9, <1>10, <1>11, <1>12 DEF SettingsNext

SettingsInv == TableInv /\ AccountInv

LEMMA SettingsAlways == SettingsSpec => []SettingsInv
<1>1. SettingsInit => SettingsInv
  <2> SUFFICES ASSUME SettingsInit PROVE SettingsInv
    OBVIOUS
  <2>1. result.why = "none" /\ account = NoAccount
    BY DEF SettingsInit, Pending, Outcome
  <2> QED
    BY <2>1, TableInit DEF SettingsInv, AccountInv
<1>2. SettingsInv /\ [SettingsNext]_settingsVars => SettingsInv'
  BY TableNext, AccountNext DEF SettingsInv
<1> QED
  BY <1>1, <1>2, PTL DEF SettingsSpec

\* What an account is opened with is what the author of its source wrote.
LEMMA GotAsWritten ==
    ASSUME SettingsInv, result.why = "ok", NEW c, c # "url", NEW default
    PROVE  Get(c, default) = Wrote(c, default)
<1>1. todo = {} /\ result.table = Expanded(values) /\ MergeInv
  BY DEF SettingsInv, AccountInv, TableInv
<1>2. /\ DOMAIN values = { Canonical(k) : k \in DOMAIN raw }
      /\ \A k \in DOMAIN raw : values[Canonical(k)] = raw[k]
  BY <1>1 DEF MergeInv, Merged
<1>3. /\ "url" \in DOMAIN values <=> "url" \in DOMAIN raw
      /\ "url" \in DOMAIN raw => values["url"] = raw["url"]
  <2>1. \A k : Canonical(k) = "url" <=> k = "url"
    BY DEF Canonical
  <2> QED
    BY <1>2, <2>1
<1> DEFINE fromUrl == UrlTable(Urls[raw["url"]])
<1>4. CASE Spellings(c) # {}
  <2> PICK k : k = CHOOSE l \in Spellings(c) : TRUE
    OBVIOUS
  <2>1. k \in DOMAIN raw /\ Canonical(k) = c
    BY <1>4 DEF Spellings
  <2>2. c \in DOMAIN values /\ values[c] = raw[k]
    BY <1>2, <2>1
  <2>3. Wrote(c, default) = raw[k]
    BY <1>4 DEF Wrote
  <2>4. c \in DOMAIN result.table /\ result.table[c] = values[c]
    BY <1>1, <2>2 DEF Expanded, Extended, WithoutUrl
  <2> QED
    BY <2>2, <2>3, <2>4 DEF Get
<1>5. CASE Spellings(c) = {}
  <2>1. c \notin DOMAIN values
    BY <1>2, <1>5 DEF Spellings
  <2>2. CASE "url" \in DOMAIN raw
    <3> HIDE DEF fromUrl
    <3>1. result.table = Extended(fromUrl, WithoutUrl(values))
      BY <1>1, <1>3, <2>2 DEF Expanded, fromUrl
    <3>2. c \in DOMAIN result.table <=> c \in DOMAIN fromUrl
      BY <2>1, <3>1 DEF Extended, WithoutUrl
    <3>3. c \in DOMAIN fromUrl => result.table[c] = fromUrl[c]
      BY <2>1, <3>1 DEF Extended, WithoutUrl
    <3>4. Wrote(c, default) = IF c \in DOMAIN fromUrl THEN fromUrl[c] ELSE default
      BY <1>5, <2>2 DEF Wrote, fromUrl
    <3> QED
      BY <3>2, <3>3, <3>4 DEF Get
  <2>3. CASE "url" \notin DOMAIN raw
    <3>1. result.table = values
      BY <1>1, <1>3, <2>3 DEF Expanded
    <3>2. Wrote(c, default) = default
      BY <1>5, <2>3 DEF Wrote
    <3> QED
      BY <2>1, <3>1, <3>2 DEF Get
  <2> QED
    BY <2>2, <2>3
<1> QED
  BY <1>4, <1>5

LEMMA OpenedAsGot ==
    ASSUME SettingsInv, account # NoAccount
    PROVE  /\ result.why = "ok" /\ ~ClearPassword /\ ~Bad(result.table)
           /\ account.host = Get("host", "") /\ account.port = EffectivePort
           /\ account.user = Get("user", "") /\ account.password = Get("password", "")
           /\ account.encryption = Encryption
<1>1. /\ result.why = "ok" /\ ~ClearPassword /\ ~Bad(result.table)
      /\ account = [host |-> Get("host", ""), port |-> EffectivePort,
                    encryption |-> Encryption, from |-> From,
                    user |-> Get("user", ""), password |-> Get("password", "")]
  BY Zenon DEF SettingsInv, AccountInv
<1> QED
  BY ONLY <1>1

\* In every run an account dials the host, the credentials and the encryption
\* of its source, what stands beside a URL before what stands in it, and the
\* port of the encryption it ended up with.
THEOREM AlwaysDialsAsWritten == SettingsSpec => []DialsAsWritten
<1>1. SettingsInv => DialsAsWritten
  <2> SUFFICES ASSUME SettingsInv, account # NoAccount
               PROVE  /\ account.host = Wrote("host", "")
                      /\ account.user = Wrote("user", "")
                      /\ account.password = Wrote("password", "")
                      /\ account.encryption = Wrote("encryption", "starttls")
                      /\ account.port = Wrote("port", DefaultPort[account.encryption])
    BY DEF DialsAsWritten
  <2>1. /\ result.why = "ok" /\ account.host = Get("host", "")
        /\ account.user = Get("user", "") /\ account.password = Get("password", "")
        /\ account.encryption = Get("encryption", "starttls")
        /\ account.port = Get("port", DefaultPort[account.encryption])
    BY OpenedAsGot DEF Encryption, EffectivePort
  <2> QED
    BY <2>1, GotAsWritten
<1> QED
  BY SettingsAlways, <1>1, PTL

\* In every run an account that sends credentials to another machine in the
\* clear is one whose author wrote both that it does and that it may, or one
\* whose host has a name that begins with "127.".
THEOREM ClearAlwaysByChoice == SettingsSpec => []ClearOnlyByChoice
<1>1. SettingsInv => ClearOnlyByChoice
  <2> SUFFICES ASSUME SettingsInv, account # NoAccount, account.encryption = "none",
                      account.user # "" \/ account.password # "",
                      account.host \notin ThisMachine,
                      ~(account.host \in DOMAIN Labels /\ Is127(account.host))
               PROVE  /\ Wrote("encryption", "") = "none"
                      /\ Wrote("allow_plaintext_auth", "no") = "yes"
    BY DEF ClearOnlyByChoice
  <2>1. /\ result.why = "ok" /\ ~ClearPassword /\ account.host = Get("host", "")
        /\ account.user = Get("user", "") /\ account.password = Get("password", "")
        /\ account.encryption = Encryption /\ ~Bad(result.table)
    BY OpenedAsGot
  <2>2. Get("encryption", "") = "none"
    BY <2>1 DEF Encryption, Get
  <2>3. ~IsLocal(account.host)
    BY SettingsAssumption DEF IsLocal
  <2>4. Get("allow_plaintext_auth", "no") # "no"
    BY <2>1, <2>3 DEF ClearPassword, Authenticating
  <2>5. Get("allow_plaintext_auth", "no") \in { "yes", "no" }
    BY <2>1 DEF Get, Bad, Parses, KnownKeys
  <2>6. Get("allow_plaintext_auth", "no") = "yes"
    BY <2>4, <2>5
  <2> QED
    BY <2>1, <2>2, <2>6, GotAsWritten
<1> QED
  BY SettingsAlways, <1>1, PTL
=============================================================================
