------------------------------ MODULE Settings ------------------------------
(***************************************************************************)
(* Settings discovery of src/settings.rs: which source email_setup and     *)
(* email_connect read, how from_map turns its table of keys into settings, *)
(* and how AccountManager::connect of src/account.rs turns those into an   *)
(* account.  from_map walks a HashMap, whose order differs from run to     *)
(* run, so it is modelled entry by entry in every order.                   *)
(*                                                                         *)
(* Keys are as config::normalize_key leaves them (lower case, no smtp_     *)
(* prefix); a source is the sequence of settings it holds, in the order it *)
(* is read.  Values are abstract but for the distinctions made here: an    *)
(* empty one, one that is not acceptable, and a URL.                       *)
(***************************************************************************)
EXTENDS Naturals, SequencesExt

CONSTANTS
    Settable,    \* the << key, value >> pairs a source may hold
    Urls,        \* Urls[u]: the parts of the SMTP URL u
    Unusable,    \* the << key, value >> pairs that do not parse, but for those
                 \* of the flags and the encryption: see Parses
    Addresses,   \* the values that are mail addresses
    Labels,      \* Labels[h]: the host h, in lower case and without the spaces
                 \* and brackets around it, cut at its dots
    ThisMachine, \* the hosts that are this machine: so says the resolver
    MaxEntries   \* bound: how many settings a source holds

Sources == UNION { [1 .. n -> Settable] : n \in 0 .. MaxEntries }

ASSUME SettingsAssumption ==
    /\ MaxEntries \in Nat
    /\ \A h \in DOMAIN Labels :
         Labels[h] \in { << "localhost" >>, << "::1" >> } => h \in ThisMachine

VARIABLES
    call,    \* what email_setup was given, or email_connect
    url,     \* the URL it was given
    env,     \* the SMTP_ variables of the process
    text,    \* smtp.ini, the file it named, or its settings string
    found,   \* that file can be read
    origin,  \* the source that was read
    raw,     \* its table
    todo,    \* keys of raw that from_map has not reached
    values,  \* the canonical table it fills
    result,  \* the outcome: none yet, why it failed, or the settings
    account  \* the account that is opened with them

source == << call, url, env, text, found >>
settingsVars == << source, origin, raw, todo, values, result, account >>

\* KNOWN_KEYS
KnownKeys ==
    { "url", "host", "user", "password", "port", "encryption", "from",
      "from_name", "helo", "timeout", "pool_size", "tls_ca", "tls_verify",
      "retries", "rate_limit", "queue_limit", "dry_run",
      "allow_plaintext_auth", "charset" }

\* canonical
Canonical(key) ==
    CASE key = "username" -> "user"
      [] key = "pass"     -> "password"
      [] key = "tls"      -> "encryption"
      [] OTHER            -> key

Insert(table, key, value) ==
    [k \in DOMAIN table \cup {key} |-> IF k = key THEN value ELSE table[k]]

\* The second table wins: HashMap::extend.
Extended(table, other) ==
    [k \in DOMAIN table \cup DOMAIN other |->
        IF k \in DOMAIN other THEN other[k] ELSE table[k]]

\* A table collected from pairs: of two equal keys the later one stays.
Collected(pairs) ==
    FoldLeft(LAMBDA table, p : Insert(table, p[1], p[2]), << >>, pairs)

\* url_table: the parts a URL has, then its query in order.
UrlTable(parts) ==
    Extended([k \in { "host", "encryption" } |->
                 IF k = "host" THEN parts.host
                 ELSE IF parts.scheme = "smtps" THEN "tls" ELSE "starttls"],
             Extended(parts.userinfo,
                 Collected([i \in DOMAIN parts.query |->
                     << Canonical(parts.query[i][1]), parts.query[i][2] >>])))

\* A value that the url crate parses, with a host in it.
IsUrl(value) == value \in DOMAIN Urls /\ Urls[value].valid

-----------------------------------------------------------------------------
(* Which source is read.                                                   *)

Outcome(why, table) == [why |-> why, table |-> table]
Pending == Outcome("none", << >>)

NoAccount == [host |-> ""]

Calls == { "discover", "file", "url", "connect" }

SettingsInit ==
    /\ call \in Calls
    /\ url \in IF call = "url" THEN DOMAIN Urls ELSE { "" }
    /\ env \in IF call = "discover" THEN Sources ELSE { << >> }
    /\ found \in IF call \in { "discover", "file" } THEN BOOLEAN ELSE { FALSE }
    /\ text \in IF found \/ call = "connect" THEN Sources ELSE { << >> }
    /\ origin = "none" /\ raw = << >> /\ todo = {} /\ values = << >>
    /\ result = Pending
    /\ account = NoAccount

\* A source is chosen and its table goes to from_map.
Read(chosen, table) ==
    /\ origin = "none" /\ result = Pending
    /\ origin' = chosen
    /\ raw' = table
    /\ todo' = DOMAIN table
    /\ UNCHANGED << source, values, result, account >>

Fail(why) ==
    /\ result' = Outcome(why, << >>)
    /\ UNCHANGED << source, origin, raw, todo, values, account >>

\* read_environment: an empty variable is not set.
ReadEnvironment(variables) == Collected(SelectSeq(variables, LAMBDA p : p[2] # ""))

\* discover: the environment wins over the file.
Environment ==
    /\ call = "discover" /\ ReadEnvironment(env) # << >>
    /\ Read("environment", ReadEnvironment(env))

WantsFile ==
    \/ call = "file"
    \/ call = "discover" /\ ReadEnvironment(env) = << >>

\* smtp.ini, or the file that email_setup names.
File ==
    /\ WantsFile /\ found
    /\ Read("file", Collected(text))

NoFile ==
    /\ WantsFile /\ ~found
    /\ result = Pending
    /\ Fail("no source")

\* A URL that does not parse has no parts.
Url ==
    /\ call = "url" /\ url \in DOMAIN Urls
    /\ IF IsUrl(url) THEN Read("url", UrlTable(Urls[url]))
       ELSE result = Pending /\ Fail("bad url")

\* from_connect: the arguments replace what the settings string says.
Connect ==
    /\ call = "connect"
    /\ \E host \in { "" } \cup DOMAIN Labels, user \in { "" } \cup Addresses,
          password \in { "", "p" } :
        Read("code", Extended(Collected(text),
            [k \in { "host", "user", "password" } |->
                CASE k = "host" -> host [] k = "user" -> user
                  [] k = "password" -> password]))

-----------------------------------------------------------------------------
(* from_map.                                                               *)

\* Mutant: the second spelling replaces the first.
Merge_LastWins(k) ==
    /\ result = Pending /\ k \in todo
    /\ values' = Insert(values, Canonical(k), raw[k])
    /\ todo' = todo \ {k}
    /\ UNCHANGED << source, origin, raw, result, account >>

\* One entry of the table, in whatever order it iterates.
Merge(k) ==
    /\ result = Pending /\ k \in todo
    /\ IF Canonical(k) \in DOMAIN values THEN Fail("set twice")
       ELSE /\ values' = Insert(values, Canonical(k), raw[k])
            /\ todo' = todo \ {k}
            /\ UNCHANGED << source, origin, raw, result, account >>

Unknown(table) == ~(DOMAIN table \subseteq KnownKeys)

WithoutUrl(table) == [k \in DOMAIN table \ { "url" } |-> table[k]]

\* Mutant: what the URL says overrides its siblings.
Expanded_UrlWins(table) ==
    IF "url" \in DOMAIN table
    THEN Extended(WithoutUrl(table), UrlTable(Urls[table["url"]]))
    ELSE table

\* A url= key is expanded first and the other keys override it.
Expanded(table) ==
    IF "url" \in DOMAIN table
    THEN Extended(UrlTable(Urls[table["url"]]), WithoutUrl(table))
    ELSE table

NoHost(table) == "host" \notin DOMAIN table \/ table["host"] = ""

\* parse_bool and parse_encryption know the words of their keys; any other
\* value parses unless it is one of Unusable.
Parses(key, value) ==
    CASE key \in { "allow_plaintext_auth", "dry_run", "tls_verify" } ->
            value \in { "yes", "no" }
      [] key = "encryption" -> value \in { "none", "starttls", "tls" }
      [] OTHER -> << key, value >> \notin Unusable

\* The keys that are read, each parsed where it has a type: what the table
\* holds besides is never looked at.
Bad(table) == \E k \in DOMAIN table \cap KnownKeys : ~Parses(k, table[k])

Checked(table) ==
    CASE Unknown(table) -> Outcome("unknown key", << >>)
      [] ~Unknown(table) /\ "url" \in DOMAIN table /\ ~IsUrl(table["url"]) ->
            Outcome("bad url", << >>)
      [] OTHER ->
            LET full == Expanded(table)
            IN  IF NoHost(full) THEN Outcome("no host", << >>)
                ELSE IF Bad(full) THEN Outcome("bad value", << >>)
                ELSE Outcome("ok", full)

\* Every entry is in the canonical table: the rest of from_map.
Conclude ==
    /\ origin # "none" /\ todo = {} /\ result = Pending
    /\ result' = Checked(values)
    /\ UNCHANGED << source, origin, raw, todo, values, account >>

-----------------------------------------------------------------------------
(* AccountManager::connect.                                                *)

Get(key, default) ==
    IF key \in DOMAIN result.table THEN result.table[key] ELSE default

Encryption == Get("encryption", "starttls")

\* default_port and effective_port: the mode moves the port with it.
DefaultPort == [none |-> "25", starttls |-> "587", tls |-> "465"]
EffectivePort == Get("port", DefaultPort[Encryption])

\* A message must say who it is from: the sender, or else the user.
From == Get("from", Get("user", ""))

Authenticating == Get("user", "") # "" \/ Get("password", "") # ""

\* Whatever stands behind "127.", digits or not, unless nothing does.
Is127(h) ==
    /\ Len(Labels[h]) > 1 /\ Labels[h][1] = "127"
    /\ Labels[h] # << "127", "" >>

\* is_local.  A host outside DOMAIN Labels looks like none of these.
IsLocal(h) ==
    /\ h \in DOMAIN Labels
    /\ Labels[h] = << "localhost" >> \/ Labels[h] = << "::1" >> \/ Is127(h)

\* Mutant: the option is on unless it is switched off.
ClearPassword_AllowedByDefault ==
    /\ Encryption = "none" /\ Authenticating
    /\ ~IsLocal(Get("host", ""))
    /\ Get("allow_plaintext_auth", "yes") = "no"

\* The password would cross the network in the clear, as far as the name of
\* the host tells.
ClearPassword ==
    /\ Encryption = "none" /\ Authenticating
    /\ ~IsLocal(Get("host", ""))
    /\ Get("allow_plaintext_auth", "no") = "no"

Connecting == result.why = "ok" /\ account = NoAccount

Refuse ==
    /\ Connecting
    /\ \/ From \notin Addresses /\ Fail("no sender")
       \/ From \in Addresses /\ ClearPassword /\ Fail("clear password")
       \/ \* The file of tls_ca cannot be read, or is no certificate.
          /\ From \in Addresses /\ Encryption # "none" /\ Get("tls_ca", "") # ""
          /\ Fail("bad certificate")

Open ==
    /\ Connecting
    /\ From \in Addresses /\ ~ClearPassword
    /\ account' = [host |-> Get("host", ""), port |-> EffectivePort,
                   encryption |-> Encryption, from |-> From,
                   user |-> Get("user", ""), password |-> Get("password", "")]
    /\ UNCHANGED << source, origin, raw, todo, values, result >>

SettingsNext ==
    \/ Environment \/ File \/ NoFile \/ Url \/ Connect
    \/ \E k \in todo : Merge(k)
    \/ Conclude
    \/ Refuse \/ Open

SettingsSpec == SettingsInit /\ [][SettingsNext]_settingsVars

-----------------------------------------------------------------------------
(* What makes it correct.                                                  *)

\* The spellings of setting c that the source uses.
Spellings(c) == { k \in DOMAIN raw : Canonical(k) = c }

\* Which settings an account gets does not depend on the order in which the
\* table of its source iterates ("a coin flip"): a setting with two spellings
\* is refused in every order, and any other has the value of its only one.
NoCoinFlip ==
    result # Pending /\ origin # "none" =>
        IF \E k, l \in DOMAIN raw : k # l /\ Canonical(k) = Canonical(l)
        THEN result.why = "set twice"
        ELSE \A k \in DOMAIN raw : values[Canonical(k)] = raw[k]

\* What the author of the source wrote of setting c: beside a URL, or in it.
Wrote(c, default) ==
    LET inUrl == IF "url" \in DOMAIN raw THEN UrlTable(Urls[raw["url"]]) ELSE << >>
    IN  CASE Spellings(c) # {} -> raw[CHOOSE k \in Spellings(c) : TRUE]
          [] Spellings(c) = {} /\ c \in DOMAIN inUrl -> inUrl[c]
          [] OTHER -> default

\* "A url= key is expanded first and the other keys override it": an account
\* dials the host its author wrote, with the credentials and the encryption
\* written, beside a URL before in it; its port is the one written, or that of
\* the encryption it ended up with, and not of the one the URL would have had.
DialsAsWritten ==
    account # NoAccount =>
        /\ account.host = Wrote("host", "")
        /\ account.user = Wrote("user", "")
        /\ account.password = Wrote("password", "")
        /\ account.encryption = Wrote("encryption", "starttls")
        /\ account.port = Wrote("port", DefaultPort[account.encryption])

\* Credentials in the clear are a choice: whatever the source, and whatever a
\* URL and the keys beside it say of each other, an account that sends them
\* unencrypted to another machine is one whose author wrote both that it is
\* unencrypted and that this is allowed, or whose host has a name that begins
\* with "127.".  Any such name counts as this machine (account.rs:368-370),
\* also one that DNS gives to another, while docs/security.md:54 says of every
\* host that is not this machine that it takes the opt-in.
ClearOnlyByChoice ==
    /\ account # NoAccount /\ account.encryption = "none"
    /\ account.user # "" \/ account.password # ""
    /\ account.host \notin ThisMachine
    => \/ /\ Wrote("encryption", "") = "none"
          /\ Wrote("allow_plaintext_auth", "no") = "yes"
       \/ account.host \in DOMAIN Labels /\ Is127(account.host)

\* "An unrecognised key is an error, never a silent no-op", whichever source it
\* comes from, the query of a url= value included.
NoSilentKey ==
    result.why = "ok" =>
        /\ \A k \in DOMAIN raw : Canonical(k) \in KnownKeys
        /\ DOMAIN result.table \subseteq KnownKeys
=============================================================================
