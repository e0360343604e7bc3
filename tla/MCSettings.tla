----------------------------- MODULE MCSettings -----------------------------
(***************************************************************************)
(* Instances of Settings for TLC: a source of up to MaxEntries settings    *)
(* out of a list with two spellings of three of them, a misspelled key,    *)
(* values that do not parse, empty values, and URLs of their own.          *)
(***************************************************************************)
EXTENDS Settings, TLC

Parts(scheme, userinfo, query) ==
    [valid |-> TRUE, scheme |-> scheme, host |-> "url host",
     userinfo |-> userinfo, query |-> query]

MCUrls ==
    "smtps url" :> Parts("smtps",
                         [k \in { "user", "password" } |-> "me@url"], << >>)
    @@ "url with query" :>
           Parts("smtp", [k \in { "port" } |-> "2525"],
                 << << "tls", "none" >>, << "retries", "5" >> >>)
    @@ "url with typo" :> Parts("smtp", << >>, << << "passwd", "p" >> >>)
    @@ "broken url" :> [valid |-> FALSE]

MCSettable ==
    { << "host", "h" >>, << "host", "" >>, << "user", "me@h" >>,
      << "username", "v" >>, << "password", "p" >>, << "pass", "q" >>,
      << "tls", "none" >>, << "encryption", "tls" >>, << "retries", "" >>,
      << "port", "0" >>, << "passwd", "p" >>, << "from", "bot@h" >>,
      << "allow_plaintext_auth", "yes" >>, << "tls_ca", "f" >> }
    \cup { << "url", u >> : u \in DOMAIN MCUrls }

\* Three hosts that is_local accepts: one of them is another machine, with a
\* name that begins like a loopback address.
MCLabels ==
    "h" :> << "h" >> @@ "url host" :> << "url host" >>
    @@ "localhost" :> << "localhost" >>
    @@ "127.0.0.1" :> << "127", "0", "0", "1" >>
    @@ "127.mail.h" :> << "127", "mail", "h" >>

MCThisMachine == { "localhost", "127.0.0.1" }

MCAddresses == { "me@h", "me@url", "bot@h" }

\* Zero is no port, and an empty value no number.
MCUnusable == { << "port", "0" >>, << "retries", "" >> }
=============================================================================
