------------------------------- MODULE Relay --------------------------------
(***************************************************************************)
(* What a failed conversation with the relay means: classify and           *)
(* is_retryable in src/account.rs, over the kinds of error the lettre      *)
(* transport reports.                                                      *)
(***************************************************************************)

\* A failure that carries an SMTP reply code, by what the code says.
Replies == { "transient", "auth454", "permanent", "authPermanent" }

\* A failure that never became a reply: the socket, TLS, a client-side
\* refusal, an unparsable answer, a transport already shut down.
NoReplies == { "network", "tls", "client", "response", "shutdown" }

RelayErrors == Replies \cup NoReplies

Transient == { "transient", "auth454" }

\* The plugin error code of a relay failure.
Classify(e) ==
    CASE e \in NoReplies                     -> "ConnectionFailed"
      [] e \in { "auth454", "authPermanent" } -> "AuthFailed"
      [] OTHER                               -> "SendFailed"

\* Whether trying again later can succeed.
Retryable(e) ==
    \/ e \in Transient
    \/ e \in NoReplies \ { "tls", "client", "response", "shutdown" }

\* Failures after which the relay may nevertheless hold the whole message:
\* the conversation broke, or its last answer could not be read, after the
\* data had been handed over.
MaybeDelivered == { "network", "response" }
=============================================================================
