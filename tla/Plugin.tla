------------------------------- MODULE Plugin -------------------------------
(***************************************************************************)
(* The main thread: EmailPlugin of src/plugin.rs, with the account table   *)
(* of src/account.rs, the draft table of src/message.rs, the natives of    *)
(* src/natives and the callbacks of src/callback.rs.  The send queue is    *)
(* what MailPromise says of it.                                            *)
(*                                                                         *)
(* Everything here runs on one thread, but not in one order: scripts call  *)
(* natives between ticks and from inside the callbacks that a tick runs,   *)
(* load and unload, and workers answer at any moment.  A native is one     *)
(* step.  The announcement of a result is one step up to its first         *)
(* callback, and one more for each callback it runs.                       *)
(***************************************************************************)
EXTENDS MailPromise, Retain, Integers, FiniteSets, Functions

CONSTANTS
    Scripts,      \* the scripts the server may load
    NoScript,     \* no script is running inside a callback
    Publics,      \* the callbacks a send may name
    NoCallback,   \* a send that names none
    Defines,      \* Defines[s]: the publics script s has
    HandleMax,    \* i32::MAX, the last handle before they start again at 1
    MaxDrafts,    \* MAX_DRAFTS
    QueueLimit,   \* queue_limit, the same for every account
    MaxOpened,    \* bound: how many accounts are ever opened
    MaxCreated    \* bound: how many drafts are ever created

Broadcasts == { "OnEmailSent", "OnEmailError" }

ASSUME PluginAssumption ==
    /\ NoScript \notin Scripts
    /\ NoCallback \notin Publics
    /\ Defines \in [Scripts -> SUBSET (Publics \cup Broadcasts)]
    /\ HandleMax \in Nat \ {0}
    /\ MaxDrafts \in Nat /\ QueueLimit \in Nat
    /\ MaxOpened \in Nat /\ MaxCreated \in Nat

VARIABLES
    accounts,        \* AccountManager.accounts, by id
    nextAccount,     \* AccountManager.next_id
    globalError,     \* AccountManager.global_error
    defaultAccount,  \* EmailPlugin.default_account, 0 for none
    drafts,          \* MessageManager.messages, by id
    nextDraft,       \* MessageManager.next_id
    loaded,          \* EmailPlugin.amx_list
    mail,            \* mail[j]: what job j was submitted as
    batch,           \* results polled and not announced yet
    calls,           \* callbacks of the result being announced, still to run
    running,         \* the script inside a callback
    opened, created, \* how many accounts and drafts there were
    failure,         \* history: how the native just called failed
    ran              \* history: ran[j], the calls made for job j, in order

tables == << accounts, nextAccount, defaultAccount, drafts, nextDraft,
             opened, created >>
turn == << batch, calls, running, ran >>
pluginVars == << promise, tables, globalError, loaded, mail, turn, failure >>

\* Handles, and the error codes the tables tell apart: "rejected" stands for
\* every argument a draft refuses, "undelivered" for every final outcome of a
\* worker, "setup" for every configuration that opens no account.
Handles == 1 .. HandleMax
Priorities == { "low", "normal", "high" }

\* How a native failed: what it recorded and the account that concerns, or
\* that it recorded nothing.
NoFailure == [acct |-> 0, why |-> "none"]
Unrecorded == [acct |-> 0, why |-> "unrecorded"]

Put(f, k, v) == [x \in DOMAIN f \cup {k} |-> IF x = k THEN v ELSE f[x]]
Without(f, S) == Restrict(f, DOMAIN f \ S)

PluginInit ==
    /\ PromiseInit
    /\ accounts = << >> /\ nextAccount = 1 /\ globalError = "none"
    /\ defaultAccount = 0
    /\ drafts = << >> /\ nextDraft = 1
    /\ loaded = << >> /\ mail = << >>
    /\ batch = << >> /\ calls = << >> /\ running = NoScript
    /\ opened = 0 /\ created = 0
    /\ failure = NoFailure
    /\ ran = [j \in 0 .. MaxJobs - 1 |-> << >>]

-----------------------------------------------------------------------------
(* Natives.                                                                *)

\* The main thread is between two ticks.
Idle == batch = << >> /\ calls = << >> /\ running = NoScript

\* Script s may call natives: from a callback of its own, or between ticks.
MayCall(s) == s \in Range(loaded) /\ (running = s \/ Idle)

\* A native that returns, or a step of the server: no failure to read.
Settled == failure' = NoFailure

IsOpen(a) == a \in DOMAIN accounts

Resolve(a) == IF a = 0 THEN defaultAccount ELSE a

\* Mutant: wrapping_add alone.
NextHandle_Unclamped(h) == IF h = HandleMax THEN -(HandleMax + 1) ELSE h + 1

\* wrapping_add(1).max(1)
NextHandle(h) == IF h = HandleMax THEN 1 ELSE h + 1

\* Mutant: only the account's own slot.
SetError_AccountOnly(a, code) ==
    IF IsOpen(a)
    THEN accounts' = [accounts EXCEPT ![a].error = code] /\ UNCHANGED globalError
    ELSE globalError' = code /\ UNCHANGED accounts

\* set_error: the account's slot, if it is open, and the global one.
SetError(a, code) ==
    /\ accounts' = IF IsOpen(a) THEN [accounts EXCEPT ![a].error = code]
                   ELSE accounts
    /\ globalError' = code

GetError(a) == IF IsOpen(a) THEN accounts[a].error ELSE globalError

\* A native that fails and records why.
Fails(a, code) ==
    /\ SetError(a, code)
    /\ failure' = [acct |-> a, why |-> code]

\* A native that fails and leaves the earlier errors to be read.
FailsUnrecorded ==
    /\ failure' = Unrecorded
    /\ UNCHANGED << promise, tables, globalError, loaded, mail, turn >>

\* email_setup and email_connect, and the tail they share.  Settings, the
\* sender's identity or the transport may be unusable.
SetupFails ==
    /\ Fails(0, "setup")
    /\ UNCHANGED << promise, nextAccount, defaultAccount, drafts, nextDraft,
                    opened, created, loaded, mail, turn >>

\* Mutant: the last account opened becomes the default.
Registered_LastWins(a) == a

\* register_account: the first account opened stays the default.
Registered(a) == IF defaultAccount = 0 THEN a ELSE defaultAccount

\* The part of an account that its jobs share with it has a number of its
\* own: ids are used again once they wrap.
Setup ==
    /\ opened < MaxOpened
    /\ accounts' = Put(accounts, nextAccount,
                       [shared |-> opened, error |-> "none"])
    /\ nextAccount' = NextHandle(nextAccount)
    /\ defaultAccount' = Registered(nextAccount)
    /\ opened' = opened + 1
    /\ Settled
    /\ UNCHANGED << promise, globalError, drafts, nextDraft, created, loaded,
                    mail, turn >>

\* Mutant: the default account is not forgotten.
Close_KeepsDefault(a) ==
    LET id == Resolve(a)
    IN  /\ IsOpen(id)
        /\ accounts' = Without(accounts, {id})
        /\ drafts' = Without(drafts,
                             { d \in DOMAIN drafts : drafts[d].acct = id })
        /\ Settled
        /\ UNCHANGED << promise, nextAccount, globalError, defaultAccount,
                        nextDraft, opened, created, loaded, mail, turn >>

\* email_close: its drafts can never be sent; its queued mail goes on.
Close(a) ==
    LET id == Resolve(a)
    IN  /\ IsOpen(id)
        /\ accounts' = Without(accounts, {id})
        /\ drafts' = Without(drafts,
                             { d \in DOMAIN drafts : drafts[d].acct = id })
        /\ defaultAccount' = IF defaultAccount = id THEN 0 ELSE defaultAccount
        /\ Settled
        /\ UNCHANGED << promise, nextAccount, globalError, nextDraft, opened,
                        created, loaded, mail, turn >>

\* email_close of an account that is not open.
CloseFails(a) == ~IsOpen(Resolve(a)) /\ FailsUnrecorded

\* email_status and email_stats of an account that is not open.  (Of one that
\* is they change nothing; -1, every account, never fails.)
LookupFails(a) == ~IsOpen(Resolve(a)) /\ FailsUnrecorded

\* email_new: the draft belongs to the calling script.
NewDraft(s, a) ==
    LET id == Resolve(a)
    IN  /\ IsOpen(id) /\ Cardinality(DOMAIN drafts) < MaxDrafts
        /\ created < MaxCreated
        /\ drafts' = Put(drafts, nextDraft,
                         [acct |-> id, owner |-> s, prio |-> "normal"])
        /\ nextDraft' = NextHandle(nextDraft)
        /\ created' = created + 1
        /\ Settled
        /\ UNCHANGED << promise, accounts, nextAccount, globalError,
                        defaultAccount, opened, loaded, mail, turn >>

NewDraftFails(a) ==
    LET id == Resolve(a)
    IN  /\ \/ ~IsOpen(id) /\ Fails(id, "invalidAccount")
           \/ /\ IsOpen(id) /\ Cardinality(DOMAIN drafts) >= MaxDrafts
              /\ Fails(id, "rejected")
        /\ UNCHANGED << promise, nextAccount, defaultAccount, drafts,
                        nextDraft, opened, created, loaded, mail, turn >>

\* invalid_message: with no live draft there is no account to blame.
InvalidMessage(d) ==
    /\ d \notin DOMAIN drafts
    /\ globalError' = "invalidMessage"
    /\ failure' = [acct |-> 0, why |-> "invalidMessage"]
    /\ UNCHANGED << promise, tables, loaded, mail, turn >>

\* email_destroy
Destroy(d) ==
    /\ d \in DOMAIN drafts
    /\ drafts' = Without(drafts, {d})
    /\ Settled
    /\ UNCHANGED << promise, accounts, nextAccount, defaultAccount, nextDraft,
                    opened, created, globalError, loaded, mail, turn >>

\* email_destroy of a dead handle.
DestroyFails(d) == d \notin DOMAIN drafts /\ FailsUnrecorded

\* email_set_*, email_add_*, email_attach, email_embed, email_attach_data,
\* email_set_template, email_set_var: of what they store only the priority
\* matters here.  Each may reject its argument.
Edit(d) ==
    /\ d \in DOMAIN drafts
    /\ \E p \in Priorities : drafts' = [drafts EXCEPT ![d].prio = p]
    /\ Settled
    /\ UNCHANGED << promise, accounts, nextAccount, defaultAccount, nextDraft,
                    opened, created, globalError, loaded, mail, turn >>

EditFails(d) ==
    /\ d \in DOMAIN drafts
    /\ Fails(drafts[d].acct, "rejected")
    /\ UNCHANGED << promise, nextAccount, defaultAccount, drafts, nextDraft,
                    opened, created, loaded, mail, turn >>

-----------------------------------------------------------------------------
(* The way into the send queue.                                            *)

\* The jobs that account a still owes.  A worker that finishes one lowers
\* the account's counter before its answer arrives, so check_room may find
\* room that this set does not show, and never less.
Owed(a) == { j \in pending : mail[j].shared = accounts[a].shared }

\* Priority::limit: LOW leaves the last quarter of the queue alone, HIGH is
\* never refused.
MayBeFull(a, p) ==
    LET waiting == Cardinality(Owed(a))
    IN  \/ p = "low" /\ waiting >= QueueLimit - QueueLimit \div 4
        \/ p = "normal" /\ waiting >= QueueLimit

\* submit
Submitted(a, message, callback) ==
    /\ Accept
    /\ mail' = Put(mail, accepted,
                   [ acct |-> a, shared |-> accounts[a].shared,
                     message |-> message, callback |-> callback ])

\* Mutant: the draft is taken before the queue is asked for room.
SendRefused_Consumes(d) ==
    LET a == drafts[d].acct
    IN  /\ d \in DOMAIN drafts
        /\ IsOpen(a) => MayBeFull(a, drafts[d].prio)
        /\ Fails(a, IF IsOpen(a) THEN "queueFull" ELSE "invalidAccount")
        /\ drafts' = Without(drafts, {d})
        /\ UNCHANGED << promise, nextAccount, defaultAccount, nextDraft,
                        opened, created, loaded, mail, turn >>

\* email_send that the queue refuses: the handle stays alive.
SendRefused(d) ==
    LET a == drafts[d].acct
    IN  /\ d \in DOMAIN drafts
        /\ IsOpen(a) => MayBeFull(a, drafts[d].prio)
        /\ Fails(a, IF IsOpen(a) THEN "queueFull" ELSE "invalidAccount")
        /\ UNCHANGED << promise, nextAccount, defaultAccount, drafts,
                        nextDraft, opened, created, loaded, mail, turn >>

\* email_send: the handle dies with the call.
SendDraft(d, callback) ==
    /\ d \in DOMAIN drafts
    /\ IsOpen(drafts[d].acct)
    /\ Submitted(drafts[d].acct, TRUE, callback)
    /\ drafts' = Without(drafts, {d})
    /\ Settled
    /\ UNCHANGED << accounts, nextAccount, defaultAccount, nextDraft, opened,
                    created, globalError, loaded, turn >>

\* email_test: always HIGH, so an open account always takes it.
Test(a, callback) ==
    LET id == Resolve(a)
    IN  /\ IsOpen(id)
        /\ Submitted(id, FALSE, callback)
        /\ Settled
        /\ UNCHANGED << tables, globalError, loaded, turn >>

TestFails(a) ==
    /\ ~IsOpen(Resolve(a))
    /\ Fails(Resolve(a), "invalidAccount")
    /\ UNCHANGED << promise, nextAccount, defaultAccount, drafts, nextDraft,
                    opened, created, loaded, mail, turn >>

\* email_send_to and email_send_file: a draft on the default account, filled
\* in, queued, and destroyed if any of that fails.  (If it cannot be created
\* they fail as email_new does.)
QuickSend(callback) ==
    /\ IsOpen(defaultAccount) /\ Cardinality(DOMAIN drafts) < MaxDrafts
    /\ created < MaxCreated
    /\ created' = created + 1
    /\ nextDraft' = NextHandle(nextDraft)
    /\ drafts' = Without(drafts, {nextDraft})
    /\ \/ /\ Submitted(defaultAccount, TRUE, callback)
          /\ Settled
          /\ UNCHANGED << accounts, globalError >>
       \/ /\ \/ Fails(defaultAccount, "rejected")
             \/ /\ MayBeFull(defaultAccount, "normal")
                /\ Fails(defaultAccount, "queueFull")
          /\ UNCHANGED << promise, mail >>
    /\ UNCHANGED << nextAccount, defaultAccount, opened, loaded, turn >>

\* A script calls a native.
Native(s) ==
    /\ MayCall(s)
    /\ \/ Setup \/ SetupFails
       \/ \E a \in 0 .. HandleMax :
            \/ Close(a) \/ CloseFails(a) \/ LookupFails(a)
            \/ NewDraft(s, a) \/ NewDraftFails(a)
            \/ TestFails(a)
       \/ \E d \in Handles :
            \/ Destroy(d) \/ DestroyFails(d)
            \/ Edit(d) \/ EditFails(d)
            \/ InvalidMessage(d) \/ SendRefused(d)
       \/ \E callback \in Publics \cup { NoCallback } :
            \/ \E a \in 0 .. HandleMax : Test(a, callback)
            \/ \E d \in Handles : SendDraft(d, callback)
            \/ QuickSend(callback)

-----------------------------------------------------------------------------
(* The server.                                                             *)

\* on_amx_load
Load(s) ==
    /\ Idle /\ s \notin Range(loaded)
    /\ loaded' = Append(loaded, s)
    /\ Settled
    /\ UNCHANGED << promise, tables, globalError, mail, turn >>

\* Mutant: the drafts of an unloaded script stay.
Unload_KeepsDrafts(s) ==
    /\ Idle /\ s \in Range(loaded)
    /\ loaded' = Retain(loaded, Scripts \ {s})
    /\ Settled
    /\ UNCHANGED << promise, tables, globalError, mail, turn >>

\* on_amx_unload: the script's drafts go with it, its queued mail does not.
Unload(s) ==
    /\ Idle /\ s \in Range(loaded)
    /\ loaded' = Retain(loaded, Scripts \ {s})
    /\ drafts' = Without(drafts,
                         { d \in DOMAIN drafts : drafts[d].owner = s })
    /\ Settled
    /\ UNCHANGED << promise, accounts, nextAccount, defaultAccount, nextDraft,
                    opened, created, globalError, mail, turn >>

\* A worker answers, at any moment.
WorkerAnswers ==
    /\ \E j \in pending, ok \in BOOLEAN : Answer(j, ok)
    /\ UNCHANGED << tables, globalError, loaded, mail, turn, failure >>

\* on_tick takes everything the workers finished.
OnTick ==
    /\ Idle
    /\ Collect
    /\ batch' = channel
    /\ Settled
    /\ UNCHANGED << tables, globalError, loaded, mail, calls, running, ran >>

Call(s, seq, named) == [script |-> s, seq |-> seq, named |-> named]

Definers(public) == Retain(loaded, { s \in Scripts : public \in Defines[s] })

\* fire_on_email_sent and fire_on_email_error: every script that defines the
\* broadcast, in the order they loaded.  A passed test fires none.
Broadcast(r) ==
    LET listeners ==
            CASE ~r.ok                          -> Definers("OnEmailError")
              [] r.ok /\ mail[r.seq].message    -> Definers("OnEmailSent")
              [] r.ok /\ ~mail[r.seq].message   -> << >>
    IN  [i \in DOMAIN listeners |-> Call(listeners[i], r.seq, FALSE)]

\* Mutant: every script that defines the callback runs it.
Named_Everywhere(r) ==
    LET definers == IF mail[r.seq].callback = NoCallback THEN << >>
                    ELSE Definers(mail[r.seq].callback)
    IN  [i \in DOMAIN definers |-> Call(definers[i], r.seq, TRUE)]

\* invoke_callback: the first loaded script that defines it, whoever sent.
Named(r) ==
    LET definers == IF mail[r.seq].callback = NoCallback THEN << >>
                    ELSE Definers(mail[r.seq].callback)
    IN  IF definers = << >> THEN << >>
        ELSE << Call(Head(definers), r.seq, TRUE) >>

\* clear_error
ClearError(a) ==
    /\ accounts' = IF IsOpen(a) THEN [accounts EXCEPT ![a].error = "none"]
                   ELSE accounts
    /\ UNCHANGED globalError

\* Mutant: a result whose account is closed is dropped.
Announce_OpenOnly ==
    /\ batch # << >> /\ calls = << >> /\ running = NoScript
    /\ LET r == Head(batch)
           a == mail[r.seq].acct
       IN  /\ IF r.ok THEN ClearError(a) ELSE SetError(a, "undelivered")
           /\ calls' = IF IsOpen(a) THEN Broadcast(r) \o Named(r) ELSE << >>
    /\ batch' = Tail(batch)
    /\ Settled
    /\ UNCHANGED << promise, nextAccount, defaultAccount, drafts, nextDraft,
                    opened, created, loaded, mail, running, ran >>

\* One turn of process_pending_sends, up to its first callback.
Announce ==
    /\ batch # << >> /\ calls = << >> /\ running = NoScript
    /\ LET r == Head(batch)
       IN  /\ IF r.ok THEN ClearError(mail[r.seq].acct)
              ELSE SetError(mail[r.seq].acct, "undelivered")
           /\ calls' = Broadcast(r) \o Named(r)
    /\ batch' = Tail(batch)
    /\ Settled
    /\ UNCHANGED << promise, nextAccount, defaultAccount, drafts, nextDraft,
                    opened, created, loaded, mail, running, ran >>

\* The script's public begins, unless its arguments do not fit on the heap of
\* the script: the call is then given up, and no other script gets it.
RunCall ==
    /\ calls # << >> /\ running = NoScript
    /\ LET c == Head(calls)
       IN  /\ running' \in { c.script, NoScript }
           /\ ran' = [ran EXCEPT ![c.seq] = Append(@, c)]
    /\ calls' = Tail(calls)
    /\ Settled
    /\ UNCHANGED << promise, tables, globalError, loaded, mail, batch >>

\* It returns.
Return ==
    /\ running # NoScript
    /\ running' = NoScript
    /\ Settled
    /\ UNCHANGED << promise, tables, globalError, loaded, mail, batch, calls,
                    ran >>

PluginNext ==
    \/ \E s \in Scripts : Native(s) \/ Load(s) \/ Unload(s)
    \/ WorkerAnswers \/ OnTick \/ Announce \/ RunCall \/ Return

PluginSpec == PluginInit /\ [][PluginNext]_pluginVars

\* Workers answer (SendQueue), the server ticks, and a callback that began
\* returns.  No script has to call a native, load or unload.
PluginFairness ==
    /\ WF_pluginVars(WorkerAnswers) /\ WF_pluginVars(OnTick)
    /\ WF_pluginVars(Announce) /\ WF_pluginVars(RunCall)
    /\ WF_pluginVars(Return)

FairPluginSpec == PluginSpec /\ PluginFairness

-----------------------------------------------------------------------------
(* What makes it correct.                                                  *)

\* A handle that a script may use never dangles: the default account is open,
\* and a draft can always be sent or reclaimed, since its account is open and
\* the script that would destroy it is loaded.  Accounts close from anywhere,
\* a callback of another script included.  No handle is ever mistaken for
\* "default" or "every account", not even after the counters wrap.
NothingDangles ==
    /\ defaultAccount = 0 \/ IsOpen(defaultAccount)
    /\ \A d \in DOMAIN drafts :
        IsOpen(drafts[d].acct) /\ drafts[d].owner \in Range(loaded)
    /\ DOMAIN accounts \cup DOMAIN drafts \cup { nextAccount, nextDraft }
           \subseteq Handles

\* "The FIRST account opened stays the default, so a filterscript opening its
\* own does not redirect the gamemode's mail": only closing it makes room
\* for another.
DefaultStays ==
    [][defaultAccount' # defaultAccount =>
         defaultAccount = 0 \/ defaultAccount \notin DOMAIN accounts']_pluginVars

\* "If it returns false the message is still yours": a native that fails,
\* one that sends included, leaves the drafts as they were and queues
\* nothing; one that queues a message consumes at most the draft it sends,
\* and a one-liner leaves no draft behind however it ends.
SentOrStillYours ==
    [][/\ failure' # failure /\ failure' # NoFailure =>
            drafts' = drafts /\ accepted' = accepted
       /\ accepted' # accepted =>
            /\ DOMAIN drafts' \subseteq DOMAIN drafts
            /\ Cardinality(DOMAIN drafts) <= Cardinality(DOMAIN drafts') + 1
      ]_pluginVars

\* After a native failed, email_errno() says why, and so does email_errno of
\* the account it concerned, open or closed, until the next call or tick.
\* Four natives are excepted: email_close, email_status and email_stats of an
\* account that is not open and email_destroy of a dead handle record nothing,
\* so email_errno() then tells of an earlier failure, although docs/errors.md
\* says of every false or 0 "Ask what happened" (lines 7-21).
FailureExplained ==
    failure \notin { NoFailure, Unrecorded } =>
        /\ GetError(0) = failure.why
        /\ GetError(failure.acct) = failure.why

Unannounced ==
    pending \cup { channel[i].seq : i \in DOMAIN channel }
            \cup { batch[i].seq : i \in DOMAIN batch }

\* The callbacks of a job run after its outcome, each broadcast once per
\* script, and its own callback last and in one script only, although
\* several may define it.
CalledOnce ==
    \A j \in 0 .. MaxJobs - 1 :
        /\ ran[j] # << >> => j < accepted /\ j \notin Unannounced
        /\ \A i, k \in DOMAIN ran[j] : ran[j][i] = ran[j][k] => i = k
        /\ \A i \in DOMAIN ran[j] : ran[j][i].named => i = Len(ran[j])

\* "Messages already handed to email_send still complete": a script that
\* defines both broadcasts hears of every message, although its account is
\* closed meanwhile or the script that sent it is gone, unless it unloads
\* itself before the result is announced.
EveryListenerHears ==
    \A j \in 0 .. MaxJobs - 1, s \in Scripts :
        j \in Unannounced /\ mail[j].message /\ Broadcasts \subseteq Defines[s]
            /\ s \in Range(loaded)
        ~> \/ s \notin Range(loaded)
           \/ \E i \in DOMAIN ran[j] : ran[j][i].script = s
=============================================================================
