---------------------------- MODULE PluginProofs ----------------------------
(***************************************************************************)
(* Proofs about Plugin: whichever native a script calls, from wherever it  *)
(* calls it, the tables refer to what is there, a failure can be read      *)
(* back, a draft is not lost, and a result runs its callbacks once.        *)
(***************************************************************************)
EXTENDS Plugin, SequenceLemmas

-----------------------------------------------------------------------------
(* The tables.                                                             *)

\* What an account's slot can hold.
Codes == { "none", "setup", "invalidAccount", "rejected", "queueFull",
           "undelivered" }

Accounts == [shared : Nat, error : Codes]
Drafts == [acct : Handles, owner : Scripts, prio : Priorities]

TableTypes ==
    /\ DOMAIN accounts \subseteq Handles
    /\ accounts \in [DOMAIN accounts -> Accounts]
    /\ DOMAIN drafts \subseteq Handles
    /\ drafts \in [DOMAIN drafts -> Drafts]
    /\ nextAccount \in Handles /\ nextDraft \in Handles
    /\ opened \in Nat
    /\ loaded \in Seq(Scripts) /\ Distinct(loaded)

\* NothingDangles is inductive once the tables have their types and no script
\* is loaded twice.
TablesInv == TableTypes /\ NothingDangles

LEMMA HandlesCycle ==
    ASSUME NEW h \in Handles PROVE NextHandle(h) \in Handles
BY PluginAssumption DEF Handles, NextHandle

LEMMA ZeroIsNoHandle == 0 \notin Handles
BY PluginAssumption DEF Handles

LEMMA LoadedRange == loaded \in Seq(Scripts) => Range(loaded) \subseteq Scripts
BY LenProperties, ElementOfSeq DEF Range

LEMMA TablesInit == PluginInit => TablesInv
<1> SUFFICES ASSUME PluginInit PROVE TablesInv
  OBVIOUS
<1>1. DOMAIN accounts = {} /\ DOMAIN drafts = {}
  BY DEF PluginInit
<1>2. accounts \in [DOMAIN accounts -> Accounts]
  BY DEF PluginInit
<1>3. drafts \in [DOMAIN drafts -> Drafts]
  BY DEF PluginInit
<1>4. loaded = << >> /\ Distinct(loaded)
  BY DEF PluginInit, Distinct
<1>5. nextAccount = 1 /\ nextDraft = 1 /\ defaultAccount = 0 /\ 1 \in Handles /\ opened = 0
  BY PluginAssumption DEF PluginInit, Handles
<1> QED
  BY <1>1, <1>2, <1>3, <1>4, <1>5 DEF TablesInv, TableTypes, NothingDangles

\* A step that touches nothing of the tables but the errors of accounts.
LEMMA TablesKept ==
    ASSUME TablesInv, DOMAIN accounts' = DOMAIN accounts,
           accounts' \in [DOMAIN accounts -> Accounts],
           UNCHANGED << nextAccount, defaultAccount, drafts, nextDraft, opened,
                        loaded >>
    PROVE  TablesInv'
BY DEF TablesInv, TableTypes, NothingDangles, IsOpen

LEMMA ErrorRecorded ==
    ASSUME TableTypes, NEW a, NEW code \in Codes,
           accounts' = IF IsOpen(a) THEN [accounts EXCEPT ![a].error = code]
                       ELSE accounts
    PROVE  /\ DOMAIN accounts' = DOMAIN accounts
           /\ accounts' \in [DOMAIN accounts -> Accounts]
           /\ IsOpen(a) => accounts'[a].error = code
BY DEF TableTypes, IsOpen, Accounts

\* The natives and the steps that only record an error, if anything.
LEMMA TablesAfterFailure ==
    ASSUME TablesInv, NEW a, NEW code \in Codes, Fails(a, code),
           UNCHANGED << nextAccount, defaultAccount, drafts, nextDraft, opened,
                        loaded >>
    PROVE  TablesInv'
<1>1. /\ DOMAIN accounts' = DOMAIN accounts
      /\ accounts' \in [DOMAIN accounts -> Accounts]
  BY ErrorRecorded DEF Fails, SetError, TablesInv
<1> QED
  BY <1>1, TablesKept

LEMMA TablesUntouched ==
    ASSUME TablesInv, UNCHANGED << tables, loaded >>
    PROVE  TablesInv'
BY DEF TablesInv, TableTypes, NothingDangles, IsOpen, tables

\* Drafts go; nothing else does.
LEMMA DraftsGo ==
    ASSUME TablesInv, NEW S, drafts' = Without(drafts, S),
           DOMAIN accounts' = DOMAIN accounts,
           accounts' \in [DOMAIN accounts -> Accounts],
           nextDraft' \in Handles,
           UNCHANGED << nextAccount, defaultAccount, opened, loaded >>
    PROVE  TablesInv'
<1>1. /\ DOMAIN drafts' = DOMAIN drafts \ S
      /\ \A d \in DOMAIN drafts \ S : drafts'[d] = drafts[d]
      /\ drafts' = [x \in DOMAIN drafts \ S |-> drafts[x]]
  BY DEF Without, Restrict
<1>2. drafts' \in [DOMAIN drafts' -> Drafts] /\ DOMAIN drafts' \subseteq Handles
  BY <1>1 DEF TablesInv, TableTypes
<1> QED
  BY <1>1, <1>2 DEF TablesInv, TableTypes, NothingDangles, IsOpen

LEMMA TablesAfterSetup == TablesInv /\ Setup => TablesInv'
<1> SUFFICES ASSUME TablesInv, Setup PROVE TablesInv'
  OBVIOUS
<1> DEFINE new == [shared |-> opened, error |-> "none"]
<1>1. new \in Accounts
  <2>1. opened \in Nat
    BY DEF TablesInv, TableTypes
  <2> QED
    BY <2>1 DEF Accounts, Codes
<1>2. accounts' = Put(accounts, nextAccount, new)
  BY DEF Setup
<1> HIDE DEF new
<1>3. /\ DOMAIN accounts' = DOMAIN accounts \cup {nextAccount}
      /\ accounts'[nextAccount] = new
      /\ \A x \in DOMAIN accounts : x # nextAccount => accounts'[x] = accounts[x]
      /\ accounts' = [x \in DOMAIN accounts \cup {nextAccount} |-> accounts'[x]]
  BY <1>2 DEF Put
<1>4. nextAccount \in Handles /\ nextAccount' \in Handles
  BY HandlesCycle DEF Setup, TablesInv, TableTypes
<1>5. \A x \in DOMAIN accounts' : accounts'[x] \in Accounts
  BY <1>1, <1>3 DEF TablesInv, TableTypes
<1>6. accounts' \in [DOMAIN accounts' -> Accounts] /\ DOMAIN accounts' \subseteq Handles
  BY <1>3, <1>4, <1>5 DEF TablesInv, TableTypes
<1>7. defaultAccount' \in DOMAIN accounts'
  BY <1>3 DEF Setup, Registered, TablesInv, NothingDangles, IsOpen
<1>8. opened' \in Nat /\ UNCHANGED << drafts, nextDraft, loaded >>
  BY DEF Setup, TablesInv, TableTypes
<1> QED
  BY <1>3, <1>4, <1>6, <1>7, <1>8
     DEF TablesInv, TableTypes, NothingDangles, IsOpen

LEMMA TablesAfterClose ==
    ASSUME TablesInv, NEW a, Close(a)
    PROVE  TablesInv'
<1> DEFINE id == Resolve(a)
           Gone == { d \in DOMAIN drafts : drafts[d].acct = id }
<1>1. /\ accounts' = Without(accounts, {id})
      /\ drafts' = Without(drafts, Gone)
      /\ defaultAccount' = IF defaultAccount = id THEN 0 ELSE defaultAccount
      /\ UNCHANGED << nextAccount, nextDraft, opened, loaded >>
  BY DEF Close
<1>2. \A d \in DOMAIN drafts \ Gone : drafts[d].acct # id
  OBVIOUS
<1> HIDE DEF id, Gone
<1>3. /\ DOMAIN accounts' = DOMAIN accounts \ {id}
      /\ accounts' = [x \in DOMAIN accounts \ {id} |-> accounts[x]]
  BY <1>1 DEF Without, Restrict
<1>4. /\ DOMAIN drafts' = DOMAIN drafts \ Gone
      /\ \A d \in DOMAIN drafts \ Gone : drafts'[d] = drafts[d]
      /\ drafts' = [x \in DOMAIN drafts \ Gone |-> drafts[x]]
  BY <1>1 DEF Without, Restrict
<1>5. accounts' \in [DOMAIN accounts' -> Accounts] /\ DOMAIN accounts' \subseteq Handles
  BY <1>3 DEF TablesInv, TableTypes
<1>6. drafts' \in [DOMAIN drafts' -> Drafts] /\ DOMAIN drafts' \subseteq Handles
  BY <1>4 DEF TablesInv, TableTypes
<1>7. defaultAccount' = 0 \/ defaultAccount' \in DOMAIN accounts'
  BY <1>1, <1>3 DEF TablesInv, NothingDangles, IsOpen
<1> QED
  BY <1>1, <1>2, <1>3, <1>4, <1>5, <1>6, <1>7
     DEF TablesInv, TableTypes, NothingDangles, IsOpen

LEMMA TablesAfterNewDraft ==
    ASSUME TablesInv, NEW s \in Scripts, MayCall(s), NEW a, NewDraft(s, a)
    PROVE  TablesInv'
<1> DEFINE id == Resolve(a)
           new == [acct |-> id, owner |-> s, prio |-> "normal"]
<1>1. drafts' = Put(drafts, nextDraft, new) /\ IsOpen(id)
  BY DEF NewDraft
<1>2. new \in Drafts /\ new.acct = id /\ new.owner = s
  BY <1>1 DEF Drafts, Priorities, TablesInv, TableTypes, IsOpen
<1> HIDE DEF id, new
<1>3. /\ DOMAIN drafts' = DOMAIN drafts \cup {nextDraft}
      /\ drafts'[nextDraft] = new
      /\ \A x \in DOMAIN drafts : x # nextDraft => drafts'[x] = drafts[x]
      /\ drafts' = [x \in DOMAIN drafts \cup {nextDraft} |-> drafts'[x]]
  BY <1>1 DEF Put
<1>4. nextDraft \in Handles /\ nextDraft' \in Handles
  BY HandlesCycle DEF NewDraft, TablesInv, TableTypes
<1>5. \A x \in DOMAIN drafts' : drafts'[x] \in Drafts
  BY <1>2, <1>3 DEF TablesInv, TableTypes
<1>6. drafts' \in [DOMAIN drafts' -> Drafts] /\ DOMAIN drafts' \subseteq Handles
  BY <1>3, <1>4, <1>5 DEF TablesInv, TableTypes
<1>7. UNCHANGED << accounts, nextAccount, defaultAccount, opened, loaded >>
  BY DEF NewDraft
<1>8. \A d \in DOMAIN drafts' :
        IsOpen(drafts'[d].acct) /\ drafts'[d].owner \in Range(loaded)
  BY <1>1, <1>2, <1>3 DEF TablesInv, NothingDangles, MayCall
<1> QED
  BY <1>3, <1>4, <1>6, <1>7, <1>8
     DEF TablesInv, TableTypes, NothingDangles, IsOpen

LEMMA TablesAfterEdit ==
    ASSUME TablesInv, NEW d, Edit(d)
    PROVE  TablesInv'
<1>1. PICK p \in Priorities : drafts' = [drafts EXCEPT ![d].prio = p]
  BY DEF Edit
<1>2. /\ DOMAIN drafts' = DOMAIN drafts
      /\ drafts' \in [DOMAIN drafts -> Drafts]
      /\ \A x \in DOMAIN drafts : /\ drafts'[x].acct = drafts[x].acct
                                  /\ drafts'[x].owner = drafts[x].owner
  BY <1>1 DEF TablesInv, TableTypes, Drafts
<1>3. UNCHANGED << accounts, nextAccount, defaultAccount, nextDraft, opened, loaded >>
  BY DEF Edit
<1> QED
  BY <1>2, <1>3 DEF TablesInv, TableTypes, NothingDangles, IsOpen

LEMMA TablesAfterUnload ==
    ASSUME TablesInv, NEW s \in Scripts, Unload(s)
    PROVE  TablesInv'
<1> DEFINE Gone == { d \in DOMAIN drafts : drafts[d].owner = s }
<1>1. /\ loaded' = Retain(loaded, Scripts \ {s})
      /\ drafts' = Without(drafts, Gone)
      /\ UNCHANGED << accounts, nextAccount, defaultAccount, nextDraft, opened >>
  BY DEF Unload
<1>2. \A d \in DOMAIN drafts \ Gone : drafts[d].owner # s
  OBVIOUS
<1> HIDE DEF Gone
<1>3. loaded \in Seq(Scripts) /\ Distinct(loaded)
  BY DEF TablesInv, TableTypes
<1>4. loaded' \in Seq(Scripts) /\ Range(loaded') = Range(loaded) \cap (Scripts \ {s})
  BY <1>1, <1>3, RetainMembers
<1>5. Distinct(loaded')
  BY <1>1, <1>3, RetainDistinct
<1>6. /\ DOMAIN drafts' = DOMAIN drafts \ Gone
      /\ \A d \in DOMAIN drafts \ Gone : drafts'[d] = drafts[d]
      /\ drafts' = [x \in DOMAIN drafts \ Gone |-> drafts[x]]
  BY <1>1 DEF Without, Restrict
<1>7. drafts' \in [DOMAIN drafts' -> Drafts] /\ DOMAIN drafts' \subseteq Handles
  BY <1>6 DEF TablesInv, TableTypes
<1>8. \A d \in DOMAIN drafts' :
        drafts'[d].acct \in DOMAIN accounts /\ drafts'[d].owner \in Range(loaded')
  BY <1>2, <1>3, <1>4, <1>6, LoadedRange DEF TablesInv, NothingDangles, IsOpen
<1> QED
  BY <1>1, <1>4, <1>5, <1>6, <1>7, <1>8
     DEF TablesInv, TableTypes, NothingDangles, IsOpen

LEMMA TablesAfterLoad ==
    ASSUME TablesInv, NEW s \in Scripts, Load(s)
    PROVE  TablesInv'
<1>1. loaded' = Append(loaded, s) /\ s \notin Range(loaded) /\ UNCHANGED tables
  BY DEF Load
<1>2. loaded \in Seq(Scripts) /\ Distinct(loaded)
  BY DEF TablesInv, TableTypes
<1>3. loaded' \in Seq(Scripts) /\ Range(loaded') = Range(loaded) \cup {s}
  BY <1>1, <1>2, AppendRange, AppendProperties
<1>4. Distinct(loaded')
  BY <1>1, <1>2, AppendDistinct
<1> QED
  BY <1>1, <1>3, <1>4 DEF TablesInv, TableTypes, NothingDangles, IsOpen, tables

\* A result that is announced changes at most the error of one account.
LEMMA TablesAfterAnnounce == TablesInv /\ Announce => TablesInv'
<1> SUFFICES ASSUME TablesInv, Announce PROVE TablesInv'
  OBVIOUS
<1> DEFINE a == mail[Head(batch).seq].acct
<1>1. \/ accounts' = IF IsOpen(a) THEN [accounts EXCEPT ![a].error = "none"]
                     ELSE accounts
      \/ accounts' = IF IsOpen(a) THEN [accounts EXCEPT ![a].error = "undelivered"]
                     ELSE accounts
  BY DEF Announce, ClearError, SetError
<1>2. UNCHANGED << nextAccount, defaultAccount, drafts, nextDraft, opened, loaded >>
  BY DEF Announce
<1> HIDE DEF a
<1>3. /\ DOMAIN accounts' = DOMAIN accounts
      /\ accounts' \in [DOMAIN accounts -> Accounts]
  BY <1>1, ErrorRecorded DEF TablesInv, Codes
<1> QED
  BY <1>2, <1>3, TablesKept

LEMMA TablesAfterQuickSend ==
    ASSUME TablesInv, NEW callback, QuickSend(callback)
    PROVE  TablesInv'
<1>1. /\ drafts' = Without(drafts, {nextDraft})
      /\ nextDraft' \in Handles
      /\ UNCHANGED << nextAccount, defaultAccount, opened, loaded >>
  BY HandlesCycle DEF QuickSend, TablesInv, TableTypes
<1>2. \/ accounts' = accounts
      \/ Fails(defaultAccount, "rejected")
      \/ Fails(defaultAccount, "queueFull")
  BY DEF QuickSend
<1>3. /\ DOMAIN accounts' = DOMAIN accounts
      /\ accounts' \in [DOMAIN accounts -> Accounts]
  BY <1>2, ErrorRecorded DEF TablesInv, TableTypes, Fails, SetError, Codes
<1> QED
  BY <1>1, <1>3, DraftsGo

LEMMA TablesAfterNative ==
    ASSUME TablesInv, NEW s \in Scripts, Native(s)
    PROVE  TablesInv'
<1>1. CASE Setup
  BY <1>1, TablesAfterSetup
<1>2. CASE SetupFails
  BY <1>2, TablesAfterFailure DEF SetupFails, Codes
<1>3. ASSUME NEW a \in 0 .. HandleMax, Close(a) PROVE TablesInv'
  BY <1>3, TablesAfterClose
<1>4. ASSUME NEW a \in 0 .. HandleMax, CloseFails(a) \/ LookupFails(a)
      PROVE  TablesInv'
  BY <1>4, TablesUntouched DEF CloseFails, LookupFails, FailsUnrecorded
<1>5. ASSUME NEW a \in 0 .. HandleMax, NewDraft(s, a) PROVE TablesInv'
  BY <1>5, TablesAfterNewDraft DEF Native
<1>6. ASSUME NEW a \in 0 .. HandleMax, NewDraftFails(a) PROVE TablesInv'
  BY <1>6, TablesAfterFailure DEF NewDraftFails, Codes
<1>7. ASSUME NEW a \in 0 .. HandleMax, TestFails(a) PROVE TablesInv'
  BY <1>7, TablesAfterFailure DEF TestFails, Codes
<1>8. ASSUME NEW d \in Handles, Destroy(d) PROVE TablesInv'
  BY <1>8, DraftsGo DEF Destroy, TablesInv, TableTypes
<1>9. ASSUME NEW d \in Handles, DestroyFails(d) PROVE TablesInv'
  BY <1>9, TablesUntouched DEF DestroyFails, FailsUnrecorded
<1>10. ASSUME NEW d \in Handles, Edit(d) PROVE TablesInv'
  BY <1>10, TablesAfterEdit
<1>11. ASSUME NEW d \in Handles, EditFails(d) PROVE TablesInv'
  BY <1>11, TablesAfterFailure DEF EditFails, Codes
<1>12. ASSUME NEW d \in Handles, InvalidMessage(d) PROVE TablesInv'
  BY <1>12, TablesUntouched DEF InvalidMessage
<1>13. ASSUME NEW d \in Handles, SendRefused(d) PROVE TablesInv'
  BY <1>13, TablesAfterFailure DEF SendRefused, Codes
<1>14. ASSUME NEW callback, NEW a \in 0 .. HandleMax, Test(a, callback)
       PROVE  TablesInv'
  BY <1>14, TablesUntouched DEF Test
<1>15. ASSUME NEW callback, NEW d \in Handles, SendDraft(d, callback)
       PROVE  TablesInv'
  BY <1>15, DraftsGo DEF SendDraft, TablesInv, TableTypes
<1>16. ASSUME NEW callback, QuickSend(callback) PROVE TablesInv'
  BY <1>16, TablesAfterQuickSend
<1> QED
  BY <1>1, <1>2, <1>3, <1>4, <1>5, <1>6, <1>7, <1>8, <1>9, <1>10, <1>11,
     <1>12, <1>13, <1>14, <1>15, <1>16, Zenon DEF Native

LEMMA TablesNext == TablesInv /\ [PluginNext]_pluginVars => TablesInv'
<1> SUFFICES ASSUME TablesInv, [PluginNext]_pluginVars PROVE TablesInv'
  OBVIOUS
<1>1. ASSUME NEW s \in Scripts, Native(s) PROVE TablesInv'
  BY <1>1, TablesAfterNative
<1>2. ASSUME NEW s \in Scripts, Load(s) PROVE TablesInv'
  BY <1>2, TablesAfterLoad
<1>3. ASSUME NEW s \in Scripts, Unload(s) PROVE TablesInv'
  BY <1>3, TablesAfterUnload
<1>4. CASE WorkerAnswers
  BY <1>4, TablesUntouched DEF WorkerAnswers
<1>5. CASE OnTick
  BY <1>5, TablesUntouched DEF OnTick
<1>6. CASE Announce
  BY <1>6, TablesAfterAnnounce
<1>7. CASE RunCall
  BY <1>7, TablesUntouched DEF RunCall
<1>8. CASE Return
  BY <1>8, TablesUntouched DEF Return
<1>9. CASE UNCHANGED pluginVars
  BY <1>9, TablesUntouched DEF pluginVars
<1> QED
  BY <1>1, <1>2, <1>3, <1>4, <1>5, <1>6, <1>7, <1>8, <1>9 DEF PluginNext

\* In every state of every run no handle dangles: the default account is
\* open, and every draft belongs to an open account and a loaded script,
\* however many scripts there are and whatever they close, unload or send
\* from inside a callback, and after the handles start again at 1 as well.
THEOREM NothingEverDangles == PluginSpec => []NothingDangles
<1>1. TablesInv => NothingDangles
  BY DEF TablesInv
<1> QED
  BY TablesInit, TablesNext, <1>1, PTL DEF PluginSpec

-----------------------------------------------------------------------------
(* The default account.                                                    *)

LEMMA DefaultKept ==
    ASSUME [PluginNext]_pluginVars
    PROVE  defaultAccount' # defaultAccount =>
             defaultAccount = 0 \/ defaultAccount \notin DOMAIN accounts'
<1> DEFINE Stays == defaultAccount' # defaultAccount =>
             defaultAccount = 0 \/ defaultAccount \notin DOMAIN accounts'
<1>1. ASSUME NEW s, Native(s) PROVE Stays
  <2>1. CASE Setup
    BY <2>1 DEF Setup, Registered
  <2>2. ASSUME NEW a, Close(a) PROVE Stays
    BY <2>2 DEF Close, Without, Restrict
  <2>3. CASE SetupFails
    BY <2>3 DEF SetupFails
  <2>4. ASSUME NEW a, \/ CloseFails(a) \/ LookupFails(a) \/ NewDraft(s, a)
                      \/ NewDraftFails(a) \/ TestFails(a)
        PROVE  Stays
    BY <2>4 DEF CloseFails, LookupFails, FailsUnrecorded, NewDraft,
                NewDraftFails, TestFails, tables
  <2>5. ASSUME NEW d, \/ Destroy(d) \/ DestroyFails(d) \/ Edit(d) \/ EditFails(d)
                      \/ InvalidMessage(d) \/ SendRefused(d)
        PROVE  Stays
    BY <2>5 DEF Destroy, DestroyFails, FailsUnrecorded, Edit, EditFails,
                InvalidMessage, SendRefused, tables
  <2>6. ASSUME NEW callback, NEW a, Test(a, callback) PROVE Stays
    BY <2>6 DEF Test, tables
  <2>7. ASSUME NEW callback, NEW d, SendDraft(d, callback) PROVE Stays
    BY <2>7 DEF SendDraft
  <2>8. ASSUME NEW callback, QuickSend(callback) PROVE Stays
    BY <2>8 DEF QuickSend
  <2> HIDE DEF Stays
  <2> QED
    BY <1>1, <2>1, <2>2, <2>3, <2>4, <2>5, <2>6, <2>7, <2>8, Zenon DEF Native
<1>2. ASSUME NEW s, Load(s) \/ Unload(s) PROVE Stays
  BY <1>2 DEF Load, Unload, tables
<1>3. CASE WorkerAnswers \/ OnTick \/ Announce \/ RunCall \/ Return
  BY <1>3 DEF WorkerAnswers, OnTick, Announce, RunCall, Return, tables
<1>4. CASE UNCHANGED pluginVars
  BY <1>4 DEF pluginVars, tables
<1> QED
  BY <1>1, <1>2, <1>3, <1>4, Zenon DEF PluginNext

\* No step of any run moves the default away from an account that stays open:
\* opening another one never redirects the mail of the first.
THEOREM DefaultAlwaysStays == PluginSpec => DefaultStays
<1>1. [PluginNext]_pluginVars =>
        [defaultAccount' # defaultAccount =>
           defaultAccount = 0 \/ defaultAccount \notin DOMAIN accounts']_pluginVars
  BY DefaultKept
<1> QED
  BY <1>1, PTL DEF PluginSpec, DefaultStays

-----------------------------------------------------------------------------
(* Reading a failure back.                                                 *)

FailureInv == TablesInv /\ FailureExplained

\* A native that fails leaves the reason in both places.
LEMMA FailsExplained ==
    ASSUME TablesInv, NEW a, NEW code \in Codes, Fails(a, code)
    PROVE  FailureExplained'
<1>1. /\ DOMAIN accounts' = DOMAIN accounts
      /\ IsOpen(a) => accounts'[a].error = code
  BY ErrorRecorded DEF Fails, SetError, TablesInv
<1>2. globalError' = code /\ failure'.acct = a /\ failure'.why = code
  BY DEF Fails, SetError
<1>3. 0 \notin DOMAIN accounts
  BY ZeroIsNoHandle DEF TablesInv, TableTypes
<1> QED
  BY <1>1, <1>2, <1>3 DEF FailureExplained, GetError, IsOpen

\* After a native that returns, or one of the four that record nothing, there
\* is nothing to explain.
LEMMA SettledExplains == Settled \/ FailsUnrecorded => FailureExplained'
BY DEF Settled, FailsUnrecorded, FailureExplained

LEMMA FailureNext == FailureInv /\ [PluginNext]_pluginVars => FailureExplained'
<1> SUFFICES ASSUME FailureInv, [PluginNext]_pluginVars PROVE FailureExplained'
  OBVIOUS
<1> TablesInv /\ FailureExplained
  BY DEF FailureInv
<1>1. ASSUME NEW s, Native(s) PROVE FailureExplained'
  <2>1. CASE SetupFails
    BY <2>1, FailsExplained DEF SetupFails, Codes
  <2>2. CASE Setup
    BY <2>2, SettledExplains DEF Setup
  <2>3. ASSUME NEW a, \/ Close(a) \/ CloseFails(a) \/ LookupFails(a)
                      \/ NewDraft(s, a)
        PROVE  FailureExplained'
    BY <2>3, SettledExplains DEF Close, CloseFails, LookupFails, NewDraft
  <2>4. ASSUME NEW a, NewDraftFails(a) \/ TestFails(a) PROVE FailureExplained'
    BY <2>4, FailsExplained DEF NewDraftFails, TestFails, Codes
  <2>5. ASSUME NEW d, Destroy(d) \/ DestroyFails(d) \/ Edit(d)
        PROVE  FailureExplained'
    BY <2>5, SettledExplains DEF Destroy, DestroyFails, Edit
  <2>6. ASSUME NEW d, EditFails(d) \/ SendRefused(d) PROVE FailureExplained'
    BY <2>6, FailsExplained DEF EditFails, SendRefused, Codes
  <2>7. ASSUME NEW d, InvalidMessage(d) PROVE FailureExplained'
    <3>1. /\ globalError' = "invalidMessage" /\ UNCHANGED accounts
          /\ failure'.acct = 0 /\ failure'.why = "invalidMessage"
      BY <2>7 DEF InvalidMessage, tables
    <3>2. 0 \notin DOMAIN accounts
      BY ZeroIsNoHandle DEF TablesInv, TableTypes
    <3> QED
      BY <3>1, <3>2 DEF FailureExplained, GetError, IsOpen
  <2>8. ASSUME NEW callback, NEW a, Test(a, callback) PROVE FailureExplained'
    BY <2>8, SettledExplains DEF Test
  <2>9. ASSUME NEW callback, NEW d, SendDraft(d, callback) PROVE FailureExplained'
    BY <2>9, SettledExplains DEF SendDraft
  <2>10. ASSUME NEW callback, QuickSend(callback) PROVE FailureExplained'
    BY <2>10, SettledExplains, FailsExplained DEF QuickSend, Codes
  <2> QED
    BY <1>1, <2>1, <2>2, <2>3, <2>4, <2>5, <2>6, <2>7, <2>8, <2>9, <2>10, Zenon
       DEF Native
<1>2. ASSUME NEW s, Load(s) \/ Unload(s) PROVE FailureExplained'
  BY <1>2, SettledExplains DEF Load, Unload
<1>3. CASE OnTick \/ Announce \/ RunCall \/ Return
  BY <1>3, SettledExplains DEF OnTick, Announce, RunCall, Return
<1>4. CASE WorkerAnswers \/ UNCHANGED pluginVars
  BY <1>4 DEF WorkerAnswers, pluginVars, tables, FailureExplained, GetError, IsOpen
<1> QED
  BY <1>1, <1>2, <1>3, <1>4, Zenon DEF PluginNext

\* After any native failed but email_close, email_status, email_stats and
\* email_destroy, and until the next call or tick, email_errno tells why, for
\* the account concerned and for account 0, in every run, with workers
\* answering in between and whether or not the account is open.
THEOREM FailureAlwaysExplained == PluginSpec => []FailureExplained
<1>1. PluginInit => FailureInv
  BY TablesInit DEF FailureInv, PluginInit, FailureExplained
<1>2. FailureInv /\ [PluginNext]_pluginVars => FailureInv'
  BY TablesNext, FailureNext DEF FailureInv
<1>3. FailureInv => FailureExplained
  BY DEF FailureInv
<1> QED
  BY <1>1, <1>2, <1>3, PTL DEF PluginSpec

-----------------------------------------------------------------------------
(* The drafts of a send.                                                   *)

\* As long as the counter has not started again at 1, the next handle is above
\* those of all drafts.
CounterInv ==
    /\ created \in Nat
    /\ created < HandleMax => nextDraft = created + 1
    /\ \A d \in DOMAIN drafts : d <= created

SendInv == TablesInv /\ CounterInv

\* Once the counter has gone round, it bounds every handle all the same.
LEMMA CounterNext == SendInv /\ [PluginNext]_pluginVars => CounterInv'
<1> SUFFICES ASSUME SendInv, [PluginNext]_pluginVars PROVE CounterInv'
  OBVIOUS
<1> TablesInv /\ CounterInv
  BY DEF SendInv
<1>1. ASSUME UNCHANGED << created, nextDraft >>, DOMAIN drafts' \subseteq DOMAIN drafts
      PROVE  CounterInv'
  BY <1>1 DEF CounterInv
<1>2. \A S : DOMAIN Without(drafts, S) = DOMAIN drafts \ S
  BY DEF Without, Restrict
<1>3. ASSUME created < MaxCreated, created' = created + 1,
             nextDraft' = NextHandle(nextDraft),
             DOMAIN drafts' \subseteq DOMAIN drafts \cup {nextDraft}
      PROVE  CounterInv'
  <2> PICK n : n = HandleMax
    OBVIOUS
  <2>1. n \in Nat \ {0} /\ nextDraft \in 1 .. n /\ created \in Nat
    BY PluginAssumption DEF TablesInv, TableTypes, Handles, CounterInv
  <2>2. nextDraft <= created + 1
    BY <2>1 DEF CounterInv
  <2>3. \A d \in DOMAIN drafts' : d <= created + 1
    <3>1. \A d \in DOMAIN drafts : d \in Nat /\ d <= created
      BY <2>1 DEF TablesInv, TableTypes, Handles, CounterInv
    <3> QED
      BY <1>3, <2>1, <2>2, <3>1
  <2>4. created + 1 < n => nextDraft' = created + 2
    BY <1>3, <2>1 DEF CounterInv, NextHandle
  <2> QED
    BY <1>3, <2>1, <2>3, <2>4 DEF CounterInv
<1>4. ASSUME NEW s, Native(s) PROVE CounterInv'
  <2>1. CASE Setup \/ SetupFails
    BY <1>1, <2>1 DEF Setup, SetupFails
  <2>2. ASSUME NEW a, \/ Close(a) \/ CloseFails(a) \/ LookupFails(a)
                      \/ NewDraftFails(a) \/ TestFails(a)
        PROVE  CounterInv'
    BY <1>1, <1>2, <2>2 DEF Close, CloseFails, LookupFails, FailsUnrecorded,
                            NewDraftFails, TestFails, tables
  <2>3. ASSUME NEW a, NewDraft(s, a) PROVE CounterInv'
    <3>1. DOMAIN drafts' \subseteq DOMAIN drafts \cup {nextDraft}
      BY <2>3 DEF NewDraft, Put
    <3> QED
      BY <1>3, <2>3, <3>1 DEF NewDraft
  <2>4. ASSUME NEW d, \/ Destroy(d) \/ DestroyFails(d) \/ Edit(d) \/ EditFails(d)
                      \/ InvalidMessage(d) \/ SendRefused(d)
        PROVE  CounterInv'
    BY <1>1, <1>2, <2>4 DEF Destroy, DestroyFails, FailsUnrecorded, Edit,
                            EditFails, InvalidMessage, SendRefused, tables
  <2>5. ASSUME NEW callback, NEW a, Test(a, callback) PROVE CounterInv'
    BY <1>1, <2>5 DEF Test, tables
  <2>6. ASSUME NEW callback, NEW d, SendDraft(d, callback) PROVE CounterInv'
    BY <1>1, <1>2, <2>6 DEF SendDraft
  <2>7. ASSUME NEW callback, QuickSend(callback) PROVE CounterInv'
    BY <1>2, <1>3, <2>7 DEF QuickSend
  <2> QED
    BY <1>4, <2>1, <2>2, <2>3, <2>4, <2>5, <2>6, <2>7, Zenon DEF Native
<1>5. ASSUME NEW s, Load(s) \/ Unload(s) PROVE CounterInv'
  BY <1>1, <1>2, <1>5 DEF Load, Unload, tables
<1>6. CASE WorkerAnswers \/ OnTick \/ Announce \/ RunCall \/ Return
  BY <1>1, <1>6 DEF WorkerAnswers, OnTick, Announce, RunCall, Return, tables
<1>7. CASE UNCHANGED pluginVars
  BY <1>1, <1>7 DEF pluginVars, tables
<1> QED
  BY <1>4, <1>5, <1>6, <1>7, Zenon DEF PluginNext

\* A failure leaves the message with the script.
StillYours ==
    failure' # failure /\ failure' # NoFailure =>
        drafts' = drafts /\ accepted' = accepted

\* A send takes one draft at most.
TakesOne ==
    accepted' # accepted =>
        /\ DOMAIN drafts' \subseteq DOMAIN drafts
        /\ Cardinality(DOMAIN drafts) <= Cardinality(DOMAIN drafts') + 1

LEMMA DraftsFinite == TablesInv => IsFiniteSet(DOMAIN drafts)
<1>1. IsFiniteSet(1 .. HandleMax)
  BY FS_Interval, PluginAssumption
<1> QED
  BY <1>1, FS_Subset DEF TablesInv, TableTypes, Handles

LEMMA FewerByOne ==
    ASSUME TablesInv, NEW d, drafts' = Without(drafts, {d})
    PROVE  TakesOne
<1>1. DOMAIN drafts' = DOMAIN drafts \ {d}
  BY DEF Without, Restrict
<1>2. IsFiniteSet(DOMAIN drafts)
  BY DraftsFinite
<1>3. /\ Cardinality(DOMAIN drafts) \in Nat
      /\ Cardinality(DOMAIN drafts \ {d}) =
           IF d \in DOMAIN drafts THEN Cardinality(DOMAIN drafts) - 1
           ELSE Cardinality(DOMAIN drafts)
  BY <1>2, FS_CardinalityType, FS_RemoveElement
<1> QED
  BY <1>1, <1>3 DEF TakesOne

LEMMA SameDrafts ==
    ASSUME TablesInv, DOMAIN drafts' = DOMAIN drafts
    PROVE  TakesOne
<1>1. IsFiniteSet(DOMAIN drafts)
  BY DraftsFinite
<1>2. Cardinality(DOMAIN drafts) \in Nat
  BY <1>1, FS_CardinalityType
<1> QED
  BY <1>2 DEF TakesOne

\* A one-liner that fails takes back the draft it made, which was no one's.
LEMMA QuickSendKeeps ==
    ASSUME SendInv, MaxCreated <= HandleMax, NEW callback, QuickSend(callback)
    PROVE  drafts' = drafts
<1>1. drafts' = Without(drafts, {nextDraft}) /\ created < MaxCreated
  BY DEF QuickSend
<1>2. nextDraft \notin DOMAIN drafts
  <2> PICK n : n = HandleMax
    OBVIOUS
  <2>1. created \in Nat /\ created < n
    BY <1>1, PluginAssumption DEF SendInv, CounterInv
  <2>2. nextDraft = created + 1 /\ \A d \in DOMAIN drafts : d <= created
    BY <2>1 DEF SendInv, CounterInv
  <2> QED
    BY <2>1, <2>2
<1>3. drafts \in [DOMAIN drafts -> Drafts]
  BY DEF SendInv, TablesInv, TableTypes
<1>4. DOMAIN drafts \ {nextDraft} = DOMAIN drafts
  BY <1>2
<1> QED
  BY <1>1, <1>3, <1>4 DEF Without, Restrict

LEMMA SendStep ==
    ASSUME SendInv, MaxCreated <= HandleMax, [PluginNext]_pluginVars
    PROVE  StillYours /\ TakesOne
<1> TablesInv
  BY DEF SendInv
<1> DEFINE Both == StillYours /\ TakesOne
<1>1. ASSUME Settled, UNCHANGED accepted PROVE Both
  BY <1>1 DEF Settled, StillYours, TakesOne
<1>2. ASSUME UNCHANGED << drafts, accepted >> PROVE Both
  BY <1>2 DEF StillYours, TakesOne
<1> SUFFICES Both
  OBVIOUS
<1> HIDE DEF Both
<1>3. ASSUME NEW s, Native(s) PROVE Both
  <2>1. CASE Setup \/ SetupFails
    BY <1>1, <1>2, <2>1 DEF Setup, SetupFails, promise
  <2>2. ASSUME NEW a, Close(a) \/ NewDraft(s, a) PROVE Both
    BY <1>1, <2>2 DEF Close, NewDraft, promise
  <2>3. ASSUME NEW a, \/ CloseFails(a) \/ LookupFails(a) \/ NewDraftFails(a)
                      \/ TestFails(a)
        PROVE  Both
    BY <1>2, <2>3 DEF CloseFails, LookupFails, FailsUnrecorded, NewDraftFails,
                      TestFails, promise, tables
  <2>4. ASSUME NEW d, Destroy(d) \/ Edit(d) PROVE Both
    BY <1>1, <2>4 DEF Destroy, Edit, promise
  <2>5. ASSUME NEW d, \/ DestroyFails(d) \/ EditFails(d) \/ InvalidMessage(d)
                      \/ SendRefused(d)
        PROVE  Both
    BY <1>2, <2>5 DEF DestroyFails, FailsUnrecorded, EditFails, InvalidMessage,
                      SendRefused, promise, tables
  <2>6. ASSUME NEW callback, NEW a, Test(a, callback) PROVE Both
    <3>1. Settled /\ drafts' = drafts
      BY <2>6 DEF Test, tables
    <3>2. StillYours
      BY <3>1 DEF Settled, StillYours
    <3> QED
      BY <3>1, <3>2, SameDrafts DEF Both
  <2>7. ASSUME NEW callback, NEW d, SendDraft(d, callback) PROVE Both
    <3>1. Settled /\ drafts' = Without(drafts, {d})
      BY <2>7 DEF SendDraft
    <3>2. StillYours
      BY <3>1 DEF Settled, StillYours
    <3> QED
      BY <3>1, <3>2, FewerByOne DEF Both
  <2>8. ASSUME NEW callback, QuickSend(callback) PROVE Both
    <3>1. drafts' = drafts
      BY <2>8, QuickSendKeeps
    <3>2. Settled \/ accepted' = accepted
      BY <2>8 DEF QuickSend, promise
    <3>3. StillYours
      BY <3>1, <3>2 DEF Settled, StillYours
    <3> QED
      BY <3>1, <3>3, SameDrafts DEF Both
  <2> QED
    BY <1>3, <2>1, <2>2, <2>3, <2>4, <2>5, <2>6, <2>7, <2>8, Zenon DEF Native
<1>4. ASSUME NEW s, Load(s) \/ Unload(s) PROVE Both
  BY <1>1, <1>4 DEF Load, Unload, promise
<1>5. CASE WorkerAnswers
  BY <1>2, <1>5 DEF WorkerAnswers, Answer, tables
<1>6. CASE OnTick
  BY <1>1, <1>6 DEF OnTick, Collect
<1>7. CASE Announce \/ RunCall \/ Return
  BY <1>1, <1>7 DEF Announce, RunCall, Return, promise
<1>8. CASE UNCHANGED pluginVars
  BY <1>2, <1>8 DEF pluginVars, promise, tables
<1> QED
  BY <1>3, <1>4, <1>5, <1>6, <1>7, <1>8, Zenon DEF PluginNext

\* As long as no more drafts are created than there are handles, every native
\* that fails leaves every draft as it was and queues nothing, and one that
\* queues a message takes no more than the draft it sends.  The condition is
\* needed: past i32::MAX drafts a one-liner could destroy a live draft whose
\* handle came round again.
THEOREM AlwaysSentOrStillYours ==
    ASSUME MaxCreated <= HandleMax
    PROVE  PluginSpec => SentOrStillYours
<1>1. PluginInit => SendInv
  BY TablesInit DEF SendInv, CounterInv, PluginInit
<1>2. SendInv /\ [PluginNext]_pluginVars => SendInv'
  BY TablesNext, CounterNext DEF SendInv
<1>3. SendInv /\ [PluginNext]_pluginVars => [StillYours /\ TakesOne]_pluginVars
  BY SendStep
<1>4. (StillYours /\ TakesOne) =>
        /\ failure' # failure /\ failure' # NoFailure =>
             drafts' = drafts /\ accepted' = accepted
        /\ accepted' # accepted =>
             /\ DOMAIN drafts' \subseteq DOMAIN drafts
             /\ Cardinality(DOMAIN drafts) <= Cardinality(DOMAIN drafts') + 1
  BY DEF StillYours, TakesOne
<1> QED
  BY <1>1, <1>2, <1>3, <1>4, PTL DEF PluginSpec, SentOrStillYours

-----------------------------------------------------------------------------
(* Every result is announced once.                                         *)

SeqsIn(answers) == { answers[i].seq : i \in DOMAIN answers }

OnceEach(answers) ==
    \A i, k \in 1 .. Len(answers) : answers[i].seq = answers[k].seq => i = k

\* A job that was accepted is owed, in the channel, in the batch, or announced:
\* it is never at two places.
MailInv ==
    /\ accepted \in Nat /\ accepted <= MaxJobs
    /\ channel \in Seq(Answers) /\ batch \in Seq(Answers)
    /\ Unannounced \subseteq 0 .. accepted - 1
    /\ OnceEach(channel) /\ OnceEach(batch)
    /\ pending \cap SeqsIn(channel) = {} /\ pending \cap SeqsIn(batch) = {}
    /\ SeqsIn(channel) \cap SeqsIn(batch) = {}

LEMMA UnannouncedIs ==
    Unannounced = pending \cup SeqsIn(channel) \cup SeqsIn(batch)
BY DEF Unannounced, SeqsIn

LEMMA SeqsAppend ==
    ASSUME NEW q \in Seq(Answers), NEW r \in Answers
    PROVE  /\ Append(q, r) \in Seq(Answers)
           /\ SeqsIn(Append(q, r)) = SeqsIn(q) \cup {r.seq}
           /\ OnceEach(q) /\ r.seq \notin SeqsIn(q) => OnceEach(Append(q, r))
<1>1. /\ DOMAIN q = 1 .. Len(q) /\ Len(q) \in Nat
      /\ Append(q, r) \in Seq(Answers)
      /\ DOMAIN Append(q, r) = 1 .. Len(q) + 1 /\ Len(Append(q, r)) = Len(q) + 1
      /\ \A i \in 1 .. Len(q) : Append(q, r)[i] = q[i]
      /\ Append(q, r)[Len(q) + 1] = r
  BY AppendProperties, LenProperties
<1>2. 1 .. Len(q) + 1 = 1 .. Len(q) \cup {Len(q) + 1}
  BY <1>1
<1>3. SeqsIn(Append(q, r)) = SeqsIn(q) \cup {r.seq}
  <2> PICK last : last = Len(q) + 1
    OBVIOUS
  <2>1. /\ DOMAIN Append(q, r) = DOMAIN q \cup {last}
        /\ \A i \in DOMAIN q : Append(q, r)[i].seq = q[i].seq
        /\ Append(q, r)[last].seq = r.seq
    BY <1>1, <1>2
  <2> QED
    BY <2>1, SMTT(60) DEF SeqsIn
<1>4. ASSUME OnceEach(q), r.seq \notin SeqsIn(q) PROVE OnceEach(Append(q, r))
  <2>1. \A i \in 1 .. Len(q) : q[i].seq # r.seq
    BY <1>1, <1>4 DEF SeqsIn
  <2> QED
    BY <1>1, <1>4, <2>1 DEF OnceEach
<1> QED
  BY <1>1, <1>3, <1>4

LEMMA SeqsTail ==
    ASSUME NEW q \in Seq(Answers), q # << >>, OnceEach(q)
    PROVE  /\ Head(q) \in Answers /\ Head(q).seq \in SeqsIn(q)
           /\ Tail(q) \in Seq(Answers)
           /\ SeqsIn(Tail(q)) \subseteq SeqsIn(q) \ {Head(q).seq}
           /\ OnceEach(Tail(q))
<1>1. /\ Len(q) \in Nat \ {0} /\ DOMAIN q = 1 .. Len(q)
      /\ Head(q) \in Answers /\ Head(q) = q[1]
      /\ Tail(q) \in Seq(Answers) /\ Len(Tail(q)) = Len(q) - 1
      /\ \A i \in 1 .. Len(Tail(q)) : Tail(q)[i] = q[i + 1]
  BY HeadTailProperties, LenProperties, EmptySeq
<1>2. DOMAIN Tail(q) = 1 .. Len(q) - 1
  BY <1>1, LenProperties
<1>3. ASSUME NEW i \in 1 .. Len(q) - 1
      PROVE  Tail(q)[i].seq \in SeqsIn(q) /\ Tail(q)[i].seq # Head(q).seq
  <2>1. i + 1 \in 1 .. Len(q) /\ 1 \in 1 .. Len(q) /\ i + 1 # 1
    BY <1>1
  <2> QED
    BY <1>1, <2>1 DEF SeqsIn, OnceEach
<1>4. SeqsIn(Tail(q)) \subseteq SeqsIn(q) \ {Head(q).seq}
  BY <1>2, <1>3 DEF SeqsIn
<1>5. OnceEach(Tail(q))
  BY <1>1 DEF OnceEach
<1>6. Head(q).seq \in SeqsIn(q)
  BY <1>1 DEF SeqsIn
<1> QED
  BY <1>1, <1>4, <1>5, <1>6

turnVars == << batch, calls, ran >>

\* To the results there are six kinds of step.
LEMMA MailSteps ==
    ASSUME [PluginNext]_pluginVars
    PROVE  \/ UNCHANGED << promise, turnVars >>
           \/ Accept /\ UNCHANGED turnVars
           \/ WorkerAnswers \/ OnTick \/ Announce \/ RunCall
<1> DEFINE Kind == \/ UNCHANGED << promise, turnVars >>
                   \/ Accept /\ UNCHANGED turnVars
<1>1. ASSUME NEW s, Native(s) PROVE Kind
  <2>1. CASE Setup \/ SetupFails
    BY <2>1 DEF Setup, SetupFails, turn, turnVars
  <2>2. ASSUME NEW a, \/ Close(a) \/ CloseFails(a) \/ LookupFails(a)
                      \/ NewDraft(s, a) \/ NewDraftFails(a) \/ TestFails(a)
        PROVE  Kind
    BY <2>2 DEF Close, CloseFails, LookupFails, FailsUnrecorded, NewDraft,
                NewDraftFails, TestFails, turn, turnVars
  <2>3. ASSUME NEW d, \/ Destroy(d) \/ DestroyFails(d) \/ Edit(d) \/ EditFails(d)
                      \/ InvalidMessage(d) \/ SendRefused(d)
        PROVE  Kind
    BY <2>3 DEF Destroy, DestroyFails, FailsUnrecorded, Edit, EditFails,
                InvalidMessage, SendRefused, turn, turnVars
  <2>4. ASSUME NEW callback, NEW a, Test(a, callback) PROVE Kind
    BY <2>4 DEF Test, Submitted, turn, turnVars
  <2>5. ASSUME NEW callback, NEW d, SendDraft(d, callback) PROVE Kind
    BY <2>5 DEF SendDraft, Submitted, turn, turnVars
  <2>6. ASSUME NEW callback, QuickSend(callback) PROVE Kind
    BY <2>6 DEF QuickSend, Submitted, turn, turnVars
  <2> HIDE DEF Kind
  <2> QED
    BY <1>1, <2>1, <2>2, <2>3, <2>4, <2>5, <2>6, Zenon DEF Native
<1>2. ASSUME NEW s, Load(s) \/ Unload(s) PROVE Kind
  BY <1>2 DEF Load, Unload, turn, turnVars
<1>3. CASE Return
  BY <1>3 DEF Return, turnVars
<1>4. CASE UNCHANGED pluginVars
  BY <1>4 DEF pluginVars, turn, turnVars
<1> QED
  BY <1>1, <1>2, <1>3, <1>4, Zenon DEF PluginNext

LEMMA MailKept ==
    ASSUME MailInv, UNCHANGED << accepted, pending, channel, batch >>
    PROVE  MailInv'
<1>1. Unannounced' = Unannounced
  BY DEF Unannounced
<1> QED
  BY <1>1 DEF MailInv

LEMMA MailNext == MailInv /\ [PluginNext]_pluginVars => MailInv'
<1> SUFFICES ASSUME MailInv, [PluginNext]_pluginVars PROVE MailInv'
  OBVIOUS
<1>1. Unannounced = pending \cup SeqsIn(channel) \cup SeqsIn(batch)
  BY UnannouncedIs
<1>2. Unannounced' = pending' \cup SeqsIn(channel') \cup SeqsIn(batch')
  BY DEF Unannounced, SeqsIn
<1>3. CASE UNCHANGED << promise, turnVars >>
  BY <1>3, MailKept DEF promise, turnVars
<1>4. CASE Accept /\ UNCHANGED turnVars
  <2>1. /\ accepted' = accepted + 1 /\ accepted < MaxJobs /\ accepted \in Nat
        /\ pending' = pending \cup {accepted}
        /\ UNCHANGED << channel, batch >>
    BY <1>4 DEF Accept, turnVars, MailInv
  <2>2. accepted \notin Unannounced
    BY <2>1 DEF MailInv
  <2>3. Unannounced' \subseteq 0 .. accepted' - 1
    BY <1>1, <1>2, <2>1 DEF MailInv
  <2>4. accepted' \in Nat /\ accepted' <= MaxJobs
    BY <2>1, MailPromiseAssumption
  <2> QED
    BY <1>1, <2>1, <2>2, <2>3, <2>4 DEF MailInv
<1>5. CASE WorkerAnswers
  <2>1. PICK j \in pending, ok \in BOOLEAN : Answer(j, ok)
    BY <1>5 DEF WorkerAnswers
  <2> DEFINE r == [seq |-> j, ok |-> ok]
  <2>2. r \in Answers /\ r.seq = j
    BY <1>1, MailPromiseAssumption DEF MailInv, Answers
  <2>3. /\ pending' = pending \ {j} /\ channel' = Append(channel, r)
        /\ UNCHANGED << accepted, batch >>
    BY <1>5, <2>1 DEF Answer, WorkerAnswers, turn
  <2> HIDE DEF r
  <2>4. /\ channel' \in Seq(Answers)
        /\ SeqsIn(channel') = SeqsIn(channel) \cup {j}
        /\ OnceEach(channel')
    BY <2>2, <2>3, SeqsAppend DEF MailInv
  <2>5. j \in pending /\ j \notin SeqsIn(channel) /\ j \notin SeqsIn(batch)
    BY DEF MailInv
  <2>6. Unannounced' = Unannounced
    BY <1>1, <1>2, <2>3, <2>4, <2>5
  <2> QED
    BY <2>3, <2>4, <2>5, <2>6 DEF MailInv
<1>6. CASE OnTick
  <2>1. /\ batch = << >> /\ batch' = channel /\ channel' = << >>
        /\ UNCHANGED << accepted, pending >>
    BY <1>6 DEF OnTick, Collect, Idle
  <2>2. SeqsIn(channel') = {} /\ SeqsIn(batch) = {} /\ OnceEach(channel')
    BY <2>1 DEF SeqsIn, OnceEach
  <2>3. channel' \in Seq(Answers)
    BY <2>1
  <2>4. SeqsIn(batch') = SeqsIn(channel) /\ OnceEach(batch')
    BY <2>1 DEF MailInv
  <2>5. Unannounced' = Unannounced
    BY <1>1, <1>2, <2>1, <2>2, <2>4
  <2> QED
    BY <2>1, <2>2, <2>3, <2>4, <2>5 DEF MailInv
<1>7. CASE Announce
  <2>1. batch # << >> /\ batch' = Tail(batch) /\ UNCHANGED promise
    BY <1>7 DEF Announce
  <2>2. /\ batch' \in Seq(Answers) /\ OnceEach(batch')
        /\ SeqsIn(batch') \subseteq SeqsIn(batch)
    BY <2>1, SeqsTail DEF MailInv
  <2>3. Unannounced' \subseteq Unannounced
    BY <1>1, <1>2, <2>1, <2>2 DEF promise
  <2> QED
    BY <2>1, <2>2, <2>3 DEF MailInv, promise
<1>8. CASE RunCall
  BY <1>8, MailKept DEF RunCall, promise
<1> QED
  BY <1>3, <1>4, <1>5, <1>6, <1>7, <1>8, MailSteps

-----------------------------------------------------------------------------
(* Every callback of a result runs once.                                   *)

Calls == [script : Scripts, seq : 0 .. MaxJobs - 1, named : BOOLEAN]

\* Nothing twice, and the callback of the send itself at the end.
InOrder(q) == Distinct(q) /\ \A i \in 1 .. Len(q) : q[i].named => i = Len(q)

\* The calls still to run are none of those that ran, and the callback of the
\* send is still among them or was none.
CallsInv ==
    /\ ran \in [0 .. MaxJobs - 1 -> Seq(Calls)]
    /\ calls \in Seq(Calls)
    /\ InOrder(calls)
    /\ \A j \in 0 .. MaxJobs - 1 :
        /\ InOrder(ran[j])
        /\ ran[j] # << >> => j < accepted /\ j \notin Unannounced
    /\ \A i \in 1 .. Len(calls) :
        LET j == calls[i].seq
        IN  /\ j < accepted /\ j \notin Unannounced
            /\ calls[i] \notin Range(ran[j])
            /\ \A k \in 1 .. Len(ran[j]) : ~ran[j][k].named

PlayedInv == TableTypes /\ MailInv /\ CallsInv

\* Jobs that were announced stay so, and nothing else is called.
LEMMA CallsKept ==
    ASSUME CallsInv, MailInv, UNCHANGED << calls, ran >>,
           accepted' \in Nat, accepted' >= accepted,
           Unannounced' \subseteq Unannounced \cup {accepted}
    PROVE  CallsInv'
<1>2. ASSUME NEW j \in 0 .. MaxJobs - 1, j < accepted, j \notin Unannounced
      PROVE  j < accepted' /\ j \notin Unannounced'
  BY <1>2 DEF MailInv
<1>3. \A j \in 0 .. MaxJobs - 1 :
        ran'[j] # << >> => j < accepted' /\ j \notin Unannounced'
  BY <1>2 DEF CallsInv
<1>4. \A i \in 1 .. Len(calls) : calls[i].seq \in 0 .. MaxJobs - 1
  <2>1. \A i \in 1 .. Len(calls) : calls[i] \in Calls
    BY ElementOfSeq DEF CallsInv
  <2> QED
    BY <2>1 DEF Calls
<1>5. \A i \in 1 .. Len(calls') :
        calls'[i].seq < accepted' /\ calls'[i].seq \notin Unannounced'
  BY <1>2, <1>4 DEF CallsInv
<1> QED
  BY <1>3, <1>5 DEF CallsInv

LEMMA DefinersAre ==
    ASSUME TableTypes, NEW public
    PROVE  Definers(public) \in Seq(Scripts) /\ Distinct(Definers(public))
BY RetainMembers, RetainDistinct DEF TableTypes, Definers

LEMMA BroadcastIs ==
    ASSUME TableTypes, NEW r \in Answers
    PROVE  /\ Broadcast(r) \in Seq(Calls)
           /\ Distinct(Broadcast(r))
           /\ \A i \in 1 .. Len(Broadcast(r)) :
                /\ Broadcast(r)[i].seq = r.seq
                /\ Broadcast(r)[i].named = FALSE
<1>1. PICK l \in Seq(Scripts) :
        /\ Distinct(l)
        /\ Broadcast(r) = [i \in DOMAIN l |-> Call(l[i], r.seq, FALSE)]
  <2>1. << >> \in Seq(Scripts) /\ Distinct(<< >>)
    BY DEF Distinct
  <2>2. r.ok \in BOOLEAN
    BY DEF Answers
  <2>3. CASE ~r.ok
    <3>1. Broadcast(r) = [i \in DOMAIN Definers("OnEmailError") |->
                            Call(Definers("OnEmailError")[i], r.seq, FALSE)]
      BY <2>3 DEF Broadcast
    <3> QED
      BY <3>1, DefinersAre
  <2>4. CASE r.ok /\ mail[r.seq].message
    <3>1. Broadcast(r) = [i \in DOMAIN Definers("OnEmailSent") |->
                            Call(Definers("OnEmailSent")[i], r.seq, FALSE)]
      BY <2>4 DEF Broadcast
    <3> QED
      BY <3>1, DefinersAre
  <2>5. CASE r.ok /\ ~mail[r.seq].message
    <3>1. Broadcast(r) = [i \in DOMAIN << >> |-> Call(<< >>[i], r.seq, FALSE)]
      BY <2>5 DEF Broadcast
    <3> QED
      BY <2>1, <3>1
  <2> QED
    BY <2>2, <2>3, <2>4, <2>5
<1>2. DOMAIN l = 1 .. Len(l) /\ Len(l) \in Nat /\ \A i \in 1 .. Len(l) : l[i] \in Scripts
  BY LenProperties, ElementOfSeq
<1>3. \A i \in 1 .. Len(l) :
        /\ Call(l[i], r.seq, FALSE) \in Calls
        /\ Call(l[i], r.seq, FALSE).seq = r.seq
        /\ Call(l[i], r.seq, FALSE).script = l[i]
        /\ Call(l[i], r.seq, FALSE).named = FALSE
  BY <1>2 DEF Call, Calls, Answers
<1>4. Broadcast(r) \in [1 .. Len(l) -> Calls]
  BY <1>1, <1>2, <1>3
<1>5. Broadcast(r) \in Seq(Calls) /\ Len(Broadcast(r)) = Len(l)
  BY <1>2, <1>4, SeqDef, LenProperties
<1>6. \A i \in 1 .. Len(l) : Broadcast(r)[i] = Call(l[i], r.seq, FALSE)
  BY <1>1, <1>2
<1>7. Distinct(Broadcast(r))
  <2> SUFFICES ASSUME NEW i \in 1 .. Len(l), NEW k \in 1 .. Len(l),
                      Broadcast(r)[i] = Broadcast(r)[k]
               PROVE  i = k
    BY <1>5 DEF Distinct
  <2>1. l[i] = l[k]
    BY <1>3, <1>6
  <2> QED
    BY <1>1, <2>1 DEF Distinct
<1> QED
  BY <1>3, <1>5, <1>6, <1>7

\* Append, member by member.
LEMMA AppendIs ==
    ASSUME NEW t \in Seq(Calls), NEW c \in Calls, NEW u, u = Append(t, c)
    PROVE  /\ u \in Seq(Calls) /\ Len(u) \in Nat /\ Len(u) # 0
           /\ u[Len(u)] = c
           /\ \A i \in 1 .. Len(u) : i # Len(u) => i \in 1 .. Len(t) /\ u[i] = t[i]
<1>1. /\ Len(t) \in Nat /\ u \in Seq(Calls) /\ Len(u) = Len(t) + 1
      /\ \A i \in 1 .. Len(t) : u[i] = t[i]
      /\ u[Len(t) + 1] = c
  BY AppendProperties, LenProperties
<1>2. \A i \in 1 .. Len(u) : i # Len(u) => i \in 1 .. Len(t)
  BY <1>1
<1> QED
  BY <1>1, <1>2

LEMMA NamedIs ==
    ASSUME TableTypes, NEW r \in Answers
    PROVE  \/ Named(r) = << >>
           \/ \E s \in Scripts : Named(r) = << Call(s, r.seq, TRUE) >>
<1> DEFINE definers == IF mail[r.seq].callback = NoCallback THEN << >>
                       ELSE Definers(mail[r.seq].callback)
<1>1. definers \in Seq(Scripts)
  BY DefinersAre
<1>2. Named(r) = IF definers = << >> THEN << >>
                 ELSE << Call(Head(definers), r.seq, TRUE) >>
  BY DEF Named
<1> HIDE DEF definers
<1>3. definers # << >> => Head(definers) \in Scripts
  BY <1>1, HeadTailProperties
<1> QED
  BY <1>2, <1>3

\* The callback of the send goes after the broadcasts.
LEMMA NamedLast ==
    ASSUME NEW b \in Seq(Calls), Distinct(b), NEW j,
           \A i \in 1 .. Len(b) : b[i].seq = j /\ b[i].named = FALSE,
           NEW c \in Calls, c.seq = j, c.named = TRUE,
           NEW q, q = Append(b, c)
    PROVE  /\ q \in Seq(Calls) /\ InOrder(q)
           /\ \A i \in 1 .. Len(q) : q[i].seq = j
<1>1. /\ q \in Seq(Calls)
      /\ q[Len(q)] = c
      /\ \A i \in 1 .. Len(q) : i # Len(q) => i \in 1 .. Len(b) /\ q[i] = b[i]
  BY AppendIs, SMTT(60)
<1>2. \A i \in 1 .. Len(b) : b[i] # c
  BY Zenon
<1>3. c \notin Range(b)
  BY <1>2, LenProperties DEF Range
<1>4. Distinct(q)
  BY <1>3, AppendDistinct
<1>5. ASSUME NEW i \in 1 .. Len(q)
      PROVE  q[i].seq = j /\ (q[i].named => i = Len(q))
  BY <1>1, <1>5, Zenon
<1> QED
  BY <1>1, <1>4, <1>5, Zenon DEF InOrder

\* What one result makes: each broadcast once, then the callback of the send.
LEMMA AnnouncedCalls ==
    ASSUME TableTypes, NEW r \in Answers, NEW q, q = Broadcast(r) \o Named(r)
    PROVE  /\ q \in Seq(Calls) /\ InOrder(q)
           /\ \A i \in 1 .. Len(q) : q[i].seq = r.seq
<1> PICK b : b = Broadcast(r)
  OBVIOUS
<1>1. /\ b \in Seq(Calls) /\ Distinct(b) /\ Len(b) \in Nat
      /\ \A i \in 1 .. Len(b) : b[i].seq = r.seq /\ b[i].named = FALSE
  BY BroadcastIs, LenProperties
<1>2. CASE Named(r) = << >>
  <2>1. q = b
    BY <1>1, <1>2, ConcatEmptySeq
  <2> QED
    BY <1>1, <2>1 DEF InOrder
<1>3. ASSUME NEW s \in Scripts, Named(r) = << Call(s, r.seq, TRUE) >>
      PROVE  /\ q \in Seq(Calls) /\ InOrder(q)
             /\ \A i \in 1 .. Len(q) : q[i].seq = r.seq
  <2> PICK c : c = Call(s, r.seq, TRUE)
    OBVIOUS
  <2>1. c \in Calls /\ c.seq = r.seq /\ c.named = TRUE
    BY DEF Call, Calls, Answers
  <2>2. q = Append(b, c)
    BY <1>1, <1>3, <2>1, AppendIsConcat
  <2> QED
    BY ONLY <1>1, <2>1, <2>2, NamedLast
<1> QED
  BY <1>2, <1>3, NamedIs

LEMMA CallsAfterAnnounce ==
    ASSUME PlayedInv, Announce
    PROVE  CallsInv'
<1> TableTypes /\ MailInv /\ CallsInv
  BY DEF PlayedInv
<1> DEFINE r == Head(batch)
<1>1. /\ batch # << >> /\ calls = << >> /\ batch' = Tail(batch)
      /\ calls' = Broadcast(r) \o Named(r)
      /\ UNCHANGED << accepted, pending, channel, ran >>
  BY DEF Announce, promise
<1>2. /\ r \in Answers /\ r.seq \in SeqsIn(batch)
      /\ SeqsIn(batch') \subseteq SeqsIn(batch) \ {r.seq}
  BY <1>1, SeqsTail DEF MailInv
<1> HIDE DEF r
<1>3. Unannounced' = pending \cup SeqsIn(channel) \cup SeqsIn(batch')
  BY <1>1 DEF Unannounced, SeqsIn
<1>4. r.seq \in Unannounced /\ r.seq \notin Unannounced' /\ Unannounced' \subseteq Unannounced
  BY <1>2, <1>3, UnannouncedIs DEF MailInv
<1>5. /\ calls' \in Seq(Calls) /\ InOrder(calls')
      /\ \A i \in 1 .. Len(calls') : calls'[i].seq = r.seq
  <2> PICK q : q = Broadcast(r) \o Named(r)
    OBVIOUS
  <2>1. /\ q \in Seq(Calls) /\ InOrder(q)
        /\ \A i \in 1 .. Len(q) : q[i].seq = r.seq
    BY <1>2, AnnouncedCalls, Zenon
  <2>2. calls' = q
    BY <1>1
  <2> QED
    BY ONLY <2>1, <2>2 DEF InOrder
<1>6. r.seq \in 0 .. MaxJobs - 1 /\ r.seq < accepted
  BY <1>2, <1>4 DEF MailInv, Answers
<1>7. ran[r.seq] = << >>
  BY <1>4, <1>6 DEF CallsInv
<1>8. \A i \in 1 .. Len(calls') :
        LET j == calls'[i].seq
        IN  /\ j < accepted' /\ j \notin Unannounced'
            /\ calls'[i] \notin Range(ran'[j])
            /\ \A k \in 1 .. Len(ran'[j]) : ~ran'[j][k].named
  <2>1. Range(<< >>) = {} /\ Len(<< >>) = 0
    BY DEF Range
  <2> QED
    BY <1>1, <1>4, <1>5, <1>6, <1>7, <2>1, SMTT(60)
<1> QED
  BY <1>1, <1>4, <1>5, <1>8 DEF CallsInv

LEMMA CallsAfterRun ==
    ASSUME PlayedInv, RunCall
    PROVE  CallsInv'
<1> TableTypes /\ MailInv /\ CallsInv
  BY DEF PlayedInv
<1> PICK c : c = Head(calls)
  OBVIOUS
<1>1. /\ calls # << >> /\ calls' = Tail(calls)
      /\ ran' = [ran EXCEPT ![c.seq] = Append(@, c)]
      /\ UNCHANGED << accepted, pending, channel, batch >>
  BY DEF RunCall, promise
<1>2. Unannounced' = Unannounced
  BY <1>1 DEF Unannounced
<1>3. /\ c \in Calls /\ c = calls[1] /\ Len(calls) \in Nat \ {0}
      /\ calls' \in Seq(Calls) /\ Len(calls') = Len(calls) - 1
      /\ \A i \in 1 .. Len(calls') : calls'[i] = calls[i + 1]
  BY <1>1, HeadTailProperties, LenProperties, EmptySeq DEF CallsInv
<1> PICK t : t = ran[c.seq]
  OBVIOUS
<1>4. c.seq \in 0 .. MaxJobs - 1 /\ t \in Seq(Calls)
  BY <1>3 DEF Calls, CallsInv
<1>5. /\ c.seq < accepted /\ c.seq \notin Unannounced /\ c \notin Range(t)
      /\ \A k \in 1 .. Len(t) : ~t[k].named
  BY <1>3 DEF CallsInv
<1> PICK u : u = Append(t, c)
  OBVIOUS
<1>6. /\ u \in Seq(Calls) /\ Distinct(u) /\ Range(u) = Range(t) \cup {c}
      /\ u # << >> /\ u[Len(u)] = c
      /\ \A k \in 1 .. Len(u) : k # Len(u) => k \in 1 .. Len(t) /\ u[k] = t[k]
  <2>1. Distinct(t)
    BY <1>4 DEF CallsInv, InOrder
  <2> QED
    BY <1>3, <1>4, <1>5, <2>1, AppendDistinct, AppendRange, AppendIs, EmptySeq, SMTT(60)
<1>7. InOrder(u)
  BY <1>5, <1>6, Zenon DEF InOrder
<1>8. /\ ran' \in [0 .. MaxJobs - 1 -> Seq(Calls)]
      /\ ran'[c.seq] = u
      /\ \A j \in 0 .. MaxJobs - 1 : j # c.seq => ran'[j] = ran[j]
  BY <1>1, <1>4, <1>6 DEF CallsInv
<1>9. InOrder(calls')
  <2> PICK n : n = Len(calls)
    OBVIOUS
  <2>1. /\ n \in Nat \ {0} /\ Len(calls') = n - 1
        /\ \A i \in 1 .. n - 1 : calls'[i] = calls[i + 1]
    BY <1>3
  <2>2. /\ \A i, k \in 1 .. n : calls[i] = calls[k] => i = k
        /\ \A i \in 1 .. n : calls[i].named => i = n
    BY DEF CallsInv, InOrder, Distinct
  <2>3. \A i \in 1 .. n - 1 : i + 1 \in 1 .. n /\ (i + 1 = n => i = n - 1)
    BY <2>1
  <2>4. Distinct(calls')
    BY <2>1, <2>2, <2>3 DEF Distinct
  <2>5. \A i \in 1 .. Len(calls') : calls'[i].named => i = Len(calls')
    BY <2>1, <2>2, <2>3, Zenon
  <2> QED
    BY <2>4, <2>5 DEF InOrder
<1>10. ASSUME NEW j \in 0 .. MaxJobs - 1
       PROVE  /\ InOrder(ran'[j])
              /\ ran'[j] # << >> => j < accepted' /\ j \notin Unannounced'
  BY <1>1, <1>2, <1>5, <1>7, <1>8 DEF CallsInv
<1>11. ASSUME NEW i \in 1 .. Len(calls')
       PROVE  LET j == calls'[i].seq
              IN  /\ j < accepted' /\ j \notin Unannounced'
                  /\ calls'[i] \notin Range(ran'[j])
                  /\ \A k \in 1 .. Len(ran'[j]) : ~ran'[j][k].named
  <2> PICK d : d = calls[i + 1]
    OBVIOUS
  <2>1. /\ calls'[i] = d /\ i + 1 \in 1 .. Len(calls) /\ d \in Calls
        /\ 1 \in 1 .. Len(calls) /\ i + 1 # 1 /\ Len(calls) # 1
    <3>1. /\ i + 1 \in 1 .. Len(calls) /\ 1 \in 1 .. Len(calls)
          /\ i + 1 # 1 /\ Len(calls) # 1
      BY <1>3
    <3>2. calls[i + 1] \in Calls
      BY <3>1, ElementOfSeq DEF CallsInv
    <3> QED
      BY <1>3, <3>1, <3>2
  <2>2. /\ d.seq \in 0 .. MaxJobs - 1
        /\ d.seq < accepted /\ d.seq \notin Unannounced
        /\ d \notin Range(ran[d.seq])
        /\ \A k \in 1 .. Len(ran[d.seq]) : ~ran[d.seq][k].named
    BY <2>1 DEF CallsInv, Calls
  <2>3. d # c /\ ~c.named
    BY <1>3, <2>1 DEF CallsInv, InOrder, Distinct
  <2>4. CASE d.seq # c.seq
    BY <1>1, <1>2, <1>8, <2>1, <2>2, <2>4
  <2>5. CASE d.seq = c.seq
    <3>1. d \notin Range(u)
      BY <1>6, <2>2, <2>3, <2>5
    <3>2. \A k \in 1 .. Len(u) : ~u[k].named
      <4>1. ASSUME NEW k \in 1 .. Len(u), k # Len(u) PROVE ~u[k].named
        <5>1. k \in 1 .. Len(t) /\ u[k] = t[k]
          BY <1>6, <4>1, Zenon
        <5> QED
          BY <1>5, <5>1, Zenon
      <4>2. ~u[Len(u)].named
        BY <1>6, <2>3, Zenon
      <4> QED
        BY <4>1, <4>2, Zenon
    <3> QED
      BY <1>1, <1>2, <1>8, <2>1, <2>2, <2>5, <3>1, <3>2
  <2> QED
    BY <2>4, <2>5
<1> QED
  BY <1>3, <1>8, <1>9, <1>10, <1>11 DEF CallsInv

LEMMA CallsNext ==
    ASSUME PlayedInv, [PluginNext]_pluginVars
    PROVE  CallsInv'
<1> TableTypes /\ MailInv /\ CallsInv
  BY DEF PlayedInv
<1>1. Unannounced' = pending' \cup SeqsIn(channel') \cup SeqsIn(batch')
  BY DEF Unannounced, SeqsIn
<1>2. accepted \in Nat
  BY DEF MailInv
<1>3. CASE UNCHANGED << promise, turnVars >>
  <2>1. Unannounced' = Unannounced /\ UNCHANGED << calls, ran, accepted >>
    BY <1>3 DEF promise, turnVars, Unannounced
  <2> QED
    BY <1>2, <2>1, CallsKept
<1>4. CASE Accept /\ UNCHANGED turnVars
  <2>1. Unannounced' = Unannounced \cup {accepted}
    BY <1>1, <1>4, UnannouncedIs DEF Accept, turnVars
  <2> QED
    BY <1>2, <1>4, <2>1, CallsKept DEF Accept, turnVars
<1>5. CASE WorkerAnswers
  <2>1. PICK j \in pending, ok \in BOOLEAN : Answer(j, ok)
    BY <1>5 DEF WorkerAnswers
  <2> DEFINE r == [seq |-> j, ok |-> ok]
  <2>2. r \in Answers /\ r.seq = j
    BY UnannouncedIs, MailPromiseAssumption DEF MailInv, Answers
  <2>3. /\ pending' = pending \ {j} /\ channel' = Append(channel, r)
        /\ UNCHANGED << accepted, batch, calls, ran >>
    BY <1>5, <2>1 DEF Answer, WorkerAnswers, turn
  <2> HIDE DEF r
  <2>4. SeqsIn(channel') = SeqsIn(channel) \cup {j}
    BY <2>2, <2>3, SeqsAppend DEF MailInv
  <2>5. Unannounced' \subseteq Unannounced
    BY <1>1, <2>3, <2>4, UnannouncedIs
  <2> QED
    BY <1>2, <2>3, <2>5, CallsKept
<1>6. CASE OnTick
  <2>1. /\ batch' = channel /\ channel' = << >>
        /\ UNCHANGED << accepted, pending, calls, ran >>
    BY <1>6 DEF OnTick, Collect
  <2>2. SeqsIn(channel') = {} /\ SeqsIn(batch') = SeqsIn(channel)
    BY <2>1 DEF SeqsIn
  <2>3. Unannounced' \subseteq Unannounced
    BY <1>1, <2>1, <2>2, UnannouncedIs
  <2> QED
    BY <1>2, <2>1, <2>3, CallsKept
<1> QED
  BY <1>3, <1>4, <1>5, <1>6, CallsAfterAnnounce, CallsAfterRun, MailSteps

TurnInv == TablesInv /\ PlayedInv

LEMMA TurnAlways == PluginSpec => []TurnInv
<1>1. PluginInit => TurnInv
  <2> SUFFICES ASSUME PluginInit PROVE TurnInv
    OBVIOUS
  <2>1. TablesInv /\ TableTypes
    BY TablesInit DEF TablesInv
  <2>2. accepted = 0 /\ pending = {} /\ channel = << >> /\ batch = << >>
    BY DEF PluginInit, PromiseInit
  <2>3. SeqsIn(<< >>) = {} /\ OnceEach(<< >>) /\ InOrder(<< >>)
    BY DEF SeqsIn, OnceEach, InOrder, Distinct
  <2>4. Unannounced = {}
    BY <2>2, <2>3, UnannouncedIs
  <2>5. MailInv
    BY <2>2, <2>3, <2>4, MailPromiseAssumption DEF MailInv
  <2>6. calls = << >> /\ ran = [j \in 0 .. MaxJobs - 1 |-> << >>]
    BY DEF PluginInit
  <2>7. CallsInv
    BY <2>3, <2>6 DEF CallsInv
  <2> QED
    BY <2>1, <2>5, <2>7 DEF TurnInv, PlayedInv
<1>2. TurnInv /\ [PluginNext]_pluginVars => TurnInv'
  <2> SUFFICES ASSUME TurnInv, [PluginNext]_pluginVars PROVE TurnInv'
    OBVIOUS
  <2>1. TablesInv' /\ MailInv'
    BY TablesNext, MailNext DEF TurnInv, PlayedInv
  <2>2. TableTypes'
    BY <2>1 DEF TablesInv
  <2>3. CallsInv'
    BY CallsNext DEF TurnInv
  <2> QED
    BY <2>1, <2>2, <2>3 DEF TurnInv, PlayedInv
<1> QED
  BY <1>1, <1>2, PTL DEF PluginSpec

\* In every run, with any number of scripts, jobs and workers, a callback that
\* begins belongs to a result that was taken from the channel, every call of
\* a result is made once, and its own callback is the last and in one script.
THEOREM AlwaysCalledOnce == PluginSpec => []CalledOnce
<1>1. TurnInv => CalledOnce
  <2> SUFFICES ASSUME TurnInv, NEW j \in 0 .. MaxJobs - 1
               PROVE  /\ ran[j] # << >> => j < accepted /\ j \notin Unannounced
                      /\ \A i, k \in DOMAIN ran[j] : ran[j][i] = ran[j][k] => i = k
                      /\ \A i \in DOMAIN ran[j] : ran[j][i].named => i = Len(ran[j])
    BY DEF CalledOnce
  <2>1. CallsInv /\ ran[j] \in Seq(Calls)
    BY DEF TurnInv, PlayedInv, CallsInv
  <2>2. DOMAIN ran[j] = 1 .. Len(ran[j])
    BY <2>1, LenProperties
  <2> QED
    BY <2>1, <2>2 DEF CallsInv, InOrder, Distinct
<1> QED
  BY <1>1, TurnAlways, PTL

-----------------------------------------------------------------------------
(* No result is forgotten on its way to the scripts.                       *)

\* Script s, loaded now, is to hear of job j however it ends.
Listens(s, j) ==
    mail[j].message /\ Broadcasts \subseteq Defines[s] /\ s \in Range(loaded)

MadeFor(j) == { calls[i].script : i \in { k \in DOMAIN calls : calls[k].seq = j } }

\* What a step may not do to the results: a job leaves those that are owed, in
\* the channel or in the batch only when every script that listens has a call
\* of its own for it; a call leaves the list only when it was made or given
\* up; and what was made stays so.
Forgets ==
    \/ \E j \in Unannounced \ Unannounced' :
        \E s \in Scripts : Listens(s, j) /\ s \notin MadeFor(j)'
    \/ \E c \in Range(calls) :
        c \notin Range(calls') /\ c \notin Range(ran'[c.seq])
    \/ \E j \in 0 .. MaxJobs - 1 : ~(Range(ran[j]) \subseteq Range(ran'[j]))

NothingForgotten == [][~Forgets]_pluginVars

\* The broadcast reaches everyone who listens.
LEMMA BroadcastReaches ==
    ASSUME TableTypes, NEW r \in Answers, NEW s \in Scripts, Listens(s, r.seq)
    PROVE  \E i \in 1 .. Len(Broadcast(r)) : Broadcast(r)[i].script = s
<1> DEFINE public == IF r.ok THEN "OnEmailSent" ELSE "OnEmailError"
<1>1. public \in Defines[s] /\ s \in Range(loaded)
  BY DEF Listens, Broadcasts
<1>2. Broadcast(r) = [i \in DOMAIN Definers(public) |->
                        Call(Definers(public)[i], r.seq, FALSE)]
  BY DEF Listens, Broadcast, Answers
<1> PICK l : l = Definers(public)
  OBVIOUS
<1>3. l \in Seq(Scripts) /\ s \in Range(l)
  <2> DEFINE S == { x \in Scripts : public \in Defines[x] }
  <2>1. l = Retain(loaded, S) /\ s \in S
    BY <1>1 DEF Definers
  <2> HIDE DEF S
  <2>2. Range(l) = Range(loaded) \cap S /\ l \in Seq(Scripts)
    BY <2>1, RetainMembers DEF TableTypes
  <2> QED
    BY <1>1, <2>1, <2>2
<1> HIDE DEF public
<1>4. PICK i \in 1 .. Len(l) : l[i] = s
  BY <1>3, LenProperties DEF Range
<1>5. DOMAIN l = 1 .. Len(l)
  BY <1>3, LenProperties
<1>6. Len(Broadcast(r)) = Len(l)
  <2>1. DOMAIN Broadcast(r) = 1 .. Len(l) /\ Broadcast(r) \in Seq(Calls)
    BY <1>2, <1>5, BroadcastIs
  <2> QED
    BY <1>3, <2>1, LenProperties
<1>7. Broadcast(r)[i] = Call(s, r.seq, FALSE)
  BY <1>2, <1>4, <1>5
<1> QED
  BY <1>4, <1>6, <1>7 DEF Call

LEMMA AnnounceReaches ==
    ASSUME PlayedInv, Announce
    PROVE  ~Forgets
<1> TableTypes /\ MailInv /\ CallsInv
  BY DEF PlayedInv
<1> PICK r : r = Head(batch)
  OBVIOUS
<1>1. /\ batch # << >> /\ calls = << >> /\ batch' = Tail(batch)
      /\ calls' = Broadcast(r) \o Named(r)
      /\ UNCHANGED << accepted, pending, channel, ran >>
  BY DEF Announce, promise
<1>2. r \in Answers
  BY <1>1, SeqsTail DEF MailInv
<1>3. Unannounced \ Unannounced' \subseteq { r.seq }
  <2>1. SeqsIn(batch) \subseteq SeqsIn(batch') \cup { r.seq }
    <3> SUFFICES ASSUME NEW i \in 1 .. Len(batch), i # 1
                 PROVE  batch[i].seq \in SeqsIn(batch')
      <4>1. DOMAIN batch = 1 .. Len(batch) /\ r = batch[1]
        BY <1>1, LenProperties, HeadTailProperties DEF MailInv
      <4> QED
        BY <4>1 DEF SeqsIn
    <3>1. /\ Len(batch) \in Nat /\ batch' \in Seq(Answers)
          /\ Len(batch') = Len(batch) - 1
          /\ \A k \in 1 .. Len(batch') : batch'[k] = batch[k + 1]
      BY <1>1, LenProperties, HeadTailProperties DEF MailInv
    <3>2. i - 1 \in 1 .. Len(batch') /\ (i - 1) + 1 = i
      BY <3>1
    <3>3. i - 1 \in DOMAIN batch' /\ batch'[i - 1] = batch[i]
      BY <3>1, <3>2, LenProperties
    <3> QED
      BY <3>3 DEF SeqsIn
  <2>2. Unannounced' = pending' \cup SeqsIn(channel') \cup SeqsIn(batch')
    BY DEF Unannounced, SeqsIn
  <2> QED
    BY <1>1, <2>1, <2>2, UnannouncedIs
<1>4. ASSUME NEW s \in Scripts, Listens(s, r.seq)
      PROVE  s \in MadeFor(r.seq)'
  <2>1. PICK i \in 1 .. Len(Broadcast(r)) : Broadcast(r)[i].script = s
    BY <1>2, <1>4, BroadcastReaches
  <2> PICK q : q = calls'
    OBVIOUS
  <2>2. /\ q \in Seq(Calls) /\ \A k \in 1 .. Len(q) : q[k].seq = r.seq
        /\ DOMAIN q = 1 .. Len(q)
    <3>1. q \in Seq(Calls) /\ \A k \in 1 .. Len(q) : q[k].seq = r.seq
      <4>1. q = Broadcast(r) \o Named(r)
        BY <1>1
      <4> QED
        BY <1>2, <4>1, AnnouncedCalls, Zenon
    <3> QED
      BY <3>1, LenProperties
  <2>3. i \in 1 .. Len(q) /\ q[i] = Broadcast(r)[i]
    <3>1. Broadcast(r) \in Seq(Calls) /\ Named(r) \in Seq(Calls)
      <4>1. \A x \in Scripts : Call(x, r.seq, TRUE) \in Calls
        BY <1>2 DEF Call, Calls, Answers
      <4>2. << >> \in Seq(Calls) /\ \A x \in Calls : << x >> \in Seq(Calls)
        OBVIOUS
      <4>3. Named(r) \in Seq(Calls)
        <5> HIDE DEF Calls
        <5> QED
          BY <1>2, <4>1, <4>2, NamedIs, Zenon
      <4> QED
        BY <1>2, <4>3, BroadcastIs
    <3> PICK b, n : b = Broadcast(r) /\ n = Named(r)
      OBVIOUS
    <3>2. /\ Len(b) \in Nat /\ Len(n) \in Nat /\ Len(q) = Len(b) + Len(n)
          /\ \A k \in 1 .. Len(b) : q[k] = b[k]
      <4>1. b \in Seq(Calls) /\ n \in Seq(Calls) /\ q = b \o n
        BY <1>1, <3>1
      <4>2. /\ Len(q) = Len(b) + Len(n)
            /\ \A k \in 1 .. Len(b) + Len(n) :
                q[k] = IF k <= Len(b) THEN b[k] ELSE n[k - Len(b)]
        BY <4>1, ConcatProperties
      <4> QED
        BY <4>1, <4>2, LenProperties
    <3> QED
      BY <3>2
  <2>4. MadeFor(r.seq)' = { q[k].script : k \in { m \in DOMAIN q : q[m].seq = r.seq } }
    BY DEF MadeFor
  <2> QED
    BY <2>1, <2>2, <2>3, <2>4
<1>5. Range(calls) = {}
  BY <1>1 DEF Range
<1> QED
  BY <1>1, <1>3, <1>4, <1>5 DEF Forgets

LEMMA RunRemembers ==
    ASSUME PlayedInv, RunCall
    PROVE  ~Forgets
<1> TableTypes /\ MailInv /\ CallsInv
  BY DEF PlayedInv
<1> PICK c, t : c = Head(calls) /\ t = ran[c.seq]
  OBVIOUS
<1>1. /\ calls # << >> /\ calls' = Tail(calls)
      /\ ran' = [ran EXCEPT ![c.seq] = Append(t, c)]
      /\ UNCHANGED << accepted, pending, channel, batch >>
  BY DEF RunCall, promise
<1>2. Unannounced' = Unannounced
  BY <1>1 DEF Unannounced
<1>3. /\ c \in Calls /\ Len(calls) \in Nat \ {0} /\ calls[1] = c
      /\ Len(calls') = Len(calls) - 1 /\ calls' \in Seq(Calls)
      /\ \A i \in 1 .. Len(calls') : calls'[i] = calls[i + 1]
  BY <1>1, HeadTailProperties, LenProperties, EmptySeq DEF CallsInv
<1>4. c.seq \in 0 .. MaxJobs - 1 /\ t \in Seq(Calls)
  BY <1>3 DEF Calls, CallsInv
<1>5. Range(Append(t, c)) = Range(t) \cup {c}
  BY <1>3, <1>4, AppendRange
<1>6. /\ ran'[c.seq] = Append(t, c)
      /\ \A j \in 0 .. MaxJobs - 1 : j # c.seq => ran'[j] = ran[j]
  BY <1>1, <1>4 DEF CallsInv
<1>7. \A j \in 0 .. MaxJobs - 1 : Range(ran[j]) \subseteq Range(ran'[j])
  BY <1>5, <1>6
<1>8. ASSUME NEW d \in Range(calls)
      PROVE  d \in Range(calls') \/ d \in Range(ran'[d.seq])
  <2>1. PICK i \in 1 .. Len(calls) : calls[i] = d
    BY LenProperties DEF Range, CallsInv
  <2>2. CASE i = 1
    BY <1>3, <1>5, <1>6, <2>1, <2>2
  <2>3. CASE i # 1
    <3>1. i - 1 \in 1 .. Len(calls') /\ (i - 1) + 1 = i
      BY <1>3, <2>3
    <3>2. i - 1 \in DOMAIN calls' /\ calls'[i - 1] = d
      BY <1>3, <2>1, <3>1, LenProperties
    <3> QED
      BY <3>2 DEF Range
  <2> QED
    BY <2>2, <2>3
<1> QED
  BY <1>2, <1>7, <1>8 DEF Forgets

LEMMA ForgetsNone ==
    ASSUME PlayedInv, [PluginNext]_pluginVars
    PROVE  ~Forgets
<1> TableTypes /\ MailInv /\ CallsInv
  BY DEF PlayedInv
<1>1. Unannounced' = pending' \cup SeqsIn(channel') \cup SeqsIn(batch')
  BY DEF Unannounced, SeqsIn
<1>2. ASSUME Unannounced \subseteq Unannounced', UNCHANGED << calls, ran >>
      PROVE  ~Forgets
  BY <1>2 DEF Forgets
<1>3. CASE UNCHANGED << promise, turnVars >>
  BY <1>2, <1>3 DEF promise, turnVars, Unannounced
<1>4. CASE Accept /\ UNCHANGED turnVars
  BY <1>1, <1>2, <1>4, UnannouncedIs DEF Accept, turnVars
<1>5. CASE WorkerAnswers
  <2>1. PICK j \in pending, ok \in BOOLEAN : Answer(j, ok)
    BY <1>5 DEF WorkerAnswers
  <2> DEFINE r == [seq |-> j, ok |-> ok]
  <2>2. r \in Answers /\ r.seq = j
    BY UnannouncedIs, MailPromiseAssumption DEF MailInv, Answers
  <2>3. /\ pending' = pending \ {j} /\ channel' = Append(channel, r)
        /\ UNCHANGED << accepted, batch, calls, ran >>
    BY <1>5, <2>1 DEF Answer, WorkerAnswers, turn
  <2> HIDE DEF r
  <2>4. SeqsIn(channel') = SeqsIn(channel) \cup {j}
    BY <2>2, <2>3, SeqsAppend DEF MailInv
  <2>5. Unannounced \subseteq Unannounced'
    BY <1>1, <2>3, <2>4, UnannouncedIs
  <2> QED
    BY <1>2, <2>3, <2>5
<1>6. CASE OnTick
  <2>1. /\ batch = << >> /\ batch' = channel
        /\ UNCHANGED << accepted, pending, calls, ran >>
    BY <1>6 DEF OnTick, Collect, Idle
  <2>2. SeqsIn(batch) = {} /\ SeqsIn(batch') = SeqsIn(channel)
    BY <2>1 DEF SeqsIn
  <2>3. Unannounced \subseteq Unannounced'
    BY <1>1, <2>1, <2>2, UnannouncedIs
  <2> QED
    BY <1>2, <2>1, <2>3
<1> QED
  BY <1>3, <1>4, <1>5, <1>6, AnnounceReaches, RunRemembers, MailSteps

\* "Messages already handed to email_send still complete", as far as a step can
\* break it: between its submission and its callbacks no job is dropped, not
\* by the tick that takes the channel, not by natives called from a callback,
\* not by scripts that load and unload in between.  EveryListenerHears adds
\* that each of these steps is taken.
THEOREM NothingEverForgotten == PluginSpec => NothingForgotten
<1>1. TurnInv /\ [PluginNext]_pluginVars => ~Forgets
  BY ForgetsNone DEF TurnInv
<1> QED
  BY <1>1, TurnAlways, PTL DEF PluginSpec, NothingForgotten

-----------------------------------------------------------------------------
(* The plugin uses the send queue as MailPromise allows.                   *)

\* Whatever natives are called and whatever callbacks run, the plugin does to
\* the queue what MailPromise describes and nothing else: it adds jobs one at
\* a time, it takes the whole channel or nothing, and it never answers for a
\* worker.  With PromiseKept, of SendQueue, both sides of the interface obey
\* the one specification, so what is proved of each holds of the two together.
THEOREM PluginKeepsPromise == PluginSpec => PromiseSpec
<1>1. PluginInit => PromiseInit
  BY DEF PluginInit
<1>2. [PluginNext]_pluginVars => [PromiseNext]_promise
  <2> SUFFICES ASSUME [PluginNext]_pluginVars PROVE [PromiseNext]_promise
    OBVIOUS
  <2>1. WorkerAnswers => PromiseNext
    BY DEF WorkerAnswers, PromiseNext
  <2>2. OnTick => PromiseNext
    BY DEF OnTick, PromiseNext
  <2>3. Accept => PromiseNext
    BY DEF PromiseNext
  <2>4. Announce \/ RunCall => UNCHANGED promise
    BY DEF Announce, RunCall
  <2> QED
    BY <2>1, <2>2, <2>3, <2>4, MailSteps
<1> QED
  BY <1>1, <1>2, PTL DEF PluginSpec, PromiseSpec
=============================================================================
