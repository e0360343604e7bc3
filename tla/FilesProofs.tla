---------------------------- MODULE FilesProofs -----------------------------
(***************************************************************************)
(* Proofs about the files a mail is made from.  Of TemplateCache: whatever *)
(* is done to the files between the steps of a call, the text that is read *)
(* is that of a file that stood at the checked path, and what the cache    *)
(* answers is as new as the stamps can tell.  Of SandboxPath, as Texts     *)
(* asks it: a path that is accepted is the file the system would reach.    *)
(* Of TemplateText and VarFormat, as Texts asks them: each placeholder is  *)
(* filled once and in its place, whatever the value spells.                *)
(* Of ConfigText, as Texts asks it: a value that fits its style is read as *)
(* what it was, in a file and in a string.                                 *)
(***************************************************************************)
EXTENDS TemplateCache, Texts, SequenceLemmas

-----------------------------------------------------------------------------
(* Sequences of versions.                                                  *)

\* A set of positions has a last one.
LEMMA LastOfPositions ==
    ASSUME NEW n \in Nat, NEW I \in SUBSET (1 .. n), I # {}
    PROVE  Max(I) \in I /\ \A i \in I : Max(I) >= i
<1> DEFINE From(i) == { j \in 1 .. n : j >= i }
           T == { From(i) : i \in I }
<1>1. IsFiniteSet(1 .. n)
  BY FS_Interval
<1>2. T \subseteq FiniteSubsetsOf(1 .. n) /\ T # {}
  <2>1. \A i \in I : From(i) \subseteq 1 .. n /\ IsFiniteSet(From(i))
    BY <1>1, FS_Subset
  <2>2. FiniteSubsetsOf(1 .. n) = { U \in SUBSET (1 .. n) : IsFiniteSet(U) }
    BY DEF FiniteSubsetsOf
  <2> QED
    BY <2>1, <2>2
<1>3. PICK X \in T : \A Y \in T : << Y, X >> \notin StrictSubsetOrdering(1 .. n)
  BY <1>2, WFMin, FS_StrictSubsetOrderingWellFounded
<1>4. PICK m \in I : X = From(m)
  OBVIOUS
<1>5. ASSUME NEW i \in I PROVE m >= i
  <2> SUFFICES ASSUME i > m PROVE FALSE
    OBVIOUS
  <2>1. From(i) \subseteq From(m) /\ m \in From(m) /\ m \notin From(i)
    OBVIOUS
  <2>2. << From(i), X >> \in StrictSubsetOrdering(1 .. n)
    BY <1>4, <2>1 DEF StrictSubsetOrdering
  <2> QED
    BY <1>3, <2>2
<1> QED
  BY <1>5 DEF Max

\* The text that is read is the last one the file was given at the path: no
\* older than any version of it that the path led to.
LEMMA TextIsLast ==
    ASSUME NEW f, NEW p, Len(history[p]) \in Nat,
           NEW v \in 1 .. Len(history[p]), Named(f, p, v)
    PROVE  TextOf(f, p) \in v .. Len(history[p])
<1> DEFINE I == { i \in 1 .. Len(history[p]) :
                    history[p][i] # Gone /\ history[p][i].file = f }
<1>1. v \in I
  BY DEF Named
<1>2. TextOf(f, p) = Max(I)
  BY <1>1 DEF TextOf, SelectLastInSeq
<1> PICK n : n = Len(history[p])
  OBVIOUS
<1>3. n \in Nat /\ I \in SUBSET (1 .. n) /\ I # {}
  BY <1>1
<1> HIDE DEF I
<1>4. Max(I) \in I /\ Max(I) >= v
  BY <1>1, <1>3, LastOfPositions
<1>5. Max(I) \in 1 .. n
  BY <1>3, <1>4
<1> QED
  BY <1>2, <1>4, <1>5

-----------------------------------------------------------------------------
(* The types, and what a call knows at each of its steps.                  *)

Versions == Seen \cup {Gone}

\* A call before it saw a stamp, with one, with an open file, with its text.
Asking == [path : Paths, step : {"walking", "walked", "stat"}, asked : Nat]
Missing == [path : Paths, step : {"missed", "rewalking", "rewalked", "open"},
            asked : Nat, stamp : Stamps]
Opening == [path : Paths, step : {"opened", "read"}, asked : Nat,
            stamp : Stamps, file : Files]
Storing == [path : Paths, step : {"store"}, asked : Nat, stamp : Stamps,
            file : Files, version : Nat]

Calls == Asking \cup Missing \cup Opening \cup Storing

CacheTypes ==
    /\ history \in [Paths -> Seq(Versions)]
    /\ \A p \in Paths : history[p] # << >>
    /\ DOMAIN cache \subseteq Paths
    /\ call \in Calls \cup {NoCall}
    /\ cleared \in [Paths -> Nat]

\* The path showed this stamp at version v or before.
Stamped(p, v, stamp) ==
    \E old \in 1 .. v : history[p][old] # Gone /\ history[p][old].stamp = stamp

\* A call is asked after the last clear; the stamp it saw is older than the
\* file it opened, which is older than the text it read.
CallInv ==
    call # NoCall =>
        /\ call.asked \in 1 .. Version(call.path)
        /\ call.asked >= cleared[call.path]
        /\ call \in Missing \cup Opening =>
             Stamped(call.path, Version(call.path), call.stamp)
        /\ call.step \in {"opened", "read", "store"} =>
             \E v \in call.asked .. Version(call.path) :
                /\ Named(call.file, call.path, v)
                /\ Stamped(call.path, v, call.stamp)
        /\ Unix /\ call.step \in {"read", "store"} =>
             \E v \in call.asked .. Version(call.path) :
                Stood(call.file, call.path, v)
        /\ call.step = "store" =>
             /\ call.version \in call.asked .. Version(call.path)
             /\ Stamped(call.path, call.version, call.stamp)

\* An entry is no older than the stamp it carries, nor than the last clear.
EntriesInv ==
    \A p \in DOMAIN cache :
        /\ cache[p].version \in 1 .. Version(p)
        /\ cache[p].version >= cleared[p]
        /\ Stamped(p, cache[p].version, cache[p].stamp)

\* A stamp that the path showed at version v or before is one that it showed
\* at version n or after.
Repeated(p, v, n) ==
    \E old \in 1 .. v, new \in n .. Version(p) :
        /\ history[p][old] # Gone /\ history[p][new] # Gone
        /\ history[p][old].stamp = history[p][new].stamp

AnswerInv ==
    answer # NoAnswer =>
        /\ answer.path \in Paths
        /\ answer.version \in 1 .. Version(answer.path)
        /\ answer.asked \in 1 .. Version(answer.path)
        /\ answer.version < answer.asked =>
             Repeated(answer.path, answer.version, answer.asked)

ClearedInv == \A p \in Paths : cleared[p] \in 0 .. Version(p)

CacheInv == CacheTypes /\ CallInv /\ EntriesInv /\ AnswerInv /\ ClearedInv

LEMMA VersionType ==
    ASSUME CacheTypes, NEW p \in Paths
    PROVE  Version(p) \in Nat \ {0} /\ Now(p) = history[p][Version(p)]
BY EmptySeq DEF CacheTypes, Version, Now, Last

LEMMA CacheInvInit == CacheInit => CacheInv
<1> SUFFICES ASSUME CacheInit PROVE CacheInv
  OBVIOUS
<1>1. history \in [Paths -> Seq(Versions)] /\ \A p \in Paths : history[p] # << >>
  <2>1. \A s \in Versions : << s >> \in Seq(Versions) /\ << s >> # << >>
    OBVIOUS
  <2> QED
    BY <2>1 DEF CacheInit, Versions
<1>2. DOMAIN cache = {}
  BY DEF CacheInit
<1>3. CacheTypes
  BY <1>1, <1>2 DEF CacheInit, CacheTypes
<1>4. ClearedInv
  BY <1>3, VersionType DEF CacheInit, ClearedInv
<1> QED
  BY <1>2, <1>3, <1>4 DEF CacheInit, CacheInv, CallInv, EntriesInv, AnswerInv

\* A history only grows.
Grows ==
    \A p \in Paths :
        /\ Version(p) \in Nat \ {0} /\ Version(p)' \in Nat
        /\ Version(p) <= Version(p)'
        /\ \A v \in 1 .. Version(p) : history'[p][v] = history[p][v]

LEMMA EditGrows ==
    ASSUME CacheTypes, NEW p \in Paths, EditFile(p)
    PROVE  CacheTypes' /\ Grows
<1>1. PICK s \in Versions : history' = [history EXCEPT ![p] = Append(@, s)]
  BY DEF EditFile, Versions
<1>2. UNCHANGED << cache, call, answer, cleared >>
  BY DEF EditFile
<1> PICK h : h = history[p]
  OBVIOUS
<1>3. h \in Seq(Versions)
  BY DEF CacheTypes
<1>4. /\ Append(h, s) \in Seq(Versions) /\ Append(h, s) # << >>
      /\ Len(h) \in Nat /\ Len(Append(h, s)) = Len(h) + 1
      /\ \A v \in 1 .. Len(h) : Append(h, s)[v] = h[v]
  BY <1>3
<1>5. \A q \in Paths : history'[q] = IF q = p THEN Append(h, s) ELSE history[q]
  BY <1>1 DEF CacheTypes
<1>6. \A q \in Paths : Len(history[q]) \in Nat \ {0}
  BY EmptySeq DEF CacheTypes
<1>7. Grows
  <2> SUFFICES ASSUME NEW q \in Paths
               PROVE  /\ Len(history[q]) \in Nat \ {0}
                      /\ Len(history'[q]) \in Nat
                      /\ Len(history[q]) <= Len(history'[q])
                      /\ \A v \in 1 .. Len(history[q]) :
                            history'[q][v] = history[q][v]
    BY DEF Grows, Version
  <2>1. CASE q = p
    <3>1. history[q] = h /\ history'[q] = Append(h, s)
      BY <1>5, <2>1
    <3> QED
      BY <1>4, <1>6, <2>1, <3>1
  <2>2. CASE q # p
    <3>1. history'[q] = history[q]
      BY <1>5, <2>2
    <3> QED
      BY <1>6, <3>1
  <2> QED
    BY <2>1, <2>2
<1>8. /\ history' \in [Paths -> Seq(Versions)]
      /\ \A q \in Paths : history'[q] # << >>
  BY <1>1, <1>4, <1>5 DEF CacheTypes
<1> QED
  BY <1>2, <1>7, <1>8 DEF CacheTypes

\* What was seen stays seen.
LEMMA SeenStays ==
    ASSUME CacheTypes, Grows, NEW p \in Paths, NEW v \in 1 .. Version(p)
    PROVE  /\ v \in 1 .. Version(p)'
           /\ \A stamp : Stamped(p, v, stamp) => Stamped(p, v, stamp)'
           /\ \A f : Named(f, p, v) => Named(f, p, v)'
           /\ \A f : Stood(f, p, v) => Stood(f, p, v)'
<1>1. /\ Version(p) \in Nat /\ Version(p)' \in Nat
      /\ Version(p)' >= Version(p)
  BY DEF Grows
<1>2. \A u \in 1 .. v : history'[p][u] = history[p][u]
  BY <1>1 DEF Grows
<1>3. v \in 1 .. Version(p)'
  BY <1>1 DEF Version
<1>4. \A stamp : Stamped(p, v, stamp) => Stamped(p, v, stamp)'
  BY <1>2 DEF Stamped
<1>5. history'[p][v] = history[p][v]
  BY <1>1, <1>2
<1>6. \A f : Named(f, p, v) => Named(f, p, v)'
  BY ONLY <1>5 DEF Named
<1>7. \A f : Stood(f, p, v) => Stood(f, p, v)'
  BY ONLY <1>5, <1>6 DEF Stood
<1> QED
  BY <1>3, <1>4, <1>6, <1>7

LEMMA EditStep ==
    ASSUME CacheInv, NEW e \in Paths, EditFile(e)
    PROVE  CacheInv'
<1>1. CacheTypes /\ CacheTypes' /\ Grows
  BY EditGrows DEF CacheInv
<1>2. cache' = cache /\ call' = call /\ answer' = answer /\ cleared' = cleared
  BY DEF EditFile
<1>3. CallInv'
  <2> SUFFICES ASSUME call # NoCall PROVE CallInv'
    BY <1>2 DEF CallInv
  <2> PICK c, p : c = call /\ p = c.path
    OBVIOUS
  <2>1. p \in Paths /\ c \in Calls /\ c.asked \in Nat
    BY <1>1 DEF CacheTypes, Calls, Asking, Missing, Opening, Storing
  <2>2. /\ c.asked \in 1 .. Version(p) /\ c.asked >= cleared[p]
        /\ c \in Missing \cup Opening => Stamped(p, Version(p), c.stamp)
        /\ c.step \in {"opened", "read", "store"} =>
             \E v \in c.asked .. Version(p) :
                Named(c.file, p, v) /\ Stamped(p, v, c.stamp)
        /\ Unix /\ c.step \in {"read", "store"} =>
             \E v \in c.asked .. Version(p) : Stood(c.file, p, v)
        /\ c.step = "store" =>
             /\ c.version \in c.asked .. Version(p)
             /\ Stamped(p, c.version, c.stamp)
    BY DEF CacheInv, CallInv
  <2>3. Version(p) \in Nat \ {0} /\ Version(p)' \in Nat /\ Version(p)' >= Version(p)
    BY <1>1, <2>1 DEF Grows
  <2>4. c.asked \in 1 .. Version(p)'
    BY <2>1, <2>2, <2>3
  <2>5. c \in Missing \cup Opening => Stamped(p, Version(p), c.stamp)'
    <3> SUFFICES ASSUME c \in Missing \cup Opening
                 PROVE  Stamped(p, Version(p), c.stamp)'
      OBVIOUS
    <3>1. Stamped(p, Version(p), c.stamp)
      BY <2>2
    <3>2. PICK old \in 1 .. Version(p) :
            history[p][old] # Gone /\ history[p][old].stamp = c.stamp
      BY <3>1 DEF Stamped
    <3>3. history'[p][old] = history[p][old] /\ old \in 1 .. Version(p)'
      BY <1>1, <2>1, <2>3, <3>2 DEF Grows
    <3> QED
      BY <3>2, <3>3 DEF Stamped
  <2>6. c.step \in {"opened", "read", "store"} =>
          (\E v \in c.asked .. Version(p) :
              Named(c.file, p, v) /\ Stamped(p, v, c.stamp))'
    <3> SUFFICES ASSUME c.step \in {"opened", "read", "store"}
                 PROVE  \E v \in c.asked .. Version(p)' :
                          Named(c.file, p, v)' /\ Stamped(p, v, c.stamp)'
      BY <1>2
    <3>1. PICK v \in c.asked .. Version(p) :
            Named(c.file, p, v) /\ Stamped(p, v, c.stamp)
      BY <2>2
    <3>2. v \in 1 .. Version(p) /\ v \in c.asked .. Version(p)'
      BY <2>1, <2>2, <2>3, <3>1
    <3> QED
      BY <1>1, <2>1, <3>1, <3>2, SeenStays
  <2>8. Unix /\ c.step \in {"read", "store"} =>
          (\E v \in c.asked .. Version(p) : Stood(c.file, p, v))'
    <3> SUFFICES ASSUME Unix, c.step \in {"read", "store"}
                 PROVE  \E v \in c.asked .. Version(p)' : Stood(c.file, p, v)'
      BY <1>2
    <3>1. PICK v \in c.asked .. Version(p) : Stood(c.file, p, v)
      BY <2>2
    <3>2. v \in 1 .. Version(p) /\ v \in c.asked .. Version(p)'
      BY <2>1, <2>2, <2>3, <3>1
    <3> QED
      BY <1>1, <2>1, <3>1, <3>2, SeenStays
  <2>7. c.step = "store" =>
          /\ c.version \in c.asked .. Version(p)'
          /\ Stamped(p, c.version, c.stamp)'
    BY <1>1, <2>1, <2>2, <2>3, SeenStays
  <2> QED
    BY <1>2, <2>2, <2>4, <2>5, <2>6, <2>7, <2>8 DEF CallInv
<1>4. EntriesInv'
  <2>1. \A p \in DOMAIN cache : p \in Paths
    BY <1>1 DEF CacheTypes
  <2> QED
    BY <1>1, <1>2, <2>1, SeenStays DEF CacheInv, EntriesInv
<1>5. AnswerInv'
  <2> SUFFICES ASSUME answer # NoAnswer PROVE AnswerInv'
    BY <1>2 DEF AnswerInv
  <2> PICK a, p, v : a = answer /\ p = a.path /\ v = a.version
    OBVIOUS
  <2>1. /\ p \in Paths /\ v \in 1 .. Version(p) /\ a.asked \in 1 .. Version(p)
        /\ v < a.asked => Repeated(p, v, a.asked)
    BY DEF CacheInv, AnswerInv
  <2>2. /\ Version(p) \in Nat \ {0} /\ Version(p)' \in Nat
        /\ Version(p)' >= Version(p)
        /\ \A u \in 1 .. Version(p) : history'[p][u] = history[p][u]
    BY <1>1, <2>1 DEF Grows
  <2>3. v \in 1 .. Version(p)' /\ a.asked \in 1 .. Version(p)'
    BY <2>1, <2>2
  <2>4. ASSUME Repeated(p, v, a.asked)
        PROVE  Repeated(p, v, a.asked)'
    <3>1. PICK old \in 1 .. v, new \in a.asked .. Version(p) :
            /\ history[p][old] # Gone /\ history[p][new] # Gone
            /\ history[p][old].stamp = history[p][new].stamp
      BY <2>4 DEF Repeated
    <3>2. old \in 1 .. Version(p) /\ new \in 1 .. Version(p)
      BY <2>1, <2>2, <3>1
    <3>3. new \in a.asked .. Version(p)'
      BY <2>1, <2>2, <3>1
    <3> QED
      BY <1>2, <2>2, <3>1, <3>2, <3>3 DEF Repeated
  <2> QED
    BY <1>2, <2>1, <2>3, <2>4 DEF AnswerInv
<1>6. ClearedInv'
  BY <1>1, <1>2 DEF CacheInv, ClearedInv, CacheTypes, Grows
<1> QED
  BY <1>1, <1>3, <1>4, <1>5, <1>6 DEF CacheInv

-----------------------------------------------------------------------------
(* The steps of get.                                                       *)

LEMMA SameHistory ==
    ASSUME history' = history
    PROVE  /\ \A p : Version(p)' = Version(p) /\ Now(p)' = Now(p)
           /\ \A p, v, stamp : Stamped(p, v, stamp)' <=> Stamped(p, v, stamp)
           /\ \A p, v, f : Named(f, p, v)' <=> Named(f, p, v)
           /\ \A p, v, f : Stood(f, p, v)' <=> Stood(f, p, v)
           /\ \A p, v, n : Repeated(p, v, n)' <=> Repeated(p, v, n)
BY DEF Version, Now, Stamped, Named, Stood, Repeated

LEMMA OpenCall == call.step # "none" => call # NoCall
BY DEF NoCall

\* What a call that is open knows, field by field.
LEMMA CallFields ==
    ASSUME CacheInv, call # NoCall
    PROVE  /\ call \in Calls /\ call.path \in Paths
           /\ call.asked \in 1 .. Version(call.path)
           /\ call.asked >= cleared[call.path]
           /\ call.step \in {"walking", "walked", "stat"} => call \in Asking
           /\ call.step \in {"missed", "rewalking", "rewalked", "open"} =>
                call \in Missing
           /\ call.step \in {"opened", "read"} => call \in Opening
           /\ call.step = "store" => call \in Storing
           /\ Version(call.path) \in Nat \ {0}
<1>1. CacheTypes /\ call \in Calls
  BY DEF CacheInv, CacheTypes
<1>2. call.path \in Paths
  BY <1>1 DEF Calls, Asking, Missing, Opening, Storing
<1>3. /\ call.step \in {"walking", "walked", "stat"} => call \in Asking
      /\ call.step \in {"missed", "rewalking", "rewalked", "open"} =>
           call \in Missing
      /\ call.step \in {"opened", "read"} => call \in Opening
      /\ call.step = "store" => call \in Storing
  BY <1>1 DEF Calls, Asking, Missing, Opening, Storing
<1> QED
  BY <1>1, <1>2, <1>3, VersionType DEF CacheInv, CallInv

\* A call goes on: it keeps its path and its version asked.
LEMMA CallGoesOn ==
    ASSUME CacheInv, NEW c, call' = c, history' = history,
           UNCHANGED << cache, answer, cleared >>,
           c \in Calls, c # NoCall,
           c.asked \in 1 .. Version(c.path), c.asked >= cleared[c.path],
           c \in Missing \cup Opening => Stamped(c.path, Version(c.path), c.stamp),
           c.step \in {"opened", "read", "store"} =>
             \E v \in c.asked .. Version(c.path) :
                Named(c.file, c.path, v) /\ Stamped(c.path, v, c.stamp),
           Unix /\ c.step \in {"read", "store"} =>
             \E v \in c.asked .. Version(c.path) : Stood(c.file, c.path, v),
           c.step = "store" =>
             /\ c.version \in c.asked .. Version(c.path)
             /\ Stamped(c.path, c.version, c.stamp)
    PROVE  CacheInv'
<1>1. CacheTypes'
  BY DEF CacheInv, CacheTypes
<1>2. CallInv'
  BY SameHistory DEF CallInv
<1>3. EntriesInv' /\ AnswerInv' /\ ClearedInv'
  BY SameHistory DEF CacheInv, EntriesInv, AnswerInv, ClearedInv
<1> QED
  BY <1>1, <1>2, <1>3 DEF CacheInv

\* A call ends, with the answer it had or a new one.
LEMMA CallEnds ==
    ASSUME CacheInv, call' = NoCall, history' = history,
           CacheTypes', EntriesInv', AnswerInv', ClearedInv'
    PROVE  CacheInv'
BY DEF CacheInv, CallInv

LEMMA GetStep ==
    ASSUME CacheInv, NEW p \in Paths, Get(p)
    PROVE  CacheInv'
<1> PICK c : c = [path |-> p, step |-> "walking", asked |-> Version(p)]
  OBVIOUS
<1>1. call' = c /\ history' = history /\ UNCHANGED << cache, answer, cleared >>
  BY DEF Get
<1>2. Version(p) \in Nat \ {0}
  BY VersionType DEF CacheInv
<1>3. c \in Asking /\ c # NoCall /\ c.step = "walking" /\ c.path = p
  BY <1>2 DEF Asking, NoCall
<1>4. c \notin Missing \cup Opening
  BY <1>3 DEF Missing, Opening
<1>5. c.asked \in 1 .. Version(c.path) /\ c.asked >= cleared[c.path]
  BY <1>2, <1>3 DEF CacheInv, ClearedInv
<1> QED
  BY <1>1, <1>3, <1>4, <1>5, CallGoesOn DEF Calls

LEMMA WalkAgainStep ==
    ASSUME CacheInv, WalkAgain
    PROVE  CacheInv'
<1> PICK c : c = [call EXCEPT !.step = "rewalking"]
  OBVIOUS
<1>1. /\ call' = c /\ history' = history /\ UNCHANGED << cache, answer, cleared >>
      /\ call.step = "missed" /\ call # NoCall
  BY OpenCall DEF WalkAgain
<1>2. call \in Missing
  BY <1>1, CallFields
<1>3. /\ c \in Missing /\ c # NoCall /\ c.path = call.path
      /\ c.asked = call.asked /\ c.stamp = call.stamp /\ c.step = "rewalking"
  BY <1>2 DEF Missing, NoCall
<1>4. Stamped(call.path, Version(call.path), call.stamp)
  BY <1>1, <1>2 DEF CacheInv, CallInv
<1> QED
  BY <1>1, <1>3, <1>4, CallFields, CallGoesOn DEF Calls

LEMMA WalkEndsStep ==
    ASSUME CacheInv, WalkEnds
    PROVE  CacheInv'
<1>1. history' = history /\ UNCHANGED << cache, answer, cleared >>
  BY DEF WalkEnds
<1>2. CASE call.step = "walking" /\ call' = [call EXCEPT !.step = "walked"]
  <2> PICK c : c = [call EXCEPT !.step = "walked"]
    OBVIOUS
  <2>1. call # NoCall /\ call \in Asking
    BY <1>2, OpenCall, CallFields
  <2>2. /\ c \in Asking /\ c # NoCall /\ c.path = call.path
        /\ c.asked = call.asked /\ c.step = "walked"
    BY <2>1 DEF Asking, NoCall
  <2>3. c \notin Missing \cup Opening
    BY <2>2 DEF Missing, Opening
  <2> QED
    BY <1>1, <1>2, <2>1, <2>2, <2>3, CallFields, CallGoesOn DEF Calls
<1>3. CASE call.step = "rewalking" /\ call' = [call EXCEPT !.step = "rewalked"]
  <2> PICK c : c = [call EXCEPT !.step = "rewalked"]
    OBVIOUS
  <2>1. call # NoCall /\ call \in Missing
    BY <1>3, OpenCall, CallFields
  <2>2. /\ c \in Missing /\ c # NoCall /\ c.path = call.path
        /\ c.asked = call.asked /\ c.stamp = call.stamp
        /\ c.step = "rewalked"
    BY <2>1 DEF Missing, NoCall
  <2>3. Stamped(call.path, Version(call.path), call.stamp)
    BY <2>1 DEF CacheInv, CallInv
  <2> QED
    BY <1>1, <1>3, <2>1, <2>2, <2>3, CallFields, CallGoesOn DEF Calls
<1> QED
  BY <1>2, <1>3 DEF WalkEnds

LEMMA IsFileStillStep ==
    ASSUME CacheInv, IsFileStill
    PROVE  CacheInv'
<1>1. history' = history /\ UNCHANGED << cache, answer, cleared >>
  BY DEF IsFileStill
<1>2. CASE call.step = "walked" /\ call' = [call EXCEPT !.step = "stat"]
  <2> PICK c : c = [call EXCEPT !.step = "stat"]
    OBVIOUS
  <2>1. call # NoCall /\ call \in Asking
    BY <1>2, OpenCall, CallFields
  <2>2. /\ c \in Asking /\ c # NoCall /\ c.path = call.path
        /\ c.asked = call.asked /\ c.step = "stat"
    BY <2>1 DEF Asking, NoCall
  <2>3. c \notin Missing \cup Opening
    BY <2>2 DEF Missing, Opening
  <2> QED
    BY <1>1, <1>2, <2>1, <2>2, <2>3, CallFields, CallGoesOn DEF Calls
<1>3. CASE call.step = "rewalked" /\ call' = [call EXCEPT !.step = "open"]
  <2> PICK c : c = [call EXCEPT !.step = "open"]
    OBVIOUS
  <2>1. call # NoCall /\ call \in Missing
    BY <1>3, OpenCall, CallFields
  <2>2. /\ c \in Missing /\ c # NoCall /\ c.path = call.path
        /\ c.asked = call.asked /\ c.stamp = call.stamp /\ c.step = "open"
    BY <2>1 DEF Missing, NoCall
  <2>3. Stamped(call.path, Version(call.path), call.stamp)
    BY <2>1 DEF CacheInv, CallInv
  <2> QED
    BY <1>1, <1>3, <2>1, <2>2, <2>3, CallFields, CallGoesOn DEF Calls
<1> QED
  BY <1>2, <1>3 DEF IsFileStill

\* The stamp is the one that the path shows.
LEMMA StatStep ==
    ASSUME CacheInv, Stat
    PROVE  CacheInv'
<1> PICK p, v, c : /\ p = call.path /\ v = Version(p)
                   /\ c = [path |-> p, step |-> "missed", asked |-> call.asked,
                           stamp |-> Now(p).stamp]
  OBVIOUS
<1>1. /\ call' = c /\ history' = history /\ UNCHANGED << cache, answer, cleared >>
      /\ call.step = "stat" /\ call # NoCall /\ Now(p) # Gone
  BY OpenCall DEF Stat, IsFile
<1>2. /\ p \in Paths /\ call.asked \in 1 .. v /\ call.asked >= cleared[p]
      /\ v \in Nat \ {0} /\ Now(p) = history[p][v]
  BY <1>1, CallFields, VersionType DEF CacheInv
<1>3. Now(p) \in Seen
  BY <1>1, <1>2 DEF CacheInv, CacheTypes, Versions, Version
<1>4. /\ c \in Missing /\ c # NoCall /\ c.path = p /\ c.asked = call.asked
      /\ c.stamp = Now(p).stamp /\ c.step = "missed"
  BY <1>2, <1>3 DEF Missing, Seen, NoCall
<1>5. Stamped(p, v, Now(p).stamp)
  BY <1>1, <1>2 DEF Stamped
<1> QED
  BY <1>1, <1>2, <1>4, <1>5, CallGoesOn DEF Calls

LEMMA OpenStep ==
    ASSUME CacheInv, Open
    PROVE  CacheInv'
<1> PICK p, v, c : /\ p = call.path /\ v = Version(p)
                   /\ c = [path |-> p, step |-> "opened", asked |-> call.asked,
                           stamp |-> call.stamp, file |-> Now(p).file]
  OBVIOUS
<1>1. /\ call' = c /\ history' = history /\ UNCHANGED << cache, answer, cleared >>
      /\ call.step = "open" /\ call # NoCall /\ Now(p) # Gone
  BY OpenCall DEF Open, IsFile
<1>2. /\ p \in Paths /\ call.asked \in 1 .. v /\ call.asked >= cleared[p]
      /\ v \in Nat \ {0} /\ Now(p) = history[p][v] /\ call \in Missing
  BY <1>1, CallFields, VersionType DEF CacheInv
<1>3. Now(p) \in Seen
  BY <1>1, <1>2 DEF CacheInv, CacheTypes, Versions, Version
<1>4. /\ c \in Opening /\ c # NoCall /\ c.path = p /\ c.asked = call.asked
      /\ c.stamp = call.stamp /\ c.step = "opened"
  BY <1>2, <1>3 DEF Opening, Missing, Seen, NoCall
<1>5. Stamped(p, v, call.stamp)
  BY <1>1, <1>2 DEF CacheInv, CallInv
<1>6. c.file = Now(p).file /\ v \in call.asked .. v
  BY <1>2
<1>7. Named(c.file, p, v)
  BY <1>1, <1>2, <1>6 DEF Named
<1> QED
  BY <1>1, <1>2, <1>4, <1>5, <1>6, <1>7, CallGoesOn DEF Calls

\* On Unix the file that was opened stands at the path now.
LEMMA CompareStep ==
    ASSUME CacheInv, Compare
    PROVE  CacheInv'
<1> PICK p, v, c : /\ p = call.path /\ v = Version(p)
                   /\ c = [call EXCEPT !.step = "read"]
  OBVIOUS
<1>1. /\ call' = c /\ history' = history /\ UNCHANGED << cache, answer, cleared >>
      /\ call.step = "opened" /\ call # NoCall
      /\ Unix => Stood(call.file, p, v)
  BY OpenCall DEF Compare, SameFile
<1>2. /\ p \in Paths /\ call.asked \in 1 .. v /\ call.asked >= cleared[p]
      /\ v \in Nat \ {0} /\ call \in Opening
  BY <1>1, CallFields DEF CacheInv
<1>3. /\ c \in Opening /\ c # NoCall /\ c.path = p /\ c.asked = call.asked
      /\ c.stamp = call.stamp /\ c.file = call.file /\ c.step = "read"
  BY <1>2 DEF Opening, NoCall
<1>4. /\ Stamped(p, v, call.stamp)
      /\ \E u \in call.asked .. v : Named(call.file, p, u) /\ Stamped(p, u, call.stamp)
  BY <1>1, <1>2 DEF CacheInv, CallInv
<1>5. v \in call.asked .. v
  BY <1>2
<1>6. Unix => \E u \in call.asked .. v : Stood(call.file, p, u)
  BY <1>1, <1>5
<1> QED
  BY <1>1, <1>2, <1>3, <1>4, <1>6, CallGoesOn DEF Calls

\* The text is that of the file which the path led to, or newer.
LEMMA ReadingStep ==
    ASSUME CacheInv, Reading
    PROVE  CacheInv'
<1> PICK p, t, c : /\ p = call.path /\ t = TextOf(call.file, p)
                   /\ c = [path |-> p, step |-> "store", asked |-> call.asked,
                           stamp |-> call.stamp, file |-> call.file,
                           version |-> t]
  OBVIOUS
<1>1. /\ call' = c /\ history' = history /\ UNCHANGED << cache, answer, cleared >>
      /\ call.step = "read" /\ call # NoCall
  BY OpenCall DEF Reading
<1>2. /\ p \in Paths /\ call.asked \in 1 .. Version(p)
      /\ call.asked >= cleared[p]
      /\ Version(p) \in Nat \ {0} /\ call \in Opening
  BY <1>1, CallFields
<1>3. PICK v \in call.asked .. Version(p) :
        Named(call.file, p, v) /\ Stamped(p, v, call.stamp)
  BY <1>1 DEF CacheInv, CallInv
<1>4. v \in 1 .. Version(p)
  BY <1>2, <1>3
<1>5. t \in v .. Version(p)
  BY <1>2, <1>3, <1>4, TextIsLast DEF Version
<1>6. t \in call.asked .. Version(p) /\ t \in Nat
  BY <1>2, <1>3, <1>5
<1>7. Stamped(p, t, call.stamp)
  <2>1. \A old \in 1 .. v : old \in 1 .. t
    BY <1>4, <1>5
  <2> QED
    BY <1>3, <2>1 DEF Stamped
<1>8. /\ c \in Storing /\ c # NoCall /\ c.path = p /\ c.asked = call.asked
      /\ c.stamp = call.stamp /\ c.file = call.file /\ c.step = "store"
      /\ c.version = t
  BY <1>2, <1>6 DEF Opening, Storing, NoCall
<1>9. c \notin Missing \cup Opening
  BY <1>8 DEF Missing, Opening
<1>10. Unix => \E u \in call.asked .. Version(p) : Stood(call.file, p, u)
  BY <1>1 DEF CacheInv, CallInv
<1> QED
  BY <1>1, <1>2, <1>3, <1>6, <1>7, <1>8, <1>9, <1>10, CallGoesOn DEF Calls

LEMMA GetFailsStep ==
    ASSUME CacheInv, GetFails
    PROVE  CacheInv'
<1>1. /\ call' = NoCall /\ history' = history
      /\ UNCHANGED << cache, answer, cleared >>
  BY DEF GetFails
<1>2. CacheTypes'
  BY <1>1 DEF CacheInv, CacheTypes
<1>3. EntriesInv' /\ AnswerInv' /\ ClearedInv'
  BY <1>1, SameHistory DEF CacheInv, EntriesInv, AnswerInv, ClearedInv
<1> QED
  BY <1>1, <1>2, <1>3, CallEnds

\* The stamp that matches was seen at the entry's version or before, and is
\* the one of the file as it is.
LEMMA HitStep ==
    ASSUME CacheInv, Hit
    PROVE  /\ CacheInv'
           /\ answer'.version >= cleared[answer'.path]
<1> PICK p, v, e : p = call.path /\ v = Version(p) /\ e = cache[p].version
  OBVIOUS
<1>1. /\ call' = NoCall /\ history' = history /\ cache' = cache
      /\ cleared' = cleared
      /\ answer' = [path |-> p, asked |-> call.asked, version |-> e]
      /\ call # NoCall /\ Now(p) # Gone
      /\ p \in DOMAIN cache /\ cache[p].stamp = Now(p).stamp
  BY OpenCall DEF Hit, Answered, IsFile, Matches
<1>2. /\ p \in Paths /\ call.asked \in 1 .. v /\ v \in Nat \ {0}
      /\ Now(p) = history[p][v]
  BY <1>1, CallFields, VersionType DEF CacheInv
<1>3. /\ e \in 1 .. v /\ e >= cleared[p]
      /\ Stamped(p, e, Now(p).stamp)
  BY <1>1 DEF CacheInv, EntriesInv
<1>4. Repeated(p, e, call.asked)
  <2>1. PICK old \in 1 .. e :
          history[p][old] # Gone /\ history[p][old].stamp = Now(p).stamp
    BY <1>3 DEF Stamped
  <2>2. v \in call.asked .. Version(p)
    BY <1>2
  <2> QED
    BY <1>1, <1>2, <2>1, <2>2 DEF Repeated
<1>5. AnswerInv'
  BY <1>1, <1>2, <1>3, <1>4, SameHistory DEF AnswerInv
<1>6. CacheTypes'
  BY <1>1 DEF CacheInv, CacheTypes
<1>7. EntriesInv' /\ ClearedInv'
  BY <1>1, SameHistory DEF CacheInv, EntriesInv, ClearedInv
<1>8. CacheInv'
  BY <1>1, <1>5, <1>6, <1>7, CallEnds
<1> QED
  BY <1>1, <1>3, <1>8

LEMMA StoreStep ==
    ASSUME CacheInv, Store
    PROVE  /\ CacheInv'
           /\ answer'.version >= cleared[answer'.path]
<1> PICK p, t : p = call.path /\ t = call.version
  OBVIOUS
<1>1. /\ call' = NoCall /\ history' = history /\ cleared' = cleared
      /\ answer' = [path |-> p, asked |-> call.asked, version |-> t]
      /\ cache' = [q \in DOMAIN cache \cup {p} |->
                      IF q = p THEN Entry ELSE cache[q]]
      /\ call # NoCall /\ call.step = "store"
  BY OpenCall DEF Store, Answered
<1>2. /\ p \in Paths /\ call.asked \in 1 .. Version(p)
      /\ call.asked >= cleared[p]
      /\ Version(p) \in Nat \ {0} /\ call \in Storing
  BY <1>1, CallFields
<1>3. /\ t \in call.asked .. Version(p) /\ Stamped(p, t, call.stamp)
      /\ cleared[p] \in Nat
  BY <1>1, <1>2 DEF CacheInv, CallInv, CacheTypes
<1>4. t \in 1 .. Version(p) /\ t >= cleared[p] /\ ~(t < call.asked)
  BY <1>2, <1>3
<1>5. /\ DOMAIN cache' = DOMAIN cache \cup {p}
      /\ cache'[p].version = t /\ cache'[p].stamp = call.stamp
      /\ \A q \in DOMAIN cache : q # p => cache'[q] = cache[q]
  BY <1>1 DEF Entry
<1>6. EntriesInv'
  <2> SUFFICES ASSUME NEW q \in DOMAIN cache'
               PROVE  (/\ cache[q].version \in 1 .. Version(q)
                       /\ cache[q].version >= cleared[q]
                       /\ Stamped(q, cache[q].version, cache[q].stamp))'
    BY DEF EntriesInv
  <2>1. CASE q = p
    BY <1>1, <1>3, <1>4, <1>5, <2>1, SameHistory
  <2>2. CASE q # p
    <3>1. q \in DOMAIN cache /\ cache'[q] = cache[q]
      BY <1>5, <2>2
    <3> QED
      BY <1>1, <3>1, SameHistory DEF CacheInv, EntriesInv
  <2> QED
    BY <2>1, <2>2
<1>7. AnswerInv'
  BY <1>1, <1>2, <1>4, SameHistory DEF AnswerInv
<1>8. CacheTypes' /\ ClearedInv'
  BY <1>1, <1>2, <1>5, SameHistory DEF CacheInv, CacheTypes, ClearedInv
<1>9. CacheInv'
  BY <1>1, <1>6, <1>7, <1>8, CallEnds
<1> QED
  BY <1>1, <1>4, <1>9

LEMMA ClearStep ==
    ASSUME CacheInv, Clear
    PROVE  CacheInv'
<1>1. /\ call' = NoCall /\ history' = history /\ answer' = answer
      /\ DOMAIN cache' = {} /\ cleared' = [p \in Paths |-> Version(p)]
  BY DEF Clear, Dropped
<1>2. CacheTypes' /\ ClearedInv'
  BY <1>1, VersionType, SameHistory DEF CacheInv, CacheTypes, ClearedInv
<1>3. EntriesInv' /\ AnswerInv'
  BY <1>1, SameHistory DEF CacheInv, EntriesInv, AnswerInv
<1> QED
  BY <1>1, <1>2, <1>3, CallEnds

LEMMA CacheStep ==
    ASSUME CacheInv, [CacheNext]_cacheVars
    PROVE  CacheInv'
<1>1. CASE UNCHANGED cacheVars
  <2>1. /\ CacheTypes' /\ call' = call /\ history' = history
        /\ cache' = cache /\ answer' = answer /\ cleared' = cleared
    BY <1>1 DEF cacheVars, CacheInv, CacheTypes
  <2> QED
    BY <2>1, SameHistory
    DEF CacheInv, CallInv, EntriesInv, AnswerInv, ClearedInv
<1> QED
  BY <1>1, EditStep, GetStep, WalkAgainStep, WalkEndsStep, IsFileStillStep,
     GetFailsStep, HitStep, StatStep, OpenStep, CompareStep, ReadingStep, StoreStep, ClearStep
  DEF CacheNext

LEMMA CacheInvAlways == CacheSpec => []CacheInv
<1>1. CacheInv /\ [CacheNext]_cacheVars => CacheInv'
  BY CacheStep
<1> QED
  BY <1>1, CacheInvInit, PTL DEF CacheSpec

-----------------------------------------------------------------------------
(* What follows.                                                           *)

\* Whatever is put at the path between the walk, the open and the read, the
\* text that is read on Unix is that of a file which was itself the last part of
\* the path, not behind a link there, at some moment of the call; elsewhere, of
\* one that the path led to during the call.
THEOREM ReadAlwaysChecked == CacheSpec => []ReadIsChecked
<1>1. CacheInv => ReadIsChecked
  BY OpenCall DEF CacheInv, CallInv, ReadIsChecked
<1> QED
  BY <1>1, CacheInvAlways, PTL

\* get returns a text at least as new as the file was when it was called,
\* unless the file was given a stamp that it had had before.
THEOREM AlwaysFreshUnlessStampRepeats == CacheSpec => []FreshUnlessStampRepeats
<1>1. CacheInv => FreshUnlessStampRepeats
  BY DEF CacheInv, AnswerInv, Repeated, Version, FreshUnlessStampRepeats
<1> QED
  BY <1>1, CacheInvAlways, PTL

\* After email_force_reload_templates no get returns a text older than the
\* file was at that moment, whatever its stamp says.
THEOREM ClearAlwaysForcesRead == CacheSpec => ClearForcesRead
<1>1. ASSUME CacheInv, [CacheNext]_cacheVars, answer' # answer
      PROVE  answer'.version >= cleared[answer'.path]
  <2>1. Hit \/ Store
    BY <1>1 DEF CacheNext, EditFile, Get, WalkAgain, WalkEnds, IsFileStill,
                GetFails, Stat, Open, Compare, Reading, Clear, cacheVars
  <2> QED
    BY <1>1, <2>1, HitStep, StoreStep
<1>2. CacheInv /\ [CacheNext]_cacheVars
        => [answer' # answer => answer'.version >= cleared[answer'.path]]_cacheVars
  BY <1>1
<1> QED
  BY <1>2, CacheInvAlways, PTL DEF CacheSpec, ClearForcesRead

-----------------------------------------------------------------------------
(* A path, part by part.                                                   *)

Components == Names \cup { ".", ".." }

\* What the recursive functions of Normalize and LeadsTo are asked to be.
Normalizes(f, s, n) ==
    f = [i \in 0 .. n |-> IF i = 0 THEN << >> ELSE Step(f[i - 1], s[i])]

Leads(f, s, n) ==
    f = [i \in 0 .. n |-> IF i = 0 THEN << >> ELSE Follow(f[i - 1], s[i])]

LEMMA NormalizesExist ==
    ASSUME NEW s, NEW n \in Nat
    PROVE  \E f : Normalizes(f, s, n)
<1> DEFINE T == { k \in Nat : \E f : Normalizes(f, s, k) }
<1>1. 0 \in T
  <2> DEFINE f == [i \in 0 .. 0 |-> << >>]
  <2>1. Normalizes(f, s, 0)
    BY DEF Normalizes
  <2> QED
    BY <2>1
<1>2. ASSUME NEW k \in T PROVE k + 1 \in T
  <2>1. PICK f : Normalizes(f, s, k)
    BY <1>2
  <2> DEFINE g == [i \in 0 .. k + 1 |-> IF i = 0 THEN << >> ELSE Step(f[i - 1], s[i])]
  <2>2. ASSUME NEW i \in 0 .. k PROVE g[i] = f[i]
    <3>1. i \in 0 .. k + 1
      OBVIOUS
    <3>2. f[i] = IF i = 0 THEN << >> ELSE Step(f[i - 1], s[i])
      BY <2>1, Zenon DEF Normalizes
    <3> QED
      BY <3>1, <3>2, Zenon
  <2>3. \A i \in 0 .. k + 1 : i # 0 => i - 1 \in 0 .. k
    OBVIOUS
  <2>4. Normalizes(g, s, k + 1)
    BY <2>2, <2>3, Zenon DEF Normalizes
  <2> QED
    BY <2>4
<1> QED
  BY <1>1, <1>2, NumbersInduction

LEMMA LeadsExist ==
    ASSUME NEW s, NEW n \in Nat
    PROVE  \E f : Leads(f, s, n)
<1> DEFINE T == { k \in Nat : \E f : Leads(f, s, k) }
<1>1. 0 \in T
  <2> DEFINE f == [i \in 0 .. 0 |-> << >>]
  <2>1. Leads(f, s, 0)
    BY DEF Leads
  <2> QED
    BY <2>1
<1>2. ASSUME NEW k \in T PROVE k + 1 \in T
  <2>1. PICK f : Leads(f, s, k)
    BY <1>2
  <2> DEFINE g == [i \in 0 .. k + 1 |-> IF i = 0 THEN << >> ELSE Follow(f[i - 1], s[i])]
  <2>2. ASSUME NEW i \in 0 .. k PROVE g[i] = f[i]
    <3>1. i \in 0 .. k + 1
      OBVIOUS
    <3>2. f[i] = IF i = 0 THEN << >> ELSE Follow(f[i - 1], s[i])
      BY <2>1, Zenon DEF Leads
    <3> QED
      BY <3>1, <3>2, Zenon
  <2>3. \A i \in 0 .. k + 1 : i # 0 => i - 1 \in 0 .. k
    OBVIOUS
  <2>4. Leads(g, s, k + 1)
    BY <2>2, <2>3, Zenon DEF Leads
  <2> QED
    BY <2>4
<1> QED
  BY <1>1, <1>2, NumbersInduction

\* From the root of the disk to where the parts lead.
LEMMA NormalizeSteps ==
    ASSUME NEW s \in Seq(Components)
    PROVE  \E f : /\ f[0] = << >> /\ Normalize(s) = f[Len(s)]
                  /\ \A i \in 1 .. Len(s) : f[i] = Step(f[i - 1], s[i])
<1> DEFINE f == CHOOSE g : Normalizes(g, s, Len(s))
<1>1. Len(s) \in Nat
  BY LenProperties
<1>2. Normalizes(f, s, Len(s))
  BY <1>1, NormalizesExist
<1>3. Normalize(s) = f[Len(s)]
  BY DEF Normalize, Normalizes
<1> HIDE DEF f
<1>4. f[0] = << >>
  BY <1>1, <1>2 DEF Normalizes
<1>5. ASSUME NEW i \in 1 .. Len(s) PROVE f[i] = Step(f[i - 1], s[i])
  <2>1. i \in 0 .. Len(s) /\ i # 0
    BY <1>1
  <2> QED
    BY <1>2, <2>1, Zenon DEF Normalizes
<1> QED
  BY <1>3, <1>4, <1>5

LEMMA LeadsSteps ==
    ASSUME NEW path, Joined(path) \in Seq(Components)
    PROVE  \E f : /\ f[0] = << >> /\ LeadsTo(path) = f[Len(Joined(path))]
                  /\ \A i \in 1 .. Len(Joined(path)) :
                        f[i] = Follow(f[i - 1], Joined(path)[i])
<1> DEFINE f == CHOOSE g : Leads(g, Joined(path), Len(Joined(path)))
<1>1. Len(Joined(path)) \in Nat
  BY LenProperties
<1>2. Leads(f, Joined(path), Len(Joined(path)))
  BY <1>1, LeadsExist
<1>3. LeadsTo(path) = f[Len(Joined(path))]
  BY DEF LeadsTo, Leads
<1> HIDE DEF f
<1>4. f[0] = << >>
  BY <1>1, <1>2 DEF Leads
<1>5. ASSUME NEW i \in 1 .. Len(Joined(path))
      PROVE  f[i] = Follow(f[i - 1], Joined(path)[i])
  <2>1. i \in 0 .. Len(Joined(path)) /\ i # 0
    BY <1>1
  <2> QED
    BY <1>2, <2>1, Zenon DEF Leads
<1> QED
  BY <1>3, <1>4, <1>5

LEMMA FrontNames ==
    ASSUME NEW X, NEW p \in Seq(X), p # << >>
    PROVE  /\ Len(p) - 1 \in 0 .. Len(p) /\ Front(p) = Cut(p, Len(p) - 1)
           /\ Front(p) \in Seq(X) /\ Len(Front(p)) = Len(p) - 1
<1>1. Len(p) - 1 \in 0 .. Len(p)
  BY EmptySeq, LenProperties
<1>2. Front(p) = Cut(p, Len(p) - 1)
  BY DEF Front, Cut
<1> QED
  BY <1>1, <1>2, CutFacts

\* A step of the arithmetic leads to names, dots and all.
LEMMA StepNames ==
    ASSUME NEW p \in Seq(Names), NEW c \in Components
    PROVE  Step(p, c) \in Seq(Names)
<1>1. CASE c = "."
  BY <1>1 DEF Step
<1>2. CASE c = ".."
  BY <1>2, FrontNames DEF Step
<1>3. CASE c \notin { ".", ".." }
  <2>1. c \in Names /\ Step(p, c) = Append(p, c)
    BY <1>3 DEF Step, Components
  <2> QED
    BY <2>1, AppendProperties
<1> QED
  BY <1>1, <1>2, <1>3

LEMMA NormalizeNames ==
    ASSUME NEW s \in Seq(Components)
    PROVE  Normalize(s) \in Seq(Names)
<1>1. PICK f : /\ f[0] = << >> /\ Normalize(s) = f[Len(s)]
               /\ \A i \in 1 .. Len(s) : f[i] = Step(f[i - 1], s[i])
  BY NormalizeSteps
<1> PICK n : n = Len(s)
  OBVIOUS
<1>2. n \in Nat /\ \A i \in 1 .. n : s[i] \in Components
  BY ElementOfSeq, LenProperties
<1> DEFINE T == { k \in Nat : k <= n => f[k] \in Seq(Names) }
<1>3. 0 \in T
  <2>1. << >> \in Seq(Names)
    BY EmptySeq
  <2> QED
    BY <1>1, <2>1
<1>4. ASSUME NEW k \in T PROVE k + 1 \in T
  <2> k + 1 \in Nat
    OBVIOUS
  <2> SUFFICES ASSUME k + 1 <= n PROVE f[k + 1] \in Seq(Names)
    OBVIOUS
  <2>1. k + 1 \in 1 .. n /\ (k + 1) - 1 = k /\ k <= n
    BY <1>2
  <2>2. f[k] \in Seq(Names) /\ f[k + 1] = Step(f[k], s[k + 1])
    BY <1>1, <2>1
  <2> QED
    BY <1>2, <2>1, <2>2, StepNames
<1>5. T = Nat
  <2> HIDE DEF T
  <2>1. T \in SUBSET Nat
    BY DEF T
  <2> QED
    BY <1>3, <1>4, <2>1, NumbersInduction
<1> QED
  BY <1>1, <1>2, <1>5

-----------------------------------------------------------------------------
(* The way to a path.                                                      *)

\* Everything on the way is there, and no link.
Passable(p) ==
    /\ p \in Seq(Names)
    /\ \A n \in 0 .. Len(p) : Found(Cut(p, n)) /\ Disk[Cut(p, n)].kind # "link"

LEMMA PassableIsThere ==
    ASSUME NEW p, Passable(p)
    PROVE  p \in DOMAIN Disk /\ Disk[p].kind # "link" /\ p # Nowhere
<1>1. p \in Seq(Names) /\ Len(p) \in 0 .. Len(p)
  BY LenProperties DEF Passable
<1>2. Cut(p, Len(p)) = p
  BY <1>1, CutWhole
<1>3. p \in DOMAIN Disk /\ Disk[p].kind # "link"
  BY <1>1, <1>2 DEF Passable, Found
<1> QED
  BY <1>3, TextAssumption DEF Nowhere

LEMMA PassableStart == Passable(<< >>)
<1>1. << >> \in Seq(Names) /\ Len(<< >>) = 0
  BY EmptySeq
<1>2. SubSeq(Root, 1, 0) = << >> /\ SubSeq(<< >>, 1, 0) = << >>
  BY SubSeqEmpty
<1>3. 0 \in 0 .. Len(Root)
  BY DiskAssumption, LenProperties
<1>4. Found(<< >>) /\ Disk[<< >>].kind = "folder"
  BY <1>2, <1>3, DiskAssumption
<1>5. ASSUME NEW n \in 0 .. Len(<< >>)
      PROVE  Found(Cut(<< >>, n)) /\ Disk[Cut(<< >>, n)].kind # "link"
  <2>1. n = 0
    BY <1>1
  <2>2. Cut(<< >>, n) = << >>
    BY <1>2, <2>1 DEF Cut
  <2> QED
    BY <1>4, <2>2
<1> QED
  BY <1>1, <1>5 DEF Passable

LEMMA PassableCut ==
    ASSUME NEW p, Passable(p), NEW m \in 0 .. Len(p)
    PROVE  Passable(Cut(p, m))
<1>1. p \in Seq(Names) /\ Len(p) \in Nat
  BY LenProperties DEF Passable
<1>2. Cut(p, m) \in Seq(Names) /\ Len(Cut(p, m)) = m
  BY <1>1, CutFacts
<1>3. ASSUME NEW n \in 0 .. m
      PROVE  Found(Cut(Cut(p, m), n)) /\ Disk[Cut(Cut(p, m), n)].kind # "link"
  <2>1. n \in 0 .. Len(p)
    BY <1>1
  <2>2. Cut(Cut(p, m), n) = Cut(p, n)
    BY <1>1, CutCut
  <2> QED
    BY <2>1, <2>2 DEF Passable
<1> QED
  BY <1>2, <1>3 DEF Passable

LEMMA PassableAppend ==
    ASSUME NEW p, Passable(p), NEW x \in Names,
           Found(Append(p, x)), Disk[Append(p, x)].kind # "link"
    PROVE  Passable(Append(p, x))
<1> PICK q : q = Append(p, x)
  OBVIOUS
<1>1. /\ p \in Seq(Names) /\ Len(p) \in Nat /\ q \in Seq(Names)
      /\ Len(q) = Len(p) + 1
  BY AppendProperties, LenProperties DEF Passable
<1>2. ASSUME NEW n \in 0 .. Len(q)
      PROVE  Found(Cut(q, n)) /\ Disk[Cut(q, n)].kind # "link"
  <2>1. CASE n \in 0 .. Len(p)
    <3>1. Cut(q, n) = Cut(p, n)
      BY <1>1, <2>1, CutAppend
    <3> QED
      BY <2>1, <3>1 DEF Passable
  <2>2. CASE n = Len(q)
    <3>1. Cut(q, n) = q
      BY <1>1, <2>2, CutWhole
    <3> QED
      BY <3>1
  <2> QED
    BY <1>1, <2>1, <2>2
<1> QED
  BY <1>1, <1>2 DEF Passable

\* One part of a path: the system gets nowhere, or where the arithmetic says.
LEMMA FollowStep ==
    ASSUME NEW p, Passable(p), NEW c \in Components, Follow(p, c) # Nowhere
    PROVE  Follow(p, c) = Step(p, c) /\ Passable(Step(p, c))
<1>1. /\ Follow(p, c) = Step(p, c)
      /\ Found(Step(p, c)) /\ Disk[Step(p, c)].kind # "link"
  BY DEF Follow, IsSymlink
<1>2. p \in Seq(Names)
  BY DEF Passable
<1>3. CASE c = "."
  BY <1>1, <1>3 DEF Step
<1>4. CASE c = ".." /\ p = << >>
  BY <1>1, <1>4 DEF Step
<1>5. CASE c = ".." /\ p # << >>
  <2>1. Step(p, c) = Cut(p, Len(p) - 1) /\ Len(p) - 1 \in 0 .. Len(p)
    BY <1>2, <1>5, FrontNames DEF Step
  <2> QED
    BY <1>1, <2>1, PassableCut
<1>6. CASE c \notin { ".", ".." }
  <2>1. c \in Names /\ Step(p, c) = Append(p, c)
    BY <1>6 DEF Step, Components
  <2> QED
    BY <1>1, <2>1, PassableAppend
<1> QED
  BY <1>3, <1>4, <1>5, <1>6

\* Where a path leads to is what the arithmetic says, and the way is clear.
LEMMA LeadsToPassable ==
    ASSUME NEW path, Joined(path) \in Seq(Components), LeadsTo(path) # Nowhere
    PROVE  LeadsTo(path) = Normalize(Joined(path)) /\ Passable(LeadsTo(path))
<1> PICK s, n : s = Joined(path) /\ n = Len(Joined(path))
  OBVIOUS
<1>1. PICK f : /\ f[0] = << >> /\ LeadsTo(path) = f[n]
               /\ \A i \in 1 .. n : f[i] = Follow(f[i - 1], s[i])
  BY LeadsSteps
<1>2. PICK g : /\ g[0] = << >> /\ Normalize(s) = g[n]
               /\ \A i \in 1 .. n : g[i] = Step(g[i - 1], s[i])
  BY NormalizeSteps
<1>3. n \in Nat /\ \A i \in 1 .. n : s[i] \in Components
  BY ElementOfSeq, LenProperties
<1> DEFINE T == { k \in Nat : k <= n => \/ f[k] = Nowhere
                                        \/ f[k] = g[k] /\ Passable(f[k]) }
<1>4. 0 \in T
  BY <1>1, <1>2, PassableStart
<1>5. ASSUME NEW k \in T PROVE k + 1 \in T
  <2> k + 1 \in Nat
    OBVIOUS
  <2> SUFFICES ASSUME k + 1 <= n
               PROVE  \/ f[k + 1] = Nowhere
                      \/ f[k + 1] = g[k + 1] /\ Passable(f[k + 1])
    OBVIOUS
  <2>1. k + 1 \in 1 .. n /\ (k + 1) - 1 = k /\ k <= n /\ s[k + 1] \in Components
    BY <1>3
  <2>2. f[k + 1] = Follow(f[k], s[k + 1]) /\ g[k + 1] = Step(g[k], s[k + 1])
    BY <1>1, <1>2, <2>1
  <2>3. CASE f[k] = Nowhere
    BY <2>2, <2>3 DEF Follow
  <2>4. CASE f[k] = g[k] /\ Passable(f[k])
    BY <2>1, <2>2, <2>4, FollowStep
  <2>5. f[k] = Nowhere \/ (f[k] = g[k] /\ Passable(f[k]))
    BY <2>1
  <2> QED
    BY <2>3, <2>4, <2>5
<1>6. T = Nat
  <2> HIDE DEF T
  <2>1. T \in SUBSET Nat
    BY DEF T
  <2> QED
    BY <1>4, <1>5, <2>1, NumbersInduction
<1>7. f[n] = Nowhere \/ (f[n] = g[n] /\ Passable(f[n]))
  BY <1>3, <1>6
<1> QED
  BY <1>1, <1>2, <1>7

\* A clear way is one of folders, and the system follows it to its end.
LEMMA PassableLeads ==
    ASSUME NEW p, Passable(p)
    PROVE  LeadsTo([absolute |-> TRUE, parts |-> p]) = p
<1> PICK path, n : path = [absolute |-> TRUE, parts |-> p] /\ n = Len(p)
  OBVIOUS
<1>1. p \in Seq(Names) /\ n \in Nat
  BY LenProperties DEF Passable
<1>2. Joined(path) = p
  BY DEF Joined
<1>3. Joined(path) \in Seq(Components)
  <2>1. Names \subseteq Components
    BY DEF Components
  <2> QED
    BY <1>1, <1>2, <2>1, SeqMonotonic
<1>4. PICK f : /\ f[0] = << >> /\ LeadsTo(path) = f[n]
               /\ \A i \in 1 .. n : f[i] = Follow(f[i - 1], p[i])
  BY <1>2, <1>3, LeadsSteps
<1> DEFINE T == { k \in Nat : k <= n => f[k] = Cut(p, k) }
<1>5. 0 \in T
  <2>1. Cut(p, 0) = << >>
    BY SubSeqEmpty DEF Cut
  <2> QED
    BY <1>4, <2>1
<1>6. ASSUME NEW k \in T PROVE k + 1 \in T
  <2> k + 1 \in Nat
    OBVIOUS
  <2> SUFFICES ASSUME k + 1 <= n PROVE f[k + 1] = Cut(p, k + 1)
    OBVIOUS
  <2>1. /\ k + 1 \in 1 .. n /\ (k + 1) - 1 = k /\ k <= n
        /\ k \in 0 .. n /\ k # n /\ k + 1 \in 0 .. n
    BY <1>1
  <2>2. f[k] = Cut(p, k) /\ f[k + 1] = Follow(f[k], p[k + 1])
    BY <1>4, <2>1
  <2> PICK at, next : at = Cut(p, k) /\ next = Cut(p, k + 1)
    OBVIOUS
  <2>3. next = Append(at, p[k + 1]) /\ Front(next) = at /\ next # << >>
    BY <1>1, <2>1, CutNext
  <2>4. p[k + 1] \in Names
    BY <1>1, <2>1, ElementOfSeq
  <2>5. Step(at, p[k + 1]) = next
    BY <2>3, <2>4, DiskAssumption DEF Step
  <2>6. at # Nowhere /\ Disk[at].kind # "link" /\ at \in DOMAIN Disk
    BY <2>1, PassableCut, PassableIsThere
  <2>7. next \in DOMAIN Disk /\ Disk[next].kind # "link"
    BY <2>1, PassableCut, PassableIsThere
  <2>8. Disk[at].kind = "folder"
    <3>1. Disk[at].kind # "file"
      BY <2>3, <2>7, DiskAssumption
    <3> QED
      BY <2>6, <3>1, DiskAssumption
  <2> QED
    BY <2>2, <2>5, <2>6, <2>7, <2>8 DEF Follow, Found, IsSymlink
<1>7. T = Nat
  <2> HIDE DEF T
  <2>1. T \in SUBSET Nat
    BY DEF T
  <2> QED
    BY <1>5, <1>6, <2>1, NumbersInduction
<1>8. f[n] = Cut(p, n)
  BY <1>1, <1>7
<1> QED
  BY <1>1, <1>4, <1>8, CutWhole

-----------------------------------------------------------------------------
(* What resolve accepts.                                                   *)

Accepts(full) ==
    /\ IsPrefix(Root, full)
    /\ \A p \in Walked(full) : Found(p) /\ ~IsSymlink(p)
    /\ Disk[full].kind = "file"

LEMMA AcceptedPassable ==
    ASSUME NEW full \in Seq(Names), Accepts(full)
    PROVE  Passable(full)
<1>1. /\ Len(Root) \in Nat /\ Len(full) \in Nat /\ Root \in Seq(Names)
      /\ Len(Root) <= Len(full)
  BY LenProperties, DiskAssumption DEF Accepts, IsPrefix
<1>2. Cut(full, Len(Root)) = Root
  <2>1. Cut(Root, Len(Root)) = Root
    BY <1>1, CutWhole
  <2> QED
    BY <2>1 DEF Accepts, IsPrefix, Cut
<1>3. ASSUME NEW n \in 0 .. Len(full)
      PROVE  Found(Cut(full, n)) /\ Disk[Cut(full, n)].kind # "link"
  <2>1. CASE n \in 0 .. Len(Root)
    <3>1. Len(Root) \in 0 .. Len(full)
      BY <1>1
    <3>2. Cut(full, n) = Cut(Root, n)
      BY <1>2, <2>1, <3>1, CutCut
    <3>3. Found(Cut(Root, n)) /\ Disk[Cut(Root, n)].kind = "folder"
      BY <2>1, DiskAssumption DEF Cut
    <3> QED
      BY <3>2, <3>3
  <2>2. CASE n \in Len(Root) + 1 .. Len(full)
    <3>1. Cut(full, n) \in Walked(full)
      BY <2>2 DEF Walked, Cut
    <3> QED
      BY <3>1 DEF Accepts, IsSymlink
  <2> QED
    BY <1>1, <2>1, <2>2
<1> QED
  BY <1>3 DEF Passable

LEMMA PassableAccepted ==
    ASSUME NEW p, Passable(p), FileInside(p)
    PROVE  Accepts(p)
<1>1. p \in Seq(Names) /\ Len(p) \in Nat /\ Len(Root) \in Nat
  BY LenProperties, DiskAssumption DEF Passable
<1>2. ASSUME NEW q \in Walked(p) PROVE Found(q) /\ ~IsSymlink(q)
  <2>1. PICK n \in Len(Root) + 1 .. Len(p) : q = Cut(p, n)
    BY DEF Walked, Cut
  <2>2. n \in 0 .. Len(p)
    BY <1>1
  <2> QED
    BY <2>1, <2>2 DEF Passable, IsSymlink
<1> QED
  BY <1>2 DEF Accepts, FileInside

LEMMA ResolveIs ==
    ASSUME NEW path
    PROVE  Resolve(path) = IF Accepts(Normalize(Joined(path)))
                           THEN << Normalize(Joined(path)) >> ELSE << >>
  BY DEF Resolve, Accepts

LEMMA JoinedParts ==
    ASSUME NEW path \in Requests
    PROVE  Joined(path) \in Seq(Components)
<1>1. path.parts \in Seq(Components) /\ path.absolute \in BOOLEAN
  BY TextAssumption DEF Components
<1>2. Root \in Seq(Components)
  <2>1. Names \subseteq Components
    BY DEF Components
  <2> QED
    BY <2>1, DiskAssumption, SeqMonotonic
<1>3. Root \o path.parts \in Seq(Components)
  BY <1>1, <1>2, ConcatProperties
<1> QED
  BY <1>1, <1>3 DEF Joined

\* A file of the server folder that the path leads to is what is accepted.
LEMMA NamedAccepted ==
    ASSUME NEW path \in Requests, LeadsTo(path) # Nowhere,
           FileInside(LeadsTo(path))
    PROVE  Resolve(path) = << LeadsTo(path) >>
<1>1. LeadsTo(path) = Normalize(Joined(path)) /\ Passable(LeadsTo(path))
  BY JoinedParts, LeadsToPassable
<1>2. Accepts(Normalize(Joined(path)))
  BY <1>1, PassableAccepted
<1> QED
  BY <1>1, <1>2, ResolveIs

\* What is accepted is reached, and is what the path leads to.
LEMMA AcceptedReached ==
    ASSUME NEW path \in Requests, Resolve(path) # << >>
    PROVE  LET p == Resolve(path)[1]
           IN  /\ FileInside(p)
               /\ LeadsTo([absolute |-> TRUE, parts |-> p]) = p
               /\ LeadsTo(path) # Nowhere => p = LeadsTo(path)
<1> PICK p : p = Normalize(Joined(path))
  OBVIOUS
<1>1. Accepts(p) /\ Resolve(path) = << p >>
  BY ResolveIs
<1>2. p \in Seq(Names)
  BY JoinedParts, NormalizeNames
<1>3. Passable(p)
  BY <1>1, <1>2, AcceptedPassable
<1>4. LeadsTo([absolute |-> TRUE, parts |-> p]) = p
  BY <1>3, PassableLeads
<1>5. LeadsTo(path) # Nowhere => p = LeadsTo(path)
  BY JoinedParts, LeadsToPassable
<1>6. FileInside(p)
  BY <1>1 DEF Accepts, FileInside
<1>7. Resolve(path)[1] = p
  BY <1>1
<1> QED
  BY <1>4, <1>5, <1>6, <1>7

\* A text is read once, and a path as resolve reads it.
PathInv ==
    input.what = "path" =>
        input \in Requests /\ output \in { << >>, << Resolve(input) >> }

LEMMA PathInvInit == TextInit => PathInv
  BY TextAssumption DEF TextInit, PathInv

LEMMA PathStep ==
    ASSUME PathInv, [TextNext]_textVars
    PROVE  PathInv'
<1>1. CASE UNCHANGED textVars
  BY <1>1 DEF PathInv, textVars
<1>2. CASE ReadPath
  BY <1>2 DEF PathInv, ReadPath, Reads
<1>3. CASE ReadFile \/ ReadInline \/ ReadMail \/ ReadTemplate
  <2>1. input' = input /\ input.what # "path"
    BY <1>3 DEF ReadFile, ReadInline, ReadMail, ReadTemplate, Reads
  <2> QED
    BY <2>1 DEF PathInv
<1> QED
  BY <1>1, <1>2, <1>3 DEF TextNext

\* Whatever the disk holds and whatever a path spells, sandbox::resolve accepts
\* exactly the files of the server folder that are reached without a link, and
\* what is read afterwards is the file the path names.
THEOREM AcceptedAlwaysTheFile == TextSpec => []CheckedIsTheFile
<1>1. ASSUME PathInv PROVE CheckedIsTheFile
  <2> SUFFICES ASSUME input.what = "path", output # << >>
               PROVE  LET target == LeadsTo(input)
                          Reached(p) == LeadsTo([absolute |-> TRUE, parts |-> p]) = p
                      IN  /\ target # Nowhere /\ FileInside(target)
                                => output[1] = << target >>
                          /\ output[1] # << >> =>
                                /\ FileInside(output[1][1]) /\ Reached(output[1][1])
                                /\ target # Nowhere => output[1][1] = target
    BY DEF CheckedIsTheFile
  <2>1. input \in Requests /\ output = << Resolve(input) >>
    BY <1>1 DEF PathInv
  <2>2. output[1] = Resolve(input)
    BY <2>1
  <2> QED
    BY <2>1, <2>2, NamedAccepted, AcceptedReached
<1>2. PathInv /\ [TextNext]_textVars => PathInv'
  BY PathStep
<1> QED
  BY <1>1, <1>2, PathInvInit, PTL DEF TextSpec

-----------------------------------------------------------------------------
(* What is left of a text, and the first of its kind in it.                *)

\* What is in the rest.
LEMMA RestFacts ==
    ASSUME NEW X, NEW t \in Seq(X), NEW n \in 0 .. Len(t)
    PROVE  /\ Rest(t, n) \in Seq(X) /\ Len(Rest(t, n)) = Len(t) - n
           /\ \A i \in 1 .. Len(t) - n : Rest(t, n)[i] = t[n + i]
<1>1. Len(t) \in Nat /\ n \in Int /\ n + 1 \in Int /\ Len(t) \in Int
  BY LenProperties
<1>2. \A i \in n + 1 .. Len(t) : t[i] \in X
  <2>1. \A i \in n + 1 .. Len(t) : i \in 1 .. Len(t)
    BY <1>1
  <2> QED
    BY <2>1, ElementOfSeq
<1>3. /\ SubSeq(t, n + 1, Len(t)) \in Seq(X)
      /\ Len(SubSeq(t, n + 1, Len(t))) =
            IF n + 1 <= Len(t) THEN Len(t) - (n + 1) + 1 ELSE 0
      /\ \A i \in 1 .. Len(t) - (n + 1) + 1 :
            SubSeq(t, n + 1, Len(t))[i] = t[(n + 1) + i - 1]
  BY ONLY <1>1, <1>2, SubSeqProperties
<1> DEFINE r == SubSeq(t, n + 1, Len(t))
<1>4. Rest(t, n) = r
  BY DEF Rest
<1> HIDE DEF r
<1>5. Len(r) = Len(t) - n
  BY <1>1, <1>3 DEF r
<1>6. \A i \in 1 .. Len(t) - n : r[i] = t[n + i]
  BY <1>1, <1>3 DEF r
<1> QED
  BY <1>3, <1>4, <1>5, <1>6 DEF r

\* A rest of a rest.
LEMMA RestRest ==
    ASSUME NEW X, NEW t \in Seq(X), NEW m \in 0 .. Len(t), NEW n \in 0 .. Len(t) - m
    PROVE  Rest(Rest(t, m), n) = Rest(t, m + n)
<1> PICK r : r = Rest(t, m)
  OBVIOUS
<1>1. /\ r \in Seq(X) /\ Len(r) = Len(t) - m
      /\ \A i \in 1 .. Len(t) - m : r[i] = t[m + i]
  BY RestFacts
<1>2. /\ Len(t) \in Nat /\ m \in Nat /\ n \in Nat /\ n \in 0 .. Len(r)
      /\ m + n \in 0 .. Len(t)
  BY <1>1, LenProperties
<1> PICK a, b : a = Rest(r, n) /\ b = Rest(t, m + n)
  OBVIOUS
<1>3. /\ a \in Seq(X) /\ Len(a) = Len(r) - n
      /\ \A i \in 1 .. Len(r) - n : a[i] = r[n + i]
  BY <1>1, <1>2, RestFacts
<1>4. /\ b \in Seq(X) /\ Len(b) = Len(t) - (m + n)
      /\ \A i \in 1 .. Len(t) - (m + n) : b[i] = t[(m + n) + i]
  BY <1>2, RestFacts
<1>5. Len(a) = Len(b)
  BY ONLY <1>1, <1>2, <1>3, <1>4
<1>6. ASSUME NEW i \in 1 .. Len(a) PROVE a[i] = b[i]
  <2>1. /\ n + i \in 1 .. Len(t) - m /\ m + (n + i) = (m + n) + i
        /\ i \in 1 .. Len(t) - (m + n) /\ i \in 1 .. Len(r) - n
    BY ONLY <1>1, <1>2, <1>3, i \in 1 .. Len(a)
  <2>2. a[i] = r[n + i] /\ r[n + i] = t[m + (n + i)] /\ b[i] = t[(m + n) + i]
    BY <1>1, <1>3, <1>4, <2>1, Zenon
  <2> QED
    BY <2>1, <2>2, Zenon
<1>7. a = b
  BY <1>3, <1>4, <1>5, <1>6, SeqEqual
<1> QED
  BY <1>7

\* The rest behind nothing, and behind everything.
LEMMA RestAll ==
    ASSUME NEW X, NEW t \in Seq(X)
    PROVE  Rest(t, 0) = t /\ Rest(t, Len(t)) = << >>
<1>1. Len(t) \in Nat /\ 0 \in 0 .. Len(t) /\ Len(t) \in 0 .. Len(t)
  BY LenProperties
<1>2. Rest(t, 0) = SubSeq(t, 1, Len(t))
  BY DEF Rest
<1>3. Rest(t, 0) = t
  BY <1>2, SubSeqFull
<1>4. Len(Rest(t, Len(t))) = 0 /\ Rest(t, Len(t)) \in Seq(X)
  BY <1>1, RestFacts
<1> QED
  BY <1>3, <1>4, EmptySeq

\* A member below all others is the least.
LEMMA MinIs ==
    ASSUME NEW I \in SUBSET Int, NEW m \in I, \A i \in I : m <= i
    PROVE  Min(I) = m
<1> DEFINE a == CHOOSE x \in I : \A y \in I : x <= y
<1>1. a \in I /\ \A y \in I : a <= y
  OBVIOUS
<1>2. Min(I) = a
  BY DEF Min
<1> HIDE DEF a
<1>3. a <= m /\ m <= a /\ a \in Int /\ m \in Int
  BY <1>1
<1> QED
  BY <1>2, <1>3

\* The first member of a set of positions.
LEMMA FirstOf ==
    ASSUME NEW n \in Nat, NEW I \in SUBSET (1 .. n), NEW m \in I,
           \A i \in 1 .. m - 1 : i \notin I
    PROVE  I # {} /\ Min(I) = m
<1>1. I \in SUBSET Int
  OBVIOUS
<1>2. ASSUME NEW i \in I PROVE m <= i
  <2>1. i \in 1 .. n /\ i \notin 1 .. m - 1
    OBVIOUS
  <2> QED
    BY <2>1
<1> QED
  BY <1>1, <1>2, MinIs

\* The first brace is the one that has none before it.
LEMMA FirstBrace ==
    ASSUME NEW t, Len(t) \in Nat, NEW m \in 1 .. Len(t), IsBrace(t[m]),
           \A i \in 1 .. m - 1 : ~IsBrace(t[i])
    PROVE  SelectInSeq(t, IsBrace) = m
<1> DEFINE I == { i \in 1 .. Len(t) : IsBrace(t[i]) }
<1>1. SelectInSeq(t, IsBrace) = IF I # {} THEN Min(I) ELSE 0
  BY DEF SelectInSeq
<1>2. I \in SUBSET (1 .. Len(t)) /\ m \in I /\ \A i \in 1 .. m - 1 : i \notin I
  OBVIOUS
<1> HIDE DEF I
<1> QED
  BY <1>1, <1>2, FirstOf

\* A text without braces has no first one.
LEMMA NoBrace ==
    ASSUME NEW t, \A i \in 1 .. Len(t) : ~IsBrace(t[i])
    PROVE  SelectInSeq(t, IsBrace) = 0
<1> DEFINE I == { i \in 1 .. Len(t) : IsBrace(t[i]) }
<1>1. SelectInSeq(t, IsBrace) = IF I # {} THEN Min(I) ELSE 0
  BY DEF SelectInSeq
<1>2. I = {}
  OBVIOUS
<1> QED
  BY <1>1, <1>2

\* The first closing brace likewise.
LEMMA FirstClose ==
    ASSUME NEW t, Len(t) \in Nat, NEW m \in 1 .. Len(t), t[m] = "}",
           \A i \in 1 .. m - 1 : t[i] # "}"
    PROVE  SelectInSeq(t, LAMBDA c : c = "}") = m
<1> DEFINE I == { i \in 1 .. Len(t) : t[i] = "}" }
<1>1. SelectInSeq(t, LAMBDA c : c = "}") = IF I # {} THEN Min(I) ELSE 0
  BY DEF SelectInSeq
<1>2. I \in SUBSET (1 .. Len(t)) /\ m \in I /\ \A i \in 1 .. m - 1 : i \notin I
  BY Zenon
<1> HIDE DEF I
<1> QED
  BY <1>1, <1>2, FirstOf

-----------------------------------------------------------------------------
(* Render, part by part.                                                   *)

\* A part of a template as it is written, and what it becomes.
IsPlain(s, o) == Len(s) = 1 /\ ~IsBrace(s[1]) /\ o = s

\* A doubled brace, which becomes a brace.
IsDoubled(s, o) ==
    Len(s) = 2 /\ IsBrace(s[1]) /\ s[2] = s[1] /\ o = << s[1] >>

\* A key in braces, which becomes what Placed puts there.
IsNamed(s, o, key, vars, html) ==
    /\ \A i \in 1 .. Len(key) : ~IsBrace(key[i])
    /\ Len(s) = Len(key) + 2 /\ s[1] = "{" /\ s[Len(key) + 2] = "}"
    /\ \A i \in 1 .. Len(key) : s[i + 1] = key[i]
    /\ o = Placed(key, vars, html, << >>).out

\* The part s of a template becomes o.
Becomes(X, s, o, vars, html) ==
    \/ IsPlain(s, o)
    \/ IsDoubled(s, o)
    \/ \E key \in Seq(X) : IsNamed(s, o, key, vars, html)

\* A doubled brace at the start of what is left.
LEMMA AtDoubled ==
    ASSUME NEW X, NEW t \in Seq(X), NEW s, NEW o, NEW vars, NEW html,
           IsDoubled(s, o), Len(t) >= Len(s), \A j \in 1 .. Len(s) : t[j] = s[j]
    PROVE  AtBrace(t, vars, html) = [out |-> o, rest |-> Rest(t, Len(s))]
<1>1. /\ Len(s) = 2 /\ t[1] = s[1] /\ t[2] = t[1] /\ o = << t[1] >>
      /\ Len(t) \in Nat
  <2>1. 1 \in 1 .. 2 /\ 2 \in 1 .. 2
    OBVIOUS
  <2> QED
    BY <2>1, LenProperties DEF IsDoubled
<1>2. Len(t) > 1 /\ Head(t) = t[1]
  BY <1>1
<1> QED
  BY <1>1, <1>2, Zenon DEF AtBrace

\* A key in braces at the start of what is left.
LEMMA AtKey ==
    ASSUME NEW X, NEW t \in Seq(X), NEW s, NEW o, NEW vars, NEW html, NEW key \in Seq(X),
           IsNamed(s, o, key, vars, html),
           Len(t) >= Len(s), \A j \in 1 .. Len(s) : t[j] = s[j]
    PROVE  AtBrace(t, vars, html) = [out |-> o, rest |-> Rest(t, Len(s))]
<1> DEFINE n == Len(key)
           end == SelectInSeq(t, LAMBDA c : c = "}")
<1>1. n \in Nat /\ Len(t) \in Nat /\ Len(s) = n + 2
  BY LenProperties DEF IsNamed
<1>2. t[1] = "{" /\ t[n + 2] = "}" /\ \A i \in 1 .. n : t[i + 1] = key[i]
  <2>1. 1 \in 1 .. Len(s) /\ n + 2 \in 1 .. Len(s)
        /\ \A i \in 1 .. n : i + 1 \in 1 .. Len(s)
    BY <1>1
  <2> QED
    BY <2>1, Zenon DEF IsNamed
<1>3. ASSUME NEW i \in 1 .. n PROVE t[i + 1] \notin { "{", "}" }
  <2>1. t[i + 1] = key[i] /\ ~IsBrace(key[i])
    BY <1>2 DEF IsNamed
  <2> QED
    BY <2>1, Zenon DEF IsBrace
<1>4. end = n + 2
  <2>1. ASSUME NEW i \in 1 .. (n + 2) - 1 PROVE t[i] # "}"
    <3>1. CASE i = 1
      BY <1>2, <3>1
    <3>2. CASE i # 1
      <4>1. i - 1 \in 1 .. n /\ (i - 1) + 1 = i
        BY <1>1, <3>2
      <4>2. t[(i - 1) + 1] \notin { "{", "}" }
        BY <1>3, <4>1, Zenon
      <4> QED
        BY <4>1, <4>2, Zenon
    <3> QED
      BY <3>1, <3>2
  <2>2. n + 2 \in 1 .. Len(t)
    BY <1>1
  <2> DEFINE m == n + 2
  <2>3. /\ Len(t) \in Nat /\ m \in 1 .. Len(t) /\ t[m] = "}"
        /\ \A i \in 1 .. m - 1 : t[i] # "}"
    BY <1>1, <1>2, <2>1, <2>2
  <2> HIDE DEF m
  <2>4. end = m
    BY ONLY <2>3, FirstClose
  <2> QED
    BY <2>4 DEF m
<1> HIDE DEF n, end
<1>5. Head(t) = "{" /\ ~(Len(t) > 1 /\ t[2] = "{")
  <2>1. Head(t) = t[1]
    OBVIOUS
  <2>2. ASSUME n = 0 PROVE t[2] # "{"
    <3>1. n + 2 = 2
      BY <2>2
    <3> QED
      BY <1>2, <3>1
  <2>3. ASSUME n # 0 PROVE t[2] # "{"
    <3>1. 1 \in 1 .. n /\ 1 + 1 = 2
      BY <1>1, <2>3
    <3>2. t[1 + 1] \notin { "{", "}" }
      BY <1>3, <3>1, Zenon
    <3> QED
      BY <3>1, <3>2
  <2> QED
    BY <1>2, <2>1, <2>2, <2>3, Zenon
<1>6. SubSeq(t, 2, end - 1) = key
  <2>1. end - 1 = n + 1 /\ n + 1 \in Int /\ 2 \in Int
    BY <1>1, <1>4
  <2>2. \A i \in 2 .. n + 1 : t[i] \in X
    <3>1. \A i \in 2 .. n + 1 : i \in 1 .. Len(t)
      BY <1>1
    <3> QED
      BY <3>1, ElementOfSeq
  <2>3. /\ SubSeq(t, 2, n + 1) \in Seq(X)
        /\ Len(SubSeq(t, 2, n + 1)) = IF 2 <= n + 1 THEN (n + 1) - 2 + 1 ELSE 0
        /\ \A i \in 1 .. (n + 1) - 2 + 1 : SubSeq(t, 2, n + 1)[i] = t[2 + i - 1]
    BY ONLY <2>1, <2>2, SubSeqProperties
  <2> DEFINE a == SubSeq(t, 2, n + 1)
  <2>4. a \in Seq(X) /\ Len(a) = n
    BY <1>1, <2>3
  <2>5. ASSUME NEW i \in 1 .. n PROVE a[i] = key[i]
    <3>1. i \in 1 .. (n + 1) - 2 + 1 /\ 2 + i - 1 = i + 1
      BY <1>1
    <3>2. a[i] = t[2 + i - 1]
      BY <2>3, <3>1, Zenon
    <3> QED
      BY <1>2, <3>1, <3>2, Zenon
  <2> HIDE DEF a
  <2>6. a = key
    BY <2>4, <2>5, SeqEqual DEF n
  <2> QED
    BY <2>1, <2>6 DEF a
<1>7. end # 0
  BY <1>1, <1>4
<1>8. AtBrace(t, vars, html) = Placed(SubSeq(t, 2, end - 1), vars, html, Rest(t, end))
  BY <1>5, <1>7, Zenon DEF AtBrace, end
<1>9. AtBrace(t, vars, html) = Placed(key, vars, html, Rest(t, Len(s)))
  BY <1>1, <1>4, <1>6, <1>8, Zenon
<1>10. /\ Placed(key, vars, html, << >>).out = Placed(key, vars, html, Rest(t, Len(s))).out
       /\ Placed(key, vars, html, Rest(t, Len(s))) =
            [out |-> Placed(key, vars, html, << >>).out, rest |-> Rest(t, Len(s))]
  BY Zenon DEF Placed
<1> QED
  BY <1>9, <1>10, Zenon DEF IsNamed

\* A template of the parts src, which become the parts out: f and g join them.
Composed(X, src, out, f, g, vars, html) ==
    /\ Joins(f, src, X) /\ Joins(g, out, X) /\ Len(out) = Len(src)
    /\ \A k \in 1 .. Len(src) : Becomes(X, src[k], out[k], vars, html)

\* Where the loop is when it has read k parts.
After(src, f, g, k) ==
    [out |-> g[k], rest |-> Rest(f[Len(src)], Len(f[k]))]

\* What is known of what is left when k parts are read.
Remains(X, src, f, g, k) ==
    LET rest == Rest(f[Len(src)], Len(f[k]))
    IN  /\ Len(src) \in Nat /\ k \in Nat
        /\ f[k] \in Seq(X) /\ g[k] \in Seq(X) /\ f[Len(src)] \in Seq(X)
        /\ Len(f[k]) \in Nat /\ Len(f[Len(src)]) \in Nat
        /\ Len(f[k]) \in 0 .. Len(f[Len(src)])
        /\ rest \in Seq(X) /\ Len(rest) = Len(f[Len(src)]) - Len(f[k])
        /\ \A i \in 1 .. Len(f[Len(src)]) - Len(f[k]) :
              rest[i] = f[Len(src)][Len(f[k]) + i]

\* It is the rest of the template, behind those parts.
LEMMA RemainsAfter ==
    ASSUME NEW X, NEW src, NEW out, NEW f, NEW g, NEW vars, NEW html,
           Composed(X, src, out, f, g, vars, html), NEW k \in 0 .. Len(src)
    PROVE  Remains(X, src, f, g, k)
<1>1. Joins(f, src, X) /\ Joins(g, out, X) /\ Len(out) = Len(src) /\ Len(src) \in Nat
  BY LenProperties DEF Composed, Joins
<1>2. k \in Nat /\ Len(src) \in 0 .. Len(src) /\ k \in 0 .. Len(out)
  BY <1>1
<1>3. /\ f[k] \in Seq(X) /\ f[Len(src)] \in Seq(X)
      /\ Len(f[k]) \in Nat /\ Len(f[Len(src)]) \in Nat
      /\ Len(f[k]) <= Len(f[Len(src)])
  BY <1>1, <1>2, JoinsGrow
<1>4. g[k] \in Seq(X)
  BY <1>1, <1>2 DEF Joins
<1>5. Len(f[k]) \in 0 .. Len(f[Len(src)])
  BY ONLY <1>3
<1> QED
  BY <1>1, <1>2, <1>3, <1>4, <1>5, RestFacts DEF Remains

\* What a part is written as stands where the parts before it end.
StandsFirst(X, src, out, f, g, k) ==
    LET rest == Rest(f[Len(src)], Len(f[k - 1]))
    IN  /\ k - 1 \in 0 .. Len(src) /\ k \in 0 .. Len(src)
        /\ Len(src[k]) \in Nat /\ Len(f[k]) = Len(f[k - 1]) + Len(src[k])
        /\ Len(src[k]) <= Len(rest)
        /\ \A j \in 1 .. Len(src[k]) : rest[j] = src[k][j]
        /\ Rest(rest, Len(src[k])) = Rest(f[Len(src)], Len(f[k]))
        /\ g[k] = g[k - 1] \o out[k] /\ out[k] \in Seq(X)

\* The next part stands first in it.
LEMMA PartStands ==
    ASSUME NEW X, NEW src, NEW out, NEW f, NEW g, NEW vars, NEW html,
           Composed(X, src, out, f, g, vars, html), NEW k \in 1 .. Len(src)
    PROVE  StandsFirst(X, src, out, f, g, k)
<1> DEFINE w == f[Len(src)]
           rest == Rest(w, Len(f[k - 1]))
<1>1. Joins(f, src, X) /\ Joins(g, out, X) /\ k \in 1 .. Len(out) /\ Len(src) \in Nat
  BY LenProperties DEF Composed, Joins
<1>2. StandsBehind(f, src, X, k) /\ StandsBehind(g, out, X, k)
  BY <1>1, JoinsStep
<1>3. /\ k - 1 \in 0 .. Len(src) /\ k \in 0 .. Len(src)
      /\ Len(src[k]) \in Nat /\ Len(f[k - 1]) \in Nat
      /\ Len(f[k]) = Len(f[k - 1]) + Len(src[k])
      /\ \A j \in 1 .. Len(src[k]) : f[k][Len(f[k - 1]) + j] = src[k][j]
      /\ g[k] = g[k - 1] \o out[k] /\ out[k] \in Seq(X)
  BY <1>2, Zenon DEF StandsBehind
<1>4. /\ w \in Seq(X) /\ Len(w) \in Nat /\ Len(f[k - 1]) \in 0 .. Len(w)
      /\ Len(rest) = Len(w) - Len(f[k - 1])
      /\ \A i \in 1 .. Len(w) - Len(f[k - 1]) : rest[i] = w[Len(f[k - 1]) + i]
  <2>1. Remains(X, src, f, g, k - 1)
    BY <1>3, RemainsAfter
  <2> QED
    BY <2>1, Zenon DEF Remains
<1>5. Len(f[k]) <= Len(w) /\ \A p \in 1 .. Len(f[k]) : w[p] = f[k][p]
  <2>1. Len(src) \in 0 .. Len(src) /\ k \in 0 .. Len(src)
    BY <1>1, <1>3
  <2> QED
    BY <1>1, <2>1, JoinsGrow, SMTT(30)
<1>6. Len(src[k]) <= Len(rest) /\ Len(src[k]) \in 0 .. Len(w) - Len(f[k - 1])
  <2> DEFINE a == Len(f[k - 1])
             b == Len(src[k])
             c == Len(f[k])
             d == Len(w)
             e == Len(rest)
  <2>1. /\ a \in Nat /\ b \in Nat /\ c = a + b /\ d \in Nat /\ c <= d
        /\ e = d - a
    BY <1>3, <1>4, <1>5, Zenon
  <2>2. b <= e /\ b \in 0 .. d - a
    <3> HIDE DEF a, b, c, d, e
    <3> QED
      BY ONLY <2>1
  <2> QED
    BY <2>2, Zenon
<1>7. ASSUME NEW j \in 1 .. Len(src[k]) PROVE rest[j] = src[k][j]
  <2> DEFINE a == Len(f[k - 1])
             b == Len(src[k])
             c == Len(f[k])
             d == Len(w)
  <2>0. a \in Nat /\ b \in Nat /\ c = a + b /\ d \in Nat /\ c <= d /\ j \in 1 .. b
    BY <1>3, <1>4, <1>5, Zenon
  <2>1. a + j \in 1 .. c /\ j \in 1 .. d - a
    <3> HIDE DEF a, b, c, d
    <3> QED
      BY ONLY <2>0
  <2>2. rest[j] = w[a + j] /\ w[a + j] = f[k][a + j] /\ f[k][a + j] = src[k][j]
    BY <1>3, <1>4, <1>5, <2>1, Zenon
  <2> QED
    BY <2>2, Zenon
<1>8. Rest(rest, Len(src[k])) = Rest(w, Len(f[k]))
  <2>1. Rest(Rest(w, Len(f[k - 1])), Len(src[k])) = Rest(w, Len(f[k - 1]) + Len(src[k]))
    <3> DEFINE a == Len(f[k - 1])
               b == Len(src[k])
    <3>1. a \in 0 .. Len(w) /\ b \in 0 .. Len(w) - a /\ w \in Seq(X)
      BY <1>4, <1>6
    <3> HIDE DEF a, b, w
    <3>2. Rest(Rest(w, a), b) = Rest(w, a + b)
      BY ONLY <3>1, RestRest
    <3> QED
      BY <3>2 DEF a, b
  <2> QED
    BY <1>3, <2>1, Zenon
<1> QED
  BY <1>3, <1>6, <1>7, <1>8, Zenon DEF StandsFirst

\* As long as the parts are plain, what is read is written as it is.
PlainRun(src, f, g, k, d) ==
    LET rest == Rest(f[Len(src)], Len(f[k]))
    IN  /\ Len(f[k + d]) = Len(f[k]) + d /\ d <= Len(rest)
        /\ g[k + d] = g[k] \o Cut(rest, d)
        /\ \A i \in 1 .. d : ~IsBrace(rest[i])

\* The loop copies a run of plain parts in one piece.
LEMMA PlainRuns ==
    ASSUME NEW X, NEW src, NEW out, NEW f, NEW g, NEW vars, NEW html,
           Composed(X, src, out, f, g, vars, html), NEW k \in 0 .. Len(src),
           NEW n \in Nat, k + n <= Len(src),
           \A j \in k + 1 .. k + n : IsPlain(src[j], out[j])
    PROVE  PlainRun(src, f, g, k, n)
<1> DEFINE rest == Rest(f[Len(src)], Len(f[k]))
<1>1. Remains(X, src, f, g, k)
  BY RemainsAfter
<1>2. /\ Len(src) \in Nat /\ k \in Nat /\ g[k] \in Seq(X) /\ rest \in Seq(X)
      /\ f[Len(src)] \in Seq(X)
      /\ Len(f[k]) \in Nat /\ Len(f[Len(src)]) \in Nat
      /\ Len(f[k]) \in 0 .. Len(f[Len(src)])
      /\ Len(rest) = Len(f[Len(src)]) - Len(f[k]) /\ Len(rest) \in Nat
  BY <1>1, LenProperties DEF Remains
<1> DEFINE T == { d \in Nat : d <= n => PlainRun(src, f, g, k, d) }
<1>3. 0 \in T
  <2>1. k + 0 = k /\ Len(f[k]) = Len(f[k]) + 0 /\ 0 <= Len(rest) /\ 0 \in 0 .. Len(rest)
    BY <1>2
  <2>2. Cut(rest, 0) = << >>
    BY <1>2, <2>1, CutFacts, EmptySeq
  <2>3. g[k] \o << >> = g[k]
    BY <1>2, ConcatEmptySeq
  <2>4. PlainRun(src, f, g, k, 0)
    <3>1. 1 .. 0 = {}
      OBVIOUS
    <3> QED
      BY <2>1, <2>2, <2>3, <3>1, Zenon DEF PlainRun
  <2> QED
    BY <2>4
<1>4. ASSUME NEW d \in T PROVE d + 1 \in T
  <2> d + 1 \in Nat
    OBVIOUS
  <2> SUFFICES ASSUME d + 1 <= n PROVE PlainRun(src, f, g, k, d + 1)
    OBVIOUS
  <2> DEFINE m == k + (d + 1)
             s == src[m]
             c == s[1]
             left == Rest(f[Len(src)], Len(f[k + d]))
  <2>1. d \in Nat /\ PlainRun(src, f, g, k, d)
    OBVIOUS
  <2>2. m \in 1 .. Len(src) /\ m - 1 = k + d /\ m \in k + 1 .. k + n
    BY <1>2, <2>1
  <2>3. StandsFirst(X, src, out, f, g, m)
    BY <2>2, PartStands
  <2>4. Len(s) = 1 /\ ~IsBrace(c) /\ out[m] = s
    BY <2>2, Zenon DEF IsPlain
  <2>5. /\ Len(f[m]) = Len(f[k + d]) + 1 /\ 1 <= Len(left) /\ left[1] = c
        /\ g[m] = g[k + d] \o s /\ s \in Seq(X)
    <3>1. 1 \in 1 .. 1
      OBVIOUS
    <3> DEFINE behind == Rest(f[Len(src)], Len(f[m - 1]))
    <3>2. behind = left
      BY <2>2, Zenon
    <3>3. /\ Len(f[m]) = Len(f[m - 1]) + Len(s) /\ Len(s) <= Len(behind)
          /\ \A j \in 1 .. Len(s) : behind[j] = s[j]
          /\ g[m] = g[m - 1] \o out[m] /\ out[m] \in Seq(X)
      BY <2>3, Zenon DEF StandsFirst
    <3>4. Len(s) \in Nat /\ 1 \in 1 .. Len(s)
      BY <2>4
    <3>5. behind[1] = s[1] /\ 1 <= Len(behind)
      BY <2>4, <3>3, <3>4, Zenon
    <3>6. out[m] = s /\ g[m] = g[k + d] \o s /\ s \in Seq(X)
      BY <2>2, <2>4, <3>3, Zenon
    <3>7. Len(f[m]) = Len(f[k + d]) + 1
      BY <2>2, <2>4, <3>3, Zenon
    <3> QED
      BY <3>2, <3>5, <3>6, <3>7, Zenon
  <2>6. /\ Len(f[k + d]) = Len(f[k]) + d /\ d <= Len(rest)
        /\ g[k + d] = g[k] \o Cut(rest, d)
        /\ \A i \in 1 .. d : ~IsBrace(rest[i])
    BY <2>1, Zenon DEF PlainRun
  <2>7. /\ d \in 0 .. Len(f[Len(src)]) - Len(f[k]) /\ d \in 0 .. Len(rest)
    BY ONLY <1>2, <2>1, <2>6
  <2>8. left = Rest(rest, d)
    BY <1>2, <2>6, <2>7, RestRest, SMTT(30)
  <2>9. /\ Len(left) = Len(rest) - d
        /\ \A i \in 1 .. Len(rest) - d : left[i] = rest[d + i]
    <3>1. rest \in Seq(X)
      BY <1>2
    <3> HIDE DEF rest
    <3>2. Len(Rest(rest, d)) = Len(rest) - d
          /\ \A i \in 1 .. Len(rest) - d : Rest(rest, d)[i] = rest[d + i]
      BY ONLY <2>7, <3>1, RestFacts
    <3> QED
      BY <2>8, <3>2, Zenon
  <2>10. d + 1 <= Len(rest) /\ rest[d + 1] = c /\ d # Len(rest)
    <3>1. d + 1 <= Len(rest) /\ 1 \in 1 .. Len(rest) - d /\ d # Len(rest)
      <4> DEFINE a == Len(rest)
                 b == Len(left)
      <4>1. a \in Nat /\ d \in Nat /\ 1 <= b /\ b = a - d
        BY <1>2, <2>1, <2>5, <2>9, Zenon
      <4>2. d + 1 <= a /\ 1 \in 1 .. a - d /\ d # a
        <5> HIDE DEF a, b
        <5> QED
          BY ONLY <4>1
      <4> QED
        BY <4>2
    <3>2. left[1] = rest[d + 1]
      BY <2>9, <3>1, Zenon
    <3> QED
      BY <2>5, <3>1, <3>2, Zenon
  <2>11. Cut(rest, d + 1) = Append(Cut(rest, d), c) /\ Cut(rest, d) \in Seq(X)
    BY <1>2, <2>7, <2>10, CutNext, CutFacts
  <2>12. c \in X /\ s = << c >>
    <3>1. 1 \in 1 .. Len(s)
      BY <2>4
    <3>2. c \in X
      BY <2>5, <3>1, ElementOfSeq
    <3> HIDE DEF s
    <3>3. << s[1] >> \in Seq(X) /\ Len(<< s[1] >>) = 1 /\ << s[1] >>[1] = s[1]
      BY <3>2
    <3>4. s = << s[1] >>
      BY <2>4, <2>5, <3>3, SeqEqual
    <3> QED
      BY <3>2, <3>4
  <2>13. g[m] = g[k] \o Cut(rest, d + 1)
    <3>1. (g[k] \o Cut(rest, d)) \o s = g[k] \o (Cut(rest, d) \o s)
      <4> DEFINE a == g[k]
                 b == Cut(rest, d)
      <4>1. a \in Seq(X) /\ b \in Seq(X) /\ s \in Seq(X)
        BY <1>2, <2>5, <2>11, Zenon
      <4> HIDE DEF a, b, s
      <4>2. (a \o b) \o s = a \o (b \o s)
        BY ONLY <4>1, ConcatAssociative, SMTT(30)
      <4> QED
        BY <4>2 DEF a, b
    <3>2. Append(Cut(rest, d), c) = Cut(rest, d) \o << c >>
      BY <2>11, <2>12, AppendIsConcat
    <3> QED
      BY <2>5, <2>6, <2>11, <2>12, <3>1, <3>2, Zenon
  <2>14. Len(f[m]) = Len(f[k]) + (d + 1)
    <3> DEFINE a == Len(f[k])
               b == Len(f[k + d])
               e == Len(f[m])
    <3>1. a \in Nat /\ b = a + d /\ e = b + 1 /\ d \in Nat
      BY <1>2, <2>1, <2>5, <2>6, Zenon
    <3>2. e = a + (d + 1)
      <4> HIDE DEF a, b, e
      <4> QED
        BY ONLY <3>1
    <3> QED
      BY <3>2
  <2>15. \A i \in 1 .. d + 1 : ~IsBrace(rest[i])
    <3>1. \A i \in 1 .. d + 1 : i \in 1 .. d \/ i = d + 1
      BY <2>1
    <3> QED
      BY <2>4, <2>6, <2>10, <3>1, Zenon
  <2> QED
    BY <2>10, <2>13, <2>14, <2>15, Zenon DEF PlainRun
<1>5. T = Nat
  <2> HIDE DEF T
  <2>1. T \in SUBSET Nat
    BY DEF T
  <2> QED
    BY <1>3, <1>4, <2>1, NumbersInduction
<1> QED
  BY <1>5

\* A round of the loop that starts where a part ends stops where one ends.
LEMMA LastRound ==
    ASSUME NEW X, NEW src, NEW out, NEW f, NEW g, NEW vars, NEW html,
           Composed(X, src, out, f, g, vars, html), NEW k \in 0 .. Len(src),
           \A j \in k + 1 .. Len(src) : IsPlain(src[j], out[j])
    PROVE  Round(After(src, f, g, k), vars, html) = After(src, f, g, Len(src))
<1> DEFINE w == f[Len(src)]
           rest == Rest(w, Len(f[k]))
           d == Len(src) - k
<1>1. Remains(X, src, f, g, k)
  BY RemainsAfter
<1>2. /\ Len(src) \in Nat /\ k \in Nat /\ rest \in Seq(X) /\ w \in Seq(X)
      /\ Len(f[k]) \in Nat /\ Len(w) \in Nat /\ Len(rest) = Len(w) - Len(f[k])
  BY <1>1, Zenon DEF Remains
<1>3. d \in Nat /\ k + d = Len(src)
  BY <1>2
<1>4. PlainRun(src, f, g, k, d)
  <2> HIDE DEF d
  <2>1. k + d <= Len(src) /\ \A j \in k + 1 .. k + d : IsPlain(src[j], out[j])
    BY <1>2, <1>3
  <2> QED
    BY <1>3, <2>1, PlainRuns
<1>5. /\ Len(w) = Len(f[k]) + d /\ w = f[k + d]
      /\ g[Len(src)] = g[k] \o Cut(rest, d)
      /\ \A i \in 1 .. d : ~IsBrace(rest[i])
  <2> HIDE DEF d
  <2> QED
    BY <1>3, <1>4, Zenon DEF PlainRun
<1>6. Len(rest) = d
  <2> DEFINE a == Len(w)
             b == Len(f[k])
             c == Len(rest)
  <2>1. b \in Nat /\ a = b + d /\ c = a - b /\ d \in Nat
    BY <1>2, <1>3, <1>5, Zenon
  <2> HIDE DEF a, b, c, d
  <2>2. c = d
    BY ONLY <2>1
  <2> QED
    BY <2>2 DEF c
<1>7. Cut(rest, d) = rest
  BY <1>2, <1>6, CutWhole, Zenon
<1>8. SelectInSeq(rest, IsBrace) = 0
  BY <1>5, <1>6, NoBrace, Zenon
<1>9. Rest(w, Len(w)) = << >>
  BY <1>2, RestAll
<1>10. Round(After(src, f, g, k), vars, html) = [out |-> g[k] \o rest, rest |-> << >>]
  BY <1>8, Zenon DEF Round, After
<1> QED
  BY <1>5, <1>7, <1>9, <1>10, Zenon DEF After

\* What AtBrace makes of a part that starts with a brace.
LEMMA PartAtBrace ==
    ASSUME NEW X, NEW t \in Seq(X), NEW s, NEW o, NEW vars, NEW html,
           Becomes(X, s, o, vars, html), ~IsPlain(s, o), Len(s) \in Nat,
           Len(s) <= Len(t), \A j \in 1 .. Len(s) : t[j] = s[j]
    PROVE  /\ Len(s) >= 1 /\ IsBrace(t[1])
           /\ AtBrace(t, vars, html) = [out |-> o, rest |-> Rest(t, Len(s))]
<1>0. Len(t) \in Nat
  BY LenProperties
<1>1. CASE IsDoubled(s, o)
  <2>1. Len(s) = 2 /\ 1 \in 1 .. Len(s) /\ IsBrace(s[1])
    BY <1>1 DEF IsDoubled
  <2>2. AtBrace(t, vars, html) = [out |-> o, rest |-> Rest(t, Len(s))]
    BY <1>0, <1>1, AtDoubled
  <2> QED
    BY <2>1, <2>2
<1>2. CASE \E key \in Seq(X) : IsNamed(s, o, key, vars, html)
  <2>1. PICK key \in Seq(X) : IsNamed(s, o, key, vars, html)
    BY <1>2
  <2>2. Len(s) = Len(key) + 2 /\ Len(key) \in Nat /\ s[1] = "{"
    BY <2>1, LenProperties DEF IsNamed
  <2>3. AtBrace(t, vars, html) = [out |-> o, rest |-> Rest(t, Len(s))]
    BY <1>0, <2>1, AtKey
  <2>4. 1 \in 1 .. Len(s) /\ Len(s) >= 1
    <3> DEFINE a == Len(s)
               b == Len(key)
    <3>1. a = b + 2 /\ b \in Nat
      BY <2>2, Zenon
    <3>2. 1 \in 1 .. a /\ a >= 1
      <4> HIDE DEF a, b
      <4> QED
        BY ONLY <3>1
    <3> QED
      BY <3>2
  <2>5. t[1] = "{"
    BY <2>2, <2>4, Zenon
  <2>6. IsBrace(t[1])
    BY <2>5, Zenon DEF IsBrace
  <2> QED
    BY <2>3, <2>4, <2>6
<1> QED
  BY <1>1, <1>2, Zenon DEF Becomes

\* A round reads the plain parts and the brace behind them.
LEMMA NextRound ==
    ASSUME NEW X, NEW src, NEW out, NEW f, NEW g, NEW vars, NEW html,
           Composed(X, src, out, f, g, vars, html), NEW k \in 0 .. Len(src),
           NEW m \in k + 1 .. Len(src), ~IsPlain(src[m], out[m]),
           \A j \in k + 1 .. m - 1 : IsPlain(src[j], out[j])
    PROVE  Round(After(src, f, g, k), vars, html) = After(src, f, g, m)
<1> DEFINE w == f[Len(src)]
           rest == Rest(w, Len(f[k]))
           d == m - 1 - k
           left == Rest(w, Len(f[m - 1]))
           next == AtBrace(left, vars, html)
<1>1. Remains(X, src, f, g, k)
  BY RemainsAfter
<1>2. /\ Len(src) \in Nat /\ k \in Nat /\ rest \in Seq(X) /\ w \in Seq(X)
      /\ g[k] \in Seq(X)
      /\ Len(f[k]) \in Nat /\ Len(w) \in Nat /\ Len(rest) = Len(w) - Len(f[k])
      /\ Len(f[k]) \in 0 .. Len(w)
  BY <1>1, Zenon DEF Remains
<1>3. d \in Nat /\ k + d = m - 1 /\ k + d <= Len(src) /\ m \in 1 .. Len(src)
      /\ m - 1 \in 0 .. Len(src)
  BY <1>2
<1>4. PlainRun(src, f, g, k, d)
  <2> HIDE DEF d
  <2>1. \A j \in k + 1 .. k + d : IsPlain(src[j], out[j])
    BY <1>3
  <2> QED
    BY <1>3, <2>1, PlainRuns
<1>5. /\ Len(f[m - 1]) = Len(f[k]) + d /\ d <= Len(rest)
      /\ g[m - 1] = g[k] \o Cut(rest, d)
      /\ \A i \in 1 .. d : ~IsBrace(rest[i])
  <2> HIDE DEF d
  <2> QED
    BY <1>3, <1>4, Zenon DEF PlainRun
<1> HIDE DEF d
<1>6. d \in 0 .. Len(w) - Len(f[k]) /\ d \in 0 .. Len(rest) /\ Len(rest) \in Nat
  <2> DEFINE a == Len(w)
             b == Len(f[k])
             c == Len(rest)
  <2>1. a \in Nat /\ b \in Nat /\ b \in 0 .. a /\ c = a - b /\ d \in Nat /\ d <= c
    BY <1>2, <1>3, <1>5, Zenon
  <2>2. d \in 0 .. a - b /\ d \in 0 .. c /\ c \in Nat
    <3> HIDE DEF a, b, c
    <3> QED
      BY ONLY <2>1
  <2> QED
    BY <2>2
<1>7. left = Rest(rest, d)
  BY <1>2, <1>5, <1>6, RestRest, SMTT(30)
<1>8. left \in Seq(X)
  <2>1. Remains(X, src, f, g, m - 1)
    BY <1>3, RemainsAfter
  <2> QED
    BY <2>1, Zenon DEF Remains
<1>9. StandsFirst(X, src, out, f, g, m)
  BY <1>3, PartStands
<1>10. /\ Len(src[m]) \in Nat /\ Len(src[m]) <= Len(left)
       /\ \A j \in 1 .. Len(src[m]) : left[j] = src[m][j]
       /\ Rest(left, Len(src[m])) = Rest(w, Len(f[m]))
       /\ g[m] = g[m - 1] \o out[m]
  BY <1>9, Zenon DEF StandsFirst
<1>11. /\ Len(src[m]) >= 1 /\ IsBrace(left[1])
       /\ next = [out |-> out[m], rest |-> Rest(left, Len(src[m]))]
  <2> HIDE DEF left
  <2>1. Becomes(X, src[m], out[m], vars, html)
    BY <1>3, Zenon DEF Composed
  <2> QED
    BY <1>8, <1>10, <2>1, PartAtBrace, SMTT(30)
<1>12. d + 1 \in 1 .. Len(rest) /\ rest[d + 1] = left[1]
  <2>1. Len(Rest(rest, d)) = Len(rest) - d
        /\ \A i \in 1 .. Len(rest) - d : Rest(rest, d)[i] = rest[d + i]
    <3>1. rest \in Seq(X)
      BY <1>2
    <3> HIDE DEF rest
    <3> QED
      BY ONLY <1>6, <3>1, RestFacts
  <2> DEFINE a == Len(left)
             b == Len(rest)
             c == Len(src[m])
  <2>2. a = b - d /\ b \in Nat /\ d \in Nat /\ c \in Nat /\ c >= 1 /\ c <= a
    BY <1>3, <1>6, <1>7, <1>10, <1>11, <2>1, Zenon
  <2>3. d + 1 \in 1 .. b /\ 1 \in 1 .. b - d
    <3> HIDE DEF a, b, c
    <3> QED
      BY ONLY <2>2
  <2>4. Rest(rest, d)[1] = rest[d + 1]
    BY <2>1, <2>3, Zenon
  <2> QED
    BY <1>7, <2>3, <2>4, Zenon
<1>13. SelectInSeq(rest, IsBrace) = d + 1
  <2> HIDE DEF rest, left
  <2>1. (d + 1) - 1 = d
    BY <1>3
  <2>2. \A i \in 1 .. (d + 1) - 1 : ~IsBrace(rest[i])
    BY <1>5, <2>1, Zenon
  <2>3. IsBrace(rest[d + 1])
    BY <1>11, <1>12, Zenon
  <2> QED
    BY <1>6, <1>12, <2>2, <2>3, FirstBrace
<1>14. (d + 1) - 1 = d /\ d + 1 # 0
  BY <1>3
<1>15. Round(After(src, f, g, k), vars, html) =
         [out |-> g[k] \o SubSeq(rest, 1, d) \o next.out, rest |-> next.rest]
  BY <1>7, <1>13, <1>14, Zenon DEF Round, After
<1>16. SubSeq(rest, 1, d) = Cut(rest, d)
  BY DEF Cut
<1>17. next.out = out[m] /\ next.rest = Rest(w, Len(f[m]))
  <2> HIDE DEF next
  <2> QED
    BY <1>10, <1>11, Zenon
<1>18. g[k] \o SubSeq(rest, 1, d) \o next.out = g[m]
  BY <1>5, <1>10, <1>16, <1>17, Zenon
<1> QED
  BY <1>15, <1>17, <1>18, Zenon DEF After

\* A round reads at least one part, unless none is left.
LEMMA RoundMoves ==
    ASSUME NEW X, NEW src, NEW out, NEW f, NEW g, NEW vars, NEW html,
           Composed(X, src, out, f, g, vars, html), NEW k \in 0 .. Len(src)
    PROVE  \E m \in k .. Len(src) :
              /\ Round(After(src, f, g, k), vars, html) = After(src, f, g, m)
              /\ k < m \/ m = Len(src)
<1> PICK n : n = Len(src)
  OBVIOUS
<1> DEFINE N == { j \in k + 1 .. n : ~IsPlain(src[j], out[j]) }
<1>1. n \in Nat /\ k \in Nat /\ k \in 0 .. n
  BY LenProperties DEF Composed, Joins
<1>2. CASE N = {}
  <2>1. \A j \in k + 1 .. n : IsPlain(src[j], out[j])
    BY <1>2
  <2>2. Round(After(src, f, g, k), vars, html) = After(src, f, g, Len(src))
    BY <2>1, LastRound
  <2>3. n \in k .. n
    BY <1>1
  <2> QED
    BY <2>2, <2>3
<1>3. CASE N # {}
  <2>1. N \in SUBSET Nat
    BY <1>1
  <2> HIDE DEF N
  <2>2. PICK m \in N : \A j \in N : m <= j
    BY <1>3, <2>1, LeastNumber
  <2>3. m \in k + 1 .. n /\ ~IsPlain(src[m], out[m])
    BY DEF N
  <2>4. ASSUME NEW j \in k + 1 .. m - 1 PROVE IsPlain(src[j], out[j])
    <3>1. j \in k + 1 .. n /\ ~(m <= j)
      BY <1>1, <2>3
    <3>2. j \notin N
      BY <2>2, <3>1
    <3> QED
      BY <3>1, <3>2 DEF N
  <2>5. Round(After(src, f, g, k), vars, html) = After(src, f, g, m)
    BY <2>3, <2>4, NextRound
  <2>6. m \in k .. n /\ k < m
    BY <1>1, <2>3
  <2> QED
    BY <2>5, <2>6
<1> QED
  BY <1>2, <1>3

\* What the recursive function of Render is asked to be.
Rounds(r, source, vars, html, n) ==
    r = [i \in 0 .. n |->
            IF i = 0 THEN [out |-> << >>, rest |-> source]
            ELSE Round(r[i - 1], vars, html)]

\* There is such a function.
LEMMA RoundsExist ==
    ASSUME NEW source, NEW vars, NEW html, NEW n \in Nat
    PROVE  \E r : Rounds(r, source, vars, html, n)
<1> DEFINE start == [out |-> << >>, rest |-> source]
           T == { k \in Nat : \E r : Rounds(r, source, vars, html, k) }
<1>1. 0 \in T
  <2> DEFINE r == [i \in 0 .. 0 |-> start]
  <2>1. Rounds(r, source, vars, html, 0)
    BY DEF Rounds
  <2> QED
    BY <2>1
<1>2. ASSUME NEW k \in T PROVE k + 1 \in T
  <2>1. PICK r : Rounds(r, source, vars, html, k)
    BY <1>2
  <2> DEFINE q == [i \in 0 .. k + 1 |->
                     IF i = 0 THEN start ELSE Round(r[i - 1], vars, html)]
  <2>2. ASSUME NEW i \in 0 .. k PROVE q[i] = r[i]
    <3>1. i \in 0 .. k + 1
      OBVIOUS
    <3>2. r[i] = IF i = 0 THEN start ELSE Round(r[i - 1], vars, html)
      BY <2>1, Zenon DEF Rounds
    <3> QED
      BY <3>1, <3>2, Zenon
  <2>3. \A i \in 0 .. k + 1 : i # 0 => i - 1 \in 0 .. k
    OBVIOUS
  <2>4. Rounds(q, source, vars, html, k + 1)
    BY <2>2, <2>3, Zenon DEF Rounds
  <2> QED
    BY <2>4
<1> QED
  BY <1>1, <1>2, NumbersInduction

\* Render is its last round.
LEMMA RenderRounds ==
    ASSUME NEW source, NEW vars, NEW html, Len(source) \in Nat
    PROVE  \E r : /\ r[0] = [out |-> << >>, rest |-> source]
                  /\ \A i \in 1 .. Len(source) : r[i] = Round(r[i - 1], vars, html)
                  /\ Render(source, vars, html) = r[Len(source)].out
<1> DEFINE r == CHOOSE q : Rounds(q, source, vars, html, Len(source))
<1>1. Rounds(r, source, vars, html, Len(source))
  BY RoundsExist
<1>2. Render(source, vars, html) = r[Len(source)].out
  BY DEF Render, Rounds
<1> HIDE DEF r
<1>3. r[0] = [out |-> << >>, rest |-> source]
  <2>1. 0 \in 0 .. Len(source)
    OBVIOUS
  <2> QED
    BY <1>1, <2>1, Zenon DEF Rounds
<1>4. ASSUME NEW i \in 1 .. Len(source) PROVE r[i] = Round(r[i - 1], vars, html)
  <2>1. i \in 0 .. Len(source) /\ i # 0
    OBVIOUS
  <2> QED
    BY <1>1, <2>1, Zenon DEF Rounds
<1> QED
  BY <1>2, <1>3, <1>4

\* No part is written as nothing, so there are rounds enough.
LEMMA RoundsEnough ==
    ASSUME NEW X, NEW src, NEW out, NEW f, NEW g, NEW vars, NEW html,
           Composed(X, src, out, f, g, vars, html)
    PROVE  Len(src) <= Len(f[Len(src)])
<1> PICK n : n = Len(src)
  OBVIOUS
<1>1. n \in Nat /\ Joins(f, src, X)
  BY LenProperties DEF Composed, Joins
<1> DEFINE T == { k \in Nat : k <= n => Len(f[k]) \in Nat /\ k <= Len(f[k]) }
<1>2. 0 \in T
  BY <1>1, EmptySeq DEF Joins
<1>3. ASSUME NEW k \in T PROVE k + 1 \in T
  <2> k + 1 \in Nat
    OBVIOUS
  <2> SUFFICES ASSUME k + 1 <= n
               PROVE  Len(f[k + 1]) \in Nat /\ k + 1 <= Len(f[k + 1])
    OBVIOUS
  <2> DEFINE m == k + 1
  <2>1. m \in 1 .. Len(src) /\ m - 1 = k /\ k <= n /\ k \in Nat
    BY <1>1
  <2>2. StandsBehind(f, src, X, m)
    BY <1>1, <2>1, JoinsStep
  <2>3. /\ Len(f[m]) = Len(f[k]) + Len(src[m]) /\ Len(f[k]) \in Nat
        /\ Len(src[m]) \in Nat /\ src[m] \in Seq(X)
    BY <2>1, <2>2, Zenon DEF StandsBehind
  <2>4. Len(src[m]) >= 1
    <3>1. Becomes(X, src[m], out[m], vars, html)
      BY <2>1, Zenon DEF Composed
    <3>2. \A key \in Seq(X) : Len(key) \in Nat
      BY LenProperties
    <3> DEFINE a == Len(src[m])
    <3>3. a = 1 \/ a = 2 \/ \E key \in Seq(X) : a = Len(key) + 2
      BY <3>1, Zenon DEF Becomes, IsPlain, IsDoubled, IsNamed
    <3> HIDE DEF a
    <3>4. a >= 1
      BY <3>2, <3>3
    <3> QED
      BY <3>4 DEF a
  <2>5. k <= Len(f[k])
    BY <2>1
  <2> HIDE DEF m
  <2>6. Len(f[m]) \in Nat /\ k + 1 <= Len(f[m])
    <3> DEFINE a == Len(f[m])
               b == Len(f[k])
               c == Len(src[m])
    <3>1. a = b + c /\ b \in Nat /\ c \in Nat /\ c >= 1 /\ k <= b /\ k \in Nat
      BY <2>1, <2>3, <2>4, <2>5, Zenon
    <3>2. a \in Nat /\ k + 1 <= a
      <4> HIDE DEF a, b, c
      <4> QED
        BY ONLY <3>1
    <3> QED
      BY <3>2
  <2> QED
    BY <2>6 DEF m
<1>4. T = Nat
  <2> HIDE DEF T
  <2>1. T \in SUBSET Nat
    BY DEF T
  <2> QED
    BY <1>2, <1>3, <2>1, NumbersInduction
<1> QED
  BY <1>1, <1>4

\* Render turns each part into what it becomes, once and in its place.
LEMMA RenderComposed ==
    ASSUME NEW X, NEW src, NEW out, NEW f, NEW g, NEW vars, NEW html,
           Composed(X, src, out, f, g, vars, html)
    PROVE  Render(f[Len(src)], vars, html) = g[Len(src)]
<1> PICK n : n = Len(src)
  OBVIOUS
<1> PICK w : w = f[n]
  OBVIOUS
<1>1. n \in Nat /\ Joins(f, src, X) /\ Joins(g, out, X)
  BY LenProperties DEF Composed, Joins
<1>2. w \in Seq(X) /\ Len(w) \in Nat /\ n <= Len(w)
  <2>1. n \in 0 .. n
    BY <1>1
  <2>2. w \in Seq(X)
    BY <1>1, <2>1 DEF Joins
  <2> QED
    BY <2>2, LenProperties, RoundsEnough
<1>3. PICK r : /\ r[0] = [out |-> << >>, rest |-> w]
               /\ \A i \in 1 .. Len(w) : r[i] = Round(r[i - 1], vars, html)
               /\ Render(w, vars, html) = r[Len(w)].out
  BY <1>2, RenderRounds
<1> DEFINE Reached(i) == \E k \in 0 .. n : r[i] = After(src, f, g, k) /\ (i <= k \/ k = n)
           T == { i \in Nat : i <= Len(w) => Reached(i) }
<1>4. 0 \in T
  <2>1. f[0] = << >> /\ g[0] = << >> /\ 0 \in 0 .. n /\ Len(<< >>) = 0
    BY <1>1, EmptySeq DEF Joins
  <2>2. Rest(w, 0) = w
    BY <1>2, RestAll
  <2>3. r[0] = After(src, f, g, 0)
    BY <1>3, <2>1, <2>2, Zenon DEF After
  <2> QED
    BY <2>1, <2>3
<1>5. ASSUME NEW i \in T PROVE i + 1 \in T
  <2> i + 1 \in Nat
    OBVIOUS
  <2> SUFFICES ASSUME i + 1 <= Len(w) PROVE Reached(i + 1)
    OBVIOUS
  <2>1. i + 1 \in 1 .. Len(w) /\ (i + 1) - 1 = i /\ i <= Len(w) /\ i \in Nat
    BY <1>2
  <2>2. PICK k \in 0 .. n : r[i] = After(src, f, g, k) /\ (i <= k \/ k = n)
    BY <2>1
  <2>3. r[i + 1] = Round(After(src, f, g, k), vars, html)
    BY <1>3, <2>1, <2>2, Zenon
  <2>4. PICK m \in k .. n : /\ Round(After(src, f, g, k), vars, html) = After(src, f, g, m)
                            /\ k < m \/ m = n
    BY RoundMoves
  <2>5. m \in 0 .. n /\ (i + 1 <= m \/ m = n)
    BY <1>1, <2>1, <2>2, <2>4
  <2>6. r[i + 1] = After(src, f, g, m)
    BY <2>3, <2>4, Zenon
  <2> QED
    BY <2>5, <2>6
<1>6. T = Nat
  <2> HIDE DEF T
  <2>1. T \in SUBSET Nat
    BY DEF T
  <2> QED
    BY <1>4, <1>5, <2>1, NumbersInduction
<1>7. PICK k \in 0 .. n : r[Len(w)] = After(src, f, g, k) /\ (Len(w) <= k \/ k = n)
  <2>1. Len(w) \in T
    BY <1>2, <1>6
  <2>2. Reached(Len(w))
    BY <1>2, <2>1
  <2> QED
    BY <2>2
<1>8. k = n
  BY <1>1, <1>2, <1>7
<1>9. Render(w, vars, html) = g[n]
  <2>1. After(src, f, g, k).out = g[k]
    BY DEF After
  <2> QED
    BY <1>3, <1>7, <1>8, <2>1, Zenon
<1> QED
  BY <1>9

-----------------------------------------------------------------------------
(* The pieces of a value.                                                  *)

\* What ParsePieces makes of texts over X.
PieceOf(X) ==
    [kind : { "text" }, text : Seq(X)]
    \cup [kind : { "d", "f", "s", "r" }, places : Seq(X)]

\* How many of the pieces are holes.
Holes(pieces) == Cardinality({ k \in 1 .. Len(pieces) : IsHole(pieces[k]) })

\* What a piece behind the others becomes.
Filling(pieces, piece, arguments) ==
    CASE ~IsHole(piece) -> piece.text
      [] IsHole(piece) /\ Holes(pieces) + 1 <= Len(arguments) ->
            arguments[Holes(pieces) + 1]
      [] OTHER -> << >>

\* A hole more is one more.
LEMMA HolesAppend ==
    ASSUME NEW X, NEW pieces \in Seq(PieceOf(X)), NEW piece \in PieceOf(X)
    PROVE  /\ Holes(pieces) \in Nat
           /\ Holes(Append(pieces, piece)) =
                 Holes(pieces) + (IF IsHole(piece) THEN 1 ELSE 0)
<1> DEFINE n == Len(pieces)
           q == Append(pieces, piece)
           A == { k \in 1 .. n : IsHole(pieces[k]) }
           B == { k \in 1 .. n + 1 : IsHole(q[k]) }
<1>1. /\ n \in Nat /\ Len(q) = n + 1 /\ q[n + 1] = piece
      /\ \A k \in 1 .. n : q[k] = pieces[k]
  BY AppendProperties, LenProperties
<1>2. Holes(pieces) = Cardinality(A) /\ Holes(q) = Cardinality(B)
  BY <1>1 DEF Holes
<1>3. IsFiniteSet(A)
  <2>1. IsFiniteSet(1 .. n) /\ A \subseteq 1 .. n
    BY <1>1, FS_Interval
  <2> QED
    BY <2>1, FS_Subset
<1>4. Cardinality(A) \in Nat
  BY <1>3, FS_CardinalityType
<1>5. B = IF IsHole(piece) THEN A \cup { n + 1 } ELSE A
  <2> HIDE DEF q, n
  <2>1. \A k \in 1 .. n + 1 : k \in 1 .. n \/ k = n + 1
    BY <1>1
  <2>2. n + 1 \in 1 .. n + 1 /\ n + 1 \notin 1 .. n /\ 1 .. n \subseteq 1 .. n + 1
    BY <1>1
  <2> QED
    BY <1>1, <2>1, <2>2
<1>6. n + 1 \notin A
  BY <1>1
<1>7. Cardinality(A \cup { n + 1 }) = Cardinality(A) + 1
  <2> HIDE DEF A, n
  <2> QED
    BY <1>3, <1>6, FS_AddElement
<1> HIDE DEF A, B, n, q
<1>8. Cardinality(B) = Cardinality(A) + (IF IsHole(piece) THEN 1 ELSE 0)
  BY <1>4, <1>5, <1>7
<1> QED
  BY <1>2, <1>4, <1>8 DEF q

\* How many of the first i are.
HolesTo(pieces, i) == Cardinality({ k \in 1 .. i : IsHole(pieces[k]) })

\* What piece i becomes.
WrittenAt(pieces, arguments, i) ==
    CASE ~IsHole(pieces[i]) -> pieces[i].text
      [] IsHole(pieces[i]) /\ HolesTo(pieces, i) <= Len(arguments) ->
            arguments[HolesTo(pieces, i)]
      [] OTHER -> << >>

\* RenderPieces joins what the pieces become.
LEMMA RenderIs ==
    ASSUME NEW pieces, NEW arguments
    PROVE  RenderPieces(pieces, arguments) =
              FlattenSeq([i \in DOMAIN pieces |-> WrittenAt(pieces, arguments, i)])
BY DEF RenderPieces, WrittenAt, HolesTo

\* A piece that is no hole is a text.
LEMMA PieceFacts ==
    ASSUME NEW X, NEW piece \in PieceOf(X)
    PROVE  /\ ~IsHole(piece) => piece.text \in Seq(X)
           /\ IsHole(piece) \in BOOLEAN
BY DEF PieceOf, IsHole

\* What a piece becomes is a text.
LEMMA WrittenIsText ==
    ASSUME NEW X, NEW pieces \in Seq(PieceOf(X)), NEW arguments \in Seq(Seq(X)),
           NEW i \in 1 .. Len(pieces)
    PROVE  WrittenAt(pieces, arguments, i) \in Seq(X)
<1>1. pieces[i] \in PieceOf(X) /\ Len(pieces) \in Nat /\ Len(arguments) \in Nat
  BY ElementOfSeq, LenProperties
<1>2. CASE ~IsHole(pieces[i])
  BY <1>1, <1>2, PieceFacts DEF WrittenAt
<1>3. CASE IsHole(pieces[i])
  <2> DEFINE A == { k \in 1 .. i : IsHole(pieces[k]) }
             h == HolesTo(pieces, i)
  <2>1. IsFiniteSet(A) /\ i \in A
    <3>1. IsFiniteSet(1 .. i) /\ A \subseteq 1 .. i
      BY <1>1, FS_Interval
    <3>2. i \in 1 .. i
      BY <1>1
    <3> QED
      BY <1>3, <3>1, <3>2, FS_Subset
  <2>2. h = Cardinality(A) /\ h \in Nat /\ h # 0
    <3>1. h = Cardinality(A)
      BY DEF HolesTo
    <3> HIDE DEF A, h
    <3>2. Cardinality(A) \in Nat /\ (Cardinality(A) = 0 <=> A = {})
      BY <2>1, FS_CardinalityType, FS_EmptySet
    <3> QED
      BY <2>1, <3>1, <3>2
  <2> HIDE DEF h
  <2>3. CASE h <= Len(arguments)
    <3>1. h \in 1 .. Len(arguments)
      BY <1>1, <2>2, <2>3
    <3>2. arguments[h] \in Seq(X)
      BY <3>1, ElementOfSeq
    <3> QED
      BY <1>3, <2>3, <3>2, Zenon DEF WrittenAt, h
  <2>4. CASE ~(h <= Len(arguments))
    <3>1. << >> \in Seq(X)
      BY EmptySeq
    <3> QED
      BY <1>3, <2>4, <3>1, Zenon DEF WrittenAt, h
  <2> QED
    BY <2>3, <2>4
<1> QED
  BY <1>2, <1>3, PieceFacts

\* A piece more is written behind what the others became.
LEMMA RenderAppend ==
    ASSUME NEW X, NEW pieces \in Seq(PieceOf(X)), NEW piece \in PieceOf(X),
           NEW arguments \in Seq(Seq(X))
    PROVE  /\ RenderPieces(Append(pieces, piece), arguments) =
                 RenderPieces(pieces, arguments) \o Filling(pieces, piece, arguments)
           /\ RenderPieces(pieces, arguments) \in Seq(X)
<1> DEFINE n == Len(pieces)
           q == Append(pieces, piece)
<1>1. /\ n \in Nat /\ Len(q) = n + 1 /\ q[n + 1] = piece /\ q \in Seq(PieceOf(X))
      /\ \A k \in 1 .. n : q[k] = pieces[k]
      /\ DOMAIN pieces = 1 .. n /\ DOMAIN q = 1 .. n + 1
  BY AppendProperties, LenProperties
<1>2. HolesTo(q, n + 1) = Holes(q)
  BY <1>1, Zenon DEF HolesTo, Holes
<1>3. /\ Holes(pieces) \in Nat
      /\ Holes(q) = Holes(pieces) + (IF IsHole(piece) THEN 1 ELSE 0)
  BY HolesAppend
<1>4. ASSUME NEW i \in 1 .. n
      PROVE  WrittenAt(q, arguments, i) = WrittenAt(pieces, arguments, i)
  <2> HIDE DEF q, n
  <2>1. \A k \in 1 .. i : k \in 1 .. n
    BY <1>1
  <2>2. HolesTo(q, i) = HolesTo(pieces, i)
    <3>1. { k \in 1 .. i : IsHole(q[k]) } = { k \in 1 .. i : IsHole(pieces[k]) }
      BY <1>1, <2>1, Zenon
    <3> QED
      BY <3>1, Zenon DEF HolesTo
  <2>3. q[i] = pieces[i]
    BY <1>1
  <2> QED
    BY <2>2, <2>3, Zenon DEF WrittenAt
<1>5. WrittenAt(q, arguments, n + 1) = Filling(pieces, piece, arguments)
  <2>1. CASE ~IsHole(piece)
    BY <1>1, <2>1, Zenon DEF WrittenAt, Filling
  <2>2. CASE IsHole(piece)
    <3>1. HolesTo(q, n + 1) = Holes(pieces) + 1
      BY <1>2, <1>3, <2>2
    <3> QED
      BY <1>1, <2>2, <3>1, Zenon DEF WrittenAt, Filling
  <2> QED
    BY <2>1, <2>2
<1>6. WrittenAt(q, arguments, n + 1) \in Seq(X)
  <2>1. n + 1 \in 1 .. Len(q)
    BY <1>1
  <2> HIDE DEF q, n
  <2> QED
    BY <1>1, <2>1, WrittenIsText
<1> DEFINE ss == [i \in 1 .. n |-> WrittenAt(pieces, arguments, i)]
           t == WrittenAt(q, arguments, n + 1)
           tt == [i \in 1 .. n + 1 |-> WrittenAt(q, arguments, i)]
<1>7. \A i \in 1 .. n : WrittenAt(pieces, arguments, i) \in Seq(X)
  BY WrittenIsText
<1> HIDE DEF q, n
<1>8. ss \in Seq(Seq(X)) /\ Len(ss) = n /\ DOMAIN ss = 1 .. n
  <2>1. ss \in [1 .. n -> Seq(X)]
    BY <1>7
  <2> HIDE DEF ss
  <2> QED
    BY <1>1, <2>1, FunctionIsSeq
<1>9. tt = Append(ss, t)
  <2>1. /\ Append(ss, t) = [i \in 1 .. n + 1 |-> IF i <= n THEN ss[i] ELSE t]
    <3> HIDE DEF ss, t
    <3>1. t \in Seq(X)
      BY <1>6 DEF t
    <3>2. /\ Append(ss, t) \in Seq(Seq(X)) /\ Len(Append(ss, t)) = n + 1
          /\ \A i \in 1 .. n : Append(ss, t)[i] = ss[i]
          /\ Append(ss, t)[n + 1] = t
      BY <1>8, <3>1, AppendProperties
    <3> DEFINE u == Append(ss, t)
    <3>3. u \in [1 .. n + 1 -> Seq(X)]
      <4>1. u \in Seq(Seq(X)) /\ Len(u) = n + 1
        BY <3>2
      <4> HIDE DEF u
      <4>2. u \in [1 .. Len(u) -> Seq(X)]
        BY <4>1, LenProperties
      <4> QED
        BY <4>1, <4>2
    <3>4. u = [i \in 1 .. n + 1 |-> u[i]]
      <4> HIDE DEF u
      <4> QED
        BY <3>3, Zenon
    <3>5. ASSUME NEW i \in 1 .. n + 1 PROVE u[i] = IF i <= n THEN ss[i] ELSE t
      <4>1. (i \in 1 .. n /\ i <= n) \/ (i = n + 1 /\ ~(i <= n))
        BY <1>1
      <4> QED
        BY <3>2, <4>1, Zenon
    <3> HIDE DEF u
    <3>6. u = [i \in 1 .. n + 1 |-> IF i <= n THEN ss[i] ELSE t]
      BY <3>4, <3>5, Zenon
    <3> QED
      BY <3>6 DEF u
  <2>2. ASSUME NEW i \in 1 .. n + 1
        PROVE  (IF i <= n THEN ss[i] ELSE t) = WrittenAt(q, arguments, i)
    <3>1. CASE i <= n
      <4>1. i \in 1 .. n
        BY <1>1, <3>1
      <4>2. ss[i] = WrittenAt(pieces, arguments, i)
        BY <4>1
      <4> HIDE DEF ss
      <4> QED
        BY <1>4, <3>1, <4>1, <4>2, Zenon
    <3>2. CASE ~(i <= n)
      <4>1. i = n + 1
        BY <1>1, <3>2
      <4> QED
        BY <3>2, <4>1, Zenon
    <3> QED
      BY <3>1, <3>2
  <2> QED
    BY <2>1, <2>2, Zenon
<1>10. RenderPieces(pieces, arguments) = FlattenSeq(ss)
  BY <1>1, RenderIs, Zenon
<1>11. RenderPieces(q, arguments) = FlattenSeq(tt)
  BY <1>1, RenderIs, Zenon
<1>12. FlattenSeq(Append(ss, t)) = FlattenSeq(ss) \o t /\ FlattenSeq(ss) \in Seq(X)
  <2>1. t \in Seq(X)
    BY <1>6
  <2> HIDE DEF ss, t
  <2> QED
    BY <1>8, <2>1, FlattenAppend
<1> HIDE DEF ss, tt
<1>13. t = Filling(pieces, piece, arguments)
  BY <1>5
<1> HIDE DEF t
<1> QED
  BY <1>9, <1>10, <1>11, <1>12, <1>13, Zenon DEF q

\* No piece becomes nothing.
LEMMA RenderNothing ==
    ASSUME NEW arguments
    PROVE  RenderPieces(<< >>, arguments) = << >> /\ Holes(<< >>) = 0 /\ ~IsRaw(<< >>)
<1>1. DOMAIN << >> = {} /\ Len(<< >>) = 0 /\ 1 .. 0 = {}
  BY EmptySeq
<1> DEFINE ss == [i \in DOMAIN << >> |-> WrittenAt(<< >>, arguments, i)]
<1>2. ss = << >>
  <2>1. ss = [i \in 1 .. 0 |-> WrittenAt(<< >>, arguments, i)]
    BY <1>1
  <2>2. << >> = [i \in 1 .. 0 |-> WrittenAt(<< >>, arguments, i)]
    BY <1>1
  <2> QED
    BY <2>1, <2>2, Zenon
<1>3. FlattenSeq(<< >>) = << >>
  BY <1>1 DEF FlattenSeq
<1>4. RenderPieces(<< >>, arguments) = FlattenSeq(ss)
  BY RenderIs, Zenon
<1>5. Holes(<< >>) = 0
  <2>1. { k \in 1 .. 0 : IsHole(<< >>[k]) } = {}
    BY <1>1
  <2>2. Cardinality({}) = 0
    BY FS_EmptySet
  <2> QED
    BY <1>1, <2>1, <2>2, Zenon DEF Holes
<1> QED
  BY <1>1, <1>2, <1>3, <1>4, <1>5, Zenon DEF IsRaw

\* A sequence is raw when one of its pieces is.
LEMMA RawAppend ==
    ASSUME NEW S, NEW pieces \in Seq(S), NEW piece \in S
    PROVE  IsRaw(Append(pieces, piece)) <=> IsRaw(pieces) \/ piece.kind = "r"
<1> DEFINE n == Len(pieces)
           q == Append(pieces, piece)
<1>1. /\ n \in Nat /\ q[n + 1] = piece
      /\ \A k \in 1 .. n : q[k] = pieces[k]
      /\ DOMAIN pieces = 1 .. n /\ DOMAIN q = 1 .. n + 1
  BY AppendProperties, LenProperties
<1>2. n + 1 \in 1 .. n + 1 /\ \A k \in 1 .. n + 1 : k \in 1 .. n \/ k = n + 1
  BY <1>1
<1>3. \A k \in 1 .. n : k \in 1 .. n + 1
  BY <1>1
<1> HIDE DEF n, q
<1>4. IsRaw(q) <=> IsRaw(pieces) \/ piece.kind = "r"
  BY <1>1, <1>2, <1>3, Zenon DEF IsRaw
<1> QED
  BY <1>4 DEF q

-----------------------------------------------------------------------------
(* Reading a value, part by part.                                          *)

\* What the loop of ParsePieces holds.
IsState(X, s) ==
    s \in [pieces : Seq(PieceOf(X)), text : Seq(X), spec : Seq(X)]

\* To flush the text that is collected changes nothing that is written.
LEMMA FlushedFacts ==
    ASSUME NEW X, NEW s, IsState(X, s), NEW arguments \in Seq(Seq(X))
    PROVE  /\ Flushed(s) \in Seq(PieceOf(X))
           /\ RenderPieces(Flushed(s), arguments) =
                 RenderPieces(s.pieces, arguments) \o s.text
           /\ Holes(Flushed(s)) = Holes(s.pieces)
           /\ IsRaw(Flushed(s)) <=> IsRaw(s.pieces)
<1> DEFINE p == s.pieces
           t == s.text
           l == Literal(t)
<1>1. p \in Seq(PieceOf(X)) /\ t \in Seq(X)
  BY DEF IsState
<1>2. RenderPieces(p, arguments) \in Seq(X)
  <2>1. [kind |-> "text", text |-> << >>] \in PieceOf(X)
    BY EmptySeq DEF PieceOf
  <2> HIDE DEF p
  <2> QED
    BY <1>1, <2>1, RenderAppend
<1>3. CASE t = << >>
  <2>1. Flushed(s) = p
    BY <1>3 DEF Flushed
  <2>2. RenderPieces(p, arguments) \o << >> = RenderPieces(p, arguments)
    BY <1>2, ConcatEmptySeq
  <2> QED
    BY <1>1, <1>3, <2>1, <2>2, Zenon
<1>4. CASE t # << >>
  <2>1. Flushed(s) = Append(p, l)
    BY <1>4 DEF Flushed
  <2>2. l \in PieceOf(X) /\ ~IsHole(l) /\ l.kind # "r" /\ l.text = t
    BY <1>1 DEF Literal, PieceOf, IsHole
  <2> HIDE DEF p, t, l
  <2>3. Append(p, l) \in Seq(PieceOf(X))
    BY <1>1, <2>2, AppendProperties
  <2>4. Holes(Append(p, l)) = Holes(p)
    BY <1>1, <2>2, HolesAppend
  <2>5. IsRaw(Append(p, l)) <=> IsRaw(p)
    BY <1>1, <2>2, RawAppend
  <2>6. RenderPieces(Append(p, l), arguments) =
           RenderPieces(p, arguments) \o Filling(p, l, arguments)
    BY <1>1, <2>2, RenderAppend
  <2>7. Filling(p, l, arguments) = t
    BY <2>2, Zenon DEF Filling
  <2> QED
    BY <2>1, <2>3, <2>4, <2>5, <2>6, <2>7, Zenon DEF p, t
<1> QED
  BY <1>3, <1>4

\* r follows the loop through w.
ReadsAlong(r, w) == \A i \in 1 .. Len(w) : r[i] = Read(r[i - 1], w[i])

\* u stands in w behind e symbols.
StandsAt(w, e, u) ==
    e + Len(u) <= Len(w) /\ \A j \in 1 .. Len(u) : w[e + j] = u[j]

\* A state of the loop.
State(pieces, text, spec) == [pieces |-> pieces, text |-> text, spec |-> spec]

\* What the next symbol of a value does.
LEMMA ReadChoice ==
    ASSUME NEW p, NEW t, NEW v, NEW c
    PROVE  Read(State(p, t, v), c) =
              CASE v = << >> /\ c # "%" -> State(p, Append(t, c), v)
                [] v = << >> /\ c = "%" -> State(p, t, << c >>)
                [] v # << >> /\ Continues(v, c) -> State(p, t, Append(v, c))
                [] v # << >> /\ c = "%" -> State(p, Append(t, c), << >>)
                [] v # << >> /\ Specifies(v, c) ->
                      State(Append(Flushed(State(p, t, v)), Hole(Kind(c), Rest(v, 2))),
                            << >>, << >>)
                [] OTHER -> State(p, t \o v \o << c >>, << >>)
<1> DEFINE s == State(p, t, v)
<1>1. s.pieces = p /\ s.text = t /\ s.spec = v
  BY DEF State
<1>2. s = State(p, t, v)
  OBVIOUS
<1> HIDE DEF s
<1>3. /\ [s EXCEPT !.text = Append(@, c)] = State(p, Append(t, c), v)
      /\ [s EXCEPT !.spec = << c >>] = State(p, t, << c >>)
      /\ [s EXCEPT !.spec = Append(@, c)] = State(p, t, Append(v, c))
      /\ [s EXCEPT !.text = Append(@, c), !.spec = << >>] = State(p, Append(t, c), << >>)
      /\ Unknown(s, c) = State(p, t \o v \o << c >>, << >>)
  <2>1. ASSUME NEW x, NEW y
        PROVE  /\ [s EXCEPT !.text = x] = State(p, x, v)
               /\ [s EXCEPT !.spec = y] = State(p, t, y)
               /\ [s EXCEPT !.text = x, !.spec = y] = State(p, x, y)
    <3>1. s = [pieces |-> p, text |-> t, spec |-> v]
      BY <1>2 DEF State
    <3>2. [s EXCEPT !.text = x] = [pieces |-> p, text |-> x, spec |-> v]
      BY ONLY <3>1
    <3>3. [s EXCEPT !.spec = y] = [pieces |-> p, text |-> t, spec |-> y]
      BY ONLY <3>1
    <3> DEFINE z == [s EXCEPT !.text = x, !.spec = y]
    <3>4. z = [s EXCEPT !.text = x, !.spec = y]
      OBVIOUS
    <3> HIDE DEF z
    <3>5. z = [pieces |-> p, text |-> x, spec |-> y]
      BY ONLY <3>1, <3>4
    <3> QED
      BY <3>2, <3>3, <3>4, <3>5, Zenon DEF State
  <2>2. [s EXCEPT !.text = Append(@, c)] = State(p, Append(t, c), v)
    BY <1>1, <2>1, Zenon
  <2>3. [s EXCEPT !.spec = << c >>] = State(p, t, << c >>)
    BY <2>1, Zenon
  <2>4. [s EXCEPT !.spec = Append(@, c)] = State(p, t, Append(v, c))
    BY <1>1, <2>1, Zenon
  <2>5. [s EXCEPT !.text = Append(@, c), !.spec = << >>] = State(p, Append(t, c), << >>)
    BY <1>1, <2>1, ZenonT(40)
  <2>6. Unknown(s, c) = State(p, t \o v \o << c >>, << >>)
    <3> DEFINE x == t \o v \o << c >>
    <3>1. Unknown(s, c) = [s EXCEPT !.text = x, !.spec = << >>]
      BY <1>1, Zenon DEF Unknown
    <3> HIDE DEF x
    <3>2. Unknown(s, c) = State(p, x, << >>)
      BY <2>1, <3>1, Zenon
    <3> QED
      BY <3>2 DEF x
  <2> QED
    BY <2>2, <2>3, <2>4, <2>5, <2>6
<1>4. [pieces |-> Append(Flushed(s), Hole(Kind(c), Rest(v, 2))),
       text |-> << >>, spec |-> << >>] =
         State(Append(Flushed(s), Hole(Kind(c), Rest(v, 2))), << >>, << >>)
  BY DEF State
<1> QED
  BY <1>1, <1>3, <1>4, Zenon DEF Read, s

\* Only one of these is true of a symbol.
LEMMA Exclusive ==
    ASSUME NEW v, NEW c
    PROVE  /\ ~(Continues(v, c) /\ c = "%")
           /\ ~(Continues(v, c) /\ Specifies(v, c))
           /\ ~(c = "%" /\ Specifies(v, c))
BY DigitsAssumption DEF Continues, Specifies

\* A character outside a specifier.
LEMMA ReadText ==
    ASSUME NEW p, NEW t, NEW c, c # "%"
    PROVE  Read(State(p, t, << >>), c) = State(p, Append(t, c), << >>)
<1> DEFINE s == State(p, t, << >>)
           x == Append(t, c)
           z == [s EXCEPT !.text = x]
<1>1. s.spec = << >> /\ s.text = t
  BY DEF State
<1>2. s = [pieces |-> p, text |-> t, spec |-> << >>]
  BY DEF State
<1> HIDE DEF s
<1>3. Read(s, c) = [s EXCEPT !.text = Append(@, c)]
  BY <1>1 DEF Read
<1>4. [s EXCEPT !.text = Append(@, c)] = z
  BY <1>1, Zenon
<1> HIDE DEF x
<1>5. z = [pieces |-> p, text |-> x, spec |-> << >>]
  BY ONLY <1>2
<1> QED
  BY <1>3, <1>4, <1>5, Zenon DEF State, s, x

\* A percent sign that begins one.
LEMMA ReadPercent ==
    ASSUME NEW p, NEW t
    PROVE  Read(State(p, t, << >>), "%") = State(p, t, << "%" >>)
BY ReadChoice

\* A flag, a width or a precision in one.
LEMMA ReadOn ==
    ASSUME NEW p, NEW t, NEW v, v # << >>, NEW c, Continues(v, c)
    PROVE  Read(State(p, t, v), c) = State(p, t, Append(v, c))
BY ReadChoice, Exclusive

\* A percent sign that ends one.
LEMMA ReadDoubled ==
    ASSUME NEW p, NEW t, NEW v, v # << >>, ~Continues(v, "%")
    PROVE  Read(State(p, t, v), "%") = State(p, Append(t, "%"), << >>)
BY ReadChoice, Exclusive

\* A letter that ends one and means something.
LEMMA ReadHole ==
    ASSUME NEW p, NEW t, NEW v, v # << >>, NEW c, Specifies(v, c)
    PROVE  Read(State(p, t, v), c) =
              State(Append(Flushed(State(p, t, v)), Hole(Kind(c), Rest(v, 2))),
                    << >>, << >>)
BY ReadChoice, Exclusive

\* A letter that ends one and means nothing.
LEMMA ReadUnknown ==
    ASSUME NEW p, NEW t, NEW v, v # << >>, NEW c, c # "%",
           ~Continues(v, c), ~Specifies(v, c)
    PROVE  Read(State(p, t, v), c) = State(p, t \o v \o << c >>, << >>)
BY ReadChoice

\* A specifier that is begun is collected.
LEMMA SpecRun ==
    ASSUME NEW X, NEW w \in Seq(X), NEW r, ReadsAlong(r, w), NEW e \in Nat,
           NEW u \in Seq(X), u # << >>, IsSpec(u), StandsAt(w, e, u),
           NEW p, NEW t, r[e] = State(p, t, << >>)
    PROVE  r[e + Len(u)] = State(p, t, u)
<1> DEFINE n == Len(u)
           T == { j \in Nat : j <= n => r[e + j] = State(p, t, Cut(u, j)) }
<1>1. n \in Nat /\ Len(w) \in Nat /\ n # 0 /\ e + n <= Len(w)
  BY LenProperties, EmptySeq DEF StandsAt
<1>2. \A j \in 1 .. n : w[e + j] = u[j]
  BY DEF StandsAt
<1>3. /\ u[1] = "%"
      /\ n > 1 => u[2] = "."
      /\ \A i \in 3 .. n : u[i] \in Digits
  BY DEF IsSpec
<1>5. ASSUME NEW j \in 0 .. n - 1
      PROVE  /\ Cut(u, j) \in Seq(X) /\ Len(Cut(u, j)) = j
             /\ Cut(u, j + 1) = Append(Cut(u, j), u[j + 1])
  <2>1. j \in 0 .. Len(u) /\ j # Len(u)
    BY <1>1
  <2> QED
    BY <2>1, CutFacts, CutNext
<1>6. ASSUME NEW j \in 0 .. n - 1 PROVE r[e + (j + 1)] = Read(r[e + j], u[j + 1])
  <2>1. /\ e + (j + 1) \in 1 .. Len(w) /\ (e + (j + 1)) - 1 = e + j
        /\ j + 1 \in 1 .. n
    BY <1>1
  <2>2. r[e + (j + 1)] = Read(r[(e + (j + 1)) - 1], w[e + (j + 1)])
    BY <2>1 DEF ReadsAlong
  <2>3. w[e + (j + 1)] = u[j + 1]
    BY <1>2, <2>1
  <2> QED
    BY <2>1, <2>2, <2>3
<1>7. 0 \in T
  <2>1. 0 \in 0 .. n - 1 /\ e + 0 = e
    BY <1>1
  <2>2. Cut(u, 0) = << >>
    BY <1>5, <2>1, EmptySeq
  <2> QED
    BY <2>1, <2>2
<1>8. ASSUME NEW j \in T PROVE j + 1 \in T
  <2> j + 1 \in Nat
    OBVIOUS
  <2> SUFFICES ASSUME j + 1 <= n PROVE r[e + (j + 1)] = State(p, t, Cut(u, j + 1))
    OBVIOUS
  <2>1. j \in 0 .. n - 1 /\ j \in Nat /\ j <= n
    BY <1>1
  <2> DEFINE v == Cut(u, j)
             c == u[j + 1]
  <2>2. r[e + (j + 1)] = Read(r[e + j], c)
    BY <1>6, <2>1
  <2>3. r[e + j] = State(p, t, v)
    BY <2>1
  <2>4. v \in Seq(X) /\ Len(v) = j /\ Cut(u, j + 1) = Append(v, c)
    BY <1>5, <2>1
  <2>5. CASE j = 0
    <3>1. c = "%"
      BY <1>3, <2>5
    <3> HIDE DEF v
    <3>2. v = << >> /\ Append(v, c) = << c >>
      BY <2>4, <2>5, EmptySeq
    <3> HIDE DEF c
    <3>3. Read(State(p, t, v), c) = State(p, t, << c >>)
      BY <3>1, <3>2, ReadPercent
    <3> QED
      BY <2>2, <2>3, <2>4, <3>2, <3>3, Zenon
  <2>6. CASE j # 0
    <3>1. v # << >>
      <4> HIDE DEF v
      <4> QED
        BY <2>4, <2>6
    <3>2. Continues(v, c)
      <4>1. CASE j = 1
        <5>1. n > 1 /\ j + 1 = 2
          BY <1>1, <2>1, <4>1
        <5>2. c = "."
          BY <1>3, <5>1
        <5> QED
          BY <2>4, <4>1, <5>2, Zenon DEF Continues
      <4>2. CASE j # 1
        <5>1. j + 1 \in 3 .. n /\ j > 1
          BY <1>1, <2>1, <2>6, <4>2
        <5>2. c \in Digits
          BY <1>3, <5>1
        <5> QED
          BY <2>4, <5>1, <5>2, Zenon DEF Continues
      <4> QED
        BY <4>1, <4>2
    <3> HIDE DEF v, c
    <3>3. Read(State(p, t, v), c) = State(p, t, Append(v, c))
      BY <3>1, <3>2, ReadOn
    <3> QED
      BY <2>2, <2>3, <2>4, <3>3, Zenon
  <2> QED
    BY <2>5, <2>6
<1>9. T = Nat
  <2> HIDE DEF T
  <2>1. T \in SUBSET Nat
    BY DEF T
  <2> QED
    BY <1>7, <1>8, <2>1, NumbersInduction
<1>10. r[e + n] = State(p, t, Cut(u, n))
  <2>1. n \in T /\ n <= n
    BY <1>1, <1>9
  <2> QED
    BY <2>1
<1>11. Cut(u, n) = u
  BY CutWhole
<1> QED
  BY <1>10, <1>11, Zenon

\* What a part does to what is read.
ReadAs(p, t, part) ==
    IF part.filled
    THEN State(Append(Flushed(State(p, t, << >>)),
                      Hole(Kind(Last(part.spelled)), Rest(Front(part.spelled), 2))),
               << >>, << >>)
    ELSE State(p, t \o part.text, << >>)

\* A part of a value over X.
IsPart(X, part) ==
    /\ part.spelled \in Seq(X) /\ part.text \in Seq(X) /\ part.filled \in BOOLEAN
    /\ IsValuePart(part)

\* The loop reads the next symbol.
LEMMA OneRead ==
    ASSUME NEW X, NEW w \in Seq(X), NEW r, ReadsAlong(r, w), NEW e \in Nat,
           e + 1 <= Len(w)
    PROVE  r[e + 1] = Read(r[e], w[e + 1])
<1>1. e + 1 \in 1 .. Len(w) /\ (e + 1) - 1 = e
  BY LenProperties
<1>2. r[e + 1] = Read(r[(e + 1) - 1], w[e + 1])
  BY <1>1, Zenon DEF ReadsAlong
<1> QED
  BY <1>1, <1>2

\* A character.
LEMMA PlainRead ==
    ASSUME NEW X, NEW w \in Seq(X), NEW r, ReadsAlong(r, w), NEW e \in Nat,
           NEW part, IsPart(X, part), Len(part.spelled) = 1,
           StandsAt(w, e, part.spelled),
           NEW p, NEW t \in Seq(X), r[e] = State(p, t, << >>)
    PROVE  r[e + 1] = ReadAs(p, t, part)
<1> DEFINE s == part.spelled
           c == Last(s)
<1>1. s \in Seq(X) /\ Len(s) = 1 /\ c # "%" /\ ~part.filled /\ part.text = s
  <2>1. s # << "%", "%" >>
    <3>1. Len(<< "%", "%" >>) = 2
      OBVIOUS
    <3>2. s = << "%", "%" >> => Len(s) = 2
      BY <3>1, Zenon
    <3> QED
      BY <3>2
  <2>2. s \in Seq(X) /\ Len(s) = 1 /\ IsValuePart(part)
    BY DEF IsPart
  <2> QED
    BY <2>1, <2>2 DEF IsValuePart
<1>2. s # << >> /\ 1 \in 1 .. Len(s) /\ c = s[1] /\ c \in X /\ s = << c >>
  <2>1. s # << >>
    <3>1. Len(<< >>) = 0
      OBVIOUS
    <3>2. s = << >> => Len(s) = 0
      BY <3>1, Zenon
    <3> QED
      BY <3>2
  <2>2. c = s[Len(s)] /\ c \in X
    BY <1>1, <2>1, FrontAndLast
  <2>3. s = << s[1] >>
    BY <1>1
  <2> QED
    BY <1>1, <2>1, <2>2, <2>3
<1>3. e + 1 <= Len(w) /\ w[e + 1] = c
  BY <1>1, <1>2 DEF StandsAt
<1> HIDE DEF c
<1>4. r[e + 1] = Read(State(p, t, << >>), c)
  BY <1>3, OneRead
<1>5. Read(State(p, t, << >>), c) = State(p, Append(t, c), << >>)
  BY <1>1, ReadText
<1>6. Append(t, c) = t \o part.text
  BY <1>1, <1>2, AppendIsConcat
<1> QED
  BY <1>1, <1>4, <1>5, <1>6, Zenon DEF ReadAs

\* A doubled percent sign.
LEMMA DoubledRead ==
    ASSUME NEW X, NEW w \in Seq(X), NEW r, ReadsAlong(r, w), NEW e \in Nat,
           NEW part, IsPart(X, part), part.spelled = << "%", "%" >>,
           StandsAt(w, e, part.spelled),
           NEW p, NEW t \in Seq(X), r[e] = State(p, t, << >>)
    PROVE  r[e + 2] = ReadAs(p, t, part)
<1> DEFINE s == part.spelled
<1>1. s \in Seq(X) /\ ~part.filled /\ part.text = << "%" >> /\ Len(s) = 2
  BY DEF IsPart, IsValuePart
<1>2. "%" \in X
  <2>1. 1 \in 1 .. Len(s) /\ s[1] = "%"
    BY <1>1
  <2>2. s[1] \in X
    BY <1>1, <2>1, ElementOfSeq
  <2> QED
    BY <2>1, <2>2
<1>3. e + 2 <= Len(w) /\ w[e + 1] = "%" /\ w[e + 2] = "%"
  BY <1>1 DEF StandsAt
<1>4. r[e + 1] = State(p, t, << "%" >>)
  <2>1. e + 1 <= Len(w)
    BY <1>3, LenProperties
  <2>2. r[e + 1] = Read(r[e], w[e + 1])
    BY <2>1, OneRead
  <2> QED
    BY <1>3, <2>2, ReadPercent
<1>5. r[e + 2] = Read(r[e + 1], "%")
  <2>1. e + 1 \in Nat /\ (e + 1) + 1 = e + 2
    OBVIOUS
  <2>2. r[(e + 1) + 1] = Read(r[e + 1], w[(e + 1) + 1])
    BY <1>3, <2>1, OneRead
  <2> QED
    BY <1>3, <2>1, <2>2
<1>6. Read(State(p, t, << "%" >>), "%") = State(p, Append(t, "%"), << >>)
  <2>1. << "%" >> # << >> /\ ~Continues(<< "%" >>, "%")
    BY Exclusive
  <2> QED
    BY <2>1, ReadDoubled
<1>7. Append(t, "%") = t \o part.text
  BY <1>1, <1>2, AppendIsConcat
<1> QED
  BY <1>1, <1>4, <1>5, <1>6, <1>7, Zenon DEF ReadAs

\* A percent sign with a letter behind it.
LEMMA LetterRead ==
    ASSUME NEW X, NEW w \in Seq(X), NEW r, ReadsAlong(r, w), NEW e \in Nat,
           NEW part, IsPart(X, part), Len(part.spelled) # 1,
           part.spelled # << "%", "%" >>, StandsAt(w, e, part.spelled),
           NEW p, NEW t \in Seq(X), r[e] = State(p, t, << >>)
    PROVE  r[e + Len(part.spelled)] = ReadAs(p, t, part)
<1> DEFINE s == part.spelled
           u == Front(s)
           c == Last(s)
           m == Len(u)
           n == Len(s)
<1>1. /\ s \in Seq(X) /\ s # << >> /\ IsSpec(u) /\ c # "%" /\ ~Continues(u, c)
      /\ part.filled <=> Specifies(u, c)
      /\ ~part.filled => part.text = s
  BY DEF IsPart, IsValuePart
<1>2. /\ u \in Seq(X) /\ m = n - 1 /\ n \in Nat /\ n # 0 /\ n # 1
      /\ \A i \in 1 .. n - 1 : u[i] = s[i]
      /\ c = s[n] /\ c \in X /\ s = u \o << c >>
  BY <1>1, FrontAndLast
<1>3. e + n <= Len(w) /\ \A j \in 1 .. n : w[e + j] = s[j]
  BY DEF StandsAt
<1>4. Len(w) \in Nat
  BY LenProperties
<1> HIDE DEF s, u, c, m, n
<1>5. /\ m \in Nat /\ m # 0 /\ e + m \in Nat /\ e + m <= Len(w) /\ (e + m) + 1 <= Len(w)
      /\ (e + m) + 1 = e + n /\ n \in 1 .. n
      /\ \A j \in 1 .. m : j \in 1 .. n /\ j \in 1 .. n - 1
  BY <1>2, <1>3, <1>4
<1>6. u # << >>
  BY <1>5, EmptySeq DEF m
<1>7. StandsAt(w, e, u)
  BY <1>2, <1>3, <1>5 DEF StandsAt, m
<1>8. r[e + m] = State(p, t, u)
  BY <1>1, <1>2, <1>6, <1>7, SpecRun DEF m
<1>9. r[e + n] = Read(State(p, t, u), c)
  <2>1. r[(e + m) + 1] = Read(r[e + m], w[(e + m) + 1])
    BY <1>5, OneRead
  <2>2. w[e + n] = c
    BY <1>2, <1>3, <1>5
  <2> QED
    BY <1>5, <1>8, <2>1, <2>2
<1>10. CASE part.filled
  <2>1. Read(State(p, t, u), c) =
           State(Append(Flushed(State(p, t, u)), Hole(Kind(c), Rest(u, 2))), << >>, << >>)
    BY <1>1, <1>6, <1>10, ReadHole
  <2>2. Flushed(State(p, t, u)) = Flushed(State(p, t, << >>))
    BY DEF Flushed, State
  <2> QED
    BY <1>9, <1>10, <2>1, <2>2, Zenon DEF ReadAs, u, c, s, n
<1>11. CASE ~part.filled
  <2>1. Read(State(p, t, u), c) = State(p, t \o u \o << c >>, << >>)
    BY <1>1, <1>6, <1>11, ReadUnknown
  <2>2. << c >> \in Seq(X)
    <3>1. c \in X
      BY <1>2
    <3> QED
      BY ONLY <3>1
  <2>3. t \o u \o << c >> = t \o (u \o << c >>)
    <3> DEFINE b == << c >>
    <3>1. u \in Seq(X) /\ b \in Seq(X)
      BY <1>2, <2>2
    <3> HIDE DEF b
    <3>2. (t \o u) \o b = t \o (u \o b)
      BY ONLY <3>1, ConcatAssociative, SMTT(30)
    <3> QED
      BY <3>2 DEF b
  <2>4. t \o u \o << c >> = t \o part.text
    BY <1>1, <1>2, <1>11, <2>3, Zenon
  <2> QED
    BY <1>9, <1>11, <2>1, <2>4, Zenon DEF ReadAs, s, n
<1> QED
  BY <1>10, <1>11 DEF IsPart

\* Whatever the part is, the loop reads it whole.
LEMMA PartRead ==
    ASSUME NEW X, NEW w \in Seq(X), NEW r, ReadsAlong(r, w), NEW e \in Nat,
           NEW part, IsPart(X, part), StandsAt(w, e, part.spelled),
           NEW p, NEW t \in Seq(X), r[e] = State(p, t, << >>)
    PROVE  r[e + Len(part.spelled)] = ReadAs(p, t, part)
<1>1. CASE Len(part.spelled) = 1
  BY <1>1, PlainRead
<1>2. CASE part.spelled = << "%", "%" >>
  <2>1. Len(part.spelled) = 2
    BY <1>2
  <2>2. r[e + 2] = ReadAs(p, t, part)
    BY <1>2, DoubledRead
  <2> QED
    BY <2>1, <2>2
<1>3. CASE Len(part.spelled) # 1 /\ part.spelled # << "%", "%" >>
  BY <1>3, LetterRead
<1> QED
  BY <1>1, <1>2, <1>3

\* What the parts of a value are spelled as, what they mean, and what they are given.
Spelled(v) == [i \in 1 .. Len(v) |-> v[i].spelled]

TextsOf(v) == [i \in 1 .. Len(v) |-> v[i].text]

Given(v) == [i \in 1 .. Len(v) |-> IF v[i].filled THEN << v[i].text >> ELSE << >>]

\* The record of a part.
PartOf(X) == [filled : BOOLEAN, spelled : Seq(X), text : Seq(X)]

\* A value v: f, g and a join what is spelled, what is meant and what is given.
Valued(X, v, f, g, a) ==
    /\ v \in Seq(PartOf(X))
    /\ Joins(f, Spelled(v), X) /\ Joins(g, TextsOf(v), X)
    /\ Joins(a, Given(v), Seq(X))

\* These are sequences of texts, one for each part.
LEMMA ValuedExists ==
    ASSUME NEW X, NEW v \in Seq(PartOf(X))
    PROVE  /\ Spelled(v) \in Seq(Seq(X)) /\ Len(Spelled(v)) = Len(v)
           /\ TextsOf(v) \in Seq(Seq(X)) /\ Len(TextsOf(v)) = Len(v)
           /\ Given(v) \in Seq(Seq(Seq(X))) /\ Len(Given(v)) = Len(v)
<1> DEFINE n == Len(v)
<1>1. n \in Nat /\ \A i \in 1 .. n : v[i] \in PartOf(X)
  BY ElementOfSeq, LenProperties
<1>2. << >> \in Seq(Seq(X)) /\ \A t \in Seq(X) : << t >> \in Seq(Seq(X))
  <2>1. << >> \in Seq(Seq(X))
    BY EmptySeq
  <2>2. ASSUME NEW t \in Seq(X) PROVE << t >> \in Seq(Seq(X))
    OBVIOUS
  <2> QED
    BY <2>1, <2>2
<1>3. \A i \in 1 .. n :
        /\ v[i].spelled \in Seq(X) /\ v[i].text \in Seq(X)
        /\ v[i].filled \in BOOLEAN
  BY <1>1 DEF PartOf
<1> HIDE DEF n
<1>4. [i \in 1 .. n |-> v[i].spelled] \in [1 .. n -> Seq(X)]
  BY <1>3
<1>5. [i \in 1 .. n |-> v[i].text] \in [1 .. n -> Seq(X)]
  BY <1>3
<1>6. [i \in 1 .. n |-> IF v[i].filled THEN << v[i].text >> ELSE << >>]
        \in [1 .. n -> Seq(Seq(X))]
  <2>1. ASSUME NEW i \in 1 .. n
        PROVE  (IF v[i].filled THEN << v[i].text >> ELSE << >>) \in Seq(Seq(X))
    BY <1>2, <1>3, Zenon
  <2> QED
    BY <2>1, Zenon
<1>7. Spelled(v) \in [1 .. n -> Seq(X)]
  BY <1>4 DEF Spelled, n
<1>8. TextsOf(v) \in [1 .. n -> Seq(X)]
  BY <1>5 DEF TextsOf, n
<1>9. Given(v) \in [1 .. n -> Seq(Seq(X))]
  BY <1>6 DEF Given, n
<1>10. Spelled(v) \in Seq(Seq(X)) /\ Len(Spelled(v)) = n
  BY <1>1, <1>7, FunctionIsSeq
<1>11. TextsOf(v) \in Seq(Seq(X)) /\ Len(TextsOf(v)) = n
  BY <1>1, <1>8, FunctionIsSeq
<1>12. Given(v) \in Seq(Seq(Seq(X))) /\ Len(Given(v)) = n
  BY <1>1, <1>9, FunctionIsSeq
<1> QED
  BY <1>10, <1>11, <1>12 DEF n

\* What is known of part k of a value.
PartFacts(X, v, f, g, a, k) ==
    LET n == Len(v)
        part == v[k]
    IN  /\ part.spelled \in Seq(X) /\ part.text \in Seq(X) /\ part.filled \in BOOLEAN
        /\ g[k - 1] \in Seq(X) /\ g[k] = g[k - 1] \o part.text
        /\ f[n] \in Seq(X) /\ Len(f[k - 1]) \in Nat
        /\ Len(f[k]) = Len(f[k - 1]) + Len(part.spelled)
        /\ StandsAt(f[n], Len(f[k - 1]), part.spelled)
        /\ a[n] \in Seq(Seq(X)) /\ Len(a[k - 1]) \in Nat
        /\ ~part.filled => a[k] = a[k - 1]
        /\ part.filled =>
              /\ Len(a[k]) = Len(a[k - 1]) + 1
              /\ Len(a[k - 1]) + 1 <= Len(a[n])
              /\ a[n][Len(a[k - 1]) + 1] = part.text

\* This is so.
LEMMA PartIs ==
    ASSUME NEW X, NEW v, NEW f, NEW g, NEW a, Valued(X, v, f, g, a),
           NEW k \in 1 .. Len(v)
    PROVE  PartFacts(X, v, f, g, a, k)
<1> DEFINE n == Len(v)
           part == v[k]
<1>1. /\ n \in Nat /\ k \in 1 .. n /\ v \in Seq(PartOf(X)) /\ part \in PartOf(X)
      /\ k \in 0 .. n /\ n \in 0 .. n
  BY ElementOfSeq, LenProperties DEF Valued
<1>2. /\ Len(Spelled(v)) = n /\ Len(TextsOf(v)) = n /\ Len(Given(v)) = n
  BY <1>1, ValuedExists
<1>3. /\ part.spelled \in Seq(X) /\ part.text \in Seq(X) /\ part.filled \in BOOLEAN
  BY <1>1 DEF PartOf
<1>4. /\ Spelled(v)[k] = part.spelled /\ TextsOf(v)[k] = part.text
      /\ Given(v)[k] = IF part.filled THEN << part.text >> ELSE << >>
  BY <1>1 DEF Spelled, TextsOf, Given
<1>5. Joins(f, Spelled(v), X) /\ Joins(g, TextsOf(v), X) /\ Joins(a, Given(v), Seq(X))
  BY DEF Valued
<1> HIDE DEF n, part
<1>6. StandsBehind(f, Spelled(v), X, k)
  BY <1>1, <1>2, <1>5, JoinsStep
<1>7. StandsBehind(g, TextsOf(v), X, k)
  BY <1>1, <1>2, <1>5, JoinsStep
<1>8. StandsBehind(a, Given(v), Seq(X), k)
  BY <1>1, <1>2, <1>5, JoinsStep
<1>9. g[k - 1] \in Seq(X) /\ g[k] = g[k - 1] \o part.text
  BY <1>4, <1>7, Zenon DEF StandsBehind
<1>10. k \in 0 .. n /\ n \in 0 .. n /\ k \in 0 .. Len(Spelled(v))
       /\ n \in 0 .. Len(Spelled(v)) /\ n \in 0 .. Len(Given(v))
  BY <1>1, <1>2
<1>11. /\ f[n] \in Seq(X) /\ Len(f[k]) \in Nat /\ Len(f[n]) \in Nat
       /\ Len(f[k]) <= Len(f[n])
       /\ \A p \in 1 .. Len(f[k]) : f[n][p] = f[k][p]
  BY <1>5, <1>10, JoinsGrow
<1>12. /\ a[n] \in Seq(Seq(X)) /\ Len(a[k]) \in Nat /\ Len(a[n]) \in Nat
       /\ Len(a[k]) <= Len(a[n])
       /\ \A p \in 1 .. Len(a[k]) : a[n][p] = a[k][p]
  BY <1>5, <1>10, JoinsGrow
<1>13. /\ Len(f[k - 1]) \in Nat /\ Len(part.spelled) \in Nat
       /\ Len(f[k]) = Len(f[k - 1]) + Len(part.spelled)
       /\ \A j \in 1 .. Len(part.spelled) : f[k][Len(f[k - 1]) + j] = part.spelled[j]
  BY <1>4, <1>6, Zenon DEF StandsBehind
<1>14. StandsAt(f[n], Len(f[k - 1]), part.spelled)
  <2> DEFINE b == Len(f[k - 1])
             c == Len(f[k])
             d == Len(f[n])
             m == Len(part.spelled)
             x == f[k]
             y == f[n]
  <2>1. /\ b \in Nat /\ m \in Nat /\ c \in Nat /\ d \in Nat
        /\ c = b + m /\ c <= d
    BY <1>11, <1>13, Zenon
  <2>2. \A j \in 1 .. m : x[b + j] = part.spelled[j]
    BY <1>13, Zenon
  <2>3. \A p \in 1 .. c : y[p] = x[p]
    BY <1>11, Zenon
  <2>4. b + m <= Len(y) /\ \A j \in 1 .. m : y[b + j] = part.spelled[j]
    <3>1. d = Len(y)
      OBVIOUS
    <3> HIDE DEF b, c, d, m, x, y
    <3>2. \A j \in 1 .. m : b + j \in 1 .. c
      BY ONLY <2>1
    <3>3. \A j \in 1 .. m : y[b + j] = x[b + j]
      BY <2>3, <3>2, Zenon
    <3>4. b + m <= d
      BY ONLY <2>1
    <3> QED
      BY <2>2, <3>1, <3>3, <3>4, Zenon
  <2> QED
    BY <2>4, Zenon DEF StandsAt
<1>15. Len(a[k - 1]) \in Nat /\ a[k - 1] \in Seq(Seq(X)) /\ a[k] = a[k - 1] \o Given(v)[k]
  BY <1>8, Zenon DEF StandsBehind
<1>16. ASSUME ~part.filled PROVE a[k] = a[k - 1]
  <2>1. Given(v)[k] = << >>
    BY <1>4, <1>16
  <2>2. a[k - 1] \o << >> = a[k - 1]
    BY <1>15, ConcatEmptySeq
  <2> QED
    BY <1>15, <2>1, <2>2, Zenon
<1>17. ASSUME part.filled
       PROVE  /\ Len(a[k]) = Len(a[k - 1]) + 1
              /\ Len(a[k - 1]) + 1 <= Len(a[n])
              /\ a[n][Len(a[k - 1]) + 1] = part.text
  <2>1. Given(v)[k] = << part.text >>
    BY <1>4, <1>17
  <2>2. a[k] = Append(a[k - 1], part.text)
    BY <1>3, <1>15, <2>1, AppendIsConcat, Zenon
  <2>3. /\ Len(Append(a[k - 1], part.text)) = Len(a[k - 1]) + 1
        /\ Append(a[k - 1], part.text)[Len(a[k - 1]) + 1] = part.text
    BY <1>3, <1>15, AppendProperties
  <2> DEFINE b == Len(a[k - 1])
             c == Len(a[k])
             d == Len(a[n])
  <2>4. c = b + 1 /\ a[k][b + 1] = part.text /\ b \in Nat /\ d \in Nat /\ c <= d
    BY <1>12, <1>15, <2>2, <2>3, Zenon
  <2>5. \A p \in 1 .. c : a[n][p] = a[k][p]
    BY <1>12, Zenon
  <2> HIDE DEF b, c, d
  <2>6. b + 1 \in 1 .. c /\ b + 1 <= d
    BY ONLY <2>4
  <2> QED
    BY <2>4, <2>5, <2>6, Zenon DEF b, c, d
<1> QED
  BY <1>3, <1>9, <1>11, <1>12, <1>13, <1>14, <1>15, <1>16, <1>17, Zenon
     DEF PartFacts, n, part

\* A part that is raw.
IsTrusted(part) == part.filled /\ Last(part.spelled) = "r"

\* One of the first k parts is.
Trusted(v, k) == \E i \in 1 .. k : IsTrusted(v[i])

\* The first k parts are read, and what is kept of them is what they mean.
Means(X, v, g, a, k, p, t) ==
    /\ p \in Seq(PieceOf(X)) /\ t \in Seq(X)
    /\ RenderPieces(p, a[Len(v)]) \o t = g[k]
    /\ Holes(p) = Len(a[k])
    /\ IsRaw(p) <=> Trusted(v, k)

\* One of k is when one of k - 1 is, or the last.
LEMMA TrustedNext ==
    ASSUME NEW v, NEW k \in Nat, k # 0
    PROVE  Trusted(v, k) <=> Trusted(v, k - 1) \/ IsTrusted(v[k])
<1>1. k \in 1 .. k /\ \A i \in 1 .. k : i \in 1 .. k - 1 \/ i = k
  OBVIOUS
<1>2. \A i \in 1 .. k - 1 : i \in 1 .. k
  OBVIOUS
<1> QED
  BY <1>1, <1>2, Zenon DEF Trusted

\* A part that is given no argument is text.
LEMMA UnfilledNext ==
    ASSUME NEW X, NEW v, NEW f, NEW g, NEW a, Valued(X, v, f, g, a),
           NEW k \in 1 .. Len(v), ~v[k].filled,
           NEW p, NEW t, Means(X, v, g, a, k - 1, p, t)
    PROVE  Means(X, v, g, a, k, p, t \o v[k].text)
<1> DEFINE x == v[k].text
           args == a[Len(v)]
           R == RenderPieces(p, args)
<1>1. k \in Nat /\ k # 0
  BY LenProperties DEF Valued
<1>2. PartFacts(X, v, f, g, a, k)
  BY PartIs
<1>3. /\ x \in Seq(X) /\ g[k] = g[k - 1] \o x /\ a[k] = a[k - 1]
      /\ args \in Seq(Seq(X))
  BY <1>2, Zenon DEF PartFacts
<1>4. /\ p \in Seq(PieceOf(X)) /\ t \in Seq(X)
      /\ R \o t = g[k - 1] /\ Holes(p) = Len(a[k - 1])
      /\ IsRaw(p) <=> Trusted(v, k - 1)
  BY Zenon DEF Means
<1>5. R \in Seq(X)
  <2>1. [kind |-> "text", text |-> << >>] \in PieceOf(X)
    BY EmptySeq DEF PieceOf
  <2> HIDE DEF args
  <2> QED
    BY <1>3, <1>4, <2>1, RenderAppend
<1> HIDE DEF x, R
<1>6. R \o (t \o x) = g[k]
  <2>1. (R \o t) \o x = R \o (t \o x)
    <3>1. R \in Seq(X) /\ t \in Seq(X) /\ x \in Seq(X)
      BY <1>3, <1>4, <1>5
    <3> QED
      BY ONLY <3>1, ConcatAssociative, SMTT(30)
  <2> QED
    BY <1>3, <1>4, <2>1, Zenon
<1>7. t \o x \in Seq(X)
  BY <1>3, <1>4, ConcatProperties
<1>8. Trusted(v, k) <=> Trusted(v, k - 1)
  BY <1>1, TrustedNext, Zenon DEF IsTrusted
<1> QED
  BY <1>3, <1>4, <1>6, <1>7, <1>8, Zenon DEF Means, x, R

\* The hole of a specifier.
LEMMA HoleIs ==
    ASSUME NEW X, NEW part, IsPart(X, part), part.filled
    PROVE  LET hole == Hole(Kind(Last(part.spelled)), Rest(Front(part.spelled), 2))
           IN  /\ hole \in PieceOf(X) /\ IsHole(hole)
               /\ hole.kind = "r" <=> Last(part.spelled) = "r"
<1> DEFINE s == part.spelled
           u == Front(s)
           c == Last(s)
           hole == Hole(Kind(c), Rest(u, 2))
<1>1. s \in Seq(X) /\ part.text \in Seq(X) /\ IsValuePart(part)
  BY DEF IsPart
<1>2. Len(s) # 1 /\ s # << "%", "%" >>
  <2>1. Len(s) = 1 => FALSE
    <3> SUFFICES ASSUME Len(s) = 1 PROVE FALSE
      OBVIOUS
    <3>1. Len(<< "%", "%" >>) = 2
      OBVIOUS
    <3>2. s = << "%", "%" >> => Len(s) = 2
      BY <3>1, Zenon
    <3>3. s # << "%", "%" >>
      BY <3>2
    <3> QED
      BY <1>1, <3>3 DEF IsValuePart
  <2>2. s = << "%", "%" >> => FALSE
    BY <1>1, <2>1 DEF IsValuePart
  <2> QED
    BY <2>1, <2>2
<1>3. s # << >> /\ Specifies(u, c)
  BY <1>1, <1>2 DEF IsValuePart
<1>4. u \in Seq(X)
  BY <1>1, <1>3, FrontAndLast
<1>5. Rest(u, 2) \in Seq(X)
  <2> HIDE DEF u
  <2>1. Len(u) \in Int /\ 2 + 1 \in Int /\ \A i \in 2 + 1 .. Len(u) : u[i] \in X
    <3>1. Len(u) \in Nat
      BY <1>4, LenProperties
    <3>2. \A i \in 2 + 1 .. Len(u) : i \in 1 .. Len(u)
      BY <3>1
    <3> QED
      BY <1>4, <3>1, <3>2, ElementOfSeq
  <2>2. SubSeq(u, 2 + 1, Len(u)) \in Seq(X)
    BY ONLY <2>1, SubSeqProperties
  <2> QED
    BY <2>2 DEF Rest
<1>6. Kind(c) \in { "d", "f", "s", "r" } /\ (Kind(c) = "r" <=> c = "r")
  <2> HIDE DEF c, u
  <2>1. c \in { "f", "d", "i", "s", "r" }
    BY <1>3 DEF Specifies
  <2> QED
    BY <2>1 DEF Kind
<1>7. hole.kind = Kind(c) /\ hole.kind # "text"
  <2> HIDE DEF c
  <2> QED
    BY <1>6 DEF Hole
<1>8. hole \in PieceOf(X)
  <2> HIDE DEF c, u
  <2> QED
    BY <1>5, <1>6 DEF Hole, PieceOf
<1> QED
  BY <1>6, <1>7, <1>8, Zenon DEF IsHole

\* A part that is given one is a hole.
LEMMA FilledNext ==
    ASSUME NEW X, NEW v, NEW f, NEW g, NEW a, Valued(X, v, f, g, a),
           NEW k \in 1 .. Len(v), v[k].filled, IsPart(X, v[k]),
           NEW p, NEW t, Means(X, v, g, a, k - 1, p, t)
    PROVE  Means(X, v, g, a, k,
                 Append(Flushed(State(p, t, << >>)),
                        Hole(Kind(Last(v[k].spelled)), Rest(Front(v[k].spelled), 2))),
                 << >>)
<1> DEFINE x == v[k].text
           args == a[Len(v)]
           s == State(p, t, << >>)
           q == Flushed(s)
           hole == Hole(Kind(Last(v[k].spelled)), Rest(Front(v[k].spelled), 2))
<1>1. k \in Nat /\ k # 0
  BY LenProperties DEF Valued
<1>2. PartFacts(X, v, f, g, a, k)
  BY PartIs
<1>3. /\ x \in Seq(X) /\ g[k] = g[k - 1] \o x /\ g[k - 1] \in Seq(X)
      /\ args \in Seq(Seq(X))
      /\ Len(a[k]) = Len(a[k - 1]) + 1
      /\ Len(a[k - 1]) + 1 <= Len(args)
      /\ args[Len(a[k - 1]) + 1] = x
  BY <1>2, Zenon DEF PartFacts
<1>4. /\ p \in Seq(PieceOf(X)) /\ t \in Seq(X)
      /\ RenderPieces(p, args) \o t = g[k - 1] /\ Holes(p) = Len(a[k - 1])
      /\ IsRaw(p) <=> Trusted(v, k - 1)
  BY Zenon DEF Means
<1>5. IsState(X, s) /\ s.pieces = p /\ s.text = t
  <2>1. << >> \in Seq(X)
    BY EmptySeq
  <2> QED
    BY <1>4, <2>1 DEF IsState, State
<1> HIDE DEF args, s
<1>6. /\ q \in Seq(PieceOf(X))
      /\ RenderPieces(q, args) = g[k - 1]
      /\ Holes(q) = Len(a[k - 1])
      /\ IsRaw(q) <=> Trusted(v, k - 1)
  <2>1. /\ q \in Seq(PieceOf(X))
        /\ RenderPieces(q, args) = RenderPieces(s.pieces, args) \o s.text
        /\ Holes(q) = Holes(s.pieces)
        /\ IsRaw(q) <=> IsRaw(s.pieces)
    BY <1>3, <1>5, FlushedFacts
  <2> QED
    BY <1>4, <1>5, <2>1, Zenon
<1>7. /\ hole \in PieceOf(X) /\ IsHole(hole)
      /\ hole.kind = "r" <=> Last(v[k].spelled) = "r"
  BY HoleIs, Zenon
<1> HIDE DEF q, hole, x
<1>8. Append(q, hole) \in Seq(PieceOf(X))
  BY <1>6, <1>7, AppendProperties
<1>9. Holes(Append(q, hole)) = Len(a[k])
  <2>1. Holes(Append(q, hole)) = Holes(q) + 1
    BY <1>6, <1>7, HolesAppend
  <2> QED
    BY <1>3, <1>6, <2>1, Zenon
<1>10. IsRaw(Append(q, hole)) <=> Trusted(v, k)
  <2>1. IsRaw(Append(q, hole)) <=> IsRaw(q) \/ hole.kind = "r"
    BY <1>6, <1>7, RawAppend
  <2>2. Trusted(v, k) <=> Trusted(v, k - 1) \/ IsTrusted(v[k])
    BY <1>1, TrustedNext
  <2>3. IsTrusted(v[k]) <=> Last(v[k].spelled) = "r"
    BY Zenon DEF IsTrusted
  <2> QED
    BY <1>6, <1>7, <2>1, <2>2, <2>3, Zenon
<1>11. RenderPieces(Append(q, hole), args) = g[k]
  <2>1. RenderPieces(Append(q, hole), args) =
           RenderPieces(q, args) \o Filling(q, hole, args)
    BY <1>3, <1>6, <1>7, RenderAppend
  <2>2. Filling(q, hole, args) = x
    BY <1>3, <1>6, <1>7, Zenon DEF Filling
  <2> QED
    BY <1>3, <1>6, <2>1, <2>2, Zenon
<1>12. RenderPieces(Append(q, hole), args) \o << >> = g[k] /\ << >> \in Seq(X)
  <2>1. g[k] \in Seq(X)
    BY <1>3, ConcatProperties
  <2>2. g[k] \o << >> = g[k]
    BY <2>1, ConcatEmptySeq
  <2>3. << >> \in Seq(X)
    BY EmptySeq
  <2> QED
    BY <1>11, <2>2, <2>3, Zenon
<1> QED
  BY <1>8, <1>9, <1>10, <1>12, Zenon DEF Means, args, q, s, hole

\* What the recursive function of ParsePieces is asked to be.
ReadFrom(r, source, n) ==
    r = [i \in 0 .. n |->
            IF i = 0 THEN [pieces |-> << >>, text |-> << >>, spec |-> << >>]
            ELSE Read(r[i - 1], source[i])]

\* There is such a function.
LEMMA ReadExists ==
    ASSUME NEW source, NEW n \in Nat
    PROVE  \E r : ReadFrom(r, source, n)
<1> DEFINE start == [pieces |-> << >>, text |-> << >>, spec |-> << >>]
           T == { k \in Nat : \E r : ReadFrom(r, source, k) }
<1>1. 0 \in T
  <2> DEFINE r == [i \in 0 .. 0 |-> start]
  <2>1. ReadFrom(r, source, 0)
    BY DEF ReadFrom
  <2> QED
    BY <2>1
<1>2. ASSUME NEW k \in T PROVE k + 1 \in T
  <2>1. PICK r : ReadFrom(r, source, k)
    BY <1>2
  <2> DEFINE q == [i \in 0 .. k + 1 |->
                     IF i = 0 THEN start ELSE Read(r[i - 1], source[i])]
  <2>2. ASSUME NEW i \in 0 .. k PROVE q[i] = r[i]
    <3>1. i \in 0 .. k + 1
      OBVIOUS
    <3>2. r[i] = IF i = 0 THEN start ELSE Read(r[i - 1], source[i])
      BY <2>1, Zenon DEF ReadFrom
    <3> QED
      BY <3>1, <3>2, Zenon
  <2>3. \A i \in 0 .. k + 1 : i # 0 => i - 1 \in 0 .. k
    OBVIOUS
  <2>4. ReadFrom(q, source, k + 1)
    BY <2>2, <2>3, Zenon DEF ReadFrom
  <2> QED
    BY <2>4
<1> QED
  BY <1>1, <1>2, NumbersInduction

\* ParsePieces is its last value, flushed.
LEMMA ParseReads ==
    ASSUME NEW X, NEW source \in Seq(X)
    PROVE  \E r : /\ r[0] = State(<< >>, << >>, << >>)
                  /\ ReadsAlong(r, source)
                  /\ ParsePieces(source) =
                        Flushed([r[Len(source)] EXCEPT !.text = @ \o r[Len(source)].spec])
<1> DEFINE r == CHOOSE q : ReadFrom(q, source, Len(source))
<1>0. Len(source) \in Nat
  BY LenProperties
<1>1. ReadFrom(r, source, Len(source))
  BY <1>0, ReadExists
<1>2. ParsePieces(source) =
         Flushed([r[Len(source)] EXCEPT !.text = @ \o r[Len(source)].spec])
  BY DEF ParsePieces, ReadFrom
<1> HIDE DEF r
<1>3. r[0] = State(<< >>, << >>, << >>)
  <2>1. 0 \in 0 .. Len(source)
    BY <1>0
  <2> QED
    BY <1>1, <2>1, Zenon DEF ReadFrom, State
<1>4. ASSUME NEW i \in 1 .. Len(source) PROVE r[i] = Read(r[i - 1], source[i])
  <2>1. i \in 0 .. Len(source) /\ i # 0
    BY <1>0
  <2> QED
    BY <1>1, <2>1, Zenon DEF ReadFrom
<1> QED
  BY <1>2, <1>3, <1>4 DEF ReadsAlong

\* What is read when the first k parts are.
Understood(X, v, f, g, a, r, k) ==
    \E p, t : /\ r[Len(f[k])] = State(p, t, << >>)
              /\ Means(X, v, g, a, k, p, t)

\* Before the first part.
LEMMA NothingRead ==
    ASSUME NEW X, NEW v, NEW f, NEW g, NEW a, Valued(X, v, f, g, a),
           NEW r, r[0] = State(<< >>, << >>, << >>)
    PROVE  Understood(X, v, f, g, a, r, 0)
<1>1. f[0] = << >> /\ g[0] = << >> /\ a[0] = << >>
  BY DEF Valued, Joins
<1>2. Len(<< >>) = 0 /\ << >> \in Seq(X) /\ << >> \in Seq(PieceOf(X))
  BY EmptySeq
<1>3. /\ RenderPieces(<< >>, a[Len(v)]) = << >>
      /\ Holes(<< >>) = 0 /\ ~IsRaw(<< >>)
  BY RenderNothing
<1>4. << >> \o << >> = << >>
  BY <1>2, ConcatEmptySeq
<1>5. ~Trusted(v, 0)
  <2>1. 1 .. 0 = {}
    OBVIOUS
  <2> QED
    BY <2>1 DEF Trusted
<1>6. Means(X, v, g, a, 0, << >>, << >>)
  BY <1>1, <1>2, <1>3, <1>4, <1>5, Zenon DEF Means
<1> QED
  BY <1>1, <1>2, <1>6, Zenon DEF Understood

\* A part more.
LEMMA NextUnderstood ==
    ASSUME NEW X, NEW v, NEW f, NEW g, NEW a, Valued(X, v, f, g, a),
           NEW r, ReadsAlong(r, f[Len(v)]),
           NEW k \in 1 .. Len(v), IsValuePart(v[k]),
           Understood(X, v, f, g, a, r, k - 1)
    PROVE  Understood(X, v, f, g, a, r, k)
<1>1. PartFacts(X, v, f, g, a, k)
  BY PartIs
<1> DEFINE part == v[k]
           w == f[Len(v)]
           e == Len(f[k - 1])
<1>2. /\ IsPart(X, part) /\ w \in Seq(X) /\ e \in Nat
      /\ Len(f[k]) = e + Len(part.spelled) /\ StandsAt(w, e, part.spelled)
      /\ part.filled \in BOOLEAN
  BY <1>1, Zenon DEF PartFacts, IsPart
<1>3. PICK p, t : r[e] = State(p, t, << >>) /\ Means(X, v, g, a, k - 1, p, t)
  BY Zenon DEF Understood
<1>4. t \in Seq(X)
  BY <1>3, Zenon DEF Means
<1>5. ReadsAlong(r, w)
  OBVIOUS
<1> HIDE DEF part, w, e
<1>6. r[e + Len(part.spelled)] = ReadAs(p, t, part)
  BY <1>2, <1>3, <1>4, <1>5, PartRead
<1>7. r[Len(f[k])] = ReadAs(p, t, part)
  BY <1>2, <1>6, Zenon
<1>8. CASE part.filled
  <2>1. ReadAs(p, t, part) =
           State(Append(Flushed(State(p, t, << >>)),
                        Hole(Kind(Last(v[k].spelled)), Rest(Front(v[k].spelled), 2))),
                 << >>, << >>)
    BY <1>8, Zenon DEF ReadAs, part
  <2>2. v[k].filled /\ IsPart(X, v[k])
    BY <1>2, <1>8 DEF part
  <2>3. Means(X, v, g, a, k,
              Append(Flushed(State(p, t, << >>)),
                     Hole(Kind(Last(v[k].spelled)), Rest(Front(v[k].spelled), 2))),
              << >>)
    BY <1>3, <2>2, FilledNext
  <2> QED
    BY <1>7, <2>1, <2>3, Zenon DEF Understood
<1>9. CASE ~part.filled
  <2>1. ReadAs(p, t, part) = State(p, t \o v[k].text, << >>)
    BY <1>9, Zenon DEF ReadAs, part
  <2>2. ~v[k].filled
    BY <1>9 DEF part
  <2>3. Means(X, v, g, a, k, p, t \o v[k].text)
    BY <1>3, <2>2, UnfilledNext
  <2> QED
    BY <1>7, <2>1, <2>3, Zenon DEF Understood
<1> QED
  BY <1>8, <1>9

\* Every part.
LEMMA PartsUnderstood ==
    ASSUME NEW X, NEW v, NEW f, NEW g, NEW a, Valued(X, v, f, g, a),
           NEW r, r[0] = State(<< >>, << >>, << >>), ReadsAlong(r, f[Len(v)]),
           NEW m \in 0 .. Len(v), \A k \in 1 .. m : IsValuePart(v[k])
    PROVE  Understood(X, v, f, g, a, r, m)
<1> DEFINE T == { k \in Nat : k <= m => Understood(X, v, f, g, a, r, k) }
<1>1. m \in Nat /\ Len(v) \in Nat /\ m <= Len(v)
  BY LenProperties DEF Valued
<1>2. 0 \in T
  BY NothingRead
<1>3. ASSUME NEW k \in T PROVE k + 1 \in T
  <2> k + 1 \in Nat
    OBVIOUS
  <2> SUFFICES ASSUME k + 1 <= m PROVE Understood(X, v, f, g, a, r, k + 1)
    OBVIOUS
  <2>1. k \in Nat /\ k <= m /\ k + 1 \in 1 .. m /\ k + 1 \in 1 .. Len(v)
    BY <1>1
  <2> DEFINE j == k + 1
  <2>2. j - 1 = k /\ j \in 1 .. Len(v) /\ IsValuePart(v[j])
    BY <2>1
  <2>3. Understood(X, v, f, g, a, r, k)
    BY <2>1
  <2> HIDE DEF j
  <2>4. Understood(X, v, f, g, a, r, j - 1)
    BY <2>2, <2>3, Zenon
  <2>5. Understood(X, v, f, g, a, r, j)
    BY <2>2, <2>4, NextUnderstood
  <2> QED
    BY <2>5 DEF j
<1>4. T = Nat
  <2> HIDE DEF T
  <2>1. T \in SUBSET Nat
    BY DEF T
  <2> QED
    BY <1>2, <1>3, <2>1, NumbersInduction
<1> QED
  BY <1>1, <1>4

\* What ParsePieces does at the end of a value.
AtEnd(s) == Flushed([s EXCEPT !.text = @ \o s.spec])

\* It flushes the text, and the specifier that is begun as text.
LEMMA FlushedAtEnd ==
    ASSUME NEW p, NEW t, NEW u, NEW s, s = State(p, t, u)
    PROVE  AtEnd(s) = Flushed(State(p, t \o u, << >>))
<1>1. s = [pieces |-> p, text |-> t, spec |-> u]
  BY DEF State
<1> DEFINE x == t \o u
           z == [s EXCEPT !.text = x]
<1>2. [s EXCEPT !.text = @ \o s.spec] = z
  <2>1. s.text = t /\ s.spec = u
    BY <1>1
  <2> QED
    BY <2>1, Zenon
<1> HIDE DEF x
<1>3. z = [pieces |-> p, text |-> x, spec |-> u]
  BY ONLY <1>1
<1> HIDE DEF z
<1>4. z.pieces = p /\ z.text = x
  BY <1>3
<1>5. State(p, x, << >>).pieces = p /\ State(p, x, << >>).text = x
  BY DEF State
<1>6. Flushed(z) = Flushed(State(p, x, << >>))
  BY <1>4, <1>5, Zenon DEF Flushed
<1> QED
  BY <1>2, <1>6, Zenon DEF x, AtEnd

\* What ends with the value: nothing, or a specifier that is begun.
LEMMA EndRead ==
    ASSUME NEW X, NEW v, NEW f, NEW g, NEW a, Valued(X, v, f, g, a),
           NEW p, NEW t, NEW u, NEW s, s = State(p, t, u),
           Means(X, v, g, a, Len(v), p, t \o u)
    PROVE  /\ RenderPieces(AtEnd(s), a[Len(v)]) = g[Len(v)]
           /\ IsRaw(AtEnd(s)) <=> Trusted(v, Len(v))
<1> DEFINE x == t \o u
           q == State(p, x, << >>)
           args == a[Len(v)]
<1>1. AtEnd(s) = Flushed(q)
  BY FlushedAtEnd
<1>2. /\ p \in Seq(PieceOf(X)) /\ x \in Seq(X)
      /\ RenderPieces(p, args) \o x = g[Len(v)]
      /\ IsRaw(p) <=> Trusted(v, Len(v))
  BY Zenon DEF Means
<1>3. args \in Seq(Seq(X))
  <2>1. Len(v) \in Nat /\ Len(Given(v)) = Len(v)
    BY ValuedExists, LenProperties DEF Valued
  <2>2. Len(v) \in 0 .. Len(Given(v))
    BY <2>1
  <2> QED
    BY <2>2 DEF Valued, Joins
<1> HIDE DEF x, args
<1>4. IsState(X, q) /\ q.pieces = p /\ q.text = x
  <2>1. << >> \in Seq(X)
    BY EmptySeq
  <2> QED
    BY <1>2, <2>1 DEF IsState, State
<1> HIDE DEF q
<1>5. /\ RenderPieces(Flushed(q), args) = RenderPieces(q.pieces, args) \o q.text
      /\ IsRaw(Flushed(q)) <=> IsRaw(q.pieces)
  BY <1>3, <1>4, FlushedFacts
<1> QED
  BY <1>1, <1>2, <1>4, <1>5, Zenon DEF args

\* Filling the specifiers of a value gives what it means.
LEMMA ValueRead ==
    ASSUME NEW X, NEW v, NEW f, NEW g, NEW a, Valued(X, v, f, g, a),
           \A k \in 1 .. Len(v) :
               IsValuePart(v[k]) \/ (k = Len(v) /\ IsOpenSpec(v[k]))
    PROVE  /\ RenderPieces(ParsePieces(f[Len(v)]), a[Len(v)]) = g[Len(v)]
           /\ IsRaw(ParsePieces(f[Len(v)])) <=> Trusted(v, Len(v))
<1> DEFINE n == Len(v)
           w == f[n]
<1>1. n \in Nat /\ n \in 0 .. n
  BY LenProperties DEF Valued
<1>2. w \in Seq(X)
  <2>1. Len(Spelled(v)) = n
    BY ValuedExists DEF Valued
  <2> QED
    BY <1>1, <2>1 DEF Valued, Joins
<1>3. PICK r : /\ r[0] = State(<< >>, << >>, << >>)
               /\ ReadsAlong(r, w)
               /\ ParsePieces(w) = AtEnd(r[Len(w)])
  <2> HIDE DEF w
  <2> QED
    BY <1>2, ParseReads, Zenon DEF AtEnd
<1> SUFFICES \E p, t, u : /\ r[Len(w)] = State(p, t, u)
                          /\ Means(X, v, g, a, n, p, t \o u)
  <2>1. PICK p, t, u : /\ r[Len(w)] = State(p, t, u)
                       /\ Means(X, v, g, a, n, p, t \o u)
    OBVIOUS
  <2>2. PICK s : s = r[Len(w)]
    OBVIOUS
  <2>3. /\ RenderPieces(AtEnd(s), a[n]) = g[n]
        /\ IsRaw(AtEnd(s)) <=> Trusted(v, n)
    BY <2>1, <2>2, EndRead
  <2> QED
    BY <1>3, <2>2, <2>3, Zenon
<1>4. CASE \A k \in 1 .. n : IsValuePart(v[k])
  <2>1. Understood(X, v, f, g, a, r, n)
    BY <1>1, <1>3, <1>4, PartsUnderstood
  <2>2. PICK p, t : r[Len(w)] = State(p, t, << >>) /\ Means(X, v, g, a, n, p, t)
    BY <2>1, Zenon DEF Understood
  <2>3. t \o << >> = t
    <3>1. t \in Seq(X)
      BY <2>2, Zenon DEF Means
    <3> QED
      BY <3>1, ConcatEmptySeq
  <2> QED
    BY <2>2, <2>3, Zenon
<1>5. CASE ~ \A k \in 1 .. n : IsValuePart(v[k])
  <2>1. n \in 1 .. n /\ IsOpenSpec(v[n]) /\ \A k \in 1 .. n - 1 : IsValuePart(v[k])
    <3>1. \A k \in 1 .. n - 1 : k \in 1 .. n /\ k # n
      BY <1>1
    <3> QED
      BY <1>5, <3>1, Zenon
  <2> DEFINE m == n - 1
             part == v[n]
             u == part.spelled
             e == Len(f[m])
  <2>2. m \in 0 .. n
    BY <1>1, <2>1
  <2>3. Understood(X, v, f, g, a, r, m)
    BY <1>3, <2>1, <2>2, PartsUnderstood
  <2>4. PICK p, t : r[e] = State(p, t, << >>) /\ Means(X, v, g, a, m, p, t)
    BY <2>3, Zenon DEF Understood
  <2>5. PartFacts(X, v, f, g, a, n)
    BY <2>1, PartIs
  <2>6. u \in Seq(X) /\ e \in Nat /\ Len(w) = e + Len(u) /\ StandsAt(w, e, u)
    BY <2>5, Zenon DEF PartFacts
  <2>7. u # << >> /\ IsSpec(u) /\ ~part.filled /\ part.text = u
    BY <2>1, Zenon DEF IsOpenSpec
  <2>8. Means(X, v, g, a, n, p, t \o u)
    <3>1. Means(X, v, g, a, n, p, t \o v[n].text)
      BY <2>1, <2>4, <2>7, UnfilledNext
    <3> QED
      BY <2>7, <3>1, Zenon
  <2> HIDE DEF u, e, w
  <2>9. r[e + Len(u)] = State(p, t, u)
    BY <1>2, <1>3, <2>4, <2>6, <2>7, SpecRun
  <2> QED
    BY <2>6, <2>8, <2>9, Zenon
<1> QED
  BY <1>4, <1>5

-----------------------------------------------------------------------------
(* The variable of a mail.                                                 *)

\* FlattenSeq joins each of the three.
LEMMA ValuedBy ==
    ASSUME NEW X, NEW v \in Seq(PartOf(X))
    PROVE  \E f, g, a : /\ Valued(X, v, f, g, a)
                        /\ FlattenSeq(Spelled(v)) = f[Len(v)]
                        /\ FlattenSeq(TextsOf(v)) = g[Len(v)]
                        /\ FlattenSeq(Given(v)) = a[Len(v)]
<1>1. /\ Spelled(v) \in Seq(Seq(X)) /\ Len(Spelled(v)) = Len(v)
      /\ TextsOf(v) \in Seq(Seq(X)) /\ Len(TextsOf(v)) = Len(v)
      /\ Given(v) \in Seq(Seq(Seq(X))) /\ Len(Given(v)) = Len(v)
  BY ValuedExists
<1>2. PICK f : Joins(f, Spelled(v), X) /\ FlattenSeq(Spelled(v)) = f[Len(Spelled(v))]
  BY <1>1, FlattenJoins
<1>3. PICK g : Joins(g, TextsOf(v), X) /\ FlattenSeq(TextsOf(v)) = g[Len(TextsOf(v))]
  BY <1>1, FlattenJoins
<1>4. PICK a : Joins(a, Given(v), Seq(X)) /\ FlattenSeq(Given(v)) = a[Len(Given(v))]
  BY <1>1, FlattenJoins
<1> QED
  BY <1>1, <1>2, <1>3, <1>4, Zenon DEF Valued

\* A value without specifiers is given no argument.
LEMMA NothingGiven ==
    ASSUME NEW X, NEW v, NEW f, NEW g, NEW a, Valued(X, v, f, g, a),
           \A k \in 1 .. Len(v) : ~v[k].filled
    PROVE  a[Len(v)] = << >>
<1> DEFINE T == { k \in Nat : k <= Len(v) => a[k] = << >> }
<1>1. Len(v) \in Nat /\ a[0] = << >>
  BY LenProperties DEF Valued, Joins
<1>2. 0 \in T
  BY <1>1
<1>3. ASSUME NEW k \in T PROVE k + 1 \in T
  <2> k + 1 \in Nat
    OBVIOUS
  <2> SUFFICES ASSUME k + 1 <= Len(v) PROVE a[k + 1] = << >>
    OBVIOUS
  <2> DEFINE j == k + 1
  <2>1. j \in 1 .. Len(v) /\ j - 1 = k /\ k <= Len(v)
    BY <1>1
  <2>2. a[k] = << >>
    BY <2>1
  <2> HIDE DEF j
  <2>3. PartFacts(X, v, f, g, a, j) /\ ~v[j].filled
    BY <2>1, PartIs
  <2>4. a[j] = a[j - 1]
    BY <2>3, Zenon DEF PartFacts
  <2>5. a[j] = << >>
    BY <2>1, <2>2, <2>4, Zenon
  <2> QED
    BY <2>5 DEF j
<1>4. T = Nat
  <2> HIDE DEF T
  <2>1. T \in SUBSET Nat
    BY DEF T
  <2> QED
    BY <1>2, <1>3, <2>1, NumbersInduction
<1> QED
  BY <1>1, <1>4

\* A value with one is given some.
LEMMA SomethingGiven ==
    ASSUME NEW X, NEW v, NEW f, NEW g, NEW a, Valued(X, v, f, g, a),
           NEW k \in 1 .. Len(v), v[k].filled
    PROVE  a[Len(v)] # << >>
<1>1. PartFacts(X, v, f, g, a, k)
  BY PartIs
<1> DEFINE b == Len(a[k - 1])
           args == a[Len(v)]
<1>2. b \in Nat /\ b + 1 <= Len(args) /\ args \in Seq(Seq(X))
  BY <1>1, Zenon DEF PartFacts
<1> HIDE DEF b, args
<1>3. Len(args) # 0
  BY <1>2, LenProperties
<1>4. args # << >>
  <2>1. args = << >> => Len(args) = Len(<< >>)
    BY Zenon
  <2>2. Len(<< >>) = 0
    OBVIOUS
  <2> QED
    BY <1>3, <2>1, <2>2
<1> QED
  BY <1>4 DEF args

\* SetVar gives the value that is meant, and whether it is trusted.
LEMMA VarIs ==
    ASSUME NEW v, IsValue(v)
    PROVE  LET var == SetVar(ValueSource(v), Arguments(v))
           IN  /\ var.text = FlattenSeq(TextsOf(v))
               /\ var.raw <=> Trusted(v, Len(v))
               /\ FlattenSeq(TextsOf(v)) \in Seq(STRING)
<1> DEFINE n == Len(v)
           var == SetVar(ValueSource(v), Arguments(v))
<1>1. v \in Seq(PartOf(STRING))
  BY DEF IsValue, PartOf
<1>2. n \in Nat /\ DOMAIN v = 1 .. n
  BY <1>1, LenProperties
<1>3. \A k \in 1 .. n : IsValuePart(v[k]) \/ (k = n /\ IsOpenSpec(v[k]))
  BY <1>2, Zenon DEF IsValue
<1>4. PICK f, g, a : /\ Valued(STRING, v, f, g, a)
                     /\ FlattenSeq(Spelled(v)) = f[n]
                     /\ FlattenSeq(TextsOf(v)) = g[n]
                     /\ FlattenSeq(Given(v)) = a[n]
  BY <1>1, ValuedBy
<1>5. Arguments(v) = a[n]
  BY <1>2, <1>4, Zenon DEF Arguments, Given
<1>6. g[n] \in Seq(STRING)
  <2>1. Len(TextsOf(v)) = n
    BY <1>1, ValuedExists
  <2>2. n \in 0 .. Len(TextsOf(v))
    BY <1>2, <2>1
  <2> QED
    BY <1>4, <2>2 DEF Valued, Joins
<1>7. CASE \E k \in 1 .. n : v[k].filled
  <2>1. ValueSource(v) = f[n]
    <3>1. \E i \in DOMAIN v : v[i].filled
      BY <1>2, <1>7, Zenon
    <3> QED
      BY <1>2, <1>4, <3>1, Zenon DEF ValueSource, Spelled
  <2>2. a[n] # << >>
    BY <1>4, <1>7, SomethingGiven
  <2>3. /\ RenderPieces(ParsePieces(f[n]), a[n]) = g[n]
        /\ IsRaw(ParsePieces(f[n])) <=> Trusted(v, n)
    BY <1>3, <1>4, ValueRead
  <2>4. /\ var.text = RenderPieces(ParsePieces(f[n]), a[n])
        /\ var.raw = IsRaw(ParsePieces(f[n]))
    BY <1>5, <2>1, <2>2 DEF SetVar
  <2> QED
    BY <1>4, <1>6, <2>3, <2>4, Zenon
<1>8. CASE ~ \E k \in 1 .. n : v[k].filled
  <2>1. ValueSource(v) = g[n]
    <3>1. ~ \E i \in DOMAIN v : v[i].filled
      BY <1>2, <1>8, Zenon
    <3> QED
      BY <1>2, <1>4, <3>1, Zenon DEF ValueSource, TextsOf
  <2>2. a[n] = << >>
    BY <1>4, <1>8, NothingGiven
  <2>3. ~Trusted(v, n)
    BY <1>8, Zenon DEF Trusted, IsTrusted
  <2>4. var.text = g[n] /\ var.raw = FALSE
    BY <1>5, <2>1, <2>2 DEF SetVar
  <2> QED
    BY <1>4, <1>6, <2>3, <2>4, Zenon
<1> QED
  BY <1>7, <1>8

-----------------------------------------------------------------------------
(* A mail.                                                                 *)

\* Every symbol a mail may hold.
Glyphs ==
    STRING \cup { "{", "}", "&lt;", "&gt;", "&amp;", "&quot;", "&#39;" }

\* What a part of the template is meant to become.
MeantBy(mail, part) ==
    LET value == FlattenSeq(TextsOf(mail.value))
    IN  CASE ~IsKey(part) -> part.text
          [] IsKey(part) /\ part.text = mail.key ->
                IF mail.html /\ ~Trusted(mail.value, Len(mail.value))
                THEN EscapeHtml(value) ELSE value
          [] OTHER -> << "{" >> \o part.text \o << "}" >>

\* The variables of a mail.
VarsOf(mail) ==
    [k \in { mail.key } |-> SetVar(ValueSource(mail.value), Arguments(mail.value))]

\* What the parts of its template are written as, and what they become.
SourceParts(mail) ==
    [i \in 1 .. Len(mail.template) |-> PartSource(mail.template[i])]

MeantParts(mail) ==
    [i \in 1 .. Len(mail.template) |-> MeantBy(mail, mail.template[i])]

\* The mails of Texts, as far as they are needed.
IsMail(mail) ==
    /\ mail.html \in BOOLEAN /\ mail.key \in Seq(STRING)
    /\ IsTemplate(mail.template) /\ IsValue(mail.value)

\* A text may stand in a mail.
LEMMA GlyphSeq ==
    ASSUME NEW t \in Seq(STRING)
    PROVE  t \in Seq(Glyphs)
<1>1. Len(t) \in Nat /\ t \in [1 .. Len(t) -> STRING]
  BY LenProperties
<1>2. t \in [1 .. Len(t) -> Glyphs]
  BY <1>1 DEF Glyphs
<1> QED
  BY <1>1, <1>2, FunctionIsSeq

\* An escaped text may.
LEMMA EscapedGlyphs ==
    ASSUME NEW t \in Seq(STRING)
    PROVE  EscapeHtml(t) \in Seq(Glyphs)
<1>1. Len(t) \in Nat /\ t \in [1 .. Len(t) -> STRING] /\ DOMAIN t = 1 .. Len(t)
  BY LenProperties
<1>2. ASSUME NEW c \in STRING PROVE Entity(c) \in Glyphs
  BY DEF Entity, Glyphs
<1>3. \A i \in 1 .. Len(t) : Entity(t[i]) \in Glyphs
  BY <1>1, <1>2
<1>4. EscapeHtml(t) \in [1 .. Len(t) -> Glyphs]
  BY <1>1, <1>3, Zenon DEF EscapeHtml
<1> QED
  BY <1>1, <1>4, FunctionIsSeq

\* A key in braces.
LEMMA InBraces ==
    ASSUME NEW t \in Seq(Glyphs), NEW s, s = << "{" >> \o t \o << "}" >>
    PROVE  /\ s \in Seq(Glyphs) /\ Len(s) = Len(t) + 2
           /\ s[1] = "{" /\ s[Len(t) + 2] = "}"
           /\ \A i \in 1 .. Len(t) : s[i + 1] = t[i]
<1> DEFINE a == << "{" >>
           b == << "}" >>
<1>1. a \in Seq(Glyphs) /\ b \in Seq(Glyphs) /\ Len(a) = 1 /\ Len(b) = 1
      /\ a[1] = "{" /\ b[1] = "}"
  <2>1. "{" \in Glyphs /\ "}" \in Glyphs
    BY DEF Glyphs
  <2>2. ASSUME NEW x \in Glyphs
        PROVE  << x >> \in Seq(Glyphs) /\ Len(<< x >>) = 1 /\ << x >>[1] = x
    BY ONLY x \in Glyphs
  <2> QED
    BY <2>1, <2>2, Zenon
<1>2. s = (a \o t) \o b
  OBVIOUS
<1>20. a \in Seq(Glyphs) /\ b \in Seq(Glyphs) /\ Len(a) = 1 /\ Len(b) = 1
  BY <1>1, Zenon
<1> HIDE DEF a, b
<1>3. /\ (a \o t) \o b \in Seq(Glyphs) /\ Len((a \o t) \o b) = Len(t) + 2
      /\ ((a \o t) \o b)[1] = a[1] /\ ((a \o t) \o b)[Len(t) + 2] = b[1]
      /\ \A i \in 1 .. Len(t) : ((a \o t) \o b)[i + 1] = t[i]
  BY ONLY <1>20, t \in Seq(Glyphs), Between, SMTT(30)
<1> QED
  BY <1>1, <1>2, <1>3, Zenon

\* What a key becomes.
LEMMA KeyBecomes ==
    ASSUME NEW mail, IsMail(mail), NEW part, IsKey(part), part.text \in Seq(STRING)
    PROVE  /\ MeantBy(mail, part) =
                 Placed(part.text, VarsOf(mail), mail.html, << >>).out
           /\ MeantBy(mail, part) \in Seq(Glyphs)
<1> DEFINE t == part.text
           vars == VarsOf(mail)
           v == mail.value
           value == FlattenSeq(TextsOf(v))
           trusted == Trusted(v, Len(v))
           var == SetVar(ValueSource(v), Arguments(v))
<1>1. IsValue(v) /\ mail.html \in BOOLEAN
  BY DEF IsMail
<1>2. /\ var.text = value /\ value \in Seq(STRING)
      /\ var.raw <=> trusted
  BY <1>1, VarIs, Zenon
<1>3. DOMAIN vars = { mail.key } /\ vars[mail.key] = var
  BY DEF VarsOf
<1>4. Placed(t, vars, mail.html, << >>).out =
         IF t \in DOMAIN vars THEN Value(vars[t], mail.html)
         ELSE << "{" >> \o t \o << "}" >>
  BY DEF Placed
<1>5. CASE t = mail.key
  <2>1. MeantBy(mail, part) =
           IF mail.html /\ ~trusted THEN EscapeHtml(value) ELSE value
    BY <1>5, Zenon DEF MeantBy
  <2>2. Value(var, mail.html) =
           IF mail.html /\ ~var.raw THEN EscapeHtml(var.text) ELSE var.text
    BY Zenon DEF Value
  <2>3. Placed(t, vars, mail.html, << >>).out = Value(var, mail.html)
    BY <1>3, <1>4, <1>5
  <2>4. EscapeHtml(value) \in Seq(Glyphs) /\ value \in Seq(Glyphs)
    <3> HIDE DEF value
    <3> QED
      BY <1>2, EscapedGlyphs, GlyphSeq
  <2> HIDE DEF var, value, trusted, vars
  <2>5. Value(var, mail.html) =
           IF mail.html /\ ~trusted THEN EscapeHtml(value) ELSE value
    BY <1>1, <1>2, <2>2, Zenon
  <2>6. MeantBy(mail, part) \in Seq(Glyphs)
    BY <2>1, <2>4, Zenon
  <2> QED
    BY <2>1, <2>3, <2>5, <2>6, Zenon DEF vars
<1>6. CASE t # mail.key
  <2>1. MeantBy(mail, part) = << "{" >> \o t \o << "}" >>
    BY <1>6, Zenon DEF MeantBy
  <2>2. t \notin DOMAIN vars
    BY <1>3, <1>6
  <2>3. t \in Seq(Glyphs)
    BY GlyphSeq
  <2>4. << "{" >> \o t \o << "}" >> \in Seq(Glyphs)
    <3> DEFINE s == << "{" >> \o t \o << "}" >>
    <3>1. s = << "{" >> \o t \o << "}" >>
      OBVIOUS
    <3> HIDE DEF s
    <3>2. s \in Seq(Glyphs)
      BY <2>3, <3>1, InBraces
    <3> QED
      BY <3>2 DEF s
  <2> QED
    BY <1>4, <2>1, <2>2, <2>4, Zenon
<1> QED
  BY <1>5, <1>6

\* A part of a template as its author means it.
IsTemplatePart(part) ==
    /\ part \in [kind : { "symbol", "key" }, text : Seq(STRING)]
    /\ IF IsKey(part) THEN \A j \in DOMAIN part.text : ~IsBrace(part.text[j])
       ELSE Len(part.text) = 1

\* A part is written as what Render makes its meaning of.
LEMMA PartBecomes ==
    ASSUME NEW mail, IsMail(mail), NEW part, IsTemplatePart(part)
    PROVE  /\ PartSource(part) \in Seq(Glyphs) /\ MeantBy(mail, part) \in Seq(Glyphs)
           /\ Becomes(Glyphs, PartSource(part), MeantBy(mail, part),
                      VarsOf(mail), mail.html)
<1> DEFINE t == part.text
           s == PartSource(part)
           o == MeantBy(mail, part)
<1>1. t \in Seq(STRING) /\ t \in Seq(Glyphs)
  <2>1. t \in Seq(STRING)
    BY DEF IsTemplatePart
  <2> QED
    BY <2>1, GlyphSeq
<1>2. CASE IsKey(part)
  <2>1. s = << "{" >> \o t \o << "}" >>
    BY <1>2, Zenon DEF PartSource
  <2>2. /\ s \in Seq(Glyphs) /\ Len(s) = Len(t) + 2
        /\ s[1] = "{" /\ s[Len(t) + 2] = "}"
        /\ \A i \in 1 .. Len(t) : s[i + 1] = t[i]
    <3> HIDE DEF s, t
    <3> QED
      BY <1>1, <2>1, InBraces
  <2>3. \A i \in 1 .. Len(t) : ~IsBrace(t[i])
    <3>1. DOMAIN t = 1 .. Len(t)
      BY <1>1, LenProperties
    <3> QED
      BY <1>2, <3>1, Zenon DEF IsTemplatePart
  <2>4. /\ o = Placed(t, VarsOf(mail), mail.html, << >>).out
        /\ o \in Seq(Glyphs)
    BY <1>1, <1>2, KeyBecomes
  <2>5. IsNamed(s, o, t, VarsOf(mail), mail.html)
    BY <2>2, <2>3, <2>4, Zenon DEF IsNamed
  <2> QED
    BY <1>1, <2>2, <2>4, <2>5, Zenon DEF Becomes
<1>3. CASE ~IsKey(part)
  <2>1. Len(t) = 1 /\ o = t
    BY <1>3, Zenon DEF IsTemplatePart, MeantBy
  <2>2. t = << t[1] >> /\ t[1] \in Glyphs
    <3>1. 1 \in 1 .. Len(t)
      BY <2>1
    <3> QED
      BY <1>1, <2>1, <3>1, ElementOfSeq
  <2>3. CASE IsBrace(t[1])
    <3>1. s = t \o t
      BY <1>3, <2>3, Zenon DEF PartSource
    <3>3. s \in Seq(Glyphs) /\ Len(s) = 2 /\ s[1] = t[1] /\ s[2] = t[1]
      <4>1. t \in Seq(Glyphs) /\ Len(t) = 1
        BY <1>1, <2>1
      <4> HIDE DEF t, s
      <4>2. /\ t \o t \in Seq(Glyphs) /\ Len(t \o t) = Len(t) + Len(t)
            /\ \A p \in 1 .. Len(t) : (t \o t)[p] = t[p]
            /\ \A j \in 1 .. Len(t) : (t \o t)[Len(t) + j] = t[j]
        BY ONLY <4>1, ConcatFacts
      <4>3. /\ s \in Seq(Glyphs) /\ Len(s) = 1 + 1
            /\ \A p \in 1 .. 1 : s[p] = t[p]
            /\ \A j \in 1 .. 1 : s[1 + j] = t[j]
        BY <3>1, <4>1, <4>2, Zenon
      <4>4. 1 \in 1 .. 1 /\ 1 + 1 = 2
        OBVIOUS
      <4> QED
        BY <4>3, <4>4, Zenon
    <3>4. IsDoubled(s, o)
      BY <2>1, <2>2, <2>3, <3>3, Zenon DEF IsDoubled
    <3> QED
      BY <1>1, <2>1, <3>3, <3>4, Zenon DEF Becomes
  <2>4. CASE ~IsBrace(t[1])
    <3>1. s = t
      BY <1>3, <2>4, Zenon DEF PartSource
    <3>2. IsPlain(s, o)
      BY <2>1, <2>4, <3>1, Zenon DEF IsPlain
    <3> QED
      BY <1>1, <2>1, <3>1, <3>2, Zenon DEF Becomes
  <2> QED
    BY <2>3, <2>4
<1> QED
  BY <1>2, <1>3

\* A mail is composed of the parts of its template.
LEMMA PartsOfMail ==
    ASSUME NEW mail, IsMail(mail)
    PROVE  /\ SourceParts(mail) \in Seq(Seq(Glyphs))
           /\ MeantParts(mail) \in Seq(Seq(Glyphs))
           /\ Len(MeantParts(mail)) = Len(SourceParts(mail))
           /\ \A k \in 1 .. Len(SourceParts(mail)) :
                 Becomes(Glyphs, SourceParts(mail)[k], MeantParts(mail)[k],
                         VarsOf(mail), mail.html)
           /\ TemplateSource(mail.template) = FlattenSeq(SourceParts(mail))
           /\ Meant(mail) = FlattenSeq(MeantParts(mail))
<1> DEFINE parts == mail.template
           n == Len(parts)
<1>1. /\ parts \in Seq([kind : { "symbol", "key" }, text : Seq(STRING)])
      /\ \A i \in DOMAIN parts :
            IF IsKey(parts[i])
            THEN \A j \in DOMAIN parts[i].text : ~IsBrace(parts[i].text[j])
            ELSE Len(parts[i].text) = 1
  BY DEF IsMail, IsTemplate
<1>2. n \in Nat /\ DOMAIN parts = 1 .. n
  BY <1>1, LenProperties
<1>3. ASSUME NEW i \in 1 .. n PROVE IsTemplatePart(parts[i])
  <2>1. parts[i] \in [kind : { "symbol", "key" }, text : Seq(STRING)]
    BY <1>1, ElementOfSeq
  <2> QED
    BY <1>1, <1>2, <2>1, Zenon DEF IsTemplatePart
<1>4. ASSUME NEW i \in 1 .. n
      PROVE  /\ PartSource(parts[i]) \in Seq(Glyphs)
             /\ MeantBy(mail, parts[i]) \in Seq(Glyphs)
             /\ Becomes(Glyphs, PartSource(parts[i]), MeantBy(mail, parts[i]),
                        VarsOf(mail), mail.html)
  <2>1. IsTemplatePart(parts[i])
    BY <1>3
  <2> HIDE DEF parts
  <2> QED
    BY <2>1, PartBecomes
<1>5. /\ SourceParts(mail) = [i \in 1 .. n |-> PartSource(parts[i])]
      /\ MeantParts(mail) = [i \in 1 .. n |-> MeantBy(mail, parts[i])]
  BY DEF SourceParts, MeantParts
<1>6. TemplateSource(parts) = FlattenSeq(SourceParts(mail))
  BY <1>2, <1>5, Zenon DEF TemplateSource
<1>7. Meant(mail) = FlattenSeq(MeantParts(mail))
  <2> DEFINE v == mail.value
             value == FlattenSeq([i \in DOMAIN v |-> v[i].text])
             trusted == \E i \in DOMAIN v : v[i].filled /\ Last(v[i].spelled) = "r"
  <2>1. DOMAIN v = 1 .. Len(v)
    BY LenProperties DEF IsMail, IsValue
  <2>2. value = FlattenSeq(TextsOf(v))
    BY <2>1, Zenon DEF TextsOf
  <2>3. trusted <=> Trusted(v, Len(v))
    BY <2>1, Zenon DEF Trusted, IsTrusted
  <2> DEFINE Place(part) ==
                CASE ~IsKey(part) -> part.text
                  [] IsKey(part) /\ part.text = mail.key ->
                        IF mail.html /\ ~trusted THEN EscapeHtml(value) ELSE value
                  [] OTHER -> << "{" >> \o part.text \o << "}" >>
  <2>4. Meant(mail) = FlattenSeq([i \in DOMAIN parts |-> Place(parts[i])])
    BY Zenon DEF Meant
  <2>5. ASSUME NEW part PROVE Place(part) = MeantBy(mail, part)
    <3> HIDE DEF trusted, value
    <3> QED
      BY <2>2, <2>3, Zenon DEF MeantBy
  <2> HIDE DEF Place
  <2> QED
    BY <1>2, <1>5, <2>4, <2>5, Zenon
<1> HIDE DEF n, parts
<1>8. SourceParts(mail) \in [1 .. n -> Seq(Glyphs)]
  BY <1>4, <1>5, Zenon
<1>9. MeantParts(mail) \in [1 .. n -> Seq(Glyphs)]
  BY <1>4, <1>5, Zenon
<1>10. SourceParts(mail) \in Seq(Seq(Glyphs)) /\ Len(SourceParts(mail)) = n
  BY <1>2, <1>8, FunctionIsSeq
<1>11. MeantParts(mail) \in Seq(Seq(Glyphs)) /\ Len(MeantParts(mail)) = n
  BY <1>2, <1>9, FunctionIsSeq
<1>12. ASSUME NEW k \in 1 .. n
       PROVE  Becomes(Glyphs, SourceParts(mail)[k], MeantParts(mail)[k],
                      VarsOf(mail), mail.html)
  <2>1. SourceParts(mail)[k] = PartSource(parts[k]) /\ MeantParts(mail)[k] = MeantBy(mail, parts[k])
    BY <1>5, Zenon
  <2> QED
    BY <1>4, <2>1, Zenon
<1> QED
  BY <1>6, <1>7, <1>10, <1>11, <1>12, Zenon DEF parts

\* Rendering a mail gives what is meant.
LEMMA MailRendered ==
    ASSUME NEW mail, IsMail(mail)
    PROVE  Render(TemplateSource(mail.template), VarsOf(mail), mail.html) = Meant(mail)
<1> DEFINE src == SourceParts(mail)
           out == MeantParts(mail)
           vars == VarsOf(mail)
           html == mail.html
<1>1. /\ src \in Seq(Seq(Glyphs)) /\ out \in Seq(Seq(Glyphs)) /\ Len(out) = Len(src)
      /\ \A k \in 1 .. Len(src) : Becomes(Glyphs, src[k], out[k], vars, html)
      /\ TemplateSource(mail.template) = FlattenSeq(src)
      /\ Meant(mail) = FlattenSeq(out)
  BY PartsOfMail
<1> HIDE DEF src, out, vars, html
<1>2. PICK f : Joins(f, src, Glyphs) /\ FlattenSeq(src) = f[Len(src)]
  BY <1>1, FlattenJoins
<1>3. PICK g : Joins(g, out, Glyphs) /\ FlattenSeq(out) = g[Len(out)]
  BY <1>1, FlattenJoins
<1>4. Composed(Glyphs, src, out, f, g, vars, html)
  BY <1>1, <1>2, <1>3, Zenon DEF Composed
<1>5. Render(f[Len(src)], vars, html) = g[Len(src)]
  BY <1>4, RenderComposed
<1> QED
  BY <1>1, <1>2, <1>3, <1>5, Zenon DEF vars, html

\* What has been rendered is what was meant.
MailInv ==
    input.what = "mail" =>
        input \in Mails /\ output \in { << >>, << Meant(input) >> }

\* Nothing has been rendered at first.
LEMMA MailInvInit == TextInit => MailInv
  BY TextAssumption DEF TextInit, MailInv

\* A mail is rendered as it is meant.
LEMMA MailStep ==
    ASSUME MailInv, [TextNext]_textVars
    PROVE  MailInv'
<1>1. CASE UNCHANGED textVars
  BY <1>1 DEF MailInv, textVars
<1>2. CASE ReadMail
  <2>1. input.what = "mail" /\ input' = input
    BY <1>2, Zenon DEF ReadMail, Reads
  <2>2. input \in Mails
    BY <2>1 DEF MailInv
  <2>3. IsMail(input)
    BY <2>2, TextAssumption DEF IsMail
  <2>4. output' = << Render(TemplateSource(input.template), VarsOf(input), input.html) >>
    BY <1>2, Zenon DEF ReadMail, Reads, VarsOf
  <2>5. output' = << Meant(input) >>
    BY <2>3, <2>4, MailRendered, Zenon
  <2> QED
    BY <2>1, <2>2, <2>5 DEF MailInv
<1>3. CASE ReadFile \/ ReadInline \/ ReadPath \/ ReadTemplate
  <2>1. input' = input /\ input.what # "mail"
    BY <1>3 DEF ReadFile, ReadInline, ReadPath, ReadTemplate, Reads
  <2> QED
    BY <2>1 DEF MailInv
<1> QED
  BY <1>1, <1>2, <1>3 DEF TextNext

\* Whatever a template holds between its placeholders and whatever an argument
\* spells, src/template.rs and src/format.rs put each value in the place of its
\* key once, escaped where it has to be, and leave every other text as it is.
THEOREM AlwaysFilledOnce == TextSpec => []FilledOnce
<1>1. MailInv => FilledOnce
  <2> SUFFICES ASSUME MailInv, input.what = "mail", output # << >>
               PROVE  output[1] = Meant(input)
    BY DEF FilledOnce
  <2>1. output = << Meant(input) >>
    BY DEF MailInv
  <2> QED
    BY <2>1
<1>2. MailInv /\ [TextNext]_textVars => MailInv'
  BY MailStep
<1> QED
  BY <1>1, <1>2, MailInvInit, PTL DEF TextSpec

-----------------------------------------------------------------------------
(* A text in pieces.                                                       *)

\* What the recursive function of Pieces is asked to be.
PiecesTo(p, text, cuts, n) ==
    p = [i \in 0 .. n |->
            IF i = 0 THEN << << >> >> ELSE Continued(p[i - 1], i \in cuts, text[i])]

\* There is such a function.
LEMMA PiecesExist ==
    ASSUME NEW text, NEW cuts, NEW n \in Nat
    PROVE  \E p : PiecesTo(p, text, cuts, n)
<1> DEFINE T == { k \in Nat : \E p : PiecesTo(p, text, cuts, k) }
<1>1. 0 \in T
  <2> DEFINE p == [i \in 0 .. 0 |-> << << >> >>]
  <2>1. PiecesTo(p, text, cuts, 0)
    BY DEF PiecesTo
  <2> QED
    BY <2>1
<1>2. ASSUME NEW k \in T PROVE k + 1 \in T
  <2>1. PICK p : PiecesTo(p, text, cuts, k)
    BY <1>2
  <2> DEFINE q == [i \in 0 .. k + 1 |->
                     IF i = 0 THEN << << >> >> ELSE Continued(p[i - 1], i \in cuts, text[i])]
  <2>2. ASSUME NEW i \in 0 .. k PROVE q[i] = p[i]
    <3>1. i \in 0 .. k + 1
      OBVIOUS
    <3>2. p[i] = IF i = 0 THEN << << >> >> ELSE Continued(p[i - 1], i \in cuts, text[i])
      BY <2>1, Zenon DEF PiecesTo
    <3> QED
      BY <3>1, <3>2, Zenon
  <2>3. \A i \in 0 .. k + 1 : i # 0 => i - 1 \in 0 .. k
    OBVIOUS
  <2>4. PiecesTo(q, text, cuts, k + 1)
    BY <2>2, <2>3, Zenon DEF PiecesTo
  <2> QED
    BY <2>4
<1> QED
  BY <1>1, <1>2, NumbersInduction

\* Pieces is its last value.
LEMMA PiecesAre ==
    ASSUME NEW text, NEW cuts, Len(text) \in Nat
    PROVE  \E p : /\ p[0] = << << >> >>
                  /\ \A i \in 1 .. Len(text) :
                        p[i] = Continued(p[i - 1], i \in cuts, text[i])
                  /\ Pieces(text, cuts) = p[Len(text)]
<1> DEFINE p == CHOOSE q : PiecesTo(q, text, cuts, Len(text))
<1>1. PiecesTo(p, text, cuts, Len(text))
  BY PiecesExist
<1>2. Pieces(text, cuts) = p[Len(text)]
  BY DEF Pieces, PiecesTo
<1> HIDE DEF p
<1>3. p[0] = << << >> >>
  <2>1. 0 \in 0 .. Len(text)
    OBVIOUS
  <2> QED
    BY <1>1, <2>1, Zenon DEF PiecesTo
<1>4. ASSUME NEW i \in 1 .. Len(text)
      PROVE  p[i] = Continued(p[i - 1], i \in cuts, text[i])
  <2>1. i \in 0 .. Len(text) /\ i # 0
    OBVIOUS
  <2> QED
    BY <1>1, <2>1, Zenon DEF PiecesTo
<1> QED
  BY <1>2, <1>3, <1>4

\* A symbol more: what is in pieces up to there stays as it is.
LEMMA PiecesAppend ==
    ASSUME NEW X, NEW text \in Seq(X), NEW x \in X, NEW cuts, NEW more,
           \A i \in 1 .. Len(text) : i \in cuts <=> i \in more
    PROVE  Pieces(Append(text, x), more) =
              Continued(Pieces(text, cuts), Len(text) + 1 \in more, x)
<1> DEFINE n == Len(text)
           t == Append(text, x)
<1>1. n \in Nat /\ Len(t) = n + 1 /\ t[n + 1] = x /\ \A i \in 1 .. n : t[i] = text[i]
  BY LenProperties, AppendProperties
<1> HIDE DEF t
<1>2. PICK p : /\ p[0] = << << >> >>
               /\ \A i \in 1 .. n : p[i] = Continued(p[i - 1], i \in cuts, text[i])
               /\ Pieces(text, cuts) = p[n]
  BY <1>1, PiecesAre
<1>3. PICK q : /\ q[0] = << << >> >>
               /\ \A i \in 1 .. Len(t) : q[i] = Continued(q[i - 1], i \in more, t[i])
               /\ Pieces(t, more) = q[Len(t)]
  <2>1. Len(t) \in Nat
    BY <1>1
  <2> QED
    BY <2>1, PiecesAre
<1> HIDE DEF n
<1> DEFINE T == { k \in Nat : k <= n => q[k] = p[k] }
<1>4. 0 \in T
  BY <1>2, <1>3
<1>5. ASSUME NEW k \in T PROVE k + 1 \in T
  <2> k + 1 \in Nat
    OBVIOUS
  <2> SUFFICES ASSUME k + 1 <= n PROVE q[k + 1] = p[k + 1]
    OBVIOUS
  <2>1. k + 1 \in 1 .. n /\ k + 1 \in 1 .. Len(t) /\ (k + 1) - 1 = k /\ k <= n
    BY <1>1
  <2>2. q[k] = p[k]
    BY <1>5, <2>1
  <2>3. k + 1 \in cuts <=> k + 1 \in more
    BY <2>1 DEF n
  <2>4. (k + 1 \in cuts) = (k + 1 \in more)
    BY <2>3
  <2>5. p[k + 1] = Continued(p[(k + 1) - 1], k + 1 \in cuts, text[k + 1])
    BY <1>2, <2>1, Zenon
  <2>6. q[k + 1] = Continued(q[(k + 1) - 1], k + 1 \in more, t[k + 1])
    BY <1>3, <2>1, Zenon
  <2>7. t[k + 1] = text[k + 1]
    BY <1>1, <2>1, Zenon
  <2> QED
    BY <2>1, <2>2, <2>4, <2>5, <2>6, <2>7, Zenon
<1>6. T = Nat
  <2> HIDE DEF T
  <2>1. T \in SUBSET Nat
    BY DEF T
  <2> QED
    BY <1>4, <1>5, <2>1, NumbersInduction
<1>7. q[n] = p[n]
  BY <1>1, <1>6
<1>8. n + 1 \in 1 .. Len(t) /\ (n + 1) - 1 = n
  BY <1>1
<1>9. q[n + 1] = Continued(q[(n + 1) - 1], n + 1 \in more, t[n + 1])
  BY <1>3, <1>8, Zenon
<1>10. Pieces(t, more) = q[n + 1]
  BY <1>1, <1>3, Zenon
<1>11. Pieces(t, more) = Continued(Pieces(text, cuts), n + 1 \in more, x)
  BY <1>1, <1>2, <1>7, <1>8, <1>9, <1>10, Zenon
<1> QED
  BY <1>11 DEF t, n

\* A text broken at its line breaks.
Broken(text) == Pieces(text, Occurrences(text, "\n"))

\* Of nothing there is one piece.
LEMMA BrokenNothing == Broken(<< >>) = << << >> >>
<1>1. Len(<< >>) = 0 /\ Len(<< >>) \in Nat
  OBVIOUS
<1>2. PICK p : /\ p[0] = << << >> >>
               /\ Pieces(<< >>, Occurrences(<< >>, "\n")) = p[Len(<< >>)]
  BY <1>1, PiecesAre
<1> QED
  BY <1>1, <1>2 DEF Broken

\* A symbol more.
LEMMA BrokenAppend ==
    ASSUME NEW X, NEW text \in Seq(X), NEW x \in X
    PROVE  /\ x = "\n" => Broken(Append(text, x)) = Append(Broken(text), << >>)
           /\ x # "\n" => Broken(Append(text, x)) =
                 Append(Front(Broken(text)), Append(Last(Broken(text)), x))
<1> DEFINE n == Len(text)
           t == Append(text, x)
           cuts == Occurrences(text, "\n")
           more == Occurrences(t, "\n")
<1>1. /\ n \in Nat /\ Len(t) = n + 1 /\ t[n + 1] = x /\ \A i \in 1 .. n : t[i] = text[i]
      /\ DOMAIN t = 1 .. n + 1 /\ DOMAIN text = 1 .. n
  BY LenProperties, AppendProperties
<1>2. \A i \in 1 .. n : i \in cuts <=> i \in more
  <2> SUFFICES ASSUME NEW i \in 1 .. n PROVE i \in cuts <=> i \in more
    OBVIOUS
  <2>1. i \in DOMAIN t /\ i \in DOMAIN text /\ t[i] = text[i]
    BY <1>1
  <2> HIDE DEF t
  <2> QED
    BY <2>1, Zenon DEF Occurrences
<1>3. n + 1 \in more <=> x = "\n"
  <2>1. n + 1 \in DOMAIN t
    BY <1>1
  <2> HIDE DEF t
  <2> QED
    BY <1>1, <2>1, Zenon DEF Occurrences
<1> HIDE DEF cuts, more
<1>4. Pieces(t, more) = Continued(Pieces(text, cuts), n + 1 \in more, x)
  BY <1>2, PiecesAppend
<1>5. CASE x = "\n"
  <2>1. Pieces(t, more) = Append(Pieces(text, cuts), << >>)
    BY <1>3, <1>4, <1>5, Zenon DEF Continued
  <2> QED
    BY <1>5, <2>1 DEF Broken, t, cuts, more
<1>6. CASE x # "\n"
  <2>1. Pieces(t, more) = Append(Front(Pieces(text, cuts)), Append(Last(Pieces(text, cuts)), x))
    BY <1>3, <1>4, <1>6, Zenon DEF Continued
  <2> QED
    BY <1>6, <2>1 DEF Broken, t, cuts, more
<1> QED
  BY <1>5, <1>6

\* The front and the last of what is appended to.
LEMMA OfAppended ==
    ASSUME NEW S, NEW s \in Seq(S), NEW c \in S
    PROVE  Front(Append(s, c)) = s /\ Last(Append(s, c)) = c
<1> DEFINE n == Len(s)
           a == Append(s, c)
<1>1. n \in Nat /\ Len(a) = n + 1 /\ a[n + 1] = c /\ n \in 0 .. Len(s)
  BY LenProperties, AppendProperties
<1>2. Front(a) = SubSeq(a, 1, n)
  BY <1>1 DEF Front
<1>3. SubSeq(a, 1, n) = Cut(a, n) /\ Cut(a, n) = Cut(s, n) /\ Cut(s, n) = s
  BY <1>1, CutAppend, CutWhole DEF Cut
<1> HIDE DEF a
<1>4. Last(a) = c
  BY <1>1 DEF Last
<1> QED
  BY <1>2, <1>3, <1>4 DEF a

\* To append is the same before and behind.
LEMMA BehindAppend ==
    ASSUME NEW S, NEW s \in Seq(S), NEW t \in Seq(S), NEW x \in S
    PROVE  s \o Append(t, x) = Append(s \o t, x)
<1>1. Append(t, x) = t \o << x >> /\ << x >> \in Seq(S) /\ s \o t \in Seq(S)
  BY AppendIsConcat, ConcatProperties
<1>2. Append(s \o t, x) = (s \o t) \o << x >>
  BY <1>1, AppendIsConcat
<1> DEFINE u == << x >>
<1> HIDE DEF u
<1>3. u \in Seq(S)
  BY <1>1 DEF u
<1>4. (s \o t) \o u = s \o (t \o u)
  BY ONLY s \in Seq(S), t \in Seq(S), <1>3, ConcatAssociative
<1> QED
  BY <1>1, <1>2, <1>4 DEF u

-----------------------------------------------------------------------------
(* The lines of a file, read one after the other.                          *)

Unread == [tpl |-> Empty, current |-> "none", buffer |-> << >>]

\* What the recursive function of ReadLines is asked to be.
ReadsOn(p, lines, n) ==
    p = [i \in 0 .. n |-> IF i = 0 THEN Unread ELSE OnLine(p[i - 1], lines[i])]

\* There is such a function.
LEMMA ReadsOnExist ==
    ASSUME NEW lines, NEW n \in Nat
    PROVE  \E p : ReadsOn(p, lines, n)
<1> DEFINE T == { k \in Nat : \E p : ReadsOn(p, lines, k) }
<1>1. 0 \in T
  <2> DEFINE p == [i \in 0 .. 0 |-> Unread]
  <2>1. ReadsOn(p, lines, 0)
    BY DEF ReadsOn
  <2> QED
    BY <2>1
<1>2. ASSUME NEW k \in T PROVE k + 1 \in T
  <2>1. PICK p : ReadsOn(p, lines, k)
    BY <1>2
  <2> DEFINE q == [i \in 0 .. k + 1 |->
                     IF i = 0 THEN Unread ELSE OnLine(p[i - 1], lines[i])]
  <2>2. ASSUME NEW i \in 0 .. k PROVE q[i] = p[i]
    <3>1. i \in 0 .. k + 1
      OBVIOUS
    <3>2. p[i] = IF i = 0 THEN Unread ELSE OnLine(p[i - 1], lines[i])
      BY <2>1, Zenon DEF ReadsOn
    <3> QED
      BY <3>1, <3>2, Zenon
  <2>3. \A i \in 0 .. k + 1 : i # 0 => i - 1 \in 0 .. k
    OBVIOUS
  <2>4. ReadsOn(q, lines, k + 1)
    BY <2>2, <2>3, Zenon DEF ReadsOn
  <2> QED
    BY <2>4
<1> QED
  BY <1>1, <1>2, NumbersInduction

\* ReadLines is its last value.
LEMMA ReadLinesAre ==
    ASSUME NEW lines, Len(lines) \in Nat
    PROVE  \E p : /\ p[0] = Unread
                  /\ \A i \in 1 .. Len(lines) : p[i] = OnLine(p[i - 1], lines[i])
                  /\ ReadLines(lines) = p[Len(lines)]
<1> DEFINE p == CHOOSE q : ReadsOn(q, lines, Len(lines))
<1>1. ReadsOn(p, lines, Len(lines))
  BY ReadsOnExist
<1>2. ReadLines(lines) = p[Len(lines)]
  BY DEF ReadLines, ReadsOn, Unread
<1> HIDE DEF p
<1>3. p[0] = Unread
  <2>1. 0 \in 0 .. Len(lines)
    OBVIOUS
  <2> QED
    BY <1>1, <2>1, Zenon DEF ReadsOn
<1>4. ASSUME NEW i \in 1 .. Len(lines) PROVE p[i] = OnLine(p[i - 1], lines[i])
  <2>1. i \in 0 .. Len(lines) /\ i # 0
    OBVIOUS
  <2> QED
    BY <1>1, <2>1, Zenon DEF ReadsOn
<1> QED
  BY <1>2, <1>3, <1>4

\* Of no lines nothing is read.
LEMMA NoLinesRead == ReadLines(<< >>) = Unread
<1>1. Len(<< >>) = 0 /\ Len(<< >>) \in Nat
  OBVIOUS
<1>2. PICK p : p[0] = Unread /\ ReadLines(<< >>) = p[Len(<< >>)]
  BY <1>1, ReadLinesAre
<1> QED
  BY <1>1, <1>2

\* A line more.
LEMMA ReadLinesAppend ==
    ASSUME NEW lines, NEW t, NEW n \in Nat, Len(lines) = n, Len(t) = n + 1,
           \A i \in 1 .. n : t[i] = lines[i]
    PROVE  ReadLines(t) = OnLine(ReadLines(lines), t[n + 1])
<1>1. PICK p : /\ p[0] = Unread
               /\ \A i \in 1 .. n : p[i] = OnLine(p[i - 1], lines[i])
               /\ ReadLines(lines) = p[n]
  BY ReadLinesAre
<1>2. PICK q : /\ q[0] = Unread
               /\ \A i \in 1 .. n + 1 : q[i] = OnLine(q[i - 1], t[i])
               /\ ReadLines(t) = q[n + 1]
  <2>1. Len(t) \in Nat
    OBVIOUS
  <2> QED
    BY <2>1, ReadLinesAre
<1> DEFINE T == { k \in Nat : k <= n => q[k] = p[k] }
<1>3. 0 \in T
  BY <1>1, <1>2
<1>4. ASSUME NEW k \in T PROVE k + 1 \in T
  <2> k + 1 \in Nat
    OBVIOUS
  <2> SUFFICES ASSUME k + 1 <= n PROVE q[k + 1] = p[k + 1]
    OBVIOUS
  <2>1. k + 1 \in 1 .. n /\ k + 1 \in 1 .. n + 1 /\ (k + 1) - 1 = k /\ k <= n
    OBVIOUS
  <2>2. q[k] = p[k]
    BY <1>4, <2>1
  <2>3. p[k + 1] = OnLine(p[(k + 1) - 1], lines[k + 1])
    BY <1>1, <2>1, Zenon
  <2>4. q[k + 1] = OnLine(q[(k + 1) - 1], t[k + 1])
    BY <1>2, <2>1, Zenon
  <2> QED
    BY <2>1, <2>2, <2>3, <2>4, Zenon
<1>5. T = Nat
  <2> HIDE DEF T
  <2>1. T \in SUBSET Nat
    BY DEF T
  <2> QED
    BY <1>3, <1>4, <2>1, NumbersInduction
<1>6. q[n] = p[n]
  BY <1>5
<1>7. n + 1 \in 1 .. n + 1 /\ (n + 1) - 1 = n
  OBVIOUS
<1> QED
  BY <1>1, <1>2, <1>6, <1>7, Zenon

-----------------------------------------------------------------------------
(* A file, symbol by symbol: what its lines have told, the line that has    *)
(* not ended, and whether a section that is known has begun.               *)

\* The lines as the reader sees them.
Stripped(s) == [i \in 1 .. Len(s) |-> WithoutSuffix(s[i], "\r")]

Known(s) == \E i \in 1 .. Len(s) : IsHeader(WithoutSuffix(s[i], "\r"), Headers)

Stands(X, text, s, st, c, seen) ==
    /\ text \in Seq(X) /\ s \in Seq(Seq(X)) /\ c \in Seq(X)
    /\ Broken(text) = Append(s, c)
    /\ ReadLines(Stripped(s)) = st
    /\ seen => Known(s)

\* At the start of the file.
LEMMA StandsAtFirst ==
    ASSUME NEW X
    PROVE  Stands(X, << >>, << >>, Unread, << >>, FALSE)
<1>1. << >> \in Seq(X) /\ << >> \in Seq(Seq(X))
  BY EmptySeq
<1>2. Broken(<< >>) = Append(<< >>, << >>)
  BY BrokenNothing
<1>3. Stripped(<< >>) = << >>
  BY DEF Stripped
<1> QED
  BY <1>1, <1>2, <1>3, NoLinesRead, Zenon DEF Stands

\* A symbol of a line.
LEMMA StandsSymbol ==
    ASSUME NEW X, NEW text, NEW s, NEW st, NEW c, NEW seen, Stands(X, text, s, st, c, seen),
           NEW x \in X, x # "\n"
    PROVE  Stands(X, Append(text, x), s, st, Append(c, x), seen)
<1>1. /\ text \in Seq(X) /\ s \in Seq(Seq(X)) /\ c \in Seq(X)
      /\ Broken(text) = Append(s, c)
  BY Zenon DEF Stands
<1>2. Append(text, x) \in Seq(X) /\ Append(c, x) \in Seq(X)
  BY <1>1, AppendProperties
<1>3. Broken(Append(text, x)) = Append(Front(Broken(text)), Append(Last(Broken(text)), x))
  BY ONLY <1>1, x \in X, x # "\n", BrokenAppend
<1>4. Front(Append(s, c)) = s /\ Last(Append(s, c)) = c
  BY ONLY <1>1, OfAppended
<1>5. Broken(Append(text, x)) = Append(s, Append(c, x))
  BY <1>1, <1>3, <1>4, Zenon
<1> QED
  BY <1>1, <1>2, <1>5, Zenon DEF Stands

\* The end of a line.
LEMMA StandsBreak ==
    ASSUME NEW X, "\n" \in X, NEW text, NEW s, NEW st, NEW c, NEW seen,
           Stands(X, text, s, st, c, seen),
           NEW line, line = WithoutSuffix(c, "\r")
    PROVE  Stands(X, Append(text, "\n"), Append(s, c), OnLine(st, line), << >>,
                  seen \/ IsHeader(line, Headers))
<1>1. /\ text \in Seq(X) /\ s \in Seq(Seq(X)) /\ c \in Seq(X)
      /\ Broken(text) = Append(s, c) /\ ReadLines(Stripped(s)) = st
      /\ seen => Known(s)
  BY Zenon DEF Stands
<1> DEFINE a == Append(s, c)
           n == Len(s)
           e == "\n"
<1>2. /\ a \in Seq(Seq(X)) /\ n \in Nat /\ Len(a) = n + 1 /\ a[n + 1] = c
      /\ \A i \in 1 .. n : a[i] = s[i]
  BY <1>1, AppendProperties, LenProperties
<1>3. Append(text, e) \in Seq(X) /\ << >> \in Seq(X) /\ e \in X /\ e = "\n"
  BY <1>1, AppendProperties, EmptySeq
<1> HIDE DEF a, e
<1>4. Broken(Append(text, e)) = Append(Broken(text), << >>)
  BY ONLY <1>1, <1>3, BrokenAppend
<1>5. Broken(Append(text, e)) = Append(a, << >>)
  BY <1>1, <1>4 DEF a
<1>6. /\ Len(Stripped(s)) = n /\ Len(Stripped(a)) = n + 1
      /\ Stripped(a)[n + 1] = line
      /\ \A i \in 1 .. n : Stripped(a)[i] = Stripped(s)[i]
  <2>1. Len(Stripped(s)) = n
    <3>1. Stripped(s) = [i \in 1 .. n |-> WithoutSuffix(s[i], "\r")]
      BY Zenon DEF Stripped
    <3> HIDE DEF n
    <3> QED
      BY <1>2, <3>1
  <2>2. Len(Stripped(a)) = n + 1
    <3>1. Stripped(a) = [i \in 1 .. n + 1 |-> WithoutSuffix(a[i], "\r")]
      BY <1>2, Zenon DEF Stripped
    <3> HIDE DEF n
    <3> QED
      BY <1>2, <3>1
  <2>3. n + 1 \in 1 .. Len(a)
    BY <1>2
  <2>4. Stripped(a)[n + 1] = line
    BY <1>2, <2>3, Zenon DEF Stripped
  <2>5. \A i \in 1 .. n : i \in 1 .. Len(a)
    BY <1>2
  <2>6. \A i \in 1 .. n : Stripped(a)[i] = Stripped(s)[i]
    BY <1>2, <2>5, Zenon DEF Stripped
  <2> QED
    BY <2>1, <2>2, <2>4, <2>6
<1>7. ReadLines(Stripped(a)) = OnLine(ReadLines(Stripped(s)), Stripped(a)[n + 1])
  <2> DEFINE u == Stripped(s)
             v == Stripped(a)
  <2> HIDE DEF u, v, n
  <2>1. /\ Len(u) = n /\ Len(v) = n + 1 /\ n \in Nat
        /\ \A i \in 1 .. n : v[i] = u[i]
    BY <1>2, <1>6 DEF u, v
  <2>2. ReadLines(v) = OnLine(ReadLines(u), v[n + 1])
    BY ONLY <2>1, ReadLinesAppend
  <2> QED
    BY <2>2 DEF u, v
<1>8. ReadLines(Stripped(a)) = OnLine(st, line)
  BY <1>1, <1>6, <1>7, Zenon
<1>9. seen \/ IsHeader(line, Headers) => Known(a)
  <2>1. ASSUME seen PROVE Known(a)
    <3>1. PICK i \in 1 .. Len(s) : IsHeader(WithoutSuffix(s[i], "\r"), Headers)
      BY <1>1, <2>1, Zenon DEF Known
    <3>2. i \in 1 .. Len(a) /\ a[i] = s[i]
      BY <1>2
    <3> QED
      BY <3>1, <3>2, Zenon DEF Known
  <2>2. ASSUME IsHeader(line, Headers) PROVE Known(a)
    <3>1. n + 1 \in 1 .. Len(a)
      BY <1>2
    <3> QED
      BY <1>2, <2>2, <3>1, Zenon DEF Known
  <2> QED
    BY <2>1, <2>2
<1> QED
  BY <1>2, <1>3, <1>5, <1>8, <1>9, Zenon DEF Stands, a, e

\* The end of the file, where no line is open.
LEMMA StandsAtLast ==
    ASSUME NEW X, NEW text, NEW s, NEW st, NEW seen, Stands(X, text, s, st, << >>, seen)
    PROVE  ReadLines(Lines(text)) = st /\ (seen => HasSections(text))
<1>1. /\ s \in Seq(Seq(X)) /\ << >> \in Seq(X)
      /\ Broken(text) = Append(s, << >>) /\ ReadLines(Stripped(s)) = st
      /\ seen => Known(s)
  BY Zenon DEF Stands
<1> DEFINE p == Broken(text)
           e == << >>
           lines == IF Last(p) = << >> THEN Front(p) ELSE p
<1>2. e \in Seq(X) /\ p = Append(s, e) /\ e = << >>
  BY <1>1
<1> HIDE DEF p, e
<1>3. Front(Append(s, e)) = s /\ Last(Append(s, e)) = e
  BY ONLY <1>1, <1>2, OfAppended
<1>4. Len(Append(s, e)) = Len(s) + 1 /\ Len(s) \in Nat /\ DOMAIN s = 1 .. Len(s)
  BY <1>1, <1>2, AppendProperties, LenProperties
<1>5. Lines(text) = [i \in DOMAIN lines |->
                     IF i < Len(p) THEN WithoutSuffix(lines[i], "\r") ELSE lines[i]]
  BY DEF Lines, Broken, p
<1>6. lines = s
  BY <1>2, <1>3, Zenon
<1> HIDE DEF lines
<1>7. Len(p) = Len(s) + 1
  BY <1>2, <1>4
<1>8. \A i \in 1 .. Len(s) : i < Len(p)
  BY <1>4, <1>7
<1>9. Lines(text) = Stripped(s)
  BY <1>4, <1>5, <1>6, <1>8, Zenon DEF Stripped
<1>10. ASSUME seen PROVE HasSections(text)
  <2>1. PICK i \in 1 .. Len(s) : IsHeader(WithoutSuffix(s[i], "\r"), Headers)
    BY <1>1, <1>10, Zenon DEF Known
  <2>2. i \in DOMAIN Stripped(s) /\ Stripped(s)[i] = WithoutSuffix(s[i], "\r")
    BY Zenon DEF Stripped
  <2> QED
    BY <1>9, <2>1, <2>2, Zenon DEF HasSections
<1> QED
  BY <1>1, <1>9, <1>10, Zenon

-----------------------------------------------------------------------------
(* A file as it is saved, symbol by symbol of what its author wrote.       *)

Spelt(x, crlf) == IF crlf /\ x = "\n" THEN << "\r", "\n" >> ELSE << x >>

IsText(X) == "\n" \in X /\ "\r" \in X

\* Of nothing, nothing is saved.
LEMMA SavedNothing == ASSUME NEW crlf PROVE Saved(<< >>, crlf) = << >>
<1> DEFINE X == {}
           ss == << >>
<1>1. ss \in Seq(Seq(X)) /\ Len(ss) = 0
  BY EmptySeq
<1>2. PICK f : Joins(f, ss, X) /\ FlattenSeq(ss) = f[Len(ss)]
  BY <1>1, FlattenJoins
<1>3. FlattenSeq(ss) = << >>
  BY <1>1, <1>2 DEF Joins
<1>4. [i \in DOMAIN << >> |-> IF crlf /\ << >>[i] = "\n" THEN << "\r", "\n" >> ELSE << << >>[i] >>]
         = << >>
  OBVIOUS
<1> QED
  BY <1>3, <1>4 DEF Saved

LEMMA SpeltFacts ==
    ASSUME NEW X, IsText(X), NEW x \in X, NEW crlf
    PROVE  Spelt(x, crlf) \in Seq(X)
<1>1. << x >> \in Seq(X)
  BY ONLY x \in X
<1> DEFINE r == "\r"
           n == "\n"
<1>2. r \in X /\ n \in X
  BY DEF IsText
<1> HIDE DEF r, n
<1>3. << r, n >> \in Seq(X)
  BY ONLY <1>2
<1> QED
  BY <1>1, <1>3 DEF Spelt, r, n

\* A symbol more is saved behind the others.
LEMMA SavedAppend ==
    ASSUME NEW X, IsText(X), NEW text \in Seq(X), NEW x \in X, NEW crlf
    PROVE  /\ Saved(text, crlf) \in Seq(X)
           /\ Saved(Append(text, x), crlf) = Saved(text, crlf) \o Spelt(x, crlf)
<1> DEFINE n == Len(text)
           t == Append(text, x)
           ss == [i \in 1 .. n |-> Spelt(text[i], crlf)]
           y == Spelt(x, crlf)
           tt == [i \in 1 .. n + 1 |-> Spelt(t[i], crlf)]
<1>1. /\ n \in Nat /\ DOMAIN text = 1 .. n /\ DOMAIN t = 1 .. n + 1 /\ t[n + 1] = x
      /\ \A i \in 1 .. n : t[i] = text[i]
  BY AppendProperties, LenProperties
<1>2. \A i \in 1 .. n : text[i] \in X
  BY ElementOfSeq
<1> HIDE DEF t, n
<1>3. ss \in [1 .. n -> Seq(X)] /\ y \in Seq(X)
  BY <1>2, SpeltFacts
<1>4. Saved(text, crlf) = FlattenSeq(ss) /\ Saved(t, crlf) = FlattenSeq(tt)
  BY <1>1, Zenon DEF Saved, Spelt
<1>5. \A i \in 1 .. n + 1 : tt[i] = IF i <= n THEN ss[i] ELSE y
  <2> SUFFICES ASSUME NEW i \in 1 .. n + 1 PROVE tt[i] = IF i <= n THEN ss[i] ELSE y
    OBVIOUS
  <2>1. tt[i] = Spelt(t[i], crlf)
    OBVIOUS
  <2>2. CASE i <= n
    <3>1. i \in 1 .. n
      BY <1>1, <2>2
    <3>2. ss[i] = Spelt(text[i], crlf) /\ t[i] = text[i]
      BY <1>1, <3>1
    <3> QED
      BY <2>1, <2>2, <3>2, Zenon
  <2>3. CASE ~(i <= n)
    <3>1. i = n + 1
      BY <1>1, <2>3
    <3> QED
      BY <1>1, <2>1, <2>3, <3>1, Zenon
  <2> QED
    BY <2>2, <2>3
<1> HIDE DEF ss, y
<1>6. ss \in Seq(Seq(X)) /\ Len(ss) = n /\ DOMAIN ss = 1 .. n
  BY <1>1, <1>3, FunctionIsSeq
<1>7. tt = Append(ss, y)
  <2>1. /\ Append(ss, y) \in Seq(Seq(X)) /\ Len(Append(ss, y)) = n + 1
        /\ Append(ss, y)[n + 1] = y /\ \A i \in 1 .. n : Append(ss, y)[i] = ss[i]
    BY <1>1, <1>3, <1>6, AppendProperties
  <2> DEFINE a == Append(ss, y)
  <2> HIDE DEF a
  <2>2. a \in [1 .. n + 1 -> Seq(X)]
    BY <2>1, LenProperties DEF a
  <2>3. \A i \in 1 .. n + 1 : a[i] = tt[i]
    BY <1>1, <1>5, <2>1 DEF a
  <2> HIDE DEF tt
  <2>4. DOMAIN tt = 1 .. n + 1 /\ tt = [i \in 1 .. n + 1 |-> tt[i]]
    BY Zenon DEF tt
  <2>5. tt = a
    BY <2>2, <2>3, <2>4, Zenon
  <2> QED
    BY <2>5 DEF a
<1> HIDE DEF tt
<1>8. FlattenSeq(Append(ss, y)) = FlattenSeq(ss) \o y /\ FlattenSeq(ss) \in Seq(X)
  BY ONLY <1>3, <1>6, FlattenAppend
<1> QED
  BY <1>4, <1>7, <1>8 DEF y, t

\* A line that holds no carriage return.
IsClean(c) == \A j \in 1 .. Len(c) : c[j] # "\r"

HasRead(X, u, crlf, st, c, seen) ==
    /\ u \in Seq(X) /\ c \in Seq(X) /\ IsClean(c)
    /\ \E s : Stands(X, Saved(u, crlf), s, st, c, seen)

\* At the start of the file.
LEMMA HasReadAtFirst ==
    ASSUME NEW X, NEW crlf
    PROVE  HasRead(X, << >>, crlf, Unread, << >>, FALSE)
<1>1. Stands(X, Saved(<< >>, crlf), << >>, Unread, << >>, FALSE)
  BY SavedNothing, StandsAtFirst
<1>2. << >> \in Seq(X) /\ IsClean(<< >>)
  BY EmptySeq DEF IsClean
<1> QED
  BY <1>1, <1>2, Zenon DEF HasRead

LEMMA CleanAppend ==
    ASSUME NEW X, NEW c \in Seq(X), IsClean(c), NEW x \in X, x # "\r"
    PROVE  Append(c, x) \in Seq(X) /\ IsClean(Append(c, x))
<1>1. /\ Len(c) \in Nat /\ Len(Append(c, x)) = Len(c) + 1
      /\ Append(c, x)[Len(c) + 1] = x /\ Append(c, x) \in Seq(X)
      /\ \A i \in 1 .. Len(c) : Append(c, x)[i] = c[i]
  BY AppendProperties, LenProperties
<1> DEFINE a == Append(c, x)
<1> HIDE DEF a
<1>2. ASSUME NEW j \in 1 .. Len(a) PROVE a[j] # "\r"
  <2>1. j \in 1 .. Len(c) \/ j = Len(c) + 1
    BY <1>1 DEF a
  <2> QED
    BY <1>1, <2>1 DEF IsClean, a
<1> QED
  BY <1>1, <1>2 DEF IsClean, a

\* A symbol of a line.
LEMMA HasReadSymbol ==
    ASSUME NEW X, IsText(X), NEW u, NEW crlf, NEW st, NEW c, NEW seen,
           HasRead(X, u, crlf, st, c, seen), NEW x \in X, x # "\n", x # "\r"
    PROVE  HasRead(X, Append(u, x), crlf, st, Append(c, x), seen)
<1>1. PICK s : Stands(X, Saved(u, crlf), s, st, c, seen)
  BY DEF HasRead
<1>2. u \in Seq(X) /\ c \in Seq(X) /\ IsClean(c)
  BY DEF HasRead
<1>3. Stands(X, Append(Saved(u, crlf), x), s, st, Append(c, x), seen)
  BY <1>1, StandsSymbol
<1>4. Saved(Append(u, x), crlf) = Saved(u, crlf) \o Spelt(x, crlf) /\ Saved(u, crlf) \in Seq(X)
  BY <1>2, SavedAppend
<1>5. Spelt(x, crlf) = << x >>
  BY DEF Spelt
<1>6. Append(Saved(u, crlf), x) = Saved(u, crlf) \o << x >>
  BY <1>4, AppendIsConcat
<1>7. Append(u, x) \in Seq(X) /\ Append(c, x) \in Seq(X) /\ IsClean(Append(c, x))
  BY <1>2, CleanAppend, AppendProperties
<1>8. Stands(X, Saved(Append(u, x), crlf), s, st, Append(c, x), seen)
  BY <1>3, <1>4, <1>5, <1>6, Zenon
<1> QED
  BY <1>7, <1>8, Zenon DEF HasRead

\* The end of a line, however the editor ends it.
LEMMA HasReadBreak ==
    ASSUME NEW X, IsText(X), NEW u, NEW crlf, NEW st, NEW c, NEW seen,
           HasRead(X, u, crlf, st, c, seen)
    PROVE  HasRead(X, Append(u, "\n"), crlf, OnLine(st, c), << >>,
                 seen \/ IsHeader(c, Headers))
<1>1. PICK s : Stands(X, Saved(u, crlf), s, st, c, seen)
  BY DEF HasRead
<1> DEFINE e == "\n"
           r == "\r"
           v == Saved(u, crlf)
           or == seen \/ IsHeader(c, Headers)
<1>2. /\ u \in Seq(X) /\ c \in Seq(X) /\ IsClean(c) /\ e \in X /\ r \in X
      /\ e = "\n" /\ r = "\r" /\ r # e
  BY DEF HasRead, IsText
<1>3. /\ Saved(Append(u, e), crlf) = v \o Spelt(e, crlf) /\ v \in Seq(X)
      /\ Append(u, e) \in Seq(X)
  BY <1>2, SavedAppend, AppendProperties
<1>4. << >> \in Seq(X) /\ IsClean(<< >>)
  BY EmptySeq DEF IsClean
<1>5. \E a : Stands(X, v \o Spelt(e, crlf), a, OnLine(st, c), << >>, or)
  <2>1. CASE ~crlf
    <3>1. WithoutSuffix(c, "\r") = c
      <4>1. CASE c = << >>
        BY <4>1 DEF WithoutSuffix
      <4>2. CASE c # << >>
        <5> DEFINE n == Len(c)
        <5>3. Last(c) = c[n] /\ n \in Nat /\ n # 0
          BY <1>2, <4>2, FrontAndLast
        <5> HIDE DEF n
        <5>4. n \in 1 .. n
          BY ONLY <5>3
        <5>1. Last(c) = c[Len(c)] /\ Len(c) \in 1 .. Len(c)
          BY <5>3, <5>4 DEF n
        <5>2. Last(c) # "\r"
          BY <1>2, <5>1, Zenon DEF IsClean
        <5> QED
          BY <5>2, Zenon DEF WithoutSuffix
      <4> QED
        BY <4>1, <4>2
    <3>2. Stands(X, Append(v, e), Append(s, c), OnLine(st, c), << >>, or)
      BY <1>1, <1>2, <3>1, StandsBreak
    <3>3. Append(v, e) = v \o Spelt(e, crlf)
      <4>1. Spelt(e, crlf) = << e >>
        BY <2>1 DEF Spelt
      <4> HIDE DEF e, v
      <4>2. Append(v, e) = v \o << e >>
        BY ONLY <1>2, <1>3, AppendIsConcat
      <4> QED
        BY <4>1, <4>2
    <3> QED
      BY <3>2, <3>3, Zenon
  <2>2. CASE crlf
    <3> DEFINE d == Append(c, r)
               w == Append(v, r)
    <3>1. Stands(X, w, s, st, d, seen)
      <4> HIDE DEF r, v
      <4>1. r # "\n"
        BY <1>2
      <4> QED
        BY <1>1, <1>2, <4>1, StandsSymbol DEF v
    <3>2. WithoutSuffix(d, "\r") = c
      <4> HIDE DEF r
      <4>1. Front(d) = c /\ Last(d) = r
        BY ONLY <1>2, OfAppended
      <4>2. d # << >>
        BY <1>2, AppendProperties
      <4> HIDE DEF d
      <4> QED
        BY <1>2, <4>1, <4>2, Zenon DEF WithoutSuffix
    <3> HIDE DEF d, w
    <3>3. Stands(X, Append(w, e), Append(s, d), OnLine(st, c), << >>, or)
      BY <1>2, <3>1, <3>2, StandsBreak
    <3>4. Append(w, e) = v \o Spelt(e, crlf)
      <4>1. Spelt(e, crlf) = << r, e >>
        BY <2>2 DEF Spelt
      <4> HIDE DEF e, v, r
      <4>2. << r >> \in Seq(X) /\ << r, e >> = Append(<< r >>, e)
        BY ONLY <1>2
      <4>3. v \o Append(<< r >>, e) = Append(v \o << r >>, e)
        BY ONLY <1>2, <1>3, <4>2, BehindAppend
      <4>4. Append(v, r) = v \o << r >>
        BY ONLY <1>2, <1>3, AppendIsConcat
      <4> QED
        BY <4>1, <4>2, <4>3, <4>4 DEF w
    <3> QED
      BY <3>3, <3>4, Zenon
  <2> QED
    BY <2>1, <2>2
<1> HIDE DEF v, or
<1>6. \E a : Stands(X, Saved(Append(u, e), crlf), a, OnLine(st, c), << >>, or)
  BY <1>3, <1>5, Zenon
<1>7. HasRead(X, Append(u, e), crlf, OnLine(st, c), << >>, or)
  <2> HIDE DEF e
  <2> QED
    BY <1>3, <1>4, <1>6, Zenon DEF HasRead
<1> QED
  BY <1>7 DEF or

\* The end of the file.
LEMMA HasReadAtLast ==
    ASSUME NEW X, NEW u, NEW crlf, NEW st, NEW seen, HasRead(X, u, crlf, st, << >>, seen)
    PROVE  /\ ReadLines(Lines(Saved(u, crlf))) = st
           /\ seen => HasSections(Saved(u, crlf))
<1>1. PICK s : Stands(X, Saved(u, crlf), s, st, << >>, seen)
  BY DEF HasRead
<1> QED
  BY <1>1, StandsAtLast

-----------------------------------------------------------------------------
(* A text without what stands around it.                                   *)

FirstIn(text, S, a) ==
    /\ a \in 1 .. Len(text) /\ text[a] \notin S
    /\ \A i \in 1 .. a - 1 : text[i] \in S

LastIn(text, S, z) ==
    /\ z \in 1 .. Len(text) /\ text[z] \notin S
    /\ \A i \in z + 1 .. Len(text) : text[i] \in S

\* The largest member is the one that none exceeds.
LEMMA MaxIs ==
    ASSUME NEW I \in SUBSET Int, NEW m \in I, \A i \in I : i <= m
    PROVE  Max(I) = m
<1> DEFINE a == CHOOSE x \in I : \A y \in I : y <= x
<1>1. a \in I /\ \A y \in I : y <= a
  OBVIOUS
<1>2. Max(I) = a
  BY DEF Max
<1> HIDE DEF a
<1>3. a <= m /\ m <= a /\ a \in Int /\ m \in Int
  BY <1>1
<1> QED
  BY <1>2, <1>3

\* The last member of a set of positions.
LEMMA LastMember ==
    ASSUME NEW n \in Nat, NEW I \in SUBSET (1 .. n), NEW m \in I,
           \A i \in m + 1 .. n : i \notin I
    PROVE  I # {} /\ Max(I) = m
<1>1. I \in SUBSET Int
  OBVIOUS
<1>2. ASSUME NEW i \in I PROVE i <= m
  <2>1. i \in 1 .. n /\ i \notin m + 1 .. n /\ m \in 1 .. n
    OBVIOUS
  <2> QED
    BY <2>1
<1> QED
  BY <1>1, <1>2, MaxIs

\* There is one.
LEMMA LastMemberExists ==
    ASSUME NEW n \in Nat, NEW I \in SUBSET (1 .. n), I # {}
    PROVE  \E m \in I : \A i \in m + 1 .. n : i \notin I
<1> DEFINE T == { k \in Nat : \A i \in I : i <= k }
<1>1. T \in SUBSET Nat /\ n \in T
  OBVIOUS
<1>2. PICK m \in T : \A k \in T : m <= k
  <2> HIDE DEF T
  <2> QED
    BY <1>1, LeastNumber
<1>3. m \in Nat /\ \A i \in I : i <= m
  BY <1>2
<1>4. m \in I
  <2> SUFFICES ASSUME m \notin I PROVE FALSE
    OBVIOUS
  <2>1. \A i \in I : i <= m - 1 /\ i >= 1
    BY <1>3
  <2>4. PICK i \in I : TRUE
    OBVIOUS
  <2>2. m - 1 \in Nat
    <3>1. i \in 1 .. n /\ i <= m - 1
      BY <2>1, <2>4
    <3> QED
      BY <1>3, <3>1
  <2>3. m - 1 \in T
    BY <2>1, <2>2
  <2> QED
    BY <1>2, <1>3, <2>3
<1> QED
  BY <1>3, <1>4

\* There is a first one as well.
LEMMA FirstMemberExists ==
    ASSUME NEW n \in Nat, NEW I \in SUBSET (1 .. n), I # {}
    PROVE  \E m \in I : \A i \in 1 .. m - 1 : i \notin I
<1>1. I \in SUBSET Nat
  OBVIOUS
<1>2. PICK m \in I : \A k \in I : m <= k
  BY <1>1, LeastNumber
<1> QED
  BY <1>2

\* A text that has something to keep.
LEMMA OutsideExist ==
    ASSUME NEW X, NEW text \in Seq(X), NEW S, ~(ToSet(text) \subseteq S)
    PROVE  (\E a : FirstIn(text, S, a)) /\ (\E z : LastIn(text, S, z))
<1> DEFINE n == Len(text)
           I == { i \in 1 .. n : text[i] \notin S }
<1>1. n \in Nat /\ DOMAIN text = 1 .. n
  BY LenProperties
<1>2. PICK i \in 1 .. n : text[i] \notin S
  BY <1>1 DEF ToSet
<1>3. I \in SUBSET (1 .. n) /\ I # {}
  BY <1>2
<1>4. PICK a \in I : \A j \in 1 .. a - 1 : j \notin I
  <2> HIDE DEF I, n
  <2> QED
    BY <1>1, <1>3, FirstMemberExists
<1>5. PICK z \in I : \A j \in z + 1 .. n : j \notin I
  <2> HIDE DEF I, n
  <2> QED
    BY <1>1, <1>3, LastMemberExists
<1> HIDE DEF n
<1>6. FirstIn(text, S, a)
  <2>1. \A j \in 1 .. a - 1 : j \in 1 .. n
    BY <1>1
  <2> QED
    BY <1>4, <2>1 DEF FirstIn, n
<1>7. LastIn(text, S, z)
  <2>1. \A j \in z + 1 .. n : j \in 1 .. n
    BY <1>1
  <2> QED
    BY <1>5, <2>1 DEF LastIn, n
<1> QED
  BY <1>6, <1>7

\* What is kept goes from the first to the last of them.
LEMMA TrimIs ==
    ASSUME NEW X, NEW text \in Seq(X), NEW S, NEW a, FirstIn(text, S, a),
           NEW z, LastIn(text, S, z)
    PROVE  /\ TrimOf(text, S) = SubSeq(text, a, z) /\ ~(ToSet(text) \subseteq S)
           /\ a \in 1 .. Len(text) /\ z \in 1 .. Len(text) /\ a <= z
<1>1. Len(text) \in Nat /\ DOMAIN text = 1 .. Len(text)
  BY LenProperties
<1> DEFINE I == { i \in 1 .. Len(text) : text[i] \notin S }
<1>6. TrimOf(text, S) = SubSeq(text, IF I # {} THEN Min(I) ELSE 0, IF I # {} THEN Max(I) ELSE 0)
  BY DEF TrimOf, SelectInSeq, SelectLastInSeq
<1>2. TrimOf(text, S) = SubSeq(text, a, z)
  <2>1. /\ I \in SUBSET (1 .. Len(text)) /\ a \in I /\ \A i \in 1 .. a - 1 : i \notin I
        /\ z \in I /\ \A i \in z + 1 .. Len(text) : i \notin I
    BY DEF FirstIn, LastIn
  <2> HIDE DEF I
  <2>2. I # {} /\ Min(I) = a
    BY <1>1, <2>1, FirstOf
  <2>3. Max(I) = z
    BY <1>1, <2>1, LastMember
  <2> QED
    BY <1>6, <2>2, <2>3, Zenon
<1> HIDE DEF I
<1>3. a \in 1 .. Len(text) /\ z \in 1 .. Len(text) /\ text[z] \notin S
      /\ \A i \in 1 .. a - 1 : text[i] \in S
  BY DEF FirstIn, LastIn
<1>4. ~(ToSet(text) \subseteq S)
  BY <1>1, <1>3 DEF ToSet
<1>5. a <= z
  <2> SUFFICES ASSUME ~(a <= z) PROVE FALSE
    OBVIOUS
  <2>1. z \in 1 .. a - 1
    BY <1>3
  <2> QED
    BY <1>3, <2>1
<1> QED
  BY <1>2, <1>3, <1>4, <1>5

\* A line break behind a text is not kept.
LEMMA TrimBreak ==
    ASSUME NEW X, NEW text \in Seq(X), NEW e \in X, e = "\n"
    PROVE  TrimNewlines(Append(text, e)) = TrimNewlines(text)
<1> DEFINE S == { "\n" }
           n == Len(text)
           t == Append(text, e)
<1>1. /\ n \in Nat /\ t \in Seq(X) /\ Len(t) = n + 1 /\ t[n + 1] = e
      /\ \A i \in 1 .. n : t[i] = text[i]
      /\ DOMAIN t = 1 .. n + 1 /\ DOMAIN text = 1 .. n
  BY AppendProperties, LenProperties
<1> HIDE DEF t
<1>2. CASE ToSet(text) \subseteq S
  <2>1. ToSet(t) \subseteq S
    <3>1. \A i \in 1 .. n + 1 : i \in 1 .. n \/ i = n + 1
      BY <1>1
    <3>2. \A i \in 1 .. n : text[i] \in S
      BY <1>1, <1>2 DEF ToSet
    <3>3. \A i \in 1 .. n + 1 : t[i] \in S
      BY <1>1, <3>1, <3>2
    <3> QED
      BY <1>1, <3>3 DEF ToSet
  <2> QED
    BY <1>2, <2>1, Zenon DEF TrimNewlines, t
<1>3. CASE ~(ToSet(text) \subseteq S)
  <2>1. PICK a, z : FirstIn(text, S, a) /\ LastIn(text, S, z)
    BY <1>3, OutsideExist
  <2> HIDE DEF S
  <2>2. /\ TrimOf(text, S) = SubSeq(text, a, z)
        /\ a \in 1 .. n /\ z \in 1 .. n /\ a <= z
    BY <2>1, TrimIs
  <2> HIDE DEF n
  <2>3. FirstIn(t, S, a)
    <3>1. a \in 1 .. n + 1 /\ \A i \in 1 .. a - 1 : i \in 1 .. n
      BY <1>1, <2>2
    <3> QED
      BY <1>1, <2>1, <2>2, <3>1, Zenon DEF FirstIn
  <2>4. LastIn(t, S, z)
    <3>1. z \in 1 .. n + 1
          /\ \A i \in z + 1 .. n + 1 : (i \in z + 1 .. n /\ i \in 1 .. n) \/ i = n + 1
      BY <1>1, <2>2
    <3>2. e \in S
      BY DEF S
    <3>3. \A i \in z + 1 .. n : text[i] \in S
      BY <2>1 DEF LastIn, n
    <3>4. \A i \in z + 1 .. n + 1 : t[i] \in S
      BY <1>1, <3>1, <3>2, <3>3, Zenon
    <3>5. t[z] \notin S
      BY <1>1, <2>1, <2>2, Zenon DEF LastIn
    <3> QED
      BY <1>1, <3>1, <3>4, <3>5, Zenon DEF LastIn
  <2>5. TrimOf(t, S) = SubSeq(t, a, z) /\ ~(ToSet(t) \subseteq S)
    BY <1>1, <2>3, <2>4, TrimIs
  <2>6. SubSeq(t, a, z) = SubSeq(text, a, z)
    <3>1. a \in Int /\ z \in Int /\ \A i \in 1 .. z - a + 1 : a + i - 1 \in 1 .. n
      BY <1>1, <2>2
    <3>2. SubSeq(t, a, z) = [i \in 1 .. z - a + 1 |-> t[a + i - 1]]
      BY <1>1, <2>2
    <3>3. SubSeq(text, a, z) = [i \in 1 .. z - a + 1 |-> text[a + i - 1]]
      BY <1>1, <2>2
    <3> QED
      BY <1>1, <3>1, <3>2, <3>3, Zenon
  <2> QED
    BY <1>3, <2>2, <2>5, <2>6, Zenon DEF TrimNewlines, t, S
<1> QED
  BY <1>2, <1>3

-----------------------------------------------------------------------------
(* A template file, section by section.                                    *)

\* A header is no white space, and begins a section.
LEMMA HeaderFacts ==
    ASSUME NEW h \in AnyHeader
    PROVE  h \notin Whitespace /\ SectionOf(h) # "none"
<1>1. h \notin Whitespace
  BY DEF AnyHeader, Headers, Whitespace
<1>2. SectionOf(h) # "none"
  <2>1. CASE h \in { "[text]", "[body]", "[plain]" }
    BY <2>1 DEF SectionOf
  <2>2. CASE h = "[subject]"
    BY <2>2 DEF SectionOf
  <2>3. CASE h = "[html]"
    BY <2>3 DEF SectionOf
  <2>4. CASE h = "[other]"
    BY <2>4 DEF SectionOf
  <2> QED
    BY <2>1, <2>2, <2>3, <2>4 DEF AnyHeader, Headers
<1> QED
  BY <1>1, <1>2

\* Alone in a line it is one.
LEMMA HeaderRead ==
    ASSUME NEW h \in AnyHeader, NEW st
    PROVE  /\ OnLine(st, << h >>) =
                 [tpl |-> Flush(st), current |-> SectionOf(h), buffer |-> << >>]
           /\ h \in Headers => IsHeader(<< h >>, Headers)
<1> DEFINE t == << h >>
<1>1. t \in Seq({ h }) /\ Len(t) = 1 /\ t[1] = h /\ SubSeq(t, 1, 1) = t
  <2>1. t \in Seq({ h }) /\ Len(t) = 1 /\ t[1] = h
    OBVIOUS
  <2> HIDE DEF t
  <2>2. SubSeq(t, 1, Len(t)) = t
    BY <2>1, CutWhole DEF Cut
  <2> QED
    BY <2>1, <2>2
<1>2. h \notin Whitespace
  BY HeaderFacts
<1> HIDE DEF t
<1>3. FirstIn(t, Whitespace, 1) /\ LastIn(t, Whitespace, 1)
  <2>1. 1 \in 1 .. Len(t) /\ 1 .. 1 - 1 = {} /\ 1 + 1 .. Len(t) = {}
    BY <1>1
  <2>2. t[1] \notin Whitespace
    BY <1>1, <1>2
  <2> QED
    BY <2>1, <2>2, Zenon DEF FirstIn, LastIn
<1>4. TrimOf(t, Whitespace) = SubSeq(t, 1, 1) /\ ~(ToSet(t) \subseteq Whitespace)
  <2>1. t \in Seq({ h })
    BY <1>1
  <2> QED
    BY ONLY <1>3, <2>1, TrimIs
<1>5. Trim(t) = t
  BY <1>1, <1>4, Zenon DEF Trim
<1>6. IsHeader(t, AnyHeader) /\ (h \in Headers => IsHeader(t, Headers))
  BY <1>1, <1>5, Zenon DEF IsHeader
<1>7. OnLine(st, t) = [tpl |-> Flush(st), current |-> SectionOf(h), buffer |-> << >>]
  BY <1>1, <1>5, <1>6, Zenon DEF OnLine
<1> QED
  BY <1>6, <1>7 DEF t

\* A text without headers.
IsBare(c) == \A j \in 1 .. Len(c) : c[j] \notin AnyHeader

\* Such a line is no header.
LEMMA BareLine ==
    ASSUME NEW X, NEW c \in Seq(X), IsBare(c)
    PROVE  ~IsHeader(c, AnyHeader)
<1> SUFFICES ASSUME IsHeader(c, AnyHeader) PROVE FALSE
  OBVIOUS
<1>1. Len(Trim(c)) = 1 /\ Trim(c)[1] \in AnyHeader
  BY DEF IsHeader
<1>2. CASE ToSet(c) \subseteq Whitespace
  <2>1. Trim(c) = << >>
    BY <1>2, Zenon DEF Trim
  <2> QED
    BY <1>1, <2>1
<1>3. CASE ~(ToSet(c) \subseteq Whitespace)
  <2>1. PICK a, z : FirstIn(c, Whitespace, a) /\ LastIn(c, Whitespace, z)
    BY <1>3, OutsideExist
  <2>2. /\ TrimOf(c, Whitespace) = SubSeq(c, a, z)
        /\ a \in 1 .. Len(c) /\ z \in 1 .. Len(c) /\ a <= z
    BY <2>1, TrimIs
  <2>3. Trim(c) = SubSeq(c, a, z)
    BY <1>3, <2>2, Zenon DEF Trim
  <2>4. SubSeq(c, a, z)[1] = c[a]
    BY <2>2, LenProperties
  <2> QED
    BY <1>1, <2>2, <2>3, <2>4, Zenon DEF IsBare
<1> QED
  BY <1>2, <1>3

\* A line before the first section is not kept.
LEMMA PreambleLine ==
    ASSUME NEW X, NEW c \in Seq(X), IsBare(c)
    PROVE  OnLine(Unread, c) = Unread
<1>1. ~IsHeader(c, AnyHeader)
  BY BareLine
<1>2. Unread.current = "none"
  BY DEF Unread
<1> QED
  BY <1>1, <1>2, Zenon DEF OnLine

\* A line of a section is.
LEMMA BodyLine ==
    ASSUME NEW X, NEW c \in Seq(X), IsBare(c), NEW tpl, NEW name, name # "none", NEW b
    PROVE  OnLine([tpl |-> tpl, current |-> name, buffer |-> b], c) =
              [tpl |-> tpl, current |-> name, buffer |-> (b \o c) \o << "\n" >>]
<1> DEFINE s == [tpl |-> tpl, current |-> name, buffer |-> b]
           d == (b \o c) \o << "\n" >>
           z == [s EXCEPT !.buffer = d]
<1>1. ~IsHeader(c, AnyHeader)
  BY BareLine
<1>2. s.current # "none"
  OBVIOUS
<1>3. OnLine(s, c) = z
  <2>1. s.buffer = b
    OBVIOUS
  <2> HIDE DEF s
  <2>2. OnLine(s, c) = [s EXCEPT !.buffer = (s.buffer \o c) \o << "\n" >>]
    BY <1>1, <1>2, Zenon DEF OnLine
  <2> QED
    BY <2>1, <2>2, Zenon
<1> HIDE DEF d
<1>4. z = [tpl |-> tpl, current |-> name, buffer |-> d]
  OBVIOUS
<1> QED
  BY <1>3, <1>4 DEF s, d

LEMMA BareAppend ==
    ASSUME NEW X, NEW c \in Seq(X), IsBare(c), NEW x \in X, x \notin AnyHeader
    PROVE  IsBare(Append(c, x))
<1>1. /\ Len(c) \in Nat /\ Len(Append(c, x)) = Len(c) + 1
      /\ Append(c, x)[Len(c) + 1] = x
      /\ \A i \in 1 .. Len(c) : Append(c, x)[i] = c[i]
  BY AppendProperties, LenProperties
<1> DEFINE a == Append(c, x)
<1> HIDE DEF a
<1>2. ASSUME NEW j \in 1 .. Len(a) PROVE a[j] \notin AnyHeader
  <2>1. j \in 1 .. Len(c) \/ j = Len(c) + 1
    BY <1>1 DEF a
  <2> QED
    BY <1>1, <2>1, Zenon DEF IsBare, a
<1> QED
  BY <1>2, Zenon DEF IsBare, a

\* What was known stays so.
LEMMA StillKnown ==
    ASSUME NEW X, NEW u, NEW crlf, NEW st, NEW c, NEW seen, NEW or,
           HasRead(X, u, crlf, st, c, or), seen => or
    PROVE  HasRead(X, u, crlf, st, c, seen)
BY Zenon DEF HasRead, Stands

\* A text that holds no header of a section and no carriage return.
IsLooseText(X, text) ==
    text \in Seq(X) /\ \A i \in 1 .. Len(text) : text[i] \notin AnyHeader /\ text[i] # "\r"

\* Behind a part of the preamble.
LEMMA PreambleRead ==
    ASSUME NEW X, IsText(X), NEW p, IsLooseText(X, p), NEW crlf,
           p = << >> \/ Last(p) = "\n"
    PROVE  HasRead(X, p, crlf, Unread, << >>, FALSE)
<1> DEFINE n == Len(p)
           At(k, c) == /\ HasRead(X, Cut(p, k), crlf, Unread, c, FALSE)
                       /\ c \in Seq(X) /\ IsBare(c)
                       /\ k = 0 \/ p[k] = "\n" => c = << >>
           T == { k \in Nat : k <= n => \E c : At(k, c) }
<1>0. /\ n \in Nat /\ p \in Seq(X)
      /\ \A i \in 1 .. n : p[i] \notin AnyHeader /\ p[i] # "\r" /\ p[i] \in X
  BY LenProperties, ElementOfSeq DEF IsLooseText
<1>1. 0 \in T
  <2>1. Cut(p, 0) = << >>
    BY <1>0, CutFacts, EmptySeq
  <2>2. << >> \in Seq(X) /\ IsBare(<< >>)
    BY EmptySeq DEF IsBare
  <2>3. At(0, << >>)
    BY <2>1, <2>2, HasReadAtFirst
  <2> HIDE DEF At
  <2> QED
    BY <2>3
<1>2. ASSUME NEW k \in T PROVE k + 1 \in T
  <2> k + 1 \in Nat
    OBVIOUS
  <2> SUFFICES ASSUME k + 1 <= n PROVE \E c : At(k + 1, c)
    OBVIOUS
  <2>1. k \in 0 .. n /\ k # n /\ k + 1 \in 1 .. n /\ k <= n /\ k + 1 # 0
    BY <1>0
  <2>2. PICK c : At(k, c)
    BY <1>2, <2>1
  <2> DEFINE u == Cut(p, k)
             x == p[k + 1]
  <2>3. HasRead(X, u, crlf, Unread, c, FALSE) /\ c \in Seq(X) /\ IsBare(c)
    BY <2>2
  <2>4. Cut(p, k + 1) = Append(u, x)
    BY <1>0, <2>1, CutNext
  <2>5. x \in X /\ x \notin AnyHeader /\ x # "\r"
    BY <1>0, <2>1
  <2> HIDE DEF u, x
  <2>6. CASE x = "\n"
    <3>1. HasRead(X, Append(u, "\n"), crlf, OnLine(Unread, c), << >>,
                FALSE \/ IsHeader(c, Headers))
      BY <2>3, HasReadBreak
    <3>2. OnLine(Unread, c) = Unread
      BY <2>3, PreambleLine
    <3> DEFINE or == FALSE \/ IsHeader(c, Headers)
    <3>3. HasRead(X, Append(u, x), crlf, Unread, << >>, or)
      BY <2>6, <3>1, <3>2, Zenon
    <3> HIDE DEF or
    <3>4. HasRead(X, Append(u, x), crlf, Unread, << >>, FALSE)
      BY <3>3, StillKnown
    <3>5. << >> \in Seq(X) /\ IsBare(<< >>)
      BY EmptySeq DEF IsBare
    <3>6. At(k + 1, << >>)
      BY <2>4, <3>4, <3>5
    <3> HIDE DEF At
    <3> QED
      BY <3>6
  <2>7. CASE x # "\n"
    <3>1. HasRead(X, Append(u, x), crlf, Unread, Append(c, x), FALSE)
      BY <2>3, <2>5, <2>7, HasReadSymbol
    <3>2. Append(c, x) \in Seq(X) /\ IsBare(Append(c, x))
      BY <2>3, <2>5, BareAppend, AppendProperties
    <3>3. At(k + 1, Append(c, x))
      BY <2>1, <2>4, <2>7, <3>1, <3>2 DEF x
    <3> HIDE DEF At
    <3> QED
      BY <3>3
  <2> QED
    BY <2>6, <2>7
<1>3. T = Nat
  <2> HIDE DEF T
  <2>1. T \in SUBSET Nat
    BY DEF T
  <2> QED
    BY <1>1, <1>2, <2>1, NumbersInduction
<1>4. PICK c : At(n, c)
  <2> HIDE DEF At
  <2> QED
    BY <1>0, <1>3
<1>5. c = << >>
  <2>1. CASE p = << >>
    BY <1>4, <2>1
  <2>2. CASE p # << >>
    <3>1. Last(p) = p[n] /\ Last(p) = "\n"
      BY <1>0, <2>2, FrontAndLast
    <3> QED
      BY <1>4, <3>1
  <2> QED
    BY <2>1, <2>2
<1>6. Cut(p, n) = p
  BY <1>0, CutWhole
<1> QED
  BY <1>4, <1>5, <1>6

\* In a section.
Within(tpl, name, b) == [tpl |-> tpl, current |-> name, buffer |-> b]

\* A line of it ends.
LEMMA BodyBreak ==
    ASSUME NEW X, IsText(X), NEW v, NEW crlf, NEW tpl, NEW name, name # "none", NEW seen,
           NEW b \in Seq(X), NEW c \in Seq(X), IsBare(c), NEW e, e = "\n",
           HasRead(X, v, crlf, Within(tpl, name, b), c, seen)
    PROVE  /\ HasRead(X, Append(v, e), crlf, Within(tpl, name, (b \o c) \o << e >>), << >>, seen)
           /\ (b \o c) \o << e >> \in Seq(X)
           /\ ((b \o c) \o << e >>) \o << >> = Append(b \o c, e)
<1>0. e \in X
  BY DEF IsText
<1> DEFINE or == seen \/ IsHeader(c, Headers)
<1>1. HasRead(X, Append(v, "\n"), crlf, OnLine(Within(tpl, name, b), c), << >>, or)
  BY HasReadBreak
<1>2. OnLine(Within(tpl, name, b), c) = Within(tpl, name, (b \o c) \o << e >>)
  BY BodyLine DEF Within
<1>3. seen => or
  OBVIOUS
<1> HIDE DEF or
<1>4. HasRead(X, Append(v, e), crlf, Within(tpl, name, (b \o c) \o << e >>), << >>, or)
  BY <1>0, <1>1, <1>2, Zenon
<1>5. HasRead(X, Append(v, e), crlf, Within(tpl, name, (b \o c) \o << e >>), << >>, seen)
  BY <1>3, <1>4, StillKnown
<1>6. b \o c \in Seq(X)
  BY ConcatProperties
<1> DEFINE a == b \o c
<1> HIDE DEF a
<1>7. a \in Seq(X) /\ << e >> \in Seq(X) /\ a \o << e >> = Append(a, e)
  BY <1>0, <1>6, AppendIsConcat DEF a
<1>8. a \o << e >> \in Seq(X) /\ (a \o << e >>) \o << >> = a \o << e >>
  BY ONLY <1>7, ConcatProperties, ConcatEmptySeq
<1> QED
  BY <1>5, <1>7, <1>8 DEF a

\* A whole body: what has been buffered and the open line are what was read of it.
LEMMA BodyRead ==
    ASSUME NEW X, IsText(X), NEW u, NEW crlf, NEW tpl, NEW name, name # "none", NEW seen,
           HasRead(X, u, crlf, Within(tpl, name, << >>), << >>, seen),
           NEW p, IsLooseText(X, p)
    PROVE  HasRead(X, Append(u \o p, "\n"), crlf, Within(tpl, name, p \o << "\n" >>), << >>, seen)
<1> DEFINE n == Len(p)
           e == "\n"
           At(k, b, c) == /\ HasRead(X, u \o Cut(p, k), crlf, Within(tpl, name, b), c, seen)
                          /\ b \in Seq(X) /\ c \in Seq(X) /\ IsBare(c)
                          /\ b \o c = Cut(p, k)
           T == { k \in Nat : k <= n => \E b, c : At(k, b, c) }
<1>0. /\ n \in Nat /\ p \in Seq(X) /\ u \in Seq(X) /\ e \in X /\ e = "\n"
      /\ \A i \in 1 .. n : p[i] \notin AnyHeader /\ p[i] # "\r" /\ p[i] \in X
  BY LenProperties, ElementOfSeq DEF IsLooseText, HasRead, IsText
<1>e. << >> \in Seq(X) /\ IsBare(<< >>)
  BY EmptySeq DEF IsBare
<1> HIDE DEF e
<1>1. 0 \in T
  <2>1. Cut(p, 0) = << >>
    BY <1>0, CutFacts, EmptySeq
  <2>2. u \o << >> = u /\ << >> \o << >> = << >>
    BY <1>0, ConcatEmptySeq, <1>e
  <2>3. At(0, << >>, << >>)
    BY <1>e, <2>1, <2>2
  <2> HIDE DEF At
  <2> QED
    BY <2>3
<1>2. ASSUME NEW k \in T PROVE k + 1 \in T
  <2> k + 1 \in Nat
    OBVIOUS
  <2> SUFFICES ASSUME k + 1 <= n PROVE \E b, c : At(k + 1, b, c)
    OBVIOUS
  <2>1. k \in 0 .. n /\ k # n /\ k + 1 \in 1 .. n /\ k <= n
    BY <1>0
  <2>2. PICK b, c : At(k, b, c)
    BY <1>2, <2>1
  <2> DEFINE q == Cut(p, k)
             x == p[k + 1]
             v == u \o q
  <2>3. /\ HasRead(X, v, crlf, Within(tpl, name, b), c, seen)
        /\ b \in Seq(X) /\ c \in Seq(X) /\ IsBare(c) /\ b \o c = q
    BY <2>2
  <2>4. Cut(p, k + 1) = Append(q, x) /\ q \in Seq(X)
    BY <1>0, <2>1, CutNext, CutFacts
  <2>5. x \in X /\ x \notin AnyHeader /\ x # "\r"
    BY <1>0, <2>1
  <2> HIDE DEF q, x
  <2>6. u \o Append(q, x) = Append(v, x)
    BY ONLY <1>0, <2>4, <2>5, BehindAppend DEF v
  <2> HIDE DEF v
  <2>7. CASE x = "\n"
    <3> DEFINE d == (b \o c) \o << e >>
    <3>1. /\ HasRead(X, Append(v, e), crlf, Within(tpl, name, d), << >>, seen)
          /\ d \in Seq(X) /\ d \o << >> = Append(b \o c, e)
      <4>1. e = "\n" /\ name # "none" /\ IsText(X) /\ b \in Seq(X) /\ c \in Seq(X)
            /\ IsBare(c) /\ HasRead(X, v, crlf, Within(tpl, name, b), c, seen)
        BY <1>0, <2>3
      <4>2. HasRead(X, Append(v, e), crlf, Within(tpl, name, d), << >>, seen)
        BY ONLY <4>1, BodyBreak
      <4>3. d \in Seq(X)
        BY ONLY <4>1, BodyBreak
      <4>4. d \o << >> = Append(b \o c, e)
        BY ONLY <4>1, BodyBreak
      <4> QED
        BY <4>2, <4>3, <4>4
    <3> HIDE DEF d
    <3>2. At(k + 1, d, << >>)
      BY <1>0, <1>e, <2>3, <2>4, <2>6, <2>7, <3>1
    <3> HIDE DEF At
    <3> QED
      BY <3>2
  <2>8. CASE x # "\n"
    <3>1. HasRead(X, Append(v, x), crlf, Within(tpl, name, b), Append(c, x), seen)
      BY <2>3, <2>5, <2>8, HasReadSymbol
    <3>2. Append(c, x) \in Seq(X) /\ IsBare(Append(c, x))
      BY <2>3, <2>5, BareAppend, AppendProperties
    <3>3. b \o Append(c, x) = Append(b \o c, x)
      BY ONLY <2>3, <2>5, BehindAppend
    <3>4. At(k + 1, b, Append(c, x))
      BY <2>3, <2>4, <2>6, <3>1, <3>2, <3>3
    <3> HIDE DEF At
    <3> QED
      BY <3>4
  <2> QED
    BY <2>7, <2>8
<1>3. T = Nat
  <2> HIDE DEF T
  <2>1. T \in SUBSET Nat
    BY DEF T
  <2> QED
    BY <1>1, <1>2, <2>1, NumbersInduction
<1>4. PICK b, c : At(n, b, c)
  <2> HIDE DEF At
  <2> QED
    BY <1>0, <1>3
<1>5. Cut(p, n) = p
  BY <1>0, CutWhole
<1>6. /\ HasRead(X, u \o p, crlf, Within(tpl, name, b), c, seen)
      /\ b \in Seq(X) /\ c \in Seq(X) /\ IsBare(c) /\ b \o c = p
  BY <1>4, <1>5
<1>7. HasRead(X, Append(u \o p, e), crlf, Within(tpl, name, (b \o c) \o << e >>), << >>, seen)
  BY <1>0, <1>6, BodyBreak
<1> QED
  BY <1>6, <1>7 DEF e

\* A section, behind what was read before it.
LEMMA SectionRead ==
    ASSUME NEW X, IsText(X), NEW u, NEW crlf, NEW st, NEW seen,
           HasRead(X, u, crlf, st, << >>, seen),
           NEW h \in AnyHeader, h \in X, NEW p, IsLooseText(X, p),
           NEW e, e = "\n"
    PROVE  /\ HasRead(X, u \o ((<< h, e >> \o p) \o << e >>), crlf,
                    Within(Flush(st), SectionOf(h), p \o << e >>), << >>,
                    seen \/ h \in Headers)
           /\ (<< h, e >> \o p) \o << e >> \in Seq(X)
<1>0. /\ e \in X /\ u \in Seq(X) /\ p \in Seq(X)
      /\ h # "\n" /\ h # "\r" /\ SectionOf(h) # "none"
  BY HeaderFacts DEF IsText, HasRead, IsLooseText, Whitespace
<1> DEFINE v == Append(u, h)
           w == Append(v, e)
           or == seen \/ IsHeader(<< h >>, Headers)
           also == seen \/ h \in Headers
<1>1. HasRead(X, v, crlf, st, << h >>, seen)
  <2>1. HasRead(X, v, crlf, st, Append(<< >>, h), seen)
    BY <1>0, HasReadSymbol
  <2>2. Append(<< >>, h) = << h >>
    OBVIOUS
  <2> QED
    BY <2>1, <2>2, Zenon
<1>2. v \in Seq(X) /\ w \in Seq(X)
  BY <1>0, AppendProperties
<1>3. HasRead(X, w, crlf, Within(Flush(st), SectionOf(h), << >>), << >>, also)
  <2> HIDE DEF v
  <2>1. HasRead(X, Append(v, "\n"), crlf, OnLine(st, << h >>), << >>, or)
    BY <1>1, HasReadBreak
  <2>2. /\ OnLine(st, << h >>) = Within(Flush(st), SectionOf(h), << >>)
        /\ h \in Headers => IsHeader(<< h >>, Headers)
    BY HeaderRead, Zenon DEF Within
  <2>3. also => or
    BY <2>2
  <2>4. HasRead(X, w, crlf, Within(Flush(st), SectionOf(h), << >>), << >>, or)
    BY <2>1, <2>2, Zenon
  <2> HIDE DEF or, also, w
  <2> QED
    BY <2>3, <2>4, StillKnown
<1> HIDE DEF v, w, or, also
<1>4. HasRead(X, Append(w \o p, e), crlf, Within(Flush(st), SectionOf(h), p \o << e >>), << >>, also)
  <2> DEFINE tpl == Flush(st)
             name == SectionOf(h)
  <2>1. name # "none" /\ HasRead(X, w, crlf, Within(tpl, name, << >>), << >>, also)
    BY <1>0, <1>3
  <2> HIDE DEF tpl, name
  <2>2. HasRead(X, Append(w \o p, "\n"), crlf, Within(tpl, name, p \o << "\n" >>), << >>, also)
    BY <2>1, BodyRead
  <2> QED
    BY <2>2 DEF tpl, name
<1>5. << h, e >> \in Seq(X) /\ << h >> \in Seq(X) /\ << h, e >> = Append(<< h >>, e)
  BY ONLY <1>0, h \in X
<1> DEFINE q == << h, e >>
           a == << h >>
           z == << e >>
<1>6. z \in Seq(X)
  BY ONLY <1>0
<1>7. u \o q = w
  <2> HIDE DEF q, a
  <2>1. u \o Append(a, e) = Append(u \o a, e)
    BY ONLY <1>0, <1>5, BehindAppend DEF a
  <2>2. Append(u, h) = u \o << h >>
    BY <1>0, AppendIsConcat
  <2> QED
    BY <1>5, <2>1, <2>2, Zenon DEF q, a, v, w
<1>8. q \in Seq(X)
  BY <1>5
<1> HIDE DEF q, z
<1>9. q \o p \in Seq(X) /\ (q \o p) \o z \in Seq(X) /\ w \o p \in Seq(X)
  BY <1>0, <1>2, <1>6, <1>8, ConcatProperties
<1>10. u \o (q \o p) = w \o p
  <2>1. (u \o q) \o p = u \o (q \o p)
    <3>1. u \in Seq(X) /\ q \in Seq(X) /\ p \in Seq(X)
      BY <1>0, <1>8
    <3> QED
      BY ONLY <3>1, ConcatAssociative, SMTT(30)
  <2> QED
    BY <1>7, <2>1, Zenon
<1>11. u \o ((q \o p) \o z) = (w \o p) \o z
  <2> DEFINE b == q \o p
  <2>1. b \in Seq(X) /\ u \o b = w \o p
    BY <1>9, <1>10
  <2> HIDE DEF b
  <2>2. (u \o b) \o z = u \o (b \o z)
    <3>1. u \in Seq(X) /\ b \in Seq(X) /\ z \in Seq(X)
      BY <1>0, <1>6, <2>1
    <3> QED
      BY ONLY <3>1, ConcatAssociative, SMTT(30)
  <2> QED
    BY <2>1, <2>2, Zenon DEF b
<1>12. Append(w \o p, e) = (w \o p) \o z
  BY <1>0, <1>9, AppendIsConcat DEF z
<1>13. HasRead(X, u \o ((q \o p) \o z), crlf, Within(Flush(st), SectionOf(h), p \o << e >>), << >>, also)
  BY <1>4, <1>11, <1>12, Zenon
<1> QED
  BY <1>9, <1>13, Zenon DEF q, z, also

\* The section that ends becomes a part of the template.
LEMMA FlushIs ==
    ASSUME NEW a, NEW b, NEW c, NEW name, NEW buffer
    PROVE  Flush(Within([subject |-> a, text |-> b, html |-> c], name, buffer)) =
              [subject |-> IF name = "subject" THEN Trim(TrimNewlines(buffer)) ELSE a,
               text |-> IF name = "text" THEN TrimNewlines(buffer) ELSE b,
               html |-> IF name = "html" THEN TrimNewlines(buffer) ELSE c]
<1> DEFINE t == [subject |-> a, text |-> b, html |-> c]
           s == Within(t, name, buffer)
           value == TrimNewlines(buffer)
           trimmed == Trim(value)
<1>1. s.tpl = t /\ s.current = name /\ s.buffer = buffer
  BY DEF Within
<1> HIDE DEF s
<1>2. CASE name = "subject"
  <2>1. Flush(s) = [s.tpl EXCEPT !.subject = Trim(TrimNewlines(s.buffer))]
    BY <1>1, <1>2 DEF Flush
  <2>2. Flush(s) = [t EXCEPT !.subject = trimmed]
    BY <1>1, <2>1, Zenon
  <2> HIDE DEF trimmed, value
  <2>3. [t EXCEPT !.subject = trimmed] = [subject |-> trimmed, text |-> b, html |-> c]
    OBVIOUS
  <2> QED
    BY <1>2, <2>2, <2>3 DEF trimmed, value, s
<1>3. CASE name = "text"
  <2>1. Flush(s) = [s.tpl EXCEPT !.text = TrimNewlines(s.buffer)]
    BY <1>1, <1>3 DEF Flush
  <2>2. Flush(s) = [t EXCEPT !.text = value]
    BY <1>1, <2>1, Zenon
  <2> HIDE DEF trimmed, value
  <2>3. [t EXCEPT !.text = value] = [subject |-> a, text |-> value, html |-> c]
    OBVIOUS
  <2> QED
    BY <1>3, <2>2, <2>3 DEF value, s
<1>4. CASE name = "html"
  <2>1. Flush(s) = [s.tpl EXCEPT !.html = TrimNewlines(s.buffer)]
    BY <1>1, <1>4 DEF Flush
  <2>2. Flush(s) = [t EXCEPT !.html = value]
    BY <1>1, <2>1, Zenon
  <2> HIDE DEF trimmed, value
  <2>3. [t EXCEPT !.html = value] = [subject |-> a, text |-> b, html |-> value]
    OBVIOUS
  <2> QED
    BY <1>4, <2>2, <2>3 DEF value, s
<1>5. CASE name \notin { "subject", "text", "html" }
  <2>1. Flush(s) = s.tpl
    BY <1>1, <1>5 DEF Flush
  <2> HIDE DEF value, trimmed
  <2> QED
    BY <1>1, <1>5, <2>1 DEF s
<1> QED
  BY <1>2, <1>3, <1>4, <1>5

\* Of the first k sections, the last of a name.
BodyTo(sections, k, name) ==
    LET I == { i \in 1 .. k : SectionOf(sections[i].header) = name }
    IN  IF I # {} THEN TrimNewlines(sections[Max(I)].body) ELSE << >>

ReadTo(sections, k) ==
    [subject |-> Trim(BodyTo(sections, k, "subject")),
     text |-> BodyTo(sections, k, "text"), html |-> BodyTo(sections, k, "html")]

\* One section more.
LEMMA BodyToNext ==
    ASSUME NEW sections, NEW k \in Nat, NEW name
    PROVE  BodyTo(sections, k + 1, name) =
              IF SectionOf(sections[k + 1].header) = name
              THEN TrimNewlines(sections[k + 1].body) ELSE BodyTo(sections, k, name)
<1> DEFINE I == { i \in 1 .. k : SectionOf(sections[i].header) = name }
           J == { i \in 1 .. k + 1 : SectionOf(sections[i].header) = name }
<1>0. /\ BodyTo(sections, k, name) =
            IF I # {} THEN TrimNewlines(sections[Max(I)].body) ELSE << >>
      /\ BodyTo(sections, k + 1, name) =
            IF J # {} THEN TrimNewlines(sections[Max(J)].body) ELSE << >>
  BY Zenon DEF BodyTo
<1>1. CASE SectionOf(sections[k + 1].header) = name
  <2>1. J \in SUBSET (1 .. k + 1) /\ k + 1 \in J /\ k + 1 \in Nat
        /\ \A i \in (k + 1) + 1 .. k + 1 : i \notin J
    BY <1>1
  <2> HIDE DEF J
  <2>2. J # {} /\ Max(J) = k + 1
    BY <2>1, LastMember
  <2> QED
    BY <1>0, <1>1, <2>2, Zenon
<1>2. CASE SectionOf(sections[k + 1].header) # name
  <2>1. J = I
    BY <1>2
  <2> HIDE DEF I, J
  <2> QED
    BY <1>0, <1>2, <2>1, Zenon
<1> QED
  BY <1>1, <1>2

\* Nothing has been read before the first section.
LEMMA ReadToNone ==
    ASSUME NEW sections
    PROVE  ReadTo(sections, 0) = Flush(Unread)
<1>1. \A name : BodyTo(sections, 0, name) = << >>
  BY DEF BodyTo
<1>2. Trim(<< >>) = << >>
  <2>1. ToSet(<< >>) \subseteq Whitespace
    BY DEF ToSet
  <2> QED
    BY <2>1, Zenon DEF Trim
<1>3. ReadTo(sections, 0) = Empty
  BY <1>1, <1>2, Zenon DEF ReadTo, Empty
<1>4. Flush(Unread) = Empty
  <2>1. Unread.current = "none" /\ Unread.tpl = Empty
    BY DEF Unread
  <2> QED
    BY <2>1 DEF Flush
<1> QED
  BY <1>3, <1>4

\* Each section that ends becomes what is meant by the sections so far.
LEMMA ReadToNext ==
    ASSUME NEW sections, NEW k \in Nat, NEW h, h = sections[k + 1].header,
           NEW p, p = sections[k + 1].body, NEW X, p \in Seq(X), NEW e \in X, e = "\n"
    PROVE  Flush(Within(ReadTo(sections, k), SectionOf(h), p \o << e >>)) =
              ReadTo(sections, k + 1)
<1> DEFINE b == p \o << e >>
           value == TrimNewlines(p)
           name == SectionOf(h)
           At(i, n) == BodyTo(sections, i, n)
<1>1. b = Append(p, e)
  BY AppendIsConcat
<1>2. TrimNewlines(b) = value
  <2> HIDE DEF b
  <2>1. TrimNewlines(Append(p, e)) = TrimNewlines(p)
    BY ONLY p \in Seq(X), e \in X, e = "\n", TrimBreak
  <2> QED
    BY <1>1, <2>1, Zenon
<1>3. \A n : At(k + 1, n) = IF name = n THEN value ELSE At(k, n)
  BY BodyToNext, Zenon
<1> DEFINE s0 == At(k, "subject")
           t0 == At(k, "text")
           h0 == At(k, "html")
<1>4. ReadTo(sections, k) = [subject |-> Trim(s0), text |-> t0, html |-> h0]
  BY Zenon DEF ReadTo
<1>5. ReadTo(sections, k + 1) =
         [subject |-> Trim(At(k + 1, "subject")), text |-> At(k + 1, "text"),
          html |-> At(k + 1, "html")]
  BY Zenon DEF ReadTo
<1> HIDE DEF b, value, name, At
<1>6. Flush(Within([subject |-> Trim(s0), text |-> t0, html |-> h0], name, b)) =
         [subject |-> IF name = "subject" THEN Trim(TrimNewlines(b)) ELSE Trim(s0),
          text |-> IF name = "text" THEN TrimNewlines(b) ELSE t0,
          html |-> IF name = "html" THEN TrimNewlines(b) ELSE h0]
  BY FlushIs
<1>7. /\ At(k + 1, "subject") = IF name = "subject" THEN value ELSE s0
      /\ At(k + 1, "text") = IF name = "text" THEN value ELSE t0
      /\ At(k + 1, "html") = IF name = "html" THEN value ELSE h0
  BY <1>3, Zenon
<1>8. Trim(At(k + 1, "subject")) = IF name = "subject" THEN Trim(value) ELSE Trim(s0)
  BY <1>7, Zenon
<1> HIDE DEF s0, t0, h0
<1>9. Flush(Within(ReadTo(sections, k), name, b)) = ReadTo(sections, k + 1)
  BY <1>2, <1>4, <1>5, <1>6, <1>7, <1>8, Zenon
<1> QED
  BY <1>9 DEF name, b

\* The symbols of a template file.
FileSymbols == STRING \cup AnyHeader \cup { "\n", "\r" }

LEMMA FileSymbolsAreText ==
    IsText(FileSymbols) /\ AnyHeader \subseteq FileSymbols /\ STRING \subseteq FileSymbols
  BY DEF IsText, FileSymbols

\* What an author writes in a section is loose.
LEMMA LooseText ==
    ASSUME NEW text, IsLoose(text)
    PROVE  IsLooseText(FileSymbols, text)
<1>1. text \in Seq(STRING) /\ \A i \in DOMAIN text : text[i] \notin AnyHeader \cup { "\r" }
  BY Zenon DEF IsLoose
<1>2. Len(text) \in Nat /\ text \in [1 .. Len(text) -> STRING] /\ DOMAIN text = 1 .. Len(text)
  BY <1>1, LenProperties
<1>3. text \in [1 .. Len(text) -> FileSymbols]
  BY <1>2, FileSymbolsAreText
<1>4. text \in Seq(FileSymbols)
  <2> DEFINE n == Len(text)
  <2>1. n \in Nat /\ text \in [1 .. n -> FileSymbols]
    BY <1>2, <1>3
  <2> HIDE DEF n
  <2> QED
    BY ONLY <2>1, FunctionIsSeq
<1> QED
  BY <1>1, <1>2, <1>4 DEF IsLooseText

SectionSources(sections) == [i \in 1 .. Len(sections) |-> SectionSource(sections[i])]

KnownTo(sections, k) == \E i \in 1 .. k : sections[i].header \in Headers

\* What SectionRead says of one section, of all of them.
LEMMA SectionsRead ==
    ASSUME NEW X, IsText(X), AnyHeader \subseteq X, NEW sections,
           Len(sections) \in Nat,
           \A i \in 1 .. Len(sections) :
              sections[i].header \in AnyHeader /\ IsLooseText(X, sections[i].body),
           NEW u, NEW crlf, HasRead(X, u, crlf, Unread, << >>, FALSE)
    PROVE  \E st : /\ HasRead(X, u \o FlattenSeq(SectionSources(sections)), crlf, st, << >>,
                            KnownTo(sections, Len(sections)))
                   /\ Flush(st) = ReadTo(sections, Len(sections))
<1> DEFINE n == Len(sections)
           ss == SectionSources(sections)
           e == "\n"
<1>0. e = "\n" /\ e \in X /\ u \in Seq(X) /\ n \in Nat
  BY DEF IsText, HasRead
<1> HIDE DEF e
<1>1. ASSUME NEW i \in 1 .. n
      PROVE  /\ ss[i] = (<< sections[i].header, e >> \o sections[i].body) \o << e >>
             /\ ss[i] \in Seq(X)
  <2> DEFINE h == sections[i].header
             p == sections[i].body
  <2>1. ss[i] = SectionSource(sections[i])
    BY Zenon DEF SectionSources
  <2>2. SectionSource(sections[i]) = (<< h, e >> \o p) \o << e >>
    BY <1>0, Zenon DEF SectionSource
  <2>3. h \in AnyHeader /\ h \in X /\ IsLooseText(X, p)
    OBVIOUS
  <2> HIDE DEF h, p, n
  <2>4. (<< h, e >> \o p) \o << e >> \in Seq(X)
    BY <1>0, <2>3, SectionRead
  <2> QED
    BY <2>1, <2>2, <2>4, Zenon DEF h, p
<1>2. ss \in [1 .. n -> Seq(X)]
  <2>1. ss = [i \in 1 .. n |-> SectionSource(sections[i])]
    BY Zenon DEF SectionSources
  <2>2. \A i \in 1 .. n : SectionSource(sections[i]) \in Seq(X)
    BY <1>1, <2>1, Zenon
  <2> QED
    BY <2>1, <2>2, Zenon
<1> HIDE DEF ss, n
<1>3. ss \in Seq(Seq(X)) /\ Len(ss) = n
  BY <1>0, <1>2, FunctionIsSeq
<1>4. PICK f : Joins(f, ss, X) /\ FlattenSeq(ss) = f[n]
  BY <1>3, FlattenJoins
<1>5. /\ f[0] = << >> /\ \A i \in 0 .. n : f[i] \in Seq(X)
      /\ \A i \in 1 .. n : f[i] = f[i - 1] \o ss[i]
  BY <1>3, <1>4 DEF Joins
<1> DEFINE At(k, st) == /\ HasRead(X, u \o f[k], crlf, st, << >>, KnownTo(sections, k))
                        /\ Flush(st) = ReadTo(sections, k)
           T == { k \in Nat : k <= n => \E st : At(k, st) }
<1>6. 0 \in T
  <2>1. u \o f[0] = u
    BY <1>0, <1>5, ConcatEmptySeq
  <2>2. KnownTo(sections, 0) => FALSE
    BY DEF KnownTo
  <2>3. HasRead(X, u, crlf, Unread, << >>, KnownTo(sections, 0))
    BY <2>2, StillKnown
  <2>4. Flush(Unread) = ReadTo(sections, 0)
    BY ReadToNone
  <2>5. At(0, Unread)
    BY <2>1, <2>3, <2>4, Zenon
  <2> HIDE DEF At
  <2> QED
    BY <2>5
<1>7. ASSUME NEW k \in T PROVE k + 1 \in T
  <2> k + 1 \in Nat
    OBVIOUS
  <2> SUFFICES ASSUME k + 1 <= n PROVE \E st : At(k + 1, st)
    OBVIOUS
  <2>1. k \in 0 .. n /\ k \in Nat /\ k + 1 \in 1 .. n /\ (k + 1) - 1 = k /\ k <= n
    BY <1>0
  <2>2. PICK st : At(k, st)
    BY <1>7, <2>1
  <2> DEFINE h == sections[k + 1].header
             p == sections[k + 1].body
             v == u \o f[k]
             seen == KnownTo(sections, k)
             x == (<< h, e >> \o p) \o << e >>
             next == Within(Flush(st), SectionOf(h), p \o << e >>)
             also == seen \/ h \in Headers
  <2>3. /\ HasRead(X, v, crlf, st, << >>, seen) /\ Flush(st) = ReadTo(sections, k)
    BY <2>2
  <2>4. h \in AnyHeader /\ h \in X /\ IsLooseText(X, p)
    BY <2>1 DEF n
  <2>5. f[k + 1] = f[k] \o x /\ f[k] \in Seq(X) /\ ss[k + 1] = x /\ ss[k + 1] \in Seq(X)
    BY <1>1, <1>5, <2>1, Zenon
  <2>6. KnownTo(sections, k + 1) => also
    <3> SUFFICES ASSUME NEW i \in 1 .. k + 1, sections[i].header \in Headers
                 PROVE  also
      BY DEF KnownTo
    <3>1. CASE i = k + 1
      BY <3>1
    <3>2. CASE i # k + 1
      <4>1. i \in 1 .. k
        BY <2>1, <3>2
      <4> QED
        BY <4>1, Zenon DEF KnownTo
    <3> QED
      BY <3>1, <3>2
  <2> HIDE DEF h, p, v, seen
  <2>7. HasRead(X, v \o x, crlf, next, << >>, also)
    BY <1>0, <2>3, <2>4, SectionRead
  <2> HIDE DEF x, also
  <2>8. v \o x = u \o f[k + 1]
    <3> DEFINE g == f[k]
    <3>1. g \in Seq(X) /\ x \in Seq(X) /\ f[k + 1] = g \o x /\ v = u \o g
      BY <2>5 DEF v
    <3> HIDE DEF g
    <3>2. u \in Seq(X) /\ g \in Seq(X) /\ x \in Seq(X)
      BY <1>0, <3>1
    <3>3. (u \o g) \o x = u \o (g \o x)
      BY ONLY <3>2, ConcatAssociative, SMTT(30)
    <3> QED
      BY <3>1, <3>3, Zenon
  <2>9. Flush(next) = ReadTo(sections, k + 1)
    <3>1. p \in Seq(X)
      BY <2>4 DEF IsLooseText
    <3>2. Flush(Within(ReadTo(sections, k), SectionOf(h), p \o << e >>)) = ReadTo(sections, k + 1)
      BY <1>0, <2>1, <3>1, ReadToNext DEF h, p
    <3> QED
      BY <2>3, <3>2, Zenon
  <2> HIDE DEF next
  <2>10. HasRead(X, u \o f[k + 1], crlf, next, << >>, also)
    BY <2>7, <2>8, Zenon
  <2>11. HasRead(X, u \o f[k + 1], crlf, next, << >>, KnownTo(sections, k + 1))
    BY <2>6, <2>10, StillKnown
  <2>12. At(k + 1, next)
    BY <2>9, <2>11, Zenon
  <2> HIDE DEF At
  <2> QED
    BY <2>12
<1>8. T = Nat
  <2> HIDE DEF T
  <2>1. T \in SUBSET Nat
    BY DEF T
  <2> QED
    BY <1>6, <1>7, <2>1, NumbersInduction
<1>9. PICK st : At(n, st)
  <2> HIDE DEF At
  <2>1. n \in T /\ n <= n
    <3> HIDE DEF T
    <3> QED
      BY <1>0, <1>8
  <2> QED
    BY <2>1
<1> QED
  BY <1>4, <1>9, Zenon DEF n, ss

\* What the reader makes of a template file is what was meant.
LEMMA TemplateRead ==
    ASSUME NEW t, IsTemplateFile(t), NEW html
    PROVE  ParseTemplate(TemplateFile(t), html) =
              [subject |-> Trim(Body(t, "subject")),
               text |-> Body(t, "text"), html |-> Body(t, "html")]
<1> DEFINE X == FileSymbols
           sections == t.sections
           n == Len(sections)
           p == t.preamble
           crlf == t.crlf
           file == TemplateFile(t)
<1>1. /\ IsLoose(p) /\ (p = << >> \/ Last(p) = "\n")
      /\ sections \in Seq([header : AnyHeader, body : Seq(STRING)])
      /\ \A i \in DOMAIN sections : IsLoose(sections[i].body)
      /\ \E i \in DOMAIN sections : sections[i].header \in Headers
  BY DEF IsTemplateFile
<1>2. n \in Nat /\ DOMAIN sections = 1 .. n
  BY <1>1, LenProperties
<1>3. ASSUME NEW i \in 1 .. n
      PROVE  sections[i].header \in AnyHeader /\ IsLooseText(X, sections[i].body)
  <2>1. sections[i] \in [header : AnyHeader, body : Seq(STRING)]
    BY <1>1, ElementOfSeq
  <2>2. IsLoose(sections[i].body)
    BY <1>1, <1>2
  <2> QED
    BY <2>1, <2>2, LooseText
<1>4. IsText(X) /\ AnyHeader \subseteq X
  BY FileSymbolsAreText
<1>5. IsLooseText(X, p)
  BY <1>1, LooseText
<1>6. KnownTo(sections, n)
  BY <1>1, <1>2, Zenon DEF KnownTo
<1>7. file = Saved(p \o FlattenSeq(SectionSources(sections)), crlf)
  BY <1>2, Zenon DEF TemplateFile, SectionSources
<1> HIDE DEF X, sections, p, crlf, file
<1>8. HasRead(X, p, crlf, Unread, << >>, FALSE)
  BY <1>1, <1>4, <1>5, PreambleRead
<1>9. PICK st : /\ HasRead(X, p \o FlattenSeq(SectionSources(sections)), crlf, st, << >>,
                         KnownTo(sections, n))
                /\ Flush(st) = ReadTo(sections, n)
  BY <1>2, <1>3, <1>4, <1>8, SectionsRead
<1>10. ReadLines(Lines(file)) = st /\ HasSections(file)
  <2> DEFINE u == p \o FlattenSeq(SectionSources(sections))
             seen == KnownTo(sections, n)
  <2>1. HasRead(X, u, crlf, st, << >>, seen)
    BY <1>9
  <2> HIDE DEF u, seen
  <2>2. ReadLines(Lines(Saved(u, crlf))) = st /\ (seen => HasSections(Saved(u, crlf)))
    BY <2>1, HasReadAtLast
  <2> QED
    BY <1>6, <1>7, <2>2, Zenon DEF u, seen
<1>11. ParseTemplate(file, html) = ReadTo(sections, n)
  <2>1. ParseTemplate(file, html) = ParseSections(file)
    BY <1>10, Zenon DEF ParseTemplate
  <2> QED
    BY <1>9, <1>10, <2>1, Zenon DEF ParseSections
<1>12. ASSUME NEW name PROVE BodyTo(sections, n, name) = Body(t, name)
  <2> DEFINE I == { i \in 1 .. n : SectionOf(sections[i].header) = name }
             last == IF I # {} THEN Max(I) ELSE 0
  <2>1. Body(t, name) = IF last = 0 THEN << >> ELSE TrimNewlines(sections[last].body)
    BY DEF Body, SelectLastInSeq, sections
  <2>2. CASE I = {}
    BY <2>1, <2>2, Zenon DEF BodyTo
  <2>3. CASE I # {}
    <3>1. I \in SUBSET (1 .. n)
      OBVIOUS
    <3>2. PICK m \in I : \A i \in m + 1 .. n : i \notin I
      <4> HIDE DEF I, n
      <4> QED
        BY <1>2, <2>3, <3>1, LastMemberExists
    <3>3. Max(I) = m
      <4> HIDE DEF I, n
      <4> QED
        BY <1>2, <3>1, <3>2, LastMember
    <3>4. last # 0
      BY <2>3, <3>2, <3>3
    <3> QED
      BY <2>1, <2>3, <3>4, Zenon DEF BodyTo
  <2> QED
    BY <2>2, <2>3
<1>13. ReadTo(sections, n) =
          [subject |-> Trim(Body(t, "subject")),
           text |-> Body(t, "text"), html |-> Body(t, "html")]
  BY <1>12, Zenon DEF ReadTo
<1> QED
  BY <1>11, <1>13, Zenon DEF file

MeantSections(t) ==
    [subject |-> Trim(Body(t, "subject")), text |-> Body(t, "text"), html |-> Body(t, "html")]

\* What has been read is what was meant.
SectionInv ==
    input.what = "template" =>
        input \in Templates /\ output \in { << >>, << MeantSections(input) >> }

\* Nothing has been read at first.
LEMMA SectionInvInit == TextInit => SectionInv
  BY TextAssumption DEF TextInit, SectionInv

\* A template is read as it is meant.
LEMMA SectionStep ==
    ASSUME SectionInv, [TextNext]_textVars
    PROVE  SectionInv'
<1>1. CASE UNCHANGED textVars
  BY <1>1 DEF SectionInv, textVars
<1>2. CASE ReadTemplate
  <2>1. input.what = "template" /\ input' = input
    BY <1>2, Zenon DEF ReadTemplate, Reads
  <2>2. input \in Templates
    BY <2>1 DEF SectionInv
  <2>3. IsTemplateFile(input)
    BY <2>2, TextAssumption
  <2>4. output' = << ParseTemplate(TemplateFile(input), input.html) >>
    BY <1>2, Zenon DEF ReadTemplate, Reads
  <2>5. output' = << MeantSections(input) >>
    BY <2>3, <2>4, TemplateRead, Zenon DEF MeantSections
  <2> QED
    BY <2>1, <2>2, <2>5 DEF SectionInv
<1>3. CASE ReadFile \/ ReadInline \/ ReadPath \/ ReadMail
  <2>1. input' = input /\ input.what # "template"
    BY <1>3 DEF ReadFile, ReadInline, ReadPath, ReadMail, Reads
  <2> QED
    BY <2>1 DEF SectionInv
<1> QED
  BY <1>1, <1>2, <1>3 DEF TextNext

\* However a template file is written, parse_sections in src/template.rs gives
\* each part of the mail the body of its own header and of no other.
THEOREM SectionsAlwaysApart == TextSpec => []SectionsApart
<1>1. SectionInv => SectionsApart
  <2> SUFFICES ASSUME SectionInv, input.what = "template", output # << >>
               PROVE  output[1] = MeantSections(input)
    BY DEF SectionsApart, MeantSections
  <2>1. output = << MeantSections(input) >>
    BY DEF SectionInv
  <2> QED
    BY <2>1
<1>2. SectionInv /\ [TextNext]_textVars => SectionInv'
  BY SectionStep
<1> QED
  BY <1>1, <1>2, SectionInvInit, PTL DEF TextSpec

-----------------------------------------------------------------------------
(* A quoted value, character by character.                                 *)

Unopened == [out |-> << >>, open |-> FALSE]

\* What the recursive function of ReadEscapes is asked to be.
EscapesTo(p, text, n) ==
    p = [i \in 0 .. n |-> IF i = 0 THEN Unopened ELSE Unescaping(p[i - 1], text[i])]

\* There is such a function.
LEMMA EscapesExist ==
    ASSUME NEW text, NEW n \in Nat
    PROVE  \E p : EscapesTo(p, text, n)
<1> DEFINE T == { k \in Nat : \E p : EscapesTo(p, text, k) }
<1>1. 0 \in T
  <2> DEFINE p == [i \in 0 .. 0 |-> Unopened]
  <2>1. EscapesTo(p, text, 0)
    BY DEF EscapesTo
  <2> QED
    BY <2>1
<1>2. ASSUME NEW k \in T PROVE k + 1 \in T
  <2>1. PICK p : EscapesTo(p, text, k)
    BY <1>2
  <2> DEFINE q == [i \in 0 .. k + 1 |->
                     IF i = 0 THEN Unopened ELSE Unescaping(p[i - 1], text[i])]
  <2>2. ASSUME NEW i \in 0 .. k PROVE q[i] = p[i]
    <3>1. i \in 0 .. k + 1
      OBVIOUS
    <3>2. p[i] = IF i = 0 THEN Unopened ELSE Unescaping(p[i - 1], text[i])
      BY <2>1, Zenon DEF EscapesTo
    <3> QED
      BY <3>1, <3>2, Zenon
  <2>3. \A i \in 0 .. k + 1 : i # 0 => i - 1 \in 0 .. k
    OBVIOUS
  <2>4. EscapesTo(q, text, k + 1)
    BY <2>2, <2>3, Zenon DEF EscapesTo
  <2> QED
    BY <2>4
<1> QED
  BY <1>1, <1>2, NumbersInduction

\* ReadEscapes is its last value.
LEMMA EscapesAre ==
    ASSUME NEW text, Len(text) \in Nat
    PROVE  \E p : /\ p[0] = Unopened
                  /\ \A i \in 1 .. Len(text) : p[i] = Unescaping(p[i - 1], text[i])
                  /\ ReadEscapes(text) = p[Len(text)]
<1> DEFINE p == CHOOSE q : EscapesTo(q, text, Len(text))
<1>1. EscapesTo(p, text, Len(text))
  BY EscapesExist
<1>2. ReadEscapes(text) = p[Len(text)]
  BY DEF ReadEscapes, EscapesTo, Unopened
<1> HIDE DEF p
<1>3. p[0] = Unopened
  <2>1. 0 \in 0 .. Len(text)
    OBVIOUS
  <2> QED
    BY <1>1, <2>1, Zenon DEF EscapesTo
<1>4. ASSUME NEW i \in 1 .. Len(text) PROVE p[i] = Unescaping(p[i - 1], text[i])
  <2>1. i \in 0 .. Len(text) /\ i # 0
    OBVIOUS
  <2> QED
    BY <1>1, <2>1, Zenon DEF EscapesTo
<1> QED
  BY <1>2, <1>3, <1>4

\* Nothing has been read at first.
LEMMA NoEscapes == ReadEscapes(<< >>) = Unopened
<1>1. Len(<< >>) = 0 /\ Len(<< >>) \in Nat
  OBVIOUS
<1>2. PICK p : p[0] = Unopened /\ ReadEscapes(<< >>) = p[Len(<< >>)]
  BY <1>1, EscapesAre
<1> QED
  BY <1>1, <1>2

\* A character more.
LEMMA EscapesAppend ==
    ASSUME NEW X, NEW text \in Seq(X), NEW x \in X
    PROVE  ReadEscapes(Append(text, x)) = Unescaping(ReadEscapes(text), x)
<1> DEFINE n == Len(text)
           t == Append(text, x)
<1>0. /\ n \in Nat /\ Len(t) = n + 1 /\ t[n + 1] = x
      /\ \A i \in 1 .. n : t[i] = text[i]
  BY AppendProperties, LenProperties
<1> HIDE DEF t
<1>1. PICK p : /\ p[0] = Unopened
               /\ \A i \in 1 .. n : p[i] = Unescaping(p[i - 1], text[i])
               /\ ReadEscapes(text) = p[n]
  BY <1>0, EscapesAre
<1>2. PICK q : /\ q[0] = Unopened
               /\ \A i \in 1 .. n + 1 : q[i] = Unescaping(q[i - 1], t[i])
               /\ ReadEscapes(t) = q[n + 1]
  <2>1. Len(t) \in Nat
    BY <1>0
  <2> QED
    BY <1>0, <2>1, EscapesAre
<1> HIDE DEF n
<1> DEFINE T == { k \in Nat : k <= n => q[k] = p[k] }
<1>3. 0 \in T
  BY <1>1, <1>2
<1>4. ASSUME NEW k \in T PROVE k + 1 \in T
  <2> k + 1 \in Nat
    OBVIOUS
  <2> SUFFICES ASSUME k + 1 <= n PROVE q[k + 1] = p[k + 1]
    OBVIOUS
  <2>1. k + 1 \in 1 .. n /\ k + 1 \in 1 .. n + 1 /\ (k + 1) - 1 = k /\ k <= n
    BY <1>0
  <2>2. q[k] = p[k]
    BY <1>4, <2>1
  <2>3. p[k + 1] = Unescaping(p[(k + 1) - 1], text[k + 1])
    BY <1>1, <2>1, Zenon
  <2>4. q[k + 1] = Unescaping(q[(k + 1) - 1], t[k + 1])
    BY <1>2, <2>1, Zenon
  <2>5. t[k + 1] = text[k + 1]
    BY <1>0, <2>1, Zenon
  <2> QED
    BY <2>1, <2>2, <2>3, <2>4, <2>5, Zenon
<1>5. T = Nat
  <2> HIDE DEF T
  <2>1. T \in SUBSET Nat
    BY DEF T
  <2> QED
    BY <1>3, <1>4, <2>1, NumbersInduction
<1>6. q[n] = p[n]
  BY <1>0, <1>5
<1>7. n + 1 \in 1 .. n + 1 /\ (n + 1) - 1 = n
  BY <1>0
<1>8. q[n + 1] = Unescaping(q[(n + 1) - 1], t[n + 1])
  BY <1>2, <1>7, Zenon
<1>9. ReadEscapes(t) = Unescaping(ReadEscapes(text), x)
  BY <1>0, <1>1, <1>2, <1>6, <1>7, <1>8, Zenon
<1> QED
  BY <1>9 DEF t

-----------------------------------------------------------------------------
(* A settings string, character by character.                              *)

Unscanned == [quote |-> "none", escaped |-> FALSE, cuts |-> {}]

\* What the recursive function of Scanned is asked to be.
ScansTo(p, text, n) ==
    p = [i \in 0 .. n |-> IF i = 0 THEN Unscanned ELSE Scan(p[i - 1], text[i], i)]

\* There is such a function.
LEMMA ScansExist ==
    ASSUME NEW text, NEW n \in Nat
    PROVE  \E p : ScansTo(p, text, n)
<1> DEFINE T == { k \in Nat : \E p : ScansTo(p, text, k) }
<1>1. 0 \in T
  <2> DEFINE p == [i \in 0 .. 0 |-> Unscanned]
  <2>1. ScansTo(p, text, 0)
    BY DEF ScansTo
  <2> QED
    BY <2>1
<1>2. ASSUME NEW k \in T PROVE k + 1 \in T
  <2>1. PICK p : ScansTo(p, text, k)
    BY <1>2
  <2> DEFINE q == [i \in 0 .. k + 1 |->
                     IF i = 0 THEN Unscanned ELSE Scan(p[i - 1], text[i], i)]
  <2>2. ASSUME NEW i \in 0 .. k PROVE q[i] = p[i]
    <3>1. i \in 0 .. k + 1
      OBVIOUS
    <3>2. p[i] = IF i = 0 THEN Unscanned ELSE Scan(p[i - 1], text[i], i)
      BY <2>1, Zenon DEF ScansTo
    <3> QED
      BY <3>1, <3>2, Zenon
  <2>3. \A i \in 0 .. k + 1 : i # 0 => i - 1 \in 0 .. k
    OBVIOUS
  <2>4. ScansTo(q, text, k + 1)
    BY <2>2, <2>3, Zenon DEF ScansTo
  <2> QED
    BY <2>4
<1> QED
  BY <1>1, <1>2, NumbersInduction

\* Scanned is its last value.
LEMMA ScansAre ==
    ASSUME NEW text, Len(text) \in Nat
    PROVE  \E p : /\ p[0] = Unscanned
                  /\ \A i \in 1 .. Len(text) : p[i] = Scan(p[i - 1], text[i], i)
                  /\ Scanned(text) = p[Len(text)]
<1> DEFINE p == CHOOSE q : ScansTo(q, text, Len(text))
<1>1. ScansTo(p, text, Len(text))
  BY ScansExist
<1>2. Scanned(text) = p[Len(text)]
  BY DEF Scanned, ScansTo, Unscanned
<1> HIDE DEF p
<1>3. p[0] = Unscanned
  <2>1. 0 \in 0 .. Len(text)
    OBVIOUS
  <2> QED
    BY <1>1, <2>1, Zenon DEF ScansTo
<1>4. ASSUME NEW i \in 1 .. Len(text) PROVE p[i] = Scan(p[i - 1], text[i], i)
  <2>1. i \in 0 .. Len(text) /\ i # 0
    OBVIOUS
  <2> QED
    BY <1>1, <2>1, Zenon DEF ScansTo
<1> QED
  BY <1>2, <1>3, <1>4

\* Nothing has been scanned at first.
LEMMA NothingScanned == Scanned(<< >>) = Unscanned
<1>1. Len(<< >>) = 0 /\ Len(<< >>) \in Nat
  OBVIOUS
<1>2. PICK p : p[0] = Unscanned /\ Scanned(<< >>) = p[Len(<< >>)]
  BY <1>1, ScansAre
<1> QED
  BY <1>1, <1>2

\* A character more.
LEMMA ScansAppend ==
    ASSUME NEW X, NEW text \in Seq(X), NEW x \in X
    PROVE  Scanned(Append(text, x)) = Scan(Scanned(text), x, Len(text) + 1)
<1> DEFINE n == Len(text)
           t == Append(text, x)
<1>0. /\ n \in Nat /\ Len(t) = n + 1 /\ t[n + 1] = x
      /\ \A i \in 1 .. n : t[i] = text[i]
  BY AppendProperties, LenProperties
<1> HIDE DEF t
<1>1. PICK p : /\ p[0] = Unscanned
               /\ \A i \in 1 .. n : p[i] = Scan(p[i - 1], text[i], i)
               /\ Scanned(text) = p[n]
  BY <1>0, ScansAre
<1>2. PICK q : /\ q[0] = Unscanned
               /\ \A i \in 1 .. n + 1 : q[i] = Scan(q[i - 1], t[i], i)
               /\ Scanned(t) = q[n + 1]
  <2>1. Len(t) \in Nat
    BY <1>0
  <2> QED
    BY <1>0, <2>1, ScansAre
<1> HIDE DEF n
<1> DEFINE T == { k \in Nat : k <= n => q[k] = p[k] }
<1>3. 0 \in T
  BY <1>1, <1>2
<1>4. ASSUME NEW k \in T PROVE k + 1 \in T
  <2> k + 1 \in Nat
    OBVIOUS
  <2> SUFFICES ASSUME k + 1 <= n PROVE q[k + 1] = p[k + 1]
    OBVIOUS
  <2>1. k + 1 \in 1 .. n /\ k + 1 \in 1 .. n + 1 /\ (k + 1) - 1 = k /\ k <= n
    BY <1>0
  <2>2. q[k] = p[k]
    BY <1>4, <2>1
  <2>3. p[k + 1] = Scan(p[(k + 1) - 1], text[k + 1], k + 1)
    BY <1>1, <2>1, Zenon
  <2>4. q[k + 1] = Scan(q[(k + 1) - 1], t[k + 1], k + 1)
    BY <1>2, <2>1, Zenon
  <2>5. t[k + 1] = text[k + 1]
    BY <1>0, <2>1, Zenon
  <2> QED
    BY <2>1, <2>2, <2>3, <2>4, <2>5, Zenon
<1>5. T = Nat
  <2> HIDE DEF T
  <2>1. T \in SUBSET Nat
    BY DEF T
  <2> QED
    BY <1>3, <1>4, <2>1, NumbersInduction
<1>6. q[n] = p[n]
  BY <1>0, <1>5
<1>7. n + 1 \in 1 .. n + 1 /\ (n + 1) - 1 = n
  BY <1>0
<1>8. q[n + 1] = Scan(q[(n + 1) - 1], t[n + 1], n + 1)
  BY <1>2, <1>7, Zenon
<1>9. Scanned(t) = Scan(Scanned(text), x, n + 1)
  BY <1>0, <1>1, <1>2, <1>6, <1>7, <1>8, Zenon
<1> QED
  BY <1>9 DEF t, n

-----------------------------------------------------------------------------
(* Where a text is cut.                                                    *)

Uncut(text, w, cuts) == \A i \in 1 .. Len(w) : Len(text) + i \notin cuts

EndsIn(text, cuts, s, c) == Pieces(text, cuts) = Append(s, c)

\* Without a cut the last piece goes on.
LEMMA PiecesRun ==
    ASSUME NEW X, NEW text \in Seq(X), NEW cuts, NEW s \in Seq(Seq(X)), NEW c \in Seq(X),
           EndsIn(text, cuts, s, c), NEW w \in Seq(X), Uncut(text, w, cuts)
    PROVE  EndsIn(text \o w, cuts, s, c \o w)
<1> DEFINE n == Len(w)
           T == { k \in Nat : k <= n =>
                     Pieces(text \o Cut(w, k), cuts) = Append(s, c \o Cut(w, k)) }
<1>0. n \in Nat
  BY LenProperties
<1>1. 0 \in T
  <2>1. Cut(w, 0) = << >>
    BY <1>0, CutFacts, EmptySeq
  <2>2. text \o << >> = text /\ c \o << >> = c
    BY ConcatEmptySeq
  <2> QED
    BY <2>1, <2>2 DEF EndsIn
<1>2. ASSUME NEW k \in T PROVE k + 1 \in T
  <2> k + 1 \in Nat
    OBVIOUS
  <2> SUFFICES ASSUME k + 1 <= n
               PROVE  Pieces(text \o Cut(w, k + 1), cuts) = Append(s, c \o Cut(w, k + 1))
    OBVIOUS
  <2> DEFINE u == Cut(w, k)
             x == w[k + 1]
             a == text \o u
             b == c \o u
  <2>1. k \in 0 .. n /\ k # n /\ k + 1 \in 1 .. n /\ k <= n
    BY <1>0
  <2>2. Cut(w, k + 1) = Append(u, x) /\ u \in Seq(X) /\ x \in X /\ Len(u) = k
    BY <2>1, CutNext, CutFacts, ElementOfSeq
  <2>3. Pieces(a, cuts) = Append(s, b)
    BY <1>2, <2>1
  <2>4. Len(text) + (k + 1) \notin cuts
    BY <2>1 DEF Uncut
  <2> HIDE DEF u, x
  <2>5. a \in Seq(X) /\ b \in Seq(X) /\ Len(a) = Len(text) + k /\ Len(text) \in Nat
    BY ONLY <2>2, text \in Seq(X), c \in Seq(X), ConcatFacts
  <2>6. text \o Append(u, x) = Append(a, x)
    BY ONLY <2>2, text \in Seq(X), BehindAppend, SMTT(20)
  <2>7. c \o Append(u, x) = Append(b, x)
    BY ONLY <2>2, c \in Seq(X), BehindAppend, SMTT(20)
  <2> HIDE DEF a, b
  <2>8. Len(a) + 1 \notin cuts
    <3>1. Len(a) + 1 = Len(text) + (k + 1)
      BY <2>1, <2>5
    <3> QED
      BY <2>4, <3>1, Zenon
  <2>9. Pieces(Append(a, x), cuts) = Continued(Append(s, b), FALSE, x)
    <3>1. Pieces(Append(a, x), cuts) = Continued(Pieces(a, cuts), Len(a) + 1 \in cuts, x)
      <4>1. a \in Seq(X) /\ x \in X /\ \A i \in 1 .. Len(a) : i \in cuts <=> i \in cuts
        BY <2>2, <2>5
      <4> QED
        BY ONLY <4>1, PiecesAppend
    <3>2. (Len(a) + 1 \in cuts) = FALSE
      BY <2>8
    <3> QED
      BY <2>3, <3>1, <3>2, Zenon
  <2>10. Front(Append(s, b)) = s /\ Last(Append(s, b)) = b
    BY ONLY s \in Seq(Seq(X)), <2>5, OfAppended
  <2>11. Pieces(Append(a, x), cuts) = Append(s, Append(b, x))
    BY <2>9, <2>10, Zenon DEF Continued
  <2> QED
    BY <2>2, <2>6, <2>7, <2>11, Zenon
<1>3. T = Nat
  <2> HIDE DEF T
  <2>1. T \in SUBSET Nat
    BY DEF T
  <2> QED
    BY <1>1, <1>2, <2>1, NumbersInduction
<1>4. n \in T
  <2> HIDE DEF T
  <2> QED
    BY <1>0, <1>3
<1>5. Pieces(text \o Cut(w, n), cuts) = Append(s, c \o Cut(w, n))
  <2>1. \A k \in T : k <= n => Pieces(text \o Cut(w, k), cuts) = Append(s, c \o Cut(w, k))
    OBVIOUS
  <2>2. n <= n
    BY <1>0
  <2> HIDE DEF T, n
  <2> QED
    BY ONLY <1>4, <2>1, <2>2, Zenon
<1> QED
  BY <1>5, CutWhole DEF EndsIn

\* One cut, two pieces.
LEMMA PiecesCut ==
    ASSUME NEW X, NEW a \in Seq(X), NEW x \in X, NEW b \in Seq(X)
    PROVE  Pieces(Append(a, x) \o b, { Len(a) + 1 }) = << a, b >>
<1> PICK e, n, cuts, t, s :
        e = << >> /\ n = Len(a) /\ cuts = { n + 1 } /\ t = Append(a, x) /\ s = << a >>
  OBVIOUS
<1>0. /\ n \in Nat /\ e \in Seq(X) /\ e \in Seq(Seq(X))
      /\ t \in Seq(X) /\ Len(t) = n + 1 /\ Len(e) = 0
      /\ e \o a = a /\ e \o b = b
  BY LenProperties, AppendProperties, EmptySeq, ConcatEmptySeq
<1>1. Append(e, e) = << e >> /\ Append(e, a) = s
  OBVIOUS
<1>9. Append(s, b) = << a, b >>
  <2>1. << a, b >> = Append(<< a >>, b)
    OBVIOUS
  <2> QED
    BY <2>1
<1>2. s \in Seq(Seq(X))
  <2>1. a \in Seq(X)
    OBVIOUS
  <2> QED
    BY ONLY <1>0, <1>1, <2>1, AppendProperties
<1>3. Pieces(e, cuts) = Append(e, e)
  <2>1. Len(e) \in Nat
    BY <1>0
  <2>2. PICK p : p[0] = << << >> >> /\ Pieces(e, cuts) = p[Len(e)]
    BY ONLY <2>1, PiecesAre
  <2> QED
    BY <1>0, <1>1, <2>2
<1>4. Pieces(a, cuts) = s
  <2>1. Uncut(e, a, cuts)
    BY <1>0 DEF Uncut
  <2>2. e \in Seq(X) /\ e \in Seq(Seq(X)) /\ a \in Seq(X)
    BY <1>0
  <2>3. EndsIn(e, cuts, e, e)
    BY <1>3, Zenon DEF EndsIn
  <2>4. EndsIn(e \o a, cuts, e, e \o a)
    BY ONLY <2>1, <2>2, <2>3, PiecesRun
  <2> QED
    BY ONLY <1>0, <1>1, <2>4 DEF EndsIn
<1>5. Pieces(t, cuts) = Append(s, e)
  <2>1. Pieces(t, cuts) = Continued(Pieces(a, cuts), Len(a) + 1 \in cuts, x)
    <3>1. \A i \in 1 .. Len(a) : i \in cuts <=> i \in cuts
      OBVIOUS
    <3> QED
      BY ONLY <3>1, a \in Seq(X), x \in X, t = Append(a, x), PiecesAppend
  <2>2. (Len(a) + 1 \in cuts) = TRUE
    OBVIOUS
  <2> QED
    BY ONLY <1>4, <2>1, <2>2, e = << >>, Zenon DEF Continued
<1>6. Pieces(t \o b, cuts) = Append(s, e \o b)
  <2>1. Uncut(t, b, cuts)
    <3>1. Len(b) \in Nat
      BY LenProperties
    <3> QED
      BY ONLY <1>0, <3>1, cuts = { n + 1 } DEF Uncut
  <2> QED
    <3>1. t \in Seq(X) /\ e \in Seq(X) /\ b \in Seq(X)
      BY <1>0
    <3>2. EndsIn(t, cuts, s, e)
      BY <1>5, Zenon DEF EndsIn
    <3>3. EndsIn(t \o b, cuts, s, e \o b)
      BY ONLY <1>2, <2>1, <3>1, <3>2, PiecesRun
    <3> QED
      BY <3>3, Zenon DEF EndsIn
<1> QED
  BY ONLY <1>0, <1>9, <1>6, t = Append(a, x), cuts = { n + 1 }, n = Len(a)

\* A part of a text, found in its place.
LEMMA SubSeqIs ==
    ASSUME NEW X, NEW t \in Seq(X), NEW c \in Seq(X), NEW k \in Nat,
           k + Len(c) <= Len(t), \A i \in 1 .. Len(c) : t[k + i] = c[i]
    PROVE  SubSeq(t, k + 1, k + Len(c)) = c
<1> DEFINE n == Len(c)
           u == SubSeq(t, k + 1, k + n)
<1>1. n \in Nat /\ Len(t) \in Nat /\ c \in [1 .. n -> X]
  BY LenProperties
<1>2. u = [i \in 1 .. n |-> t[k + i]]
  <2>1. u = [i \in 1 .. (k + n) - (k + 1) + 1 |-> t[(k + 1) + i - 1]]
    BY <1>1
  <2>2. (k + n) - (k + 1) + 1 = n /\ \A i \in 1 .. n : (k + 1) + i - 1 = k + i
    BY <1>1
  <2> HIDE DEF u, n
  <2> QED
    BY <2>1, <2>2
<1> HIDE DEF u
<1>3. u = [i \in 1 .. n |-> c[i]]
  BY <1>2
<1>4. [i \in 1 .. n |-> c[i]] = c
  <2> HIDE DEF n
  <2> QED
    BY <1>1
<1> QED
  BY <1>3, <1>4 DEF u

\* No white space at either end.
IsTrimmed(c) == c = << >> \/ (c[1] \notin Whitespace /\ c[Len(c)] \notin Whitespace)

\* White space, a text, white space.
CoreAt(X, raw, k, c) ==
    /\ raw \in Seq(X) /\ c \in Seq(X) /\ k \in Nat /\ k + Len(c) <= Len(raw)
    /\ \A i \in 1 .. k : raw[i] \in Whitespace
    /\ \A i \in 1 .. Len(c) : raw[k + i] = c[i]
    /\ \A i \in k + Len(c) + 1 .. Len(raw) : raw[i] \in Whitespace

\* Trim gives what stands between white space.
LEMMA TrimCore ==
    ASSUME NEW X, NEW t, NEW k, NEW c, CoreAt(X, t, k, c), IsTrimmed(c)
    PROVE  Trim(t) = c
<1> DEFINE lc == Len(c)
<1>1. /\ t \in Seq(X) /\ c \in Seq(X) /\ k \in Nat /\ k + lc <= Len(t)
      /\ \A i \in 1 .. k : t[i] \in Whitespace
      /\ \A i \in 1 .. lc : t[k + i] = c[i]
      /\ \A i \in k + lc + 1 .. Len(t) : t[i] \in Whitespace
  BY DEF CoreAt
<1>2. lc \in Nat /\ Len(t) \in Nat
  BY <1>1, LenProperties
<1>4. CASE c = << >>
  <2>1. lc = 0
    BY <1>4
  <2> HIDE DEF lc
  <2>2. \A i \in 1 .. Len(t) : t[i] \in Whitespace
    <3>1. \A i \in 1 .. Len(t) : i \in 1 .. k \/ i \in k + lc + 1 .. Len(t)
      BY <1>1, <1>2, <2>1
    <3> QED
      BY <1>1, <3>1, Zenon
  <2>3. ToSet(t) \subseteq Whitespace
    <3>1. DOMAIN t = 1 .. Len(t)
      BY <1>1, LenProperties
    <3> QED
      BY <2>2, <3>1 DEF ToSet
  <2> QED
    BY <1>4, <2>3, Zenon DEF Trim
<1>5. CASE c # << >>
  <2>1. lc # 0 /\ c[1] \notin Whitespace /\ c[lc] \notin Whitespace
    BY <1>1, <1>5, FrontAndLast DEF IsTrimmed
  <2> HIDE DEF lc
  <2>2. /\ k + 1 \in 1 .. Len(t) /\ k + lc \in 1 .. Len(t)
        /\ 1 \in 1 .. lc /\ lc \in 1 .. lc /\ (k + 1) - 1 = k
    BY <1>1, <1>2, <2>1
  <2>3. FirstIn(t, Whitespace, k + 1)
    BY <1>1, <2>1, <2>2, Zenon DEF FirstIn
  <2>4. LastIn(t, Whitespace, k + lc)
    BY <1>1, <2>1, <2>2, Zenon DEF LastIn
  <2>5. TrimOf(t, Whitespace) = SubSeq(t, k + 1, k + lc) /\ ~(ToSet(t) \subseteq Whitespace)
    BY ONLY <1>1, <2>3, <2>4, TrimIs
  <2>6. SubSeq(t, k + 1, k + Len(c)) = c
    <3>1. /\ t \in Seq(X) /\ c \in Seq(X) /\ k \in Nat /\ k + Len(c) <= Len(t)
          /\ \A i \in 1 .. Len(c) : t[k + i] = c[i]
      BY <1>1 DEF lc
    <3> QED
      BY ONLY <3>1, SubSeqIs
  <2> QED
    BY <2>5, <2>6, Zenon DEF Trim, lc
<1> QED
  BY <1>4, <1>5

\* White space more, behind or before it.
LEMMA CoreBefore ==
    ASSUME NEW X, NEW t, NEW k, NEW c, CoreAt(X, t, k, c), NEW b \in Seq(X),
           \A i \in 1 .. Len(b) : b[i] \in Whitespace
    PROVE  CoreAt(X, t \o b, k, c)
<1> DEFINE u == t \o b
           lb == Len(b)
           lc == Len(c)
<1>1. /\ t \in Seq(X) /\ c \in Seq(X) /\ k \in Nat /\ k + lc <= Len(t)
      /\ \A i \in 1 .. k : t[i] \in Whitespace
      /\ \A i \in 1 .. lc : t[k + i] = c[i]
      /\ \A i \in k + lc + 1 .. Len(t) : t[i] \in Whitespace
  BY DEF CoreAt
<1>2. /\ u \in Seq(X) /\ Len(u) = Len(t) + lb /\ lb \in Nat /\ Len(t) \in Nat
      /\ \A i \in 1 .. Len(t) : u[i] = t[i]
      /\ \A i \in 1 .. lb : u[Len(t) + i] = b[i]
  BY ONLY <1>1, b \in Seq(X), ConcatFacts
<1>3. lc \in Nat
  BY <1>1, LenProperties
<1>7. \A i \in 1 .. lb : b[i] \in Whitespace
  OBVIOUS
<1> HIDE DEF u, lb, lc
<1>4. ASSUME NEW i \in 1 .. k PROVE u[i] \in Whitespace
  <2>1. i \in 1 .. Len(t)
    BY <1>1, <1>2, <1>3
  <2> QED
    BY <1>1, <1>2, <2>1
<1>5. ASSUME NEW i \in 1 .. lc PROVE u[k + i] = c[i]
  <2>1. k + i \in 1 .. Len(t)
    BY <1>1, <1>2, <1>3
  <2> QED
    BY <1>1, <1>2, <2>1
<1>6. ASSUME NEW i \in k + lc + 1 .. Len(u) PROVE u[i] \in Whitespace
  <2>1. CASE i <= Len(t)
    <3>1. i \in 1 .. Len(t) /\ i \in k + lc + 1 .. Len(t)
      BY <1>1, <1>2, <1>3, <2>1
    <3> QED
      BY <1>1, <1>2, <3>1, Zenon
  <2>2. CASE ~(i <= Len(t))
    <3> PICK j : j = i - Len(t)
      OBVIOUS
    <3>1. j \in 1 .. lb /\ Len(t) + j = i
      BY <1>1, <1>2, <1>3, <2>2
    <3> QED
      BY <1>2, <1>7, <3>1, Zenon
  <2> QED
    BY <2>1, <2>2
<1> QED
  BY <1>1, <1>2, <1>3, <1>4, <1>5, <1>6 DEF CoreAt, lc, u

\* Nor does whitespace in front of it.
LEMMA CoreBehind ==
    ASSUME NEW X, NEW t, NEW k, NEW c, CoreAt(X, t, k, c), NEW a \in Seq(X),
           \A i \in 1 .. Len(a) : a[i] \in Whitespace
    PROVE  CoreAt(X, a \o t, Len(a) + k, c)
<1> DEFINE u == a \o t
           la == Len(a)
           lc == Len(c)
<1>1. /\ t \in Seq(X) /\ c \in Seq(X) /\ k \in Nat /\ k + lc <= Len(t)
      /\ \A i \in 1 .. k : t[i] \in Whitespace
      /\ \A i \in 1 .. lc : t[k + i] = c[i]
      /\ \A i \in k + lc + 1 .. Len(t) : t[i] \in Whitespace
  BY DEF CoreAt
<1>2. /\ u \in Seq(X) /\ Len(u) = la + Len(t) /\ la \in Nat /\ Len(t) \in Nat
      /\ \A i \in 1 .. la : u[i] = a[i]
      /\ \A i \in 1 .. Len(t) : u[la + i] = t[i]
  BY ONLY <1>1, a \in Seq(X), ConcatFacts
<1>3. lc \in Nat
  BY <1>1, LenProperties
<1>7. \A i \in 1 .. la : a[i] \in Whitespace
  OBVIOUS
<1> HIDE DEF u, la, lc
<1>4. ASSUME NEW i \in 1 .. la + k PROVE u[i] \in Whitespace
  <2>1. CASE i <= la
    <3>1. i \in 1 .. la
      BY <1>1, <1>2, <2>1
    <3> QED
      BY <1>2, <1>7, <3>1
  <2>2. CASE ~(i <= la)
    <3> PICK j : j = i - la
      OBVIOUS
    <3>1. j \in 1 .. k /\ j \in 1 .. Len(t) /\ la + j = i
      BY <1>1, <1>2, <1>3, <2>2
    <3> QED
      BY <1>1, <1>2, <3>1, Zenon
  <2> QED
    BY <2>1, <2>2
<1>5. ASSUME NEW i \in 1 .. lc PROVE u[(la + k) + i] = c[i]
  <2>1. k + i \in 1 .. Len(t) /\ la + (k + i) = (la + k) + i
    BY <1>1, <1>2, <1>3
  <2>2. u[la + (k + i)] = t[k + i] /\ t[k + i] = c[i]
    BY <1>1, <1>2, <2>1, Zenon
  <2> QED
    BY <2>1, <2>2, Zenon
<1>6. ASSUME NEW i \in (la + k) + lc + 1 .. Len(u) PROVE u[i] \in Whitespace
  <2> PICK j : j = i - la
    OBVIOUS
  <2>1. j \in k + lc + 1 .. Len(t) /\ j \in 1 .. Len(t) /\ la + j = i
    BY <1>1, <1>2, <1>3
  <2> QED
    BY <1>1, <1>2, <2>1, Zenon
<1>8. la + k \in Nat /\ (la + k) + lc <= Len(u)
  BY <1>1, <1>2, <1>3
<1> QED
  BY <1>1, <1>2, <1>4, <1>5, <1>6, <1>8 DEF CoreAt, lc, u, la

\* Of what Trim leaves as it is, both ends are kept.
LEMMA TrimKeeps ==
    ASSUME NEW X, NEW c \in Seq(X), Trim(c) = c
    PROVE  IsTrimmed(c)
<1>1. CASE ToSet(c) \subseteq Whitespace
  BY <1>1, Zenon DEF Trim, IsTrimmed
<1>2. CASE ~(ToSet(c) \subseteq Whitespace)
  <2>1. PICK a, z : FirstIn(c, Whitespace, a) /\ LastIn(c, Whitespace, z)
    BY <1>2, OutsideExist
  <2>2. /\ TrimOf(c, Whitespace) = SubSeq(c, a, z)
        /\ a \in 1 .. Len(c) /\ z \in 1 .. Len(c) /\ a <= z
    BY <2>1, TrimIs
  <2>3. SubSeq(c, a, z) = c
    BY <1>2, <2>2, Zenon DEF Trim
  <2>4. Len(SubSeq(c, a, z)) = z - a + 1
    BY <2>2, LenProperties
  <2>5. Len(c) \in Nat /\ Len(c) = z - a + 1
    BY <2>3, <2>4, LenProperties
  <2>6. a = 1 /\ z = Len(c)
    BY <2>2, <2>5
  <2> QED
    BY <2>1, <2>6 DEF FirstIn, LastIn, IsTrimmed
<1> QED
  BY <1>1, <1>2

\* A trimmed text is left as it is.
LEMMA TrimmedKept ==
    ASSUME NEW X, NEW c \in Seq(X), IsTrimmed(c)
    PROVE  Trim(c) = c
<1> DEFINE n == Len(c)
<1>1. n \in Nat
  BY LenProperties
<1>2. \A i \in 0 + n + 1 .. n : c[i] \in Whitespace
  BY <1>1
<1>3. 0 \in Nat /\ 0 + n <= n /\ \A i \in 1 .. 0 : c[i] \in Whitespace
  BY <1>1
<1>4. \A i \in 1 .. n : c[0 + i] = c[i]
  BY <1>1
<1>5. CoreAt(X, c, 0, c)
  BY <1>2, <1>3, <1>4, Zenon DEF CoreAt
<1> QED
  BY <1>5, TrimCore

\* Nor does TrimEnd take anything.
LEMMA TrimEndKeeps ==
    ASSUME NEW X, NEW c \in Seq(X), IsTrimmed(c)
    PROVE  TrimEnd(c) = c
<1> DEFINE n == Len(c)
           I == { i \in 1 .. n : c[i] \notin Whitespace }
<1>0. n \in Nat
  BY LenProperties
<1>1. TrimEnd(c) = SubSeq(c, 1, IF I # {} THEN Max(I) ELSE 0)
  BY DEF TrimEnd, SelectLastInSeq
<1>2. (IF I # {} THEN Max(I) ELSE 0) = n
  <2>1. CASE c = << >>
    <3>1. n = 0
      BY <2>1
    <3>2. I = {}
      BY <3>1
    <3> HIDE DEF I, n
    <3> QED
      BY <3>1, <3>2
  <2>2. CASE c # << >>
    <3>1. n # 0 /\ c[n] \notin Whitespace
      BY <2>2, FrontAndLast DEF IsTrimmed
    <3>2. /\ I \in SUBSET (1 .. n) /\ n \in I /\ \A i \in n + 1 .. n : i \notin I
      BY <1>0, <3>1
    <3> HIDE DEF I, n
    <3> QED
      BY <1>0, <3>2, LastMember
  <2> QED
    BY <2>1, <2>2
<1> HIDE DEF I, n
<1>3. TrimEnd(c) = SubSeq(c, 1, n)
  BY <1>1, <1>2, Zenon
<1> QED
  BY <1>3, CutWhole DEF n, Cut

\* A text in quotes.
IsQuoted(X, q, m, w) ==
    /\ w \in Seq(X) /\ Len(w) = Len(m) + 2 /\ Len(m) \in Nat
    /\ Head(w) = q /\ Last(w) = q /\ Inside(w) = m
    /\ w[1] = q /\ w[Len(w)] = q
    /\ \A i \in 1 .. Len(w) : w[i] = q \/ \E j \in 1 .. Len(m) : w[i] = m[j]

\* A text between two equal quotes is quoted.
LEMMA QuotedText ==
    ASSUME NEW X, NEW q \in X, NEW m \in Seq(X), NEW w, w = (<< q >> \o m) \o << q >>
    PROVE  IsQuoted(X, q, m, w)
<1> DEFINE a == << q >>
           n == Len(m)
<1>1. a \in Seq(X) /\ Len(a) = 1 /\ a[1] = q
  BY ONLY q \in X
<1>2. n \in Nat
  BY LenProperties
<1> HIDE DEF a
<1>3. /\ (a \o m) \o a \in Seq(X) /\ Len((a \o m) \o a) = n + 2
      /\ ((a \o m) \o a)[1] = a[1] /\ ((a \o m) \o a)[n + 2] = a[1]
      /\ \A i \in 1 .. n : ((a \o m) \o a)[i + 1] = m[i]
  BY <1>1, Between
<1>4. w = (a \o m) \o a
  BY DEF a
<1>5. /\ w \in Seq(X) /\ Len(w) = n + 2 /\ w[1] = q /\ w[n + 2] = q
      /\ \A i \in 1 .. n : w[i + 1] = m[i]
  BY <1>1, <1>3, <1>4
<1> HIDE DEF n
<1>6. Head(w) = q /\ Last(w) = q
  <2>1. Head(w) = w[1]
    BY <1>5
  <2>2. Last(w) = w[Len(w)]
    BY DEF Last
  <2> QED
    BY <1>5, <2>1, <2>2
<1>7. Inside(w) = m
  <2>1. /\ 1 + Len(m) <= Len(w) /\ \A i \in 1 .. Len(m) : w[1 + i] = m[i]
        /\ 1 + 1 = 2 /\ 1 + Len(m) = Len(w) - 1 /\ 1 \in Nat
    <3>1. \A i \in 1 .. n : 1 + i = i + 1
      BY <1>2
    <3>2. \A i \in 1 .. n : w[1 + i] = m[i]
      BY <1>5, <3>1
    <3> QED
      BY <1>2, <1>5, <3>2 DEF n
  <2>2. SubSeq(w, 1 + 1, 1 + Len(m)) = m
    BY ONLY <1>5, <2>1, m \in Seq(X), SubSeqIs
  <2> QED
    BY <2>1, <2>2 DEF Inside
<1>8. ASSUME NEW i \in 1 .. Len(w)
      PROVE  w[i] = q \/ \E j \in 1 .. n : w[i] = m[j]
  <2>1. CASE i = 1 \/ i = n + 2
    BY <1>5, <2>1
  <2>2. CASE ~(i = 1 \/ i = n + 2)
    <3>1. i - 1 \in 1 .. n /\ (i - 1) + 1 = i
      BY <1>2, <1>5, <2>2
    <3>2. w[(i - 1) + 1] = m[i - 1]
      BY <1>5, <3>1
    <3> QED
      BY <3>1, <3>2
  <2> QED
    BY <2>1, <2>2
<1> QED
  BY <1>2, <1>5, <1>6, <1>7, <1>8 DEF n, IsQuoted

\* And what it is behind another.
LEMMA QuotedBehind ==
    ASSUME NEW X, NEW q \in X, NEW m \in Seq(X), NEW t \in Seq(X)
    PROVE  /\ t \o ((<< q >> \o m) \o << q >>) = Append(Append(t, q) \o m, q)
           /\ Append(t, q) \in Seq(X) /\ Append(t, q) \o m \in Seq(X)
<1> DEFINE a == << q >>
           v == Append(t, q)
<1>1. a \in Seq(X)
  BY ONLY q \in X
<1>2. v = t \o a /\ v \in Seq(X)
  BY AppendIsConcat, AppendProperties
<1> HIDE DEF v
<1>3. Append(v \o m, q) = (v \o m) \o a /\ v \o m \in Seq(X)
  BY <1>2, AppendIsConcat, ConcatProperties
<1> HIDE DEF a
<1>4. a \o m \in Seq(X)
  BY <1>1, ConcatProperties
<1>5. (t \o a) \o m = t \o (a \o m)
  <2>1. t \in Seq(X) /\ a \in Seq(X) /\ m \in Seq(X)
    BY <1>1
  <2> QED
    BY ONLY <2>1, ConcatAssociative, SMTT(30)
<1> DEFINE b == a \o m
<1> HIDE DEF b
<1>6. (t \o b) \o a = t \o (b \o a)
  <2>1. t \in Seq(X) /\ b \in Seq(X) /\ a \in Seq(X)
    BY <1>1, <1>4 DEF b
  <2> QED
    BY ONLY <2>1, ConcatAssociative, SMTT(30)
<1>7. t \o (b \o a) = Append(v \o m, q)
  BY <1>2, <1>3, <1>5, <1>6, Zenon DEF b
<1> QED
  BY <1>2, <1>3, <1>7, Zenon DEF a, b, v

-----------------------------------------------------------------------------
(* A settings string is scanned: where it is in quotes, and where not.     *)

QuoteState(q, e, cuts) == [quote |-> q, escaped |-> e, cuts |-> cuts]

InState(text, q, e, cuts) == Scanned(text) = QuoteState(q, e, cuts)

\* A character that changes nothing.
IsQuiet(q, c) ==
    \/ q = "none" /\ c \notin { "'", "\"", ";", "\n" }
    \/ q = "'" /\ c # "'"
    \/ q = "\"" /\ c \notin { "\"", "\\" }

\* Each of the arms of Scan.
LEMMA ScanEscaped ==
    ASSUME NEW q, NEW cuts, NEW c, NEW at
    PROVE  Scan(QuoteState(q, TRUE, cuts), c, at) = QuoteState(q, FALSE, cuts)
BY DEF Scan, QuoteState

\* A backslash in double quotes opens an escape.
LEMMA ScanBackslash ==
    ASSUME NEW cuts, NEW at
    PROVE  Scan(QuoteState("\"", FALSE, cuts), "\\", at) = QuoteState("\"", TRUE, cuts)
BY DEF Scan, QuoteState

\* A quote opens where none is open.
LEMMA ScanOpens ==
    ASSUME NEW cuts, NEW c \in { "'", "\"" }, NEW at
    PROVE  Scan(QuoteState("none", FALSE, cuts), c, at) = QuoteState(c, FALSE, cuts)
BY DEF Scan, QuoteState

\* The same quote closes it.
LEMMA ScanCloses ==
    ASSUME NEW cuts, NEW c \in { "'", "\"" }, NEW at
    PROVE  Scan(QuoteState(c, FALSE, cuts), c, at) = QuoteState("none", FALSE, cuts)
BY DEF Scan, QuoteState

\* A separator outside quotes cuts.
LEMMA ScanCuts ==
    ASSUME NEW cuts, NEW c \in { ";", "\n" }, NEW at
    PROVE  Scan(QuoteState("none", FALSE, cuts), c, at)
              = QuoteState("none", FALSE, cuts \cup { at })
BY DEF Scan, QuoteState

\* Any other character changes nothing.
LEMMA ScanQuiet ==
    ASSUME NEW q, NEW cuts, NEW c, IsQuiet(q, c), NEW at
    PROVE  Scan(QuoteState(q, FALSE, cuts), c, at) = QuoteState(q, FALSE, cuts)
BY DEF Scan, QuoteState, IsQuiet

\* The same for the character behind a text.
LEMMA BehindScanned ==
    ASSUME NEW X, NEW t \in Seq(X), NEW c \in X, NEW q, NEW e, NEW cuts, InState(t, q, e, cuts)
    PROVE  Scanned(Append(t, c)) = Scan(QuoteState(q, e, cuts), c, Len(t) + 1)
<1>1. Scanned(Append(t, c)) = Scan(Scanned(t), c, Len(t) + 1)
  BY ScansAppend
<1> QED
  BY <1>1, Zenon DEF InState

LEMMA BehindEscape ==
    ASSUME NEW X, NEW t \in Seq(X), NEW c \in X, NEW q, NEW cuts, InState(t, q, TRUE, cuts)
    PROVE  InState(Append(t, c), q, FALSE, cuts)
<1>1. Scanned(Append(t, c)) = Scan(QuoteState(q, TRUE, cuts), c, Len(t) + 1)
  BY BehindScanned
<1> QED
  BY <1>1, ScanEscaped, Zenon DEF InState

LEMMA BehindBackslash ==
    ASSUME NEW X, NEW t \in Seq(X), NEW c \in X, c = "\\", NEW cuts,
           InState(t, "\"", FALSE, cuts)
    PROVE  InState(Append(t, c), "\"", TRUE, cuts)
<1>1. Scanned(Append(t, c)) = Scan(QuoteState("\"", FALSE, cuts), c, Len(t) + 1)
  BY BehindScanned
<1>2. Scanned(Append(t, c)) = QuoteState("\"", TRUE, cuts)
  BY <1>1, ScanBackslash, Zenon
<1> QED
  BY <1>2, Zenon DEF InState

LEMMA BehindOpening ==
    ASSUME NEW X, NEW t \in Seq(X), NEW c \in X, c \in { "'", "\"" }, NEW cuts,
           InState(t, "none", FALSE, cuts)
    PROVE  InState(Append(t, c), c, FALSE, cuts)
<1>1. Scanned(Append(t, c)) = Scan(QuoteState("none", FALSE, cuts), c, Len(t) + 1)
  BY BehindScanned
<1> QED
  BY <1>1, ScanOpens, Zenon DEF InState

LEMMA BehindClosing ==
    ASSUME NEW X, NEW t \in Seq(X), NEW c \in X, c \in { "'", "\"" }, NEW cuts,
           InState(t, c, FALSE, cuts)
    PROVE  InState(Append(t, c), "none", FALSE, cuts)
<1>1. Scanned(Append(t, c)) = Scan(QuoteState(c, FALSE, cuts), c, Len(t) + 1)
  BY BehindScanned
<1> QED
  BY <1>1, ScanCloses, Zenon DEF InState

LEMMA BehindSeparator ==
    ASSUME NEW X, NEW t \in Seq(X), NEW c \in X, c \in { ";", "\n" }, NEW cuts,
           InState(t, "none", FALSE, cuts)
    PROVE  InState(Append(t, c), "none", FALSE, cuts \cup { Len(t) + 1 })
<1>1. Scanned(Append(t, c)) = Scan(QuoteState("none", FALSE, cuts), c, Len(t) + 1)
  BY BehindScanned
<1> QED
  BY <1>1, ScanCuts, Zenon DEF InState

LEMMA BehindQuiet ==
    ASSUME NEW X, NEW t \in Seq(X), NEW c \in X, NEW q, IsQuiet(q, c), NEW cuts,
           InState(t, q, FALSE, cuts)
    PROVE  InState(Append(t, c), q, FALSE, cuts)
<1>1. Scanned(Append(t, c)) = Scan(QuoteState(q, FALSE, cuts), c, Len(t) + 1)
  BY BehindScanned
<1> QED
  BY <1>1, ScanQuiet, Zenon DEF InState

-----------------------------------------------------------------------------
(* Texts behind which the scan is where it was before.                     *)

Stays(X, q, w) ==
    \A p \in Seq(X) : \A cuts :
        InState(p, q, FALSE, cuts) => InState(p \o w, q, FALSE, cuts)

\* None of its characters changes anything.
LEMMA QuietStays ==
    ASSUME NEW X, NEW q, NEW w \in Seq(X), \A i \in 1 .. Len(w) : IsQuiet(q, w[i])
    PROVE  Stays(X, q, w)
<1> SUFFICES ASSUME NEW p \in Seq(X), NEW cuts, InState(p, q, FALSE, cuts)
             PROVE  InState(p \o w, q, FALSE, cuts)
  BY DEF Stays
<1> DEFINE n == Len(w)
           T == { k \in Nat : k <= n => InState(p \o Cut(w, k), q, FALSE, cuts) }
<1>0. n \in Nat
  BY LenProperties
<1>1. 0 \in T
  <2>1. Cut(w, 0) = << >>
    BY <1>0, CutFacts, EmptySeq
  <2>2. p \o << >> = p
    BY ConcatEmptySeq
  <2> QED
    BY <2>1, <2>2
<1>2. ASSUME NEW k \in T PROVE k + 1 \in T
  <2> k + 1 \in Nat
    OBVIOUS
  <2> SUFFICES ASSUME k + 1 <= n PROVE InState(p \o Cut(w, k + 1), q, FALSE, cuts)
    OBVIOUS
  <2> DEFINE u == Cut(w, k)
             x == w[k + 1]
             a == p \o u
  <2>1. k \in 0 .. n /\ k # n /\ k + 1 \in 1 .. n /\ k <= n
    BY <1>0
  <2>2. Cut(w, k + 1) = Append(u, x) /\ u \in Seq(X) /\ x \in X /\ IsQuiet(q, x)
    BY <2>1, CutNext, CutFacts, ElementOfSeq
  <2>3. InState(a, q, FALSE, cuts)
    BY <1>2, <2>1
  <2> HIDE DEF u, x
  <2>4. a \in Seq(X)
    BY <2>2, ConcatProperties
  <2>5. p \o Append(u, x) = Append(a, x)
    BY ONLY <2>2, p \in Seq(X), BehindAppend
  <2> HIDE DEF a
  <2>6. InState(Append(a, x), q, FALSE, cuts)
    BY ONLY <2>2, <2>3, <2>4, BehindQuiet
  <2> QED
    BY <2>2, <2>5, <2>6, Zenon
<1>3. T = Nat
  <2> HIDE DEF T
  <2>1. T \in SUBSET Nat
    BY DEF T
  <2> QED
    BY <1>1, <1>2, <2>1, NumbersInduction
<1>4. n \in T
  <2> HIDE DEF T
  <2> QED
    BY <1>0, <1>3
<1>5. InState(p \o Cut(w, n), q, FALSE, cuts)
  <2>1. n <= n
    BY <1>0
  <2> HIDE DEF n
  <2> QED
    BY <1>4, <2>1, Zenon
<1> QED
  BY <1>5, CutWhole

\* What is quoted stays where its quotes stand.
LEMMA QuotedStays ==
    ASSUME NEW X, NEW q \in X, q \in { "'", "\"" }, NEW m \in Seq(X), Stays(X, q, m)
    PROVE  Stays(X, "none", (<< q >> \o m) \o << q >>)
<1> SUFFICES ASSUME NEW p \in Seq(X), NEW cuts, InState(p, "none", FALSE, cuts)
             PROVE  InState(p \o ((<< q >> \o m) \o << q >>), "none", FALSE, cuts)
  BY DEF Stays
<1> DEFINE a == Append(p, q)
<1>1. /\ p \o ((<< q >> \o m) \o << q >>) = Append(a \o m, q)
      /\ a \in Seq(X) /\ a \o m \in Seq(X)
  BY QuotedBehind
<1>2. InState(a, q, FALSE, cuts)
  BY BehindOpening
<1> HIDE DEF a
<1>3. InState(a \o m, q, FALSE, cuts)
  BY <1>1, <1>2, Zenon DEF Stays
<1> DEFINE b == a \o m
<1> HIDE DEF b
<1>4. InState(Append(b, q), "none", FALSE, cuts)
  <2>1. b \in Seq(X) /\ InState(b, q, FALSE, cuts)
    BY <1>1, <1>3 DEF b
  <2> QED
    BY <2>1, BehindClosing
<1> QED
  BY <1>1, <1>4, Zenon DEF b
-----------------------------------------------------------------------------
(* A value as it is written, and read.                                     *)

ReadsTo(text, o, open) == ReadEscapes(text) = [out |-> o, open |-> open]

NoBreaks(w) == \A i \in 1 .. Len(w) : w[i] \notin { "\n", "\r" }

\* What every reader makes of a value that is written.
WrittenFor(X, w, value) ==
    w \in Seq(X) /\ NoBreaks(w) /\ IsTrimmed(w) /\ ParseValue(w) = value

\* A backslash, and the characters behind one.
LEMMA EscapeOpens ==
    ASSUME NEW X, NEW t \in Seq(X), NEW c \in X, c = "\\", NEW o, ReadsTo(t, o, FALSE)
    PROVE  ReadsTo(Append(t, c), o, TRUE)
<1>1. ReadEscapes(Append(t, c)) = Unescaping([out |-> o, open |-> FALSE], c)
  BY EscapesAppend DEF ReadsTo
<1>2. Unescaping([out |-> o, open |-> FALSE], c) = [out |-> o, open |-> TRUE]
  BY DEF Unescaping
<1> QED
  BY <1>1, <1>2, Zenon DEF ReadsTo

\* The character behind an open backslash: the escape is read.
LEMMA EscapeCloses ==
    ASSUME NEW X, NEW t \in Seq(X), NEW c \in X, NEW o, ReadsTo(t, o, TRUE)
    PROVE  ReadsTo(Append(t, c), o \o Unescaped(c), FALSE)
<1>1. ReadEscapes(Append(t, c)) = Unescaping([out |-> o, open |-> TRUE], c)
  BY EscapesAppend DEF ReadsTo
<1>2. Unescaping([out |-> o, open |-> TRUE], c) = [out |-> o \o Unescaped(c), open |-> FALSE]
  BY DEF Unescaping
<1> QED
  BY <1>1, <1>2, Zenon DEF ReadsTo

\* A character that opens no escape is read as it is.
LEMMA NoEscape ==
    ASSUME NEW X, NEW t \in Seq(X), NEW c \in X, c # "\\", NEW o, ReadsTo(t, o, FALSE)
    PROVE  ReadsTo(Append(t, c), Append(o, c), FALSE)
<1>1. ReadEscapes(Append(t, c)) = Unescaping([out |-> o, open |-> FALSE], c)
  BY EscapesAppend DEF ReadsTo
<1>2. Unescaping([out |-> o, open |-> FALSE], c) = [out |-> Append(o, c), open |-> FALSE]
  BY DEF Unescaping
<1> QED
  BY <1>1, <1>2, Zenon DEF ReadsTo

\* Nothing is read as nothing.
LEMMA NothingUnescaped == ReadsTo(<< >>, << >>, FALSE)
BY NoEscapes, Zenon DEF ReadsTo, Unopened

\* A text without an open backslash at its end is read as what was read.
LEMMA UnescapeIs ==
    ASSUME NEW t, NEW o, ReadsTo(t, o, FALSE)
    PROVE  Unescape(t) = o
<1> PICK r : r = ReadEscapes(t)
  OBVIOUS
<1>1. r = [out |-> o, open |-> FALSE]
  BY Zenon DEF ReadsTo
<1>2. r.out = o /\ r.open = FALSE
  BY <1>1
<1> QED
  BY <1>2, Zenon DEF Unescape

\* A text in quotes is its own beginning and end.
LEMMA QuotedWritten ==
    ASSUME NEW X, NEW q \in X, q \in { "'", "\"" }, NEW m \in Seq(X), NoBreaks(m), NEW value,
           q = "'" => m = value, q = "\"" => Unescape(m) = value
    PROVE  WrittenFor(X, (<< q >> \o m) \o << q >>, value)
<1> PICK w : w = (<< q >> \o m) \o << q >>
  OBVIOUS
<1>0. IsQuoted(X, q, m, w)
  BY QuotedText
<1>1. /\ w \in Seq(X) /\ Len(w) = Len(m) + 2 /\ Len(m) \in Nat
      /\ Head(w) = q /\ Last(w) = q /\ Inside(w) = m
      /\ w[1] = q /\ w[Len(w)] = q
      /\ \A i \in 1 .. Len(w) : w[i] = q \/ \E j \in 1 .. Len(m) : w[i] = m[j]
  BY <1>0 DEF IsQuoted
<1>2. NoBreaks(w)
  BY <1>1 DEF NoBreaks
<1>3. IsTrimmed(w)
  BY <1>1 DEF IsTrimmed, Whitespace
<1>4. Len(w) >= 2
  <2>1. Len(w) = Len(m) + 2 /\ Len(m) \in Nat
    BY <1>1
  <2> QED
    BY ONLY <2>1
<1>5. ParseValue(w) = value
  <2>1. CASE q = "'"
    <3>1. Quoted(w, "'")
      BY <1>1, <1>4, <2>1, Zenon DEF Quoted
    <3>2. ~Quoted(w, "\"")
      BY <1>1, <2>1 DEF Quoted
    <3> QED
      BY <1>1, <2>1, <3>1, <3>2, Zenon DEF ParseValue
  <2>2. CASE q = "\""
    <3>1. Quoted(w, "\"")
      BY <1>1, <1>4, <2>2, Zenon DEF Quoted
    <3>2. ~Quoted(w, "'")
      BY <1>1, <2>2 DEF Quoted
    <3> QED
      BY <1>1, <2>2, <3>1, <3>2, Zenon DEF ParseValue
  <2> QED
    BY <2>1, <2>2
<1> QED
  BY <1>1, <1>2, <1>3, <1>5, Zenon DEF WrittenFor

HasSpecials(X) == { "\\", "n", "r", "\"", "'" } \subseteq X

\* In single quotes, every character is itself.
LEMMA SingleWritten ==
    ASSUME NEW X, HasSpecials(X), NEW value \in Seq(X), NoBreaks(value)
    PROVE  /\ WrittenFor(X, Written(value, "single"), value)
           /\ (\A i \in 1 .. Len(value) : value[i] # "'") =>
                 Stays(X, "none", Written(value, "single"))
<1> PICK q : q = "'"
  OBVIOUS
<1>1. q \in X /\ q \in { "'", "\"" } /\ q # "\""
  BY DEF HasSpecials
<1>2. Written(value, "single") = (<< q >> \o value) \o << q >>
  BY DEF Written
<1>3. WrittenFor(X, (<< q >> \o value) \o << q >>, value)
  BY <1>1, QuotedWritten
<1>4. ASSUME \A i \in 1 .. Len(value) : value[i] # "'"
      PROVE  Stays(X, "none", (<< q >> \o value) \o << q >>)
  <2>1. \A i \in 1 .. Len(value) : IsQuiet(q, value[i])
    BY <1>4 DEF IsQuiet
  <2>2. Stays(X, q, value)
    BY <2>1, QuietStays
  <2> QED
    BY <1>1, <2>2, QuotedStays
<1> QED
  BY <1>2, <1>3, <1>4, Zenon

\* Without quotes as well, if nothing in it is more than itself.
LEMMA PlainWritten ==
    ASSUME NEW X, NEW value \in Seq(X), NoBreaks(value), Trim(value) = value,
           \A i \in 1 .. Len(value) : ~CommentAt(value, i),
           ~Quoted(value, "'"), ~Quoted(value, "\"")
    PROVE  /\ WrittenFor(X, Written(value, "plain"), value)
           /\ (\A i \in 1 .. Len(value) : value[i] \notin { ";", "'", "\"" }) =>
                 Stays(X, "none", Written(value, "plain"))
<1>1. Written(value, "plain") = value
  BY DEF Written
<1>2. IsTrimmed(value)
  BY TrimKeeps
<1>3. StripInlineComment(value) = value
  <2>1. DOMAIN value = 1 .. Len(value)
    BY LenProperties
  <2>2. { i \in DOMAIN value : CommentAt(value, i) } = {}
    BY <2>1, Zenon
  <2> QED
    BY <2>2, Zenon DEF StripInlineComment
<1>4. TrimEnd(value) = value
  BY <1>2, TrimEndKeeps
<1>5. ParseValue(value) = value
  BY <1>3, <1>4, Zenon DEF ParseValue
<1>6. WrittenFor(X, value, value)
  BY <1>2, <1>5, Zenon DEF WrittenFor
<1>7. ASSUME \A i \in 1 .. Len(value) : value[i] \notin { ";", "'", "\"" }
      PROVE  Stays(X, "none", value)
  <2>1. \A i \in 1 .. Len(value) : IsQuiet("none", value[i])
    BY <1>7 DEF IsQuiet, NoBreaks
  <2> QED
    BY <2>1, QuietStays
<1> QED
  BY <1>1, <1>6, <1>7, Zenon

-----------------------------------------------------------------------------
(* In double quotes, what is escaped is read as it was.                    *)

\* A character that is written as it is, or as two.
EscapedAs(X, c, e) ==
    \/ e = << c >> /\ c \notin { "\n", "\r", "\\", "\"" }
    \/ \E b, y \in X :
          /\ e = << b, y >> /\ b = "\\" /\ y \notin { "\n", "\r" } /\ Unescaped(y) = << c >>

\* An escaped character has one of the two forms.
LEMMA EscapedForm ==
    ASSUME NEW X, HasSpecials(X), NEW c \in X
    PROVE  EscapedAs(X, c, Escaped(c)) /\ Escaped(c) \in Seq(X)
<1>0. "\\" \in X /\ "n" \in X /\ "r" \in X
  BY DEF HasSpecials
<1>1. CASE c = "\n"
  <2>1. Escaped(c) = << "\\", "n" >>
    BY <1>1 DEF Escaped
  <2>2. Unescaped("n") = << c >>
    BY <1>1 DEF Unescaped, Escapes
  <2> QED
    BY <1>0, <2>1, <2>2 DEF EscapedAs
<1>2. CASE c = "\r"
  <2>1. Escaped(c) = << "\\", "r" >>
    BY <1>2 DEF Escaped
  <2>2. Unescaped("r") = << c >>
    BY <1>2 DEF Unescaped, Escapes
  <2> QED
    BY <1>0, <2>1, <2>2 DEF EscapedAs
<1>3. CASE c \in { "\\", "\"" }
  <2>1. Escaped(c) = << "\\", c >>
    BY <1>3 DEF Escaped
  <2>2. Unescaped(c) = << c >>
    BY <1>3 DEF Unescaped, Escapes
  <2>3. c \notin { "\n", "\r" }
    BY <1>3
  <2> PICK b : b = "\\"
    OBVIOUS
  <2>4. b \in X /\ Escaped(c) = << b, c >>
    BY <1>0, <2>1
  <2>5. EscapedAs(X, c, Escaped(c))
    BY <2>2, <2>3, <2>4, Zenon DEF EscapedAs
  <2>6. << b, c >> \in Seq(X)
    BY <2>4
  <2> QED
    BY <2>4, <2>5, <2>6, Zenon
<1>4. CASE c \notin { "\n", "\r", "\\", "\"" }
  <2>1. Escaped(c) = << c >>
    BY <1>4 DEF Escaped
  <2>2. << c >> \in Seq(X)
    OBVIOUS
  <2>3. EscapedAs(X, c, Escaped(c))
    BY <1>4, <2>1, Zenon DEF EscapedAs
  <2> QED
    BY <2>1, <2>2, <2>3, Zenon
<1> QED
  BY <1>1, <1>2, <1>3, <1>4

\* Two characters behind a text, one behind the other.
LEMMA TwoBehind ==
    ASSUME NEW X, NEW t \in Seq(X), NEW b \in X, NEW y \in X
    PROVE  /\ t \o << b, y >> = Append(Append(t, b), y)
           /\ Append(t, b) \in Seq(X)
<1>1. << b >> \in Seq(X) /\ << b, y >> = Append(<< b >>, y)
  OBVIOUS
<1>2. t \o Append(<< b >>, y) = Append(t \o << b >>, y)
  BY ONLY <1>1, t \in Seq(X), y \in X, BehindAppend
<1>3. Append(t, b) = t \o << b >> /\ Append(t, b) \in Seq(X)
  BY AppendIsConcat, AppendProperties
<1> QED
  BY <1>1, <1>2, <1>3, Zenon

\* It is read as it was, and the scan stays in the quotes.
LEMMA EscapedRead ==
    ASSUME NEW X, NEW t \in Seq(X), NEW c \in X, NEW e, EscapedAs(X, c, e),
           NEW o \in Seq(X), ReadsTo(t, o, FALSE)
    PROVE  ReadsTo(t \o e, Append(o, c), FALSE)
<1>1. CASE e = << c >> /\ c \notin { "\n", "\r", "\\", "\"" }
  <2>1. t \o e = Append(t, c)
    BY <1>1, AppendIsConcat
  <2>2. c # "\\"
    BY <1>1
  <2>3. ReadsTo(Append(t, c), Append(o, c), FALSE)
    BY <2>2, NoEscape
  <2> QED
    BY <2>1, <2>3, Zenon
<1>2. CASE ~(e = << c >> /\ c \notin { "\n", "\r", "\\", "\"" })
  <2>1. PICK b, y \in X :
          e = << b, y >> /\ b = "\\" /\ y \notin { "\n", "\r" } /\ Unescaped(y) = << c >>
    BY <1>2, Zenon DEF EscapedAs
  <2>2. t \o << b, y >> = Append(Append(t, b), y) /\ Append(t, b) \in Seq(X)
    BY TwoBehind
  <2>3. ReadsTo(Append(t, b), o, TRUE)
    BY <2>1, EscapeOpens
  <2> DEFINE u == Append(t, b)
  <2> HIDE DEF u
  <2>4. ReadsTo(Append(u, y), o \o Unescaped(y), FALSE)
    <3>1. u \in Seq(X) /\ ReadsTo(u, o, TRUE)
      BY <2>2, <2>3 DEF u
    <3> QED
      BY <3>1, EscapeCloses
  <2>5. o \o << c >> = Append(o, c)
    BY AppendIsConcat
  <2> QED
    BY <2>1, <2>2, <2>4, <2>5, Zenon DEF u
<1> QED
  BY <1>1, <1>2

\* An escaped character neither ends double quotes nor opens them.
LEMMA EscapedStays ==
    ASSUME NEW X, NEW c \in X, NEW e \in Seq(X), EscapedAs(X, c, e)
    PROVE  Stays(X, "\"", e)
<1> SUFFICES ASSUME NEW p \in Seq(X), NEW cuts, InState(p, "\"", FALSE, cuts)
             PROVE  InState(p \o e, "\"", FALSE, cuts)
  BY DEF Stays
<1>1. CASE e = << c >> /\ c \notin { "\n", "\r", "\\", "\"" }
  <2>1. p \o e = Append(p, c)
    BY <1>1, AppendIsConcat
  <2>2. IsQuiet("\"", c)
    BY <1>1 DEF IsQuiet
  <2>3. InState(Append(p, c), "\"", FALSE, cuts)
    BY <2>2, BehindQuiet
  <2> QED
    BY <2>1, <2>3, Zenon
<1>2. CASE ~(e = << c >> /\ c \notin { "\n", "\r", "\\", "\"" })
  <2>1. PICK b, y \in X :
          e = << b, y >> /\ b = "\\" /\ y \notin { "\n", "\r" } /\ Unescaped(y) = << c >>
    BY <1>2, Zenon DEF EscapedAs
  <2>2. p \o << b, y >> = Append(Append(p, b), y) /\ Append(p, b) \in Seq(X)
    BY TwoBehind
  <2>3. InState(Append(p, b), "\"", TRUE, cuts)
    BY <2>1, BehindBackslash
  <2> DEFINE u == Append(p, b)
  <2> HIDE DEF u
  <2>4. InState(Append(u, y), "\"", FALSE, cuts)
    <3>1. u \in Seq(X) /\ InState(u, "\"", TRUE, cuts)
      BY <2>2, <2>3 DEF u
    <3> QED
      BY <3>1, BehindEscape
  <2> QED
    BY <2>1, <2>2, <2>4, Zenon DEF u
<1> QED
  BY <1>1, <1>2
\* A value in double quotes, its first k characters.
DoubleTo(X, value, f, k) ==
    /\ NoBreaks(f[k]) /\ ReadsTo(f[k], Cut(value, k), FALSE)
    /\ Stays(X, "\"", f[k])

\* Two texts that leave the scan where it was do so together.
LEMMA StaysBehind ==
    ASSUME NEW X, NEW q, NEW a \in Seq(X), Stays(X, q, a), NEW b \in Seq(X), Stays(X, q, b)
    PROVE  Stays(X, q, a \o b)
<1> SUFFICES ASSUME NEW p \in Seq(X), NEW cuts, InState(p, q, FALSE, cuts)
             PROVE  InState(p \o (a \o b), q, FALSE, cuts)
  BY DEF Stays
<1>1. InState(p \o a, q, FALSE, cuts)
  BY Zenon DEF Stays
<1>2. p \o a \in Seq(X)
  BY ConcatProperties
<1>3. InState((p \o a) \o b, q, FALSE, cuts)
  BY <1>1, <1>2, Zenon DEF Stays
<1>4. (p \o a) \o b = p \o (a \o b)
  BY ONLY p \in Seq(X), a \in Seq(X), b \in Seq(X), ConcatAssociative, SMTT(30)
<1> QED
  BY <1>3, <1>4, Zenon

\* Two texts without a line break.
LEMMA NoBreaksBehind ==
    ASSUME NEW X, NEW a \in Seq(X), NoBreaks(a), NEW b \in Seq(X), NoBreaks(b)
    PROVE  NoBreaks(a \o b)
<1> PICK c : c = a \o b
  OBVIOUS
<1>1. /\ Len(c) = Len(a) + Len(b) /\ Len(a) \in Nat /\ Len(b) \in Nat
      /\ \A i \in 1 .. Len(a) : c[i] = a[i]
      /\ \A i \in 1 .. Len(b) : c[Len(a) + i] = b[i]
  BY ConcatFacts
<1>2. ASSUME NEW i \in 1 .. Len(c) PROVE c[i] \notin { "\n", "\r" }
  <2>1. CASE i <= Len(a)
    <3>1. i \in 1 .. Len(a)
      BY <1>1, <2>1
    <3> QED
      BY <1>1, <3>1 DEF NoBreaks
  <2>2. CASE ~(i <= Len(a))
    <3> PICK j : j = i - Len(a)
      OBVIOUS
    <3>1. j \in 1 .. Len(b) /\ Len(a) + j = i
      BY <1>1, <2>2
    <3> QED
      BY <1>1, <3>1 DEF NoBreaks
  <2> QED
    BY <2>1, <2>2
<1> QED
  BY <1>2 DEF NoBreaks

\* One more character of a value in double quotes.
LEMMA DoubleNext ==
    ASSUME NEW X, HasSpecials(X), NEW value \in Seq(X), NEW ss, NEW f, Joins(f, ss, X),
           Len(ss) = Len(value), \A i \in 1 .. Len(value) : ss[i] = Escaped(value[i]),
           NEW k \in 0 .. Len(value), k # Len(value), DoubleTo(X, value, f, k)
    PROVE  DoubleTo(X, value, f, k + 1)
<1> PICK m : m = k + 1
  OBVIOUS
<1>1. Len(value) \in Nat /\ m \in 1 .. Len(value) /\ m \in 1 .. Len(ss) /\ m - 1 = k
  BY LenProperties
<1>2. StandsBehind(f, ss, X, m)
  BY <1>1, JoinsStep
<1> PICK a, e, c : a = f[k] /\ e = ss[m] /\ c = value[m]
  OBVIOUS
<1>3. f[m] = a \o e /\ a \in Seq(X) /\ e \in Seq(X)
  BY <1>1, <1>2 DEF StandsBehind
<1>4. c \in X /\ e = Escaped(c)
  BY <1>1, ElementOfSeq
<1>5. EscapedAs(X, c, e)
  BY <1>4, EscapedForm
<1>6. Stays(X, "\"", e)
  BY <1>3, <1>4, <1>5, EscapedStays
<1>7. NoBreaks(a) /\ ReadsTo(a, Cut(value, k), FALSE) /\ Stays(X, "\"", a)
  BY DEF DoubleTo
<1>8. NoBreaks(e)
  <2>1. CASE e = << c >> /\ c \notin { "\n", "\r", "\\", "\"" }
    <3>1. e = << c >>
      BY <2>1
    <3>2. Len(e) = 1 /\ e[1] = c
      BY ONLY <3>1
    <3>3. \A i \in 1 .. Len(e) : i = 1
      BY <3>2
    <3> QED
      BY <2>1, <3>2, <3>3, Zenon DEF NoBreaks
  <2>2. CASE ~(e = << c >> /\ c \notin { "\n", "\r", "\\", "\"" })
    <3>1. PICK b, y \in X :
            e = << b, y >> /\ b = "\\" /\ y \notin { "\n", "\r" } /\ Unescaped(y) = << c >>
      BY <1>5, <2>2, Zenon DEF EscapedAs
    <3>2. Len(e) = 2 /\ e[1] = b /\ e[2] = y
      BY <3>1
    <3>3. \A i \in 1 .. Len(e) : i = 1 \/ i = 2
      BY <3>2
    <3>4. b \notin { "\n", "\r" }
      BY <3>1
    <3> QED
      BY <3>1, <3>2, <3>3, <3>4, Zenon DEF NoBreaks
  <2> QED
    BY <2>1, <2>2
<1>9. Cut(value, m) = Append(Cut(value, k), c) /\ Cut(value, k) \in Seq(X)
  BY CutNext, CutFacts
<1>10. ReadsTo(a \o e, Append(Cut(value, k), c), FALSE)
  BY <1>3, <1>4, <1>5, <1>7, <1>9, EscapedRead
<1>11. NoBreaks(a \o e)
  BY <1>3, <1>7, <1>8, NoBreaksBehind
<1>12. Stays(X, "\"", a \o e)
  BY <1>3, <1>6, <1>7, StaysBehind
<1> QED
  BY <1>3, <1>9, <1>10, <1>11, <1>12, Zenon DEF DoubleTo

\* An empty text leaves the scan where it was.
LEMMA StaysNothing == ASSUME NEW X, NEW q PROVE Stays(X, q, << >>)
<1>1. ASSUME NEW p \in Seq(X) PROVE p \o << >> = p
  BY ConcatEmptySeq
<1> QED
  BY <1>1, Zenon DEF Stays

\* All of it.
LEMMA DoubleWritten ==
    ASSUME NEW X, HasSpecials(X), NEW value \in Seq(X)
    PROVE  /\ WrittenFor(X, Written(value, "double"), value)
           /\ Stays(X, "none", Written(value, "double"))
<1> DEFINE n == Len(value)
           ss == [i \in 1 .. n |-> Escaped(value[i])]
<1>1. n \in Nat /\ DOMAIN value = 1 .. n
  BY LenProperties
<1>2. \A i \in 1 .. n : Escaped(value[i]) \in Seq(X)
  BY EscapedForm, ElementOfSeq
<1>3. ss \in [1 .. n -> Seq(X)] /\ \A i \in 1 .. n : ss[i] = Escaped(value[i])
  BY <1>2
<1>4. FlattenSeq([i \in DOMAIN value |-> Escaped(value[i])]) = FlattenSeq(ss)
  BY <1>1
<1> HIDE DEF ss
<1>5. ss \in Seq(Seq(X)) /\ Len(ss) = n
  <2> HIDE DEF n
  <2> QED
    BY <1>1, <1>3, FunctionIsSeq
<1>6. PICK f : Joins(f, ss, X) /\ FlattenSeq(ss) = f[Len(ss)]
  BY <1>5, FlattenJoins
<1> DEFINE T == { k \in Nat : k <= n => DoubleTo(X, value, f, k) }
<1>7. 0 \in T
  <2>1. f[0] = << >> /\ Cut(value, 0) = << >>
    BY <1>1, <1>6, CutFacts, EmptySeq DEF Joins
  <2>2. NoBreaks(<< >>)
    BY DEF NoBreaks
  <2> QED
    BY <2>1, <2>2, NothingUnescaped, StaysNothing DEF DoubleTo
<1>8. ASSUME NEW k \in T PROVE k + 1 \in T
  <2> k + 1 \in Nat
    OBVIOUS
  <2> SUFFICES ASSUME k + 1 <= n PROVE DoubleTo(X, value, f, k + 1)
    OBVIOUS
  <2>0. k \in Nat /\ k + 1 <= n /\ n \in Nat
    BY <1>1, <1>8
  <2>1. k \in 0 .. Len(value) /\ k # Len(value) /\ k <= n
    BY ONLY <2>0 DEF n
  <2>2. DoubleTo(X, value, f, k)
    BY <1>8, <2>1
  <2>3. Len(ss) = Len(value) /\ \A i \in 1 .. Len(value) : ss[i] = Escaped(value[i])
    BY <1>3, <1>5
  <2> QED
    BY <1>6, <2>1, <2>2, <2>3, DoubleNext
<1>9. T = Nat
  <2> HIDE DEF T
  <2>1. T \in SUBSET Nat
    BY DEF T
  <2> QED
    BY <1>7, <1>8, <2>1, NumbersInduction
<1>10. DoubleTo(X, value, f, n)
  <2>1. n \in T
    <3> HIDE DEF T
    <3> QED
      BY <1>1, <1>9
  <2>2. n <= n
    BY <1>1
  <2> HIDE DEF n
  <2> QED
    BY <2>1, <2>2, Zenon
<1> PICK m : m = FlattenSeq(ss)
  OBVIOUS
<1>11. NoBreaks(m) /\ ReadsTo(m, value, FALSE) /\ Stays(X, "\"", m) /\ m \in Seq(X)
  <2>1. m = f[n] /\ Cut(value, n) = value
    BY <1>5, <1>6, CutWhole
  <2>2. m \in Seq(X)
    BY <1>5, FlattenAppend
  <2> QED
    BY <1>10, <2>1, <2>2, Zenon DEF DoubleTo
<1>12. Unescape(m) = value
  BY <1>11, UnescapeIs
<1> PICK q : q = "\""
  OBVIOUS
<1>13. q \in X /\ q \in { "'", "\"" } /\ q # "'"
  BY DEF HasSpecials
<1>14. Written(value, "double") = (<< q >> \o m) \o << q >>
  BY <1>4, Zenon DEF Written, InDoubleQuotes
<1>15. WrittenFor(X, (<< q >> \o m) \o << q >>, value)
  BY <1>11, <1>12, <1>13, QuotedWritten
<1>16. Stays(X, q, m)
  BY <1>11, Zenon
<1>17. Stays(X, "none", (<< q >> \o m) \o << q >>)
  BY <1>11, <1>13, <1>16, QuotedStays
<1> QED
  BY <1>14, <1>15, <1>17, Zenon

-----------------------------------------------------------------------------
(* Loosely quoted, a backslash is no escape of what is behind it.          *)

IsLooseValue(v) ==
    \A i \in 1 .. Len(v) :
        /\ v[i] \notin { "\n", "\r", "\"" }
        /\ v[i] = "\\" => i < Len(v) /\ v[i + 1] \notin DOMAIN Escapes

\* The first k characters: the last of them is a backslash or not.
EndsOpen(v, k) == k # 0 /\ v[k] = "\\"

LooseReadTo(X, v, k) ==
    /\ ~EndsOpen(v, k) => ReadsTo(Cut(v, k), Cut(v, k), FALSE)
    /\ EndsOpen(v, k) => \E o \in Seq(X), b \in X :
          b = "\\" /\ ReadsTo(Cut(v, k), o, TRUE) /\ Cut(v, k) = Append(o, b)

InDouble(text, cuts) == InState(text, "\"", FALSE, cuts)

LooseScanTo(p, cuts, v, k) ==
    /\ ~EndsOpen(v, k) => InDouble(p \o Cut(v, k), cuts)
    /\ EndsOpen(v, k) => InState(p \o Cut(v, k), "\"", TRUE, cuts)

\* A character more.
LEMMA LooseNext ==
    ASSUME NEW X, NEW v \in Seq(X), IsLooseValue(v), NEW k \in 0 .. Len(v), k # Len(v)
    PROVE  /\ k + 1 \in 1 .. Len(v) /\ k + 1 # 0 /\ v[k + 1] \in X
           /\ v[k + 1] # "\"" /\ (EndsOpen(v, k + 1) <=> v[k + 1] = "\\")
           /\ EndsOpen(v, k) => v[k + 1] \notin DOMAIN Escapes /\ v[k + 1] # "\\"
           /\ Cut(v, k + 1) = Append(Cut(v, k), v[k + 1]) /\ Cut(v, k) \in Seq(X)
<1>1. Len(v) \in Nat /\ k + 1 \in 1 .. Len(v) /\ k + 1 # 0
  BY LenProperties
<1>2. v[k + 1] \in X /\ v[k + 1] # "\""
  BY <1>1, ElementOfSeq DEF IsLooseValue
<1>3. EndsOpen(v, k + 1) <=> v[k + 1] = "\\"
  BY <1>1 DEF EndsOpen
<1>4. ASSUME EndsOpen(v, k) PROVE v[k + 1] \notin DOMAIN Escapes /\ v[k + 1] # "\\"
  <2>1. k \in 1 .. Len(v) /\ v[k] = "\\"
    BY <1>1, <1>4 DEF EndsOpen
  <2>2. v[k + 1] \notin DOMAIN Escapes
    BY <2>1, Zenon DEF IsLooseValue
  <2>3. "\\" \in DOMAIN Escapes
    BY DEF Escapes
  <2> QED
    BY <2>2, <2>3, Zenon
<1>5. Cut(v, k + 1) = Append(Cut(v, k), v[k + 1]) /\ Cut(v, k) \in Seq(X)
  BY CutNext, CutFacts
<1> QED
  BY <1>1, <1>2, <1>3, <1>4, <1>5, Zenon

\* One more character of a loose value: it is read as it is.
LEMMA LooseReadNext ==
    ASSUME NEW X, NEW v \in Seq(X), IsLooseValue(v), NEW k \in 0 .. Len(v), k # Len(v),
           LooseReadTo(X, v, k)
    PROVE  LooseReadTo(X, v, k + 1)
<1> PICK u, c, z : u = Cut(v, k) /\ c = v[k + 1] /\ z = Cut(v, k + 1)
  OBVIOUS
<1>1. /\ c \in X /\ (EndsOpen(v, k + 1) <=> c = "\\")
      /\ EndsOpen(v, k) => c \notin DOMAIN Escapes /\ c # "\\"
      /\ z = Append(u, c) /\ u \in Seq(X)
  BY LooseNext
<1>2. CASE EndsOpen(v, k)
  <2>1. PICK o \in Seq(X), b \in X : b = "\\" /\ ReadsTo(u, o, TRUE) /\ u = Append(o, b)
    BY <1>2, Zenon DEF LooseReadTo
  <2>2. Unescaped(c) = << b, c >>
    BY <1>1, <1>2, <2>1, Zenon DEF Unescaped
  <2>3. ReadsTo(z, o \o Unescaped(c), FALSE)
    BY <1>1, <2>1, EscapeCloses
  <2>4. o \o << b, c >> = Append(Append(o, b), c)
    BY <1>1, TwoBehind
  <2>5. ReadsTo(z, z, FALSE)
    BY <1>1, <2>1, <2>2, <2>3, <2>4, Zenon
  <2> QED
    BY <1>1, <1>2, <2>5, Zenon DEF LooseReadTo
<1>3. CASE ~EndsOpen(v, k)
  <2>1. ReadsTo(u, u, FALSE)
    BY <1>3, Zenon DEF LooseReadTo
  <2>2. CASE c = "\\"
    <3>1. ReadsTo(z, u, TRUE)
      BY <1>1, <2>1, <2>2, EscapeOpens
    <3> QED
      BY <1>1, <2>2, <3>1, Zenon DEF LooseReadTo
  <2>3. CASE c # "\\"
    <3>1. ReadsTo(z, z, FALSE)
      BY <1>1, <2>1, <2>3, NoEscape
    <3> QED
      BY <1>1, <2>3, <3>1, Zenon DEF LooseReadTo
  <2> QED
    BY <2>2, <2>3
<1> QED
  BY <1>2, <1>3

\* One more character of a loose value: the scan stays in the quotes.
LEMMA LooseScanNext ==
    ASSUME NEW X, NEW v \in Seq(X), IsLooseValue(v), NEW k \in 0 .. Len(v), k # Len(v),
           NEW p \in Seq(X), NEW cuts, LooseScanTo(p, cuts, v, k)
    PROVE  LooseScanTo(p, cuts, v, k + 1)
<1> PICK u, c, z : u = Cut(v, k) /\ c = v[k + 1] /\ z = Cut(v, k + 1)
  OBVIOUS
<1>1. /\ c \in X /\ (EndsOpen(v, k + 1) <=> c = "\\") /\ c # "\""
      /\ EndsOpen(v, k) => c # "\\"
      /\ z = Append(u, c) /\ u \in Seq(X)
  BY LooseNext
<1> PICK a : a = p \o u
  OBVIOUS
<1>2. a \in Seq(X) /\ p \o z = Append(a, c)
  <2>0. p \in Seq(X) /\ u \in Seq(X) /\ c \in X
    BY <1>1
  <2>1. p \o Append(u, c) = Append(p \o u, c)
    BY ONLY <2>0, BehindAppend
  <2>2. p \o u \in Seq(X)
    BY <1>1, ConcatProperties
  <2> QED
    BY <1>1, <2>1, <2>2, Zenon
<1>3. CASE EndsOpen(v, k)
  <2>1. InState(a, "\"", TRUE, cuts)
    BY <1>3, Zenon DEF LooseScanTo, InDouble
  <2>2. InState(Append(a, c), "\"", FALSE, cuts)
    BY <1>1, <1>2, <2>1, BehindEscape
  <2> QED
    BY <1>1, <1>2, <1>3, <2>2, Zenon DEF LooseScanTo, InDouble
<1>4. CASE ~EndsOpen(v, k)
  <2>1. InState(a, "\"", FALSE, cuts)
    BY <1>4, Zenon DEF LooseScanTo, InDouble
  <2>2. CASE c = "\\"
    <3>1. InState(Append(a, c), "\"", TRUE, cuts)
      BY <1>1, <1>2, <2>1, <2>2, BehindBackslash
    <3> QED
      BY <1>1, <1>2, <2>2, <3>1, Zenon DEF LooseScanTo, InDouble
  <2>3. CASE c # "\\"
    <3>1. IsQuiet("\"", c)
      BY <1>1, <2>3 DEF IsQuiet
    <3>2. InState(Append(a, c), "\"", FALSE, cuts)
      BY <1>1, <1>2, <2>1, <3>1, BehindQuiet
    <3> QED
      BY <1>1, <1>2, <2>3, <3>2, Zenon DEF LooseScanTo, InDouble
  <2> QED
    BY <2>2, <2>3
<1> QED
  BY <1>3, <1>4

\* All of it.
LEMMA LooseReads ==
    ASSUME NEW X, NEW v \in Seq(X), IsLooseValue(v)
    PROVE  ReadsTo(v, v, FALSE)
<1> DEFINE n == Len(v)
           T == { k \in Nat : k <= n => LooseReadTo(X, v, k) }
<1>0. n \in Nat /\ T \in SUBSET Nat /\ Len(v) = n
  BY LenProperties
<1>1. 0 \in T
  <2>1. Cut(v, 0) = << >>
    <3>1. v \in Seq(X) /\ 0 \in 0 .. Len(v)
      BY LenProperties
    <3>2. Cut(v, 0) \in Seq(X) /\ Len(Cut(v, 0)) = 0
      BY ONLY <3>1, CutFacts
    <3> QED
      BY ONLY <3>2, EmptySeq
  <2>2. ~EndsOpen(v, 0)
    BY DEF EndsOpen
  <2>4. LooseReadTo(X, v, 0)
    BY <2>1, <2>2, NothingUnescaped, Zenon DEF LooseReadTo
  <2> QED
    BY <2>4
<1>2. ASSUME NEW k \in T PROVE k + 1 \in T
  <2>1. k \in Nat /\ k <= n => LooseReadTo(X, v, k)
    BY <1>2
  <2> SUFFICES k + 1 \in Nat /\ k + 1 <= n => LooseReadTo(X, v, k + 1)
    OBVIOUS
  <2> HIDE DEF n, T
  <2>2. k \in Nat /\ k + 1 \in Nat
    BY <1>0
  <2>3. ASSUME k + 1 <= n PROVE LooseReadTo(X, v, k + 1)
    <3>1. k \in 0 .. Len(v) /\ k # Len(v) /\ k <= n
      BY ONLY <1>0, <2>2, <2>3
    <3> QED
      BY <2>1, <2>2, <3>1, LooseReadNext
  <2> QED
    BY <2>2, <2>3
<1> HIDE DEF T
<1>3. T = Nat
  BY <1>0, <1>1, <1>2, NumbersInduction
<1>4. n \in T
  BY <1>0, <1>3
<1>5. n <= n /\ ~(n < n)
  BY <1>0
<1>6. LooseReadTo(X, v, n)
  BY <1>4, <1>5, Zenon DEF T
<1>7. ~EndsOpen(v, n)
  <2> HIDE DEF n
  <2> SUFFICES ASSUME EndsOpen(v, n) PROVE FALSE
    OBVIOUS
  <2>1. n # 0 /\ v[n] = "\\"
    BY DEF EndsOpen
  <2>2. n \in 1 .. Len(v)
    BY <1>0, <2>1
  <2> QED
    BY <1>0, <1>5, <2>1, <2>2, Zenon DEF IsLooseValue
<1>8. Cut(v, n) = v
  BY CutWhole
<1> HIDE DEF n
<1> QED
  BY <1>6, <1>7, <1>8, Zenon DEF LooseReadTo

\* A loose value ends inside the double quotes it stands in.
LEMMA LooseScans ==
    ASSUME NEW X, NEW v \in Seq(X), IsLooseValue(v),
           NEW p \in Seq(X), NEW cuts, InDouble(p, cuts)
    PROVE  InDouble(p \o v, cuts)
<1> DEFINE n == Len(v)
           T == { k \in Nat : k <= n => LooseScanTo(p, cuts, v, k) }
<1>0. n \in Nat /\ T \in SUBSET Nat /\ Len(v) = n
  BY LenProperties
<1>1. 0 \in T
  <2>1. Cut(v, 0) = << >>
    <3>1. v \in Seq(X) /\ 0 \in 0 .. Len(v)
      BY LenProperties
    <3>2. Cut(v, 0) \in Seq(X) /\ Len(Cut(v, 0)) = 0
      BY ONLY <3>1, CutFacts
    <3> QED
      BY ONLY <3>2, EmptySeq
  <2>2. ~EndsOpen(v, 0)
    BY DEF EndsOpen
  <2>3. p \o << >> = p
    BY ConcatEmptySeq
  <2>4. LooseScanTo(p, cuts, v, 0)
    BY <2>1, <2>2, <2>3, Zenon DEF LooseScanTo
  <2> QED
    BY <2>4
<1>2. ASSUME NEW k \in T PROVE k + 1 \in T
  <2>1. k \in Nat /\ k <= n => LooseScanTo(p, cuts, v, k)
    BY <1>2
  <2> SUFFICES k + 1 \in Nat /\ k + 1 <= n => LooseScanTo(p, cuts, v, k + 1)
    OBVIOUS
  <2> HIDE DEF n, T
  <2>2. k \in Nat /\ k + 1 \in Nat
    BY <1>0
  <2>3. ASSUME k + 1 <= n PROVE LooseScanTo(p, cuts, v, k + 1)
    <3>1. k \in 0 .. Len(v) /\ k # Len(v) /\ k <= n
      BY ONLY <1>0, <2>2, <2>3
    <3> QED
      BY <2>1, <2>2, <3>1, LooseScanNext
  <2> QED
    BY <2>2, <2>3
<1> HIDE DEF T
<1>3. T = Nat
  BY <1>0, <1>1, <1>2, NumbersInduction
<1>4. n \in T
  BY <1>0, <1>3
<1>5. n <= n /\ ~(n < n)
  BY <1>0
<1>6. LooseScanTo(p, cuts, v, n)
  BY <1>4, <1>5, Zenon DEF T
<1>7. ~EndsOpen(v, n)
  <2> HIDE DEF n
  <2> SUFFICES ASSUME EndsOpen(v, n) PROVE FALSE
    OBVIOUS
  <2>1. n # 0 /\ v[n] = "\\"
    BY DEF EndsOpen
  <2>2. n \in 1 .. Len(v)
    BY <1>0, <2>1
  <2> QED
    BY <1>0, <1>5, <2>1, <2>2, Zenon DEF IsLooseValue
<1>8. Cut(v, n) = v
  BY CutWhole
<1> HIDE DEF n
<1> QED
  BY <1>6, <1>7, <1>8, Zenon DEF LooseScanTo

\* A loose value in double quotes is read as it was.
LEMMA LooseWritten ==
    ASSUME NEW X, HasSpecials(X), NEW value \in Seq(X), IsLooseValue(value)
    PROVE  /\ WrittenFor(X, Written(value, "loose"), value)
           /\ Stays(X, "none", Written(value, "loose"))
<1> PICK q : q = "\""
  OBVIOUS
<1>1. q \in X /\ q \in { "'", "\"" } /\ q # "'"
  BY DEF HasSpecials
<1>2. Written(value, "loose") = (<< q >> \o value) \o << q >>
  BY DEF Written
<1>3. Stays(X, q, value)
  BY LooseScans, Zenon DEF Stays, InDouble
<1>4. ReadsTo(value, value, FALSE)
  BY LooseReads
<1>5. Unescape(value) = value
  BY <1>4, UnescapeIs
<1>6. NoBreaks(value)
  BY DEF IsLooseValue, NoBreaks
<1>7. WrittenFor(X, (<< q >> \o value) \o << q >>, value)
  BY <1>1, <1>5, <1>6, QuotedWritten
<1>8. Stays(X, "none", (<< q >> \o value) \o << q >>)
  BY <1>1, <1>3, QuotedStays
<1> QED
  BY <1>2, <1>7, <1>8, Zenon

-----------------------------------------------------------------------------
(* A statement, read.                                                      *)

\* What is behind the first "=" of a line, and what is before it.
Equals(line) == { i \in 1 .. Len(line) : line[i] = "=" }

ReadLine(line) ==
    LET equals == IF Equals(line) # {} THEN Min(Equals(line)) ELSE 0
        key == NormalizeKey(SubSeq(line, 1, equals - 1))
    IN  IF equals = 0 \/ key = << >> THEN << >>
        ELSE << << key, ParseValue(Trim(Rest(line, equals))) >> >>

\* parse_line behind its trims: the key and the value of the line.
LEMMA ParseLineIs ==
    ASSUME NEW raw, NEW trimmed, trimmed = Trim(WithoutSuffix(raw, "\r")),
           ~IsComment(trimmed), NEW line,
           line = IF Len(trimmed) > 1 /\ trimmed[1] = "export" /\ trimmed[2] = " "
                  THEN Trim(Rest(trimmed, 2)) ELSE trimmed
    PROVE  ParseLine(raw) = ReadLine(line)
<1> DEFINE t == Trim(WithoutSuffix(raw, "\r"))
           l == IF Len(t) > 1 /\ t[1] = "export" /\ t[2] = " " THEN Trim(Rest(t, 2)) ELSE t
           I == { i \in 1 .. Len(l) : l[i] = "=" }
           e == IF I # {} THEN Min(I) ELSE 0
           key == NormalizeKey(SubSeq(l, 1, e - 1))
           pair == << << key, ParseValue(Trim(Rest(l, e))) >> >>
<1>1. ParseLine(raw) = IF IsComment(t) \/ e = 0 \/ key = << >> THEN << >> ELSE pair
  BY DEF ParseLine, SelectInSeq
<1>2. trimmed = t /\ ~IsComment(t)
  OBVIOUS
<1> HIDE DEF t
<1>3. line = l
  BY <1>2, Zenon
<1> HIDE DEF l
<1>4. ReadLine(l) = IF e = 0 \/ key = << >> THEN << >> ELSE pair
  BY DEF ReadLine, Equals
<1> HIDE DEF e, key, pair
<1> QED
  BY <1>1, <1>2, <1>3, <1>4, Zenon

\* A key that no reader takes for anything else.
IsProper(name) ==
    /\ name # << >>
    /\ \A i \in 1 .. Len(name) : name[i] \notin Whitespace \cup { "=", "#", ";", "export" }

\* The key, a blank, an equals sign, and the rest.
IsLine(line, name, tail) ==
    /\ Len(line) = Len(name) + 2 + Len(tail)
    /\ \A i \in 1 .. Len(name) : line[i] = name[i]
    /\ line[Len(name) + 1] \in Whitespace \ { "=" } /\ line[Len(name) + 2] = "="
    /\ \A i \in 1 .. Len(tail) : line[(Len(name) + 2) + i] = tail[i]

EndsBlack(tail) == tail = << >> \/ tail[Len(tail)] \notin Whitespace

\* The key is the same with the blank behind it.
LEMMA KeyRead ==
    ASSUME NEW X, NEW line \in Seq(X), NEW name \in Seq(X), IsProper(name),
           NEW tail \in Seq(X), IsLine(line, name, tail)
    PROVE  /\ NormalizeKey(SubSeq(line, 1, (Len(name) + 2) - 1)) = NormalizeKey(name)
           /\ NormalizeKey(name) # << >>
<1> PICK n, u : n = Len(name) /\ u = Cut(line, n + 1)
  OBVIOUS
<1>0. name # << >> /\ \A i \in 1 .. n : name[i] \notin Whitespace /\ name[i] # "="
  BY DEF IsProper
<1>1. n \in Nat /\ Len(tail) \in Nat /\ n # 0
  <2>1. Len(name) \in Nat /\ Len(tail) \in Nat
    BY LenProperties
  <2>2. Len(name) # 0
    BY ONLY <1>0, name \in Seq(X), EmptySeq
  <2> QED
    BY <2>1, <2>2, Zenon
<1>2. /\ Len(line) = n + 2 + Len(tail) /\ \A i \in 1 .. n : line[i] = name[i]
      /\ line[n + 1] \in Whitespace
  BY DEF IsLine
<1>3. n + 1 \in 0 .. Len(line) /\ (n + 2) - 1 = n + 1
  BY <1>1, <1>2
<1>4. u \in Seq(X) /\ Len(u) = n + 1 /\ \A i \in 1 .. n + 1 : u[i] = line[i]
  BY <1>3, CutFacts
<1>5. \A i \in 1 .. n : u[i] = name[i]
  BY <1>1, <1>2, <1>4
<1>6. u[n + 1] \in Whitespace
  BY <1>1, <1>2, <1>4
<1>7. name[1] \notin Whitespace /\ name[n] \notin Whitespace
  <2>1. 1 \in 1 .. n /\ n \in 1 .. n
    BY ONLY <1>1
  <2> QED
    BY <1>0, <2>1, Zenon
<1>8. IsTrimmed(name)
  BY <1>7, Zenon DEF IsTrimmed
<1>9. CoreAt(X, u, 0, name)
  <2>1. \A i \in 0 + n + 1 .. Len(u) : u[i] \in Whitespace
    <3>1. \A i \in 0 + n + 1 .. Len(u) : i = n + 1
      BY <1>1, <1>4
    <3> QED
      BY <1>6, <3>1, Zenon
  <2>2. 0 \in Nat /\ 0 + n <= Len(u) /\ \A i \in 1 .. 0 : u[i] \in Whitespace
    BY <1>1, <1>4
  <2>3. \A i \in 1 .. n : u[0 + i] = name[i]
    BY <1>1, <1>5
  <2> QED
    BY <1>4, <2>1, <2>2, <2>3, Zenon DEF CoreAt
<1>11. Trim(u) = name
  BY <1>8, <1>9, TrimCore
<1>12. Trim(name) = name
  BY <1>8, TrimmedKept
<1>13. NormalizeKey(u) = NormalizeKey(name)
  BY <1>11, <1>12, Zenon DEF NormalizeKey
<1>14. NormalizeKey(name) # << >>
  <2> PICK k : k = NormalizeKey(name)
    OBVIOUS
  <2>1. k = [i \in DOMAIN name |-> Letter(name[i])]
    BY <1>12, Zenon DEF NormalizeKey
  <2>2. DOMAIN k = 1 .. n
    <3>1. DOMAIN name = 1 .. n
      BY LenProperties
    <3> QED
      BY <2>1, <3>1, Zenon
  <2>3. 1 \in DOMAIN k
    BY <1>1, <2>2
  <2>4. 1 \notin DOMAIN << >>
    OBVIOUS
  <2> QED
    BY <2>3, <2>4, Zenon
<1>15. SubSeq(line, 1, (Len(name) + 2) - 1) = u
  BY <1>3, Zenon DEF Cut
<1> QED
  BY <1>13, <1>14, <1>15, Zenon

\* The rest is what the value is read from.
LEMMA LineRead ==
    ASSUME NEW X, NEW line \in Seq(X), NEW name \in Seq(X), IsProper(name),
           NEW tail \in Seq(X), IsLine(line, name, tail)
    PROVE  ReadLine(line) = << << NormalizeKey(name), ParseValue(Trim(tail)) >> >>
<1> PICK n, m : n = Len(name) /\ m = n + 2
  OBVIOUS
<1>0. name # << >> /\ \A i \in 1 .. n : name[i] \notin Whitespace /\ name[i] # "="
  BY DEF IsProper
<1>1. n \in Nat /\ Len(tail) \in Nat /\ n # 0
  <2>1. Len(name) \in Nat /\ Len(tail) \in Nat
    BY LenProperties
  <2>2. Len(name) # 0
    BY ONLY <1>0, name \in Seq(X), EmptySeq
  <2> QED
    BY <2>1, <2>2, Zenon
<1>2. /\ Len(line) = n + 2 + Len(tail) /\ \A i \in 1 .. n : line[i] = name[i]
      /\ line[n + 1] # "=" /\ line[m] = "="
      /\ \A i \in 1 .. Len(tail) : line[m + i] = tail[i]
  BY DEF IsLine
<1>3. m \in Equals(line) /\ Equals(line) \in SUBSET (1 .. Len(line)) /\ Len(line) \in Nat
  <2>1. m \in 1 .. Len(line) /\ Len(line) \in Nat
    BY ONLY <1>1, <1>2, m = n + 2
  <2> QED
    BY <1>2, <2>1, Zenon DEF Equals
<1>4. ASSUME NEW i \in 1 .. m - 1 PROVE i \notin Equals(line)
  <2>1. i \in 1 .. n \/ i = n + 1
    BY <1>1
  <2>2. line[i] # "="
    <3>1. CASE i \in 1 .. n
      BY <1>0, <1>2, <3>1, Zenon
    <3>2. CASE i = n + 1
      BY <1>2, <3>2
    <3> QED
      BY <2>1, <3>1, <3>2
  <2> QED
    BY <2>2, Zenon DEF Equals
<1>5. Equals(line) # {} /\ Min(Equals(line)) = m
  BY <1>3, <1>4, FirstOf
<1>6. m # 0 /\ m \in 0 .. Len(line) /\ Len(line) - m = Len(tail)
  BY ONLY <1>1, <1>2, m = n + 2
<1>7. /\ NormalizeKey(SubSeq(line, 1, m - 1)) = NormalizeKey(name)
      /\ NormalizeKey(name) # << >>
  BY KeyRead
<1>8. Rest(line, m) = tail
  <2> PICK r : r = Rest(line, m)
    OBVIOUS
  <2>1. /\ Rest(line, m) \in Seq(X) /\ Len(Rest(line, m)) = Len(line) - m
        /\ \A i \in 1 .. Len(line) - m : Rest(line, m)[i] = line[m + i]
    BY ONLY line \in Seq(X), <1>6, RestFacts
  <2>2. r \in Seq(X) /\ Len(r) = Len(tail)
    BY <1>6, <2>1, Zenon
  <2>3. \A i \in 1 .. Len(r) : r[i] = tail[i]
    <3>1. \A i \in 1 .. Len(line) - m : r[i] = line[m + i]
      BY <2>1, Zenon
    <3>2. ASSUME NEW i \in 1 .. Len(r) PROVE r[i] = tail[i]
      <4>1. i \in 1 .. Len(tail) /\ i \in 1 .. Len(line) - m
        BY <1>6, <2>2, Zenon
      <4>2. r[i] = line[m + i]
        BY ONLY <3>1, <4>1, Zenon
      <4>3. line[m + i] = tail[i]
        BY <1>2, <4>1, Zenon
      <4> QED
        BY ONLY <4>2, <4>3, Zenon
    <3> QED
      BY <3>2, Zenon
  <2>4. r = tail
    BY ONLY <2>2, <2>3, tail \in Seq(X), SeqEqual
  <2> QED
    BY <2>4
<1> QED
  BY <1>5, <1>6, <1>7, <1>8, Zenon DEF ReadLine

IsExport(core) == core[1] = "export" /\ core[2] = " "

\* A line, or one behind "export ".
IsCore(X, core, n, line) ==
    /\ core \in Seq(X) /\ line \in Seq(X) /\ Len(core) = n + Len(line)
    /\ \A i \in 1 .. Len(line) : core[n + i] = line[i]
    /\ n = 0 \/ (n = 2 /\ IsExport(core))

\* A line begins with its key, and ends as its rest does.
LEMMA LineEnds ==
    ASSUME NEW X, NEW line \in Seq(X), NEW name \in Seq(X), IsProper(name),
           NEW tail \in Seq(X), IsLine(line, name, tail), EndsBlack(tail)
    PROVE  /\ Len(line) \in Nat /\ Len(line) > 2 /\ line[1] = name[1]
           /\ line[1] \notin Whitespace \cup { "=", "#", ";", "export" }
           /\ line[Len(line)] \notin Whitespace
<1> PICK n : n = Len(name)
  OBVIOUS
<1>0. name # << >> /\ \A i \in 1 .. n :
        name[i] \notin Whitespace \cup { "=", "#", ";", "export" }
  BY DEF IsProper
<1>1. n \in Nat /\ Len(tail) \in Nat /\ n # 0
  <2>1. Len(name) \in Nat /\ Len(tail) \in Nat
    BY LenProperties
  <2>2. Len(name) # 0
    BY ONLY <1>0, name \in Seq(X), EmptySeq
  <2> QED
    BY <2>1, <2>2, Zenon
<1>2. /\ Len(line) = n + 2 + Len(tail) /\ \A i \in 1 .. n : line[i] = name[i]
      /\ line[n + 2] = "="
      /\ \A i \in 1 .. Len(tail) : line[(n + 2) + i] = tail[i]
  BY DEF IsLine
<1>3. Len(line) \in Nat /\ Len(line) > 2 /\ 1 \in 1 .. n
  BY <1>1, <1>2
<1>4. line[1] = name[1] /\ name[1] \notin Whitespace \cup { "=", "#", ";", "export" }
  BY <1>0, <1>2, <1>3, Zenon
<1>5. line[Len(line)] \notin Whitespace
  <2>1. CASE tail = << >>
    <3>1. Len(tail) = 0
      BY <2>1
    <3>2. Len(line) = n + 2
      BY <1>1, <1>2, <3>1
    <3>3. "=" \notin Whitespace
      BY Zenon DEF Whitespace
    <3> QED
      BY <1>2, <3>2, <3>3, Zenon
  <2>2. CASE tail # << >>
    <3>1. tail[Len(tail)] \notin Whitespace
      BY <2>2, Zenon DEF EndsBlack
    <3>2. Len(tail) # 0
      BY ONLY <2>2, tail \in Seq(X), EmptySeq
    <3>3. Len(tail) \in 1 .. Len(tail) /\ (n + 2) + Len(tail) = Len(line)
      BY <1>1, <1>2, <3>2
    <3> QED
      BY <1>2, <3>1, <3>3, Zenon
  <2> QED
    BY <2>1, <2>2
<1> QED
  BY <1>3, <1>4, <1>5, Zenon

\* What a core begins and ends with, and what is left of it without "export ".
LEMMA CoreEnds ==
    ASSUME NEW X, NEW core, NEW n, NEW line, IsCore(X, core, n, line),
           Len(line) \in Nat, Len(line) > 2,
           line[1] \notin Whitespace \cup { "=", "#", ";", "export" },
           line[Len(line)] \notin Whitespace
    PROVE  /\ IsTrimmed(core) /\ ~IsComment(core)
           /\ line = IF Len(core) > 1 /\ core[1] = "export" /\ core[2] = " "
                     THEN Trim(Rest(core, 2)) ELSE core
<1> PICK m : m = Len(line)
  OBVIOUS
<1>1. /\ core \in Seq(X) /\ line \in Seq(X) /\ Len(core) = n + m
      /\ \A i \in 1 .. m : core[n + i] = line[i]
      /\ n = 0 \/ (n = 2 /\ IsExport(core))
  BY DEF IsCore
<1>2. m \in Nat /\ m > 2 /\ line[m] \notin Whitespace
  OBVIOUS
<1>3. n \in { 0, 2 } /\ Len(core) \in Nat /\ Len(core) > 1 /\ 1 \in 1 .. m /\ m \in 1 .. m
  <2>1. n = 0 \/ n = 2
    BY <1>1, Zenon
  <2>2. Len(core) = n + m
    BY <1>1
  <2> QED
    BY ONLY <1>2, <2>1, <2>2
<1>4. core[Len(core)] \notin Whitespace
  BY <1>1, <1>2, <1>3, Zenon
<1>5. core[1] \notin Whitespace \cup { "#", ";" }
  <2>1. CASE n = 0
    <3>1. core[0 + 1] = line[1]
      BY <1>1, <1>3, <2>1, Zenon
    <3>2. core[1] = line[1]
      BY ONLY <3>1
    <3> QED
      BY <3>2, Zenon
  <2>2. CASE n # 0
    <3>1. core[1] = "export"
      BY <1>1, <2>2, Zenon DEF IsExport
    <3>2. "export" \notin Whitespace \cup { "#", ";" }
      BY Zenon DEF Whitespace
    <3> QED
      BY <3>1, <3>2, Zenon
  <2> QED
    BY <2>1, <2>2
<1>6. IsTrimmed(core)
  BY <1>4, <1>5, Zenon DEF IsTrimmed
<1>7. ~IsComment(core)
  <2>1. core # << >>
    <3>1. Len(core) # 0
      BY ONLY <1>3
    <3> QED
      BY ONLY <1>1, <3>1, EmptySeq
  <2>2. Head(core) = core[1]
    BY ONLY <1>1, <2>1
  <2> QED
    BY <1>5, <2>1, <2>2, Zenon DEF IsComment
<1>8. CASE n = 0
  <2>1. core[1] # "export"
    <3>1. core[0 + 1] = line[1]
      BY <1>1, <1>3, <1>8, Zenon
    <3>2. core[1] = line[1]
      BY ONLY <3>1
    <3> QED
      BY <3>2, Zenon
  <2>2. core = line
    <3>1. \A i \in 1 .. m : 0 + i = i
      BY ONLY <1>2
    <3>2. \A i \in 1 .. m : core[i] = line[i]
      BY <1>1, <1>8, <3>1, Zenon
    <3>3. Len(core) = m
      <4>1. Len(core) = 0 + m
        BY <1>1, <1>8, Zenon
      <4> QED
        BY ONLY <1>2, <4>1
    <3>4. Len(core) = Len(line) /\ \A i \in 1 .. Len(core) : core[i] = line[i]
      BY <3>2, <3>3, Zenon
    <3> QED
      BY ONLY <1>1, <3>4, SeqEqual
  <2> QED
    BY <1>6, <1>7, <2>1, <2>2, Zenon
<1>9. CASE n # 0
  <2>1. n = 2 /\ core[1] = "export" /\ core[2] = " "
    BY <1>1, <1>9, Zenon DEF IsExport
  <2> PICK r : r = Rest(core, 2)
    OBVIOUS
  <2>2. 2 \in 0 .. Len(core) /\ Len(core) - 2 = m
    <3>1. n = 2 /\ Len(core) = n + m
      BY <1>1, <2>1, Zenon
    <3> QED
      BY ONLY <1>2, <3>1
  <2>3. /\ Rest(core, 2) \in Seq(X) /\ Len(Rest(core, 2)) = Len(core) - 2
        /\ \A i \in 1 .. Len(core) - 2 : Rest(core, 2)[i] = core[2 + i]
    <3>1. core \in Seq(X)
      BY <1>1, Zenon
    <3> QED
      BY ONLY <2>2, <3>1, RestFacts
  <2>4. r = line
    <3>1. r \in Seq(X) /\ Len(r) = Len(line) /\ \A i \in 1 .. Len(r) : r[i] = line[i]
      BY <1>1, <2>1, <2>2, <2>3, Zenon
    <3> QED
      BY ONLY <1>1, <3>1, SeqEqual
  <2>5. Trim(line) = line
    <3>1. IsTrimmed(line) /\ line \in Seq(X)
      BY <1>1, <1>2, Zenon DEF IsTrimmed
    <3> QED
      BY <3>1, TrimmedKept
  <2> QED
    BY <1>3, <1>6, <1>7, <2>1, <2>4, <2>5, Zenon
<1> QED
  BY <1>8, <1>9

\* A line without a line break keeps its end.
LEMMA NothingStripped ==
    ASSUME NEW X, NEW raw \in Seq(X), NoBreaks(raw)
    PROVE  WithoutSuffix(raw, "\r") = raw
<1>1. CASE raw = << >>
  BY <1>1, Zenon DEF WithoutSuffix
<1>2. CASE raw # << >>
  <2>1. Len(raw) \in Nat /\ Len(raw) # 0 /\ Last(raw) = raw[Len(raw)]
    BY ONLY raw \in Seq(X), <1>2, FrontAndLast
  <2>2. Len(raw) \in 1 .. Len(raw)
    BY <2>1
  <2>3. raw[Len(raw)] # "\r"
    BY <2>2, Zenon DEF NoBreaks
  <2> QED
    BY <2>1, <2>3, Zenon DEF WithoutSuffix
<1> QED
  BY <1>1, <1>2

\* A statement gives its key and its value, whatever white space is around it.
LEMMA StatementRead ==
    ASSUME NEW X, NEW raw, NEW k, NEW core, CoreAt(X, raw, k, core), NoBreaks(raw),
           NEW n, NEW line, IsCore(X, core, n, line), NEW name \in Seq(X), IsProper(name),
           NEW tail \in Seq(X), IsLine(line, name, tail), EndsBlack(tail)
    PROVE  ParseLine(raw) = << << NormalizeKey(name), ParseValue(Trim(tail)) >> >>
<1>1. line \in Seq(X) /\ raw \in Seq(X)
  BY DEF IsCore, CoreAt
<1>2. /\ Len(line) \in Nat /\ Len(line) > 2 /\ line[1] = name[1]
      /\ line[1] \notin Whitespace \cup { "=", "#", ";", "export" }
      /\ line[Len(line)] \notin Whitespace
  BY <1>1, LineEnds
<1>3. /\ IsTrimmed(core) /\ ~IsComment(core)
      /\ line = IF Len(core) > 1 /\ core[1] = "export" /\ core[2] = " "
                THEN Trim(Rest(core, 2)) ELSE core
  BY <1>2, CoreEnds
<1>4. Trim(raw) = core
  BY <1>3, TrimCore
<1>5. WithoutSuffix(raw, "\r") = raw
  BY <1>1, NothingStripped, Zenon
<1>6. ParseLine(raw) = ReadLine(line)
  <2>1. core = Trim(WithoutSuffix(raw, "\r"))
    BY <1>4, <1>5, Zenon
  <2> QED
    BY <1>3, <2>1, ParseLineIs, Zenon
<1>7. ReadLine(line) = << << NormalizeKey(name), ParseValue(Trim(tail)) >> >>
  BY <1>1, LineRead
<1> QED
  BY <1>6, <1>7, Zenon

-----------------------------------------------------------------------------
(* A setting as it is written, and as it is read.                          *)

\* A text that says w of a key.
Says(X, raw, name, w) ==
    \E k, core, n, line, tail :
        /\ CoreAt(X, raw, k, core) /\ IsCore(X, core, n, line)
        /\ tail \in Seq(X) /\ IsLine(line, name, tail) /\ EndsBlack(tail) /\ Trim(tail) = w

\* Whitespace behind a setting changes nothing of what it says.
LEMMA SaysBefore ==
    ASSUME NEW X, NEW raw, NEW name, NEW w, Says(X, raw, name, w), NEW b \in Seq(X),
           \A i \in 1 .. Len(b) : b[i] \in Whitespace
    PROVE  Says(X, raw \o b, name, w)
<1>1. PICK k, core, n, line, tail :
        /\ CoreAt(X, raw, k, core) /\ IsCore(X, core, n, line)
        /\ tail \in Seq(X) /\ IsLine(line, name, tail) /\ EndsBlack(tail) /\ Trim(tail) = w
  BY Zenon DEF Says
<1>2. CoreAt(X, raw \o b, k, core)
  BY <1>1, CoreBefore
<1> QED
  BY <1>1, <1>2, Zenon DEF Says

\* Nor does whitespace in front of it.
LEMMA SaysBehind ==
    ASSUME NEW X, NEW raw, NEW name, NEW w, Says(X, raw, name, w), NEW a \in Seq(X),
           \A i \in 1 .. Len(a) : a[i] \in Whitespace
    PROVE  Says(X, a \o raw, name, w)
<1>1. PICK k, core, n, line, tail :
        /\ CoreAt(X, raw, k, core) /\ IsCore(X, core, n, line)
        /\ tail \in Seq(X) /\ IsLine(line, name, tail) /\ EndsBlack(tail) /\ Trim(tail) = w
  BY Zenon DEF Says
<1>2. CoreAt(X, a \o raw, Len(a) + k, core)
  BY <1>1, CoreBehind
<1> QED
  BY <1>1, <1>2, Zenon DEF Says

\* parse_line reads what a text says.
LEMMA SaidRead ==
    ASSUME NEW X, NEW raw, NEW name \in Seq(X), IsProper(name), NEW w, Says(X, raw, name, w),
           NoBreaks(raw)
    PROVE  ParseLine(raw) = << << NormalizeKey(name), ParseValue(w) >> >>
<1>1. PICK k, core, n, line, tail :
        /\ CoreAt(X, raw, k, core) /\ IsCore(X, core, n, line)
        /\ tail \in Seq(X) /\ IsLine(line, name, tail) /\ EndsBlack(tail) /\ Trim(tail) = w
  BY Zenon DEF Says
<1>2. ParseLine(raw) = << << NormalizeKey(name), ParseValue(Trim(tail)) >> >>
  BY <1>1, StatementRead
<1> QED
  BY <1>1, <1>2, Zenon

\* What stands between a key and its value.
IsMiddle(m) ==
    /\ Len(m) = 3 /\ m[1] \in Whitespace \ { "=" } /\ m[2] = "=" /\ m[3] \in Whitespace

\* Where the parts of a setting are in its text.
PartsAt(X, raw, lead, name, w) ==
    LET a == Len(lead)
        z == Len(lead) + Len(name)
    IN  /\ raw \in Seq(X) /\ Len(raw) = z + 3 + Len(w)
        /\ \A i \in 1 .. a : raw[i] = lead[i]
        /\ \A i \in 1 .. Len(name) : raw[a + i] = name[i]
        /\ raw[z + 1] \in Whitespace \ { "=" } /\ raw[z + 2] = "=" /\ raw[z + 3] \in Whitespace
        /\ \A i \in 1 .. Len(w) : raw[(z + 3) + i] = w[i]

\* A lead, a key, what stands between and a value, put together.
LEMMA SettingParts ==
    ASSUME NEW X, NEW lead \in Seq(X), NEW name \in Seq(X), NEW m \in Seq(X), IsMiddle(m),
           NEW w \in Seq(X), NEW raw, raw = ((lead \o name) \o m) \o w
    PROVE  PartsAt(X, raw, lead, name, w)
<1>0. PICK b, c, a, z, n, l :
        /\ b = lead \o name /\ c = b \o m /\ raw = c \o w
        /\ a = Len(lead) /\ n = Len(name) /\ z = a + n /\ l = Len(w)
  OBVIOUS
<1>1. /\ b \in Seq(X) /\ Len(b) = a + n /\ a \in Nat /\ n \in Nat
      /\ \A i \in 1 .. a : b[i] = lead[i]
      /\ \A i \in 1 .. n : b[a + i] = name[i]
  BY <1>0, ConcatFacts
<1>2. Len(m) = 3 /\ m[1] \in Whitespace \ { "=" } /\ m[2] = "=" /\ m[3] \in Whitespace
  BY DEF IsMiddle
<1>3. /\ c \in Seq(X) /\ Len(c) = z + 3
      /\ \A i \in 1 .. z : c[i] = b[i]
      /\ \A i \in 1 .. 3 : c[z + i] = m[i]
  <2>0. b \in Seq(X) /\ m \in Seq(X)
    BY <1>1
  <2>1. /\ b \o m \in Seq(X) /\ Len(b \o m) = Len(b) + Len(m)
        /\ \A i \in 1 .. Len(b) : (b \o m)[i] = b[i]
        /\ \A i \in 1 .. Len(m) : (b \o m)[Len(b) + i] = m[i]
    BY ONLY <2>0, ConcatFacts
  <2>2. Len(b) = z
    BY <1>0, <1>1
  <2> QED
    BY <1>0, <1>2, <2>1, <2>2, Zenon
<1>4. /\ raw \in Seq(X) /\ Len(raw) = z + 3 + l /\ l \in Nat
      /\ \A i \in 1 .. z + 3 : raw[i] = c[i]
      /\ \A i \in 1 .. l : raw[(z + 3) + i] = w[i]
  <2>1. /\ c \o w \in Seq(X) /\ Len(c \o w) = Len(c) + Len(w) /\ Len(w) \in Nat
        /\ \A i \in 1 .. Len(c) : (c \o w)[i] = c[i]
        /\ \A i \in 1 .. Len(w) : (c \o w)[Len(c) + i] = w[i]
    <3>1. c \in Seq(X) /\ w \in Seq(X)
      BY <1>3
    <3> QED
      BY ONLY <3>1, ConcatFacts, LenProperties
  <2>2. c \o w = raw /\ Len(c) = z + 3 /\ Len(w) = l
    BY <1>0, <1>3
  <2> QED
    BY ONLY <2>1, <2>2, Zenon
<1>5. z \in Nat /\ z = a + n
  BY <1>0, <1>1
<1>6. \A i \in 1 .. a : raw[i] = lead[i]
  <2> SUFFICES ASSUME NEW i \in 1 .. a PROVE raw[i] = lead[i]
    OBVIOUS
  <2>1. i \in 1 .. z /\ i \in 1 .. z + 3
    BY ONLY <1>1, <1>5, i \in 1 .. a
  <2>2. raw[i] = c[i]
    BY ONLY <1>4, <2>1, Zenon
  <2>3. c[i] = b[i]
    BY ONLY <1>3, <2>1, Zenon
  <2>4. b[i] = lead[i]
    BY ONLY <1>1, i \in 1 .. a, Zenon
  <2> QED
    BY ONLY <2>2, <2>3, <2>4, Zenon
<1>7. \A i \in 1 .. n : raw[a + i] = name[i]
  <2> SUFFICES ASSUME NEW i \in 1 .. n PROVE raw[a + i] = name[i]
    OBVIOUS
  <2>1. a + i \in 1 .. z /\ a + i \in 1 .. z + 3
    BY ONLY <1>1, <1>5, i \in 1 .. n
  <2>2. raw[a + i] = c[a + i]
    BY ONLY <1>4, <2>1, Zenon
  <2>3. c[a + i] = b[a + i]
    BY ONLY <1>3, <2>1, Zenon
  <2>4. b[a + i] = name[i]
    BY ONLY <1>1, i \in 1 .. n, Zenon
  <2> QED
    BY ONLY <2>2, <2>3, <2>4, Zenon
<1>8. raw[z + 1] = m[1] /\ raw[z + 2] = m[2] /\ raw[z + 3] = m[3]
  <2>1. /\ z + 1 \in 1 .. z + 3 /\ z + 2 \in 1 .. z + 3 /\ z + 3 \in 1 .. z + 3
        /\ 1 \in 1 .. 3 /\ 2 \in 1 .. 3 /\ 3 \in 1 .. 3
    BY ONLY <1>5
  <2>2. c[z + 1] = m[1] /\ c[z + 2] = m[2] /\ c[z + 3] = m[3]
    BY <1>3, <2>1, Zenon
  <2>3. raw[z + 1] = c[z + 1] /\ raw[z + 2] = c[z + 2] /\ raw[z + 3] = c[z + 3]
    BY <1>4, <2>1, Zenon
  <2> QED
    BY <2>2, <2>3, Zenon
<1>9. PartsAt(X, raw, lead, name, w) =
        /\ raw \in Seq(X) /\ Len(raw) = z + 3 + l
        /\ \A i \in 1 .. a : raw[i] = lead[i]
        /\ \A i \in 1 .. n : raw[a + i] = name[i]
        /\ raw[z + 1] \in Whitespace \ { "=" } /\ raw[z + 2] = "=" /\ raw[z + 3] \in Whitespace
        /\ \A i \in 1 .. l : raw[(z + 3) + i] = w[i]
  BY <1>0, Zenon DEF PartsAt
<1> QED
  BY <1>2, <1>4, <1>6, <1>7, <1>8, <1>9, Zenon

\* Blanks, and perhaps "export " behind them.
LeadsAt(lead, k) ==
    /\ k \in 0 .. Len(lead) /\ \A i \in 1 .. k : lead[i] \in Whitespace
    /\ \/ Len(lead) = k
       \/ Len(lead) = k + 2 /\ lead[k + 1] = "export" /\ lead[k + 2] = " "

\* A text of those parts says the value of the key.
LEMMA SettingSays ==
    ASSUME NEW X, NEW lead \in Seq(X), NEW k, LeadsAt(lead, k), NEW name \in Seq(X),
           NEW w \in Seq(X), IsTrimmed(w), NEW raw, PartsAt(X, raw, lead, name, w)
    PROVE  Says(X, raw, name, w)
<1> PICK a, n, z, l, e :
        /\ a = Len(lead) /\ n = Len(name) /\ z = a + n /\ l = Len(w)
        /\ e = IF w = << >> THEN z + 2 ELSE z + 3 + l
  OBVIOUS
<1>1. /\ raw \in Seq(X) /\ Len(raw) = z + 3 + l
      /\ \A i \in 1 .. a : raw[i] = lead[i]
      /\ \A i \in 1 .. n : raw[a + i] = name[i]
      /\ raw[z + 1] \in Whitespace \ { "=" } /\ raw[z + 2] = "=" /\ raw[z + 3] \in Whitespace
      /\ \A i \in 1 .. l : raw[(z + 3) + i] = w[i]
  BY Zenon DEF PartsAt
<1>2. a \in Nat /\ n \in Nat /\ l \in Nat /\ z = a + n /\ k \in 0 .. a
  <2>1. Len(lead) \in Nat /\ Len(name) \in Nat /\ Len(w) \in Nat
    BY LenProperties
  <2>2. k \in 0 .. Len(lead)
    BY DEF LeadsAt
  <2> QED
    BY <2>1, <2>2, Zenon
<1>3. z + 2 <= e /\ e <= z + 3 + l /\ e \in Nat
  <2>1. e = z + 2 \/ e = z + 3 + l
    BY Zenon
  <2> QED
    BY ONLY <1>2, <2>1
<1> PICK c : c = Cut(raw, e)
  OBVIOUS
<1>4. c \in Seq(X) /\ Len(c) = e /\ \A i \in 1 .. e : c[i] = raw[i]
  <2>1. e \in 0 .. Len(raw)
    BY ONLY <1>1, <1>2, <1>3
  <2>2. raw \in Seq(X)
    BY <1>1
  <2>3. Cut(raw, e) \in Seq(X) /\ Len(Cut(raw, e)) = e /\ \A i \in 1 .. e : Cut(raw, e)[i] = raw[i]
    BY ONLY <2>1, <2>2, CutFacts
  <2> QED
    BY <2>3, Zenon
<1> PICK core, line, tail : core = Rest(c, k) /\ line = Rest(c, a) /\ tail = Rest(c, z + 2)
  OBVIOUS
<1>5. ASSUME NEW j \in 0 .. e
      PROVE  /\ Rest(c, j) \in Seq(X) /\ Len(Rest(c, j)) = e - j
             /\ \A i \in 1 .. e - j : Rest(c, j)[i] = raw[j + i]
  <2>1. /\ Rest(c, j) \in Seq(X) /\ Len(Rest(c, j)) = e - j
        /\ \A i \in 1 .. e - j : Rest(c, j)[i] = c[j + i]
    <3>1. c \in Seq(X) /\ j \in 0 .. Len(c) /\ Len(c) = e
      BY <1>4
    <3>2. /\ Rest(c, j) \in Seq(X) /\ Len(Rest(c, j)) = Len(c) - j
          /\ \A i \in 1 .. Len(c) - j : Rest(c, j)[i] = c[j + i]
      BY ONLY <3>1, RestFacts
    <3> QED
      BY <3>1, <3>2, Zenon
  <2>2. \A i \in 1 .. e - j : j + i \in 1 .. e
    BY ONLY <1>3, j \in 0 .. e
  <2>3. ASSUME NEW i \in 1 .. e - j PROVE Rest(c, j)[i] = raw[j + i]
    <3>1. c[j + i] = raw[j + i]
      BY <1>4, <2>2, Zenon
    <3>2. Rest(c, j)[i] = c[j + i]
      BY <2>1, Zenon
    <3> QED
      BY <3>1, <3>2, Zenon
  <2> QED
    BY <2>1, <2>3, Zenon
<1>6. k \in 0 .. e /\ a \in 0 .. e /\ z + 2 \in 0 .. e
  BY ONLY <1>2, <1>3
<1>7. core \in Seq(X) /\ Len(core) = e - k /\ \A i \in 1 .. e - k : core[i] = raw[k + i]
  <2>1. /\ Rest(c, k) \in Seq(X) /\ Len(Rest(c, k)) = e - k
        /\ \A i \in 1 .. e - k : Rest(c, k)[i] = raw[k + i]
    BY ONLY <1>5, <1>6, Zenon
  <2>2. core = Rest(c, k)
    OBVIOUS
  <2> QED
    BY ONLY <2>1, <2>2, Zenon
<1>8. line \in Seq(X) /\ Len(line) = e - a /\ \A i \in 1 .. e - a : line[i] = raw[a + i]
  <2>1. /\ Rest(c, a) \in Seq(X) /\ Len(Rest(c, a)) = e - a
        /\ \A i \in 1 .. e - a : Rest(c, a)[i] = raw[a + i]
    BY ONLY <1>5, <1>6, Zenon
  <2>2. line = Rest(c, a)
    OBVIOUS
  <2> QED
    BY ONLY <2>1, <2>2, Zenon
<1>9. /\ tail \in Seq(X) /\ Len(tail) = e - (z + 2)
      /\ \A i \in 1 .. e - (z + 2) : tail[i] = raw[(z + 2) + i]
  <2>1. /\ Rest(c, z + 2) \in Seq(X) /\ Len(Rest(c, z + 2)) = e - (z + 2)
        /\ \A i \in 1 .. e - (z + 2) : Rest(c, z + 2)[i] = raw[(z + 2) + i]
    BY ONLY <1>5, <1>6, Zenon
  <2>2. tail = Rest(c, z + 2)
    OBVIOUS
  <2> QED
    BY ONLY <2>1, <2>2, Zenon
<1>10. CoreAt(X, raw, k, core)
  <2>1. k \in Nat /\ k + Len(core) <= Len(raw) /\ k + Len(core) = e
    BY ONLY <1>1, <1>2, <1>3, <1>6, <1>7
  <2>2. ASSUME NEW i \in 1 .. k PROVE raw[i] \in Whitespace
    <3>1. i \in 1 .. a
      BY ONLY <1>2, i \in 1 .. k
    <3>2. lead[i] \in Whitespace
      BY Zenon DEF LeadsAt
    <3> QED
      BY <1>1, <3>1, <3>2, Zenon
  <2>3. \A i \in 1 .. Len(core) : raw[k + i] = core[i]
    BY <1>7, Zenon
  <2>4. ASSUME NEW i \in k + Len(core) + 1 .. Len(raw) PROVE raw[i] \in Whitespace
    <3>1. i \in e + 1 .. Len(raw)
      BY <2>1, Zenon
    <3>2. CASE w = << >>
      <4>1. l = 0 /\ e = z + 2
        BY <3>2
      <4>2. i = z + 3
        BY ONLY <1>1, <1>2, <3>1, <4>1
      <4> QED
        BY <1>1, <4>2, Zenon
    <3>3. CASE w # << >>
      <4>1. e = z + 3 + l
        BY <3>3, Zenon
      <4> QED
        BY ONLY <1>1, <1>2, <3>1, <4>1
    <3> QED
      BY <3>2, <3>3
  <2>5. raw \in Seq(X) /\ core \in Seq(X)
    BY <1>1, <1>7
  <2> QED
    BY <2>1, <2>2, <2>3, <2>4, <2>5, Zenon DEF CoreAt
<1>11. IsCore(X, core, a - k, line)
  <2>0. Len(core) = e - k /\ Len(line) = e - a
    BY <1>7, <1>8, Zenon
  <2>1. Len(core) = (a - k) + Len(line)
    BY ONLY <1>2, <1>3, <1>6, <2>0
  <2>2. ASSUME NEW i \in 1 .. Len(line) PROVE core[(a - k) + i] = line[i]
    <3>1. /\ (a - k) + i \in 1 .. e - k /\ k + ((a - k) + i) = a + i /\ i \in 1 .. e - a
      BY ONLY <1>2, <1>3, <1>6, <1>8, i \in 1 .. Len(line)
    <3>2. core[(a - k) + i] = raw[k + ((a - k) + i)]
      BY <1>7, <3>1, Zenon
    <3>3. line[i] = raw[a + i]
      BY <1>8, <3>1, Zenon
    <3> QED
      BY ONLY <3>1, <3>2, <3>3
  <2>3. a - k = 0 \/ (a - k = 2 /\ IsExport(core))
    <3>1. CASE a = k
      BY ONLY <1>2, <3>1
    <3>2. CASE a # k
      <4>1. a = k + 2 /\ lead[k + 1] = "export" /\ lead[k + 2] = " "
        BY <3>2, Zenon DEF LeadsAt
      <4>2. a = k + 2
        BY <4>1
      <4>3. /\ a - k = 2 /\ k + 1 \in 1 .. a /\ k + 2 \in 1 .. a
            /\ 1 \in 1 .. e - k /\ 2 \in 1 .. e - k
        BY ONLY <1>2, <1>3, <1>6, <4>2
      <4>4. core[1] = "export" /\ core[2] = " "
        <5>1. core[1] = raw[k + 1] /\ core[2] = raw[k + 2]
          BY <1>7, <4>3, Zenon
        <5>2. raw[k + 1] = lead[k + 1] /\ raw[k + 2] = lead[k + 2]
          BY <1>1, <4>3, Zenon
        <5> QED
          BY <4>1, <5>1, <5>2, Zenon
      <4> QED
        BY <4>3, <4>4, Zenon DEF IsExport
    <3> QED
      BY <3>1, <3>2
  <2>4. core \in Seq(X) /\ line \in Seq(X)
    BY <1>7, <1>8
  <2> QED
    BY <2>1, <2>2, <2>3, <2>4, Zenon DEF IsCore
<1>12. IsLine(line, name, tail)
  <2>1. Len(line) = n + 2 + Len(tail)
    BY ONLY <1>2, <1>3, <1>6, <1>8, <1>9
  <2>2. ASSUME NEW i \in 1 .. n PROVE line[i] = name[i]
    <3>1. i \in 1 .. e - a
      BY ONLY <1>2, <1>3, i \in 1 .. n
    <3>2. line[i] = raw[a + i]
      BY <1>8, <3>1, Zenon
    <3>3. raw[a + i] = name[i]
      BY <1>1, Zenon
    <3> QED
      BY <3>2, <3>3, Zenon
  <2>3. line[n + 1] = raw[z + 1] /\ line[n + 2] = raw[z + 2]
    <3>1. /\ n + 1 \in 1 .. e - a /\ n + 2 \in 1 .. e - a
          /\ a + (n + 1) = z + 1 /\ a + (n + 2) = z + 2
      BY ONLY <1>2, <1>3
    <3>2. line[n + 1] = raw[a + (n + 1)] /\ line[n + 2] = raw[a + (n + 2)]
      BY <1>8, <3>1, Zenon
    <3> QED
      BY ONLY <3>1, <3>2
  <2>4. ASSUME NEW i \in 1 .. Len(tail) PROVE line[(n + 2) + i] = tail[i]
    <3>1. /\ (n + 2) + i \in 1 .. e - a /\ a + ((n + 2) + i) = (z + 2) + i
          /\ i \in 1 .. e - (z + 2)
      BY ONLY <1>2, <1>3, <1>9, i \in 1 .. Len(tail)
    <3>2. line[(n + 2) + i] = raw[a + ((n + 2) + i)]
      BY <1>8, <3>1, Zenon
    <3>3. tail[i] = raw[(z + 2) + i]
      BY <1>9, <3>1, Zenon
    <3> QED
      BY ONLY <3>1, <3>2, <3>3
  <2> QED
    <3>1. line[n + 1] \in Whitespace \ { "=" } /\ line[n + 2] = "="
      BY <1>1, <2>3, Zenon
    <3>2. IsLine(line, name, tail) =
            /\ Len(line) = n + 2 + Len(tail)
            /\ \A i \in 1 .. n : line[i] = name[i]
            /\ line[n + 1] \in Whitespace \ { "=" } /\ line[n + 2] = "="
            /\ \A i \in 1 .. Len(tail) : line[(n + 2) + i] = tail[i]
      BY ONLY n = Len(name), Zenon DEF IsLine
    <3>3. \A i \in 1 .. n : line[i] = name[i]
      BY ONLY <2>2, Zenon
    <3>4. \A i \in 1 .. Len(tail) : line[(n + 2) + i] = tail[i]
      BY ONLY <2>4, Zenon
    <3> QED
      BY ONLY <2>1, <3>1, <3>2, <3>3, <3>4, Zenon
<1>13. EndsBlack(tail) /\ Trim(tail) = w
  <2>1. CASE w = << >>
    <3>1. e = z + 2
      BY <2>1, Zenon
    <3>2. Len(tail) = 0
      BY ONLY <1>2, <1>9, <3>1
    <3>3. tail = << >>
      BY ONLY <1>9, <3>2, EmptySeq
    <3>4. IsTrimmed(tail)
      BY <3>3, Zenon DEF IsTrimmed
    <3>5. Trim(tail) = tail
      BY <1>9, <3>4, TrimmedKept
    <3> QED
      BY <2>1, <3>3, <3>5, Zenon DEF EndsBlack
  <2>2. CASE w # << >>
    <3>1. e = z + 3 + l
      BY <2>2, Zenon
    <3>2. Len(tail) = 1 + l
      BY ONLY <1>2, <1>9, <3>1
    <3>3. l # 0
      <4>1. w \in Seq(X)
        OBVIOUS
      <4> QED
        BY ONLY <4>1, <2>2, l = Len(w), EmptySeq
    <3>4. tail[1] \in Whitespace
      <4>1. 1 \in 1 .. e - (z + 2) /\ (z + 2) + 1 = z + 3
        BY ONLY <1>2, <3>1
      <4>2. tail[1] = raw[(z + 2) + 1]
        BY <1>9, <4>1, Zenon
      <4>3. tail[1] = raw[z + 3]
        BY ONLY <4>1, <4>2
      <4> QED
        BY <1>1, <4>3, Zenon
    <3>5. ASSUME NEW i \in 1 .. l PROVE tail[1 + i] = w[i]
      <4>1. 1 + i \in 1 .. e - (z + 2) /\ (z + 2) + (1 + i) = (z + 3) + i
        BY ONLY <1>2, <3>1, i \in 1 .. l
      <4>2. tail[1 + i] = raw[(z + 2) + (1 + i)]
        BY <1>9, <4>1, Zenon
      <4>3. raw[(z + 3) + i] = w[i]
        BY <1>1, Zenon
      <4> QED
        BY ONLY <4>1, <4>2, <4>3
    <3>6. CoreAt(X, tail, 1, w)
      <4>1. /\ 1 \in Nat /\ 1 + l <= Len(tail) /\ \A i \in 1 .. 1 : i = 1
            /\ 1 + l + 1 .. Len(tail) = {}
        BY ONLY <1>2, <3>2
      <4>2. /\ \A i \in 1 .. 1 : tail[i] \in Whitespace
            /\ \A i \in 1 + l + 1 .. Len(tail) : tail[i] \in Whitespace
        BY <3>4, <4>1, Zenon
      <4> QED
        BY <1>9, <3>5, <4>1, <4>2, Zenon DEF CoreAt
    <3>7. Trim(tail) = w
      BY <3>6, TrimCore
    <3>8. tail[Len(tail)] \notin Whitespace
      <4>1. l \in 1 .. l
        BY ONLY <1>2, <3>3
      <4>2. w[l] \notin Whitespace
        BY <2>2, Zenon DEF IsTrimmed
      <4> QED
        BY <3>2, <3>5, <4>1, <4>2, Zenon
    <3> QED
      BY <3>7, <3>8, Zenon DEF EndsBlack
  <2> QED
    BY <2>1, <2>2
<1> QED
  BY <1>9, <1>10, <1>11, <1>12, <1>13, Zenon DEF Says

-----------------------------------------------------------------------------
(* A setting that fits its style.                                          *)

\* The symbols of a settings text.
ConfigSymbols ==
    STRING \cup { "\\", "n", "r", "\"", "'", "=", ";", "\n", "\r", "export", " ", "\t" }

\* The symbols of the texts hold every one that a reader looks for.
LEMMA ConfigSymbolsAreText ==
    /\ HasSpecials(ConfigSymbols) /\ STRING \subseteq ConfigSymbols
    /\ Whitespace \subseteq ConfigSymbols
    /\ "=" \in ConfigSymbols /\ ";" \in ConfigSymbols
  BY Zenon DEF HasSpecials, ConfigSymbols, Whitespace

\* A text over strings is one over these symbols.
LEMMA ConfigTextIs ==
    ASSUME NEW t \in Seq(STRING)
    PROVE  t \in Seq(ConfigSymbols) /\ Len(t) \in Nat /\ DOMAIN t = 1 .. Len(t)
<1>1. Len(t) \in Nat /\ t \in [1 .. Len(t) -> STRING] /\ DOMAIN t = 1 .. Len(t)
  BY LenProperties
<1>2. STRING \subseteq ConfigSymbols
  BY ConfigSymbolsAreText, Zenon
<1>3. t \in [1 .. Len(t) -> ConfigSymbols]
  BY <1>1, <1>2
<1>4. t \in Seq(ConfigSymbols)
  <2> DEFINE n == Len(t)
  <2>1. n \in Nat /\ t \in [1 .. n -> ConfigSymbols]
    BY <1>1, <1>3
  <2> HIDE DEF n
  <2> QED
    BY ONLY <2>1, FunctionIsSeq
<1> QED
  BY <1>1, <1>4

\* Of which characters a text has none.
LEMMA HasNone ==
    ASSUME NEW t, DOMAIN t = 1 .. Len(t), NEW S, ToSet(t) \cap S = {}
    PROVE  \A i \in 1 .. Len(t) : t[i] \notin S
  BY Zenon DEF ToSet

\* A value that fits its style is read as it is, and in the inline form it
\* leaves no quote open.
ValueFits(X, w, value, form) ==
    WrittenFor(X, w, value) /\ (form = "inline" => Stays(X, "none", w))

\* A value that fits single quotes.
LEMMA SingleFits ==
    ASSUME NEW s, NEW form, Fits(s, form), s.value \in Seq(STRING), s.style = "single"
    PROVE  ValueFits(ConfigSymbols, Written(s.value, s.style), s.value, form)
<1> PICK v : v = s.value
  OBVIOUS
<1>1. v \in Seq(ConfigSymbols) /\ Len(v) \in Nat /\ DOMAIN v = 1 .. Len(v)
  BY ConfigTextIs
<1>2. /\ ToSet(v) \cap { "\n", "\r" } = {}
      /\ form = "inline" => "'" \notin ToSet(v)
  BY Zenon DEF Fits
<1>3. NoBreaks(v)
  BY <1>1, <1>2, HasNone, Zenon DEF NoBreaks
<1>4. form = "inline" => \A i \in 1 .. Len(v) : v[i] # "'"
  BY <1>1, <1>2, Zenon DEF ToSet
<1>5. /\ WrittenFor(ConfigSymbols, Written(v, "single"), v)
      /\ (\A i \in 1 .. Len(v) : v[i] # "'") =>
            Stays(ConfigSymbols, "none", Written(v, "single"))
  <2>1. HasSpecials(ConfigSymbols)
    BY ConfigSymbolsAreText, Zenon
  <2> QED
    BY <1>1, <1>3, <2>1, SingleWritten
<1> QED
  BY <1>4, <1>5, Zenon DEF ValueFits

\* A value that fits double quotes without an escape.
LEMMA LooseFits ==
    ASSUME NEW s, NEW form, Fits(s, form), s.value \in Seq(STRING), s.style = "loose"
    PROVE  ValueFits(ConfigSymbols, Written(s.value, s.style), s.value, form)
<1> PICK v : v = s.value
  OBVIOUS
<1>1. v \in Seq(ConfigSymbols) /\ Len(v) \in Nat /\ DOMAIN v = 1 .. Len(v)
  BY ConfigTextIs
<1>2. /\ ToSet(v) \cap { "\n", "\r", "\"" } = {}
      /\ \A i \in DOMAIN v : v[i] = "\\" =>
            i < Len(v) /\ v[i + 1] \notin DOMAIN Escapes
  BY Zenon DEF Fits
<1>3. IsLooseValue(v)
  <2>1. \A i \in 1 .. Len(v) : v[i] \notin { "\n", "\r", "\"" }
    BY <1>1, <1>2, HasNone, Zenon
  <2> QED
    BY <1>1, <1>2, <2>1, Zenon DEF IsLooseValue
<1>4. HasSpecials(ConfigSymbols)
  BY ConfigSymbolsAreText, Zenon
<1>5. /\ WrittenFor(ConfigSymbols, Written(v, "loose"), v)
      /\ Stays(ConfigSymbols, "none", Written(v, "loose"))
  BY <1>1, <1>3, <1>4, LooseWritten
<1> QED
  BY <1>5, Zenon DEF ValueFits

\* A value that fits without quotes.
LEMMA PlainFits ==
    ASSUME NEW s, NEW form, Fits(s, form), s.value \in Seq(STRING), s.style = "plain"
    PROVE  ValueFits(ConfigSymbols, Written(s.value, s.style), s.value, form)
<1> PICK v : v = s.value
  OBVIOUS
<1>1. v \in Seq(ConfigSymbols) /\ Len(v) \in Nat /\ DOMAIN v = 1 .. Len(v)
  BY ConfigTextIs
<1>2. /\ ToSet(v) \cap { "\n", "\r" } = {}
      /\ Trim(v) = v
      /\ \A i \in DOMAIN v : v[i] = "#" => i > 1 /\ v[i - 1] \notin Whitespace
      /\ \A q \in { "'", "\"" } : ~Quoted(v, q)
      /\ form = "inline" => ToSet(v) \cap { ";", "'", "\"" } = {}
  BY Zenon DEF Fits
<1>3. NoBreaks(v)
  BY <1>1, <1>2, HasNone, Zenon DEF NoBreaks
<1>4. ~Quoted(v, "'") /\ ~Quoted(v, "\"")
  BY <1>2, Zenon
<1>5. ASSUME NEW i \in 1 .. Len(v) PROVE ~CommentAt(v, i)
  <2>1. v[i] = "#" => i > 1 /\ v[i - 1] \notin Whitespace
    BY <1>1, <1>2, Zenon
  <2>2. i > 1 => i # 1
    BY ONLY i \in 1 .. Len(v)
  <2> QED
    BY <2>1, <2>2, Zenon DEF CommentAt
<1>6. form = "inline" => \A i \in 1 .. Len(v) : v[i] \notin { ";", "'", "\"" }
  BY <1>1, <1>2, HasNone, Zenon
<1>7. /\ WrittenFor(ConfigSymbols, Written(v, "plain"), v)
      /\ (\A i \in 1 .. Len(v) : v[i] \notin { ";", "'", "\"" }) =>
            Stays(ConfigSymbols, "none", Written(v, "plain"))
  <2>1. Trim(v) = v
    BY <1>2, Zenon
  <2> QED
    BY <1>1, <1>3, <1>4, <1>5, <2>1, PlainWritten, Zenon
<1> QED
  BY <1>6, <1>7, Zenon DEF ValueFits

\* A value that fits its style is read as what it was.
LEMMA FittingWritten ==
    ASSUME NEW s, NEW form, Fits(s, form), IsSetting(s)
    PROVE  ValueFits(ConfigSymbols, Written(s.value, s.style), s.value, form)
<1>1. s.value \in Seq(STRING) /\ s.style \in { "double", "single", "loose", "plain" }
  BY Zenon DEF IsSetting
<1>2. CASE s.style = "double"
  <2>1. s.value \in Seq(ConfigSymbols) /\ HasSpecials(ConfigSymbols)
    BY <1>1, ConfigTextIs, ConfigSymbolsAreText, Zenon
  <2>2. /\ WrittenFor(ConfigSymbols, Written(s.value, "double"), s.value)
        /\ Stays(ConfigSymbols, "none", Written(s.value, "double"))
    BY <2>1, DoubleWritten
  <2> QED
    BY <1>2, <2>2, Zenon DEF ValueFits
<1>3. CASE s.style = "single"
  BY <1>1, <1>3, SingleFits
<1>4. CASE s.style = "loose"
  BY <1>1, <1>4, LooseFits
<1>5. CASE s.style = "plain"
  BY <1>1, <1>5, PlainFits
<1> QED
  BY <1>1, <1>2, <1>3, <1>4, <1>5, Zenon

-----------------------------------------------------------------------------
(* The text of a setting.                                                  *)

\* The parts of a pair.
LEMMA OfTwo ==
    ASSUME NEW x, NEW y, NEW r, r = << x, y >>
    PROVE  Len(r) = 2 /\ r[1] = x /\ r[2] = y
  OBVIOUS

\* The parts of a triple.
LEMMA OfThree ==
    ASSUME NEW X, NEW x \in X, NEW y \in X, NEW z \in X, NEW r, r = << x, y, z >>
    PROVE  r \in Seq(X) /\ Len(r) = 3 /\ r[1] = x /\ r[2] = y /\ r[3] = z
  OBVIOUS

\* A lead is blanks, and perhaps "export " behind them.
LEMMA LeadStands ==
    ASSUME NEW lead, IsLead(lead)
    PROVE  /\ lead \in Seq(ConfigSymbols) /\ Len(lead) \in Nat
           /\ \E k : LeadsAt(lead, k) /\ \A i \in 1 .. k : lead[i] \in Blanks
<1>1. lead \in Seq(STRING)
  BY Zenon DEF IsLead
<1>2. PICK n \in 0 .. Len(lead) :
        /\ \A i \in 1 .. n : lead[i] \in Blanks
        /\ Rest(lead, n) \in { << >>, << "export", " " >> }
  BY Zenon DEF IsLead
<1>3. \A i \in 1 .. n : lead[i] \in Whitespace
  BY <1>2, Zenon DEF Blanks, Whitespace
<1> PICK r, d : r = Rest(lead, n) /\ d = " "
  OBVIOUS
<1>4. r \in { << >>, << "export", d >> }
  BY <1>2, Zenon
<1>5. Len(r) = Len(lead) - n /\ \A i \in 1 .. Len(lead) - n : r[i] = lead[n + i]
  <2>1. /\ Rest(lead, n) \in Seq(STRING) /\ Len(Rest(lead, n)) = Len(lead) - n
        /\ \A i \in 1 .. Len(lead) - n : Rest(lead, n)[i] = lead[n + i]
    <3>1. n \in 0 .. Len(lead)
      OBVIOUS
    <3> QED
      BY ONLY <1>1, <3>1, RestFacts
  <2> QED
    BY <2>1, Zenon
<1>6. lead \in Seq(ConfigSymbols) /\ Len(lead) \in Nat
  BY <1>1, ConfigTextIs
<1>7. Len(lead) = n \/ (Len(lead) = n + 2 /\ lead[n + 1] = "export" /\ lead[n + 2] = d)
  <2>0. n \in 0 .. Len(lead)
    OBVIOUS
  <2>3. Len(lead) \in Nat
    BY <1>6, Zenon
  <2>1. CASE r = << >>
    <3>1. Len(r) = 0
      BY ONLY <2>1
    <3> QED
      BY ONLY <1>5, <2>0, <2>3, <3>1
  <2>2. CASE r = << "export", d >>
    <3>1. Len(r) = 2 /\ r[1] = "export" /\ r[2] = d
      BY ONLY <2>2, OfTwo
    <3>2. Len(lead) = n + 2 /\ 1 \in 1 .. Len(lead) - n /\ 2 \in 1 .. Len(lead) - n
      <4>1. Len(r) = Len(lead) - n /\ Len(r) = 2
        BY <1>5, <3>1, Zenon
      <4>2. Len(lead) - n = 2 /\ n \in Int /\ Len(lead) \in Int
        <5>1. Len(lead) - n = 2
          BY <4>1, Zenon
        <5> QED
          BY ONLY <2>0, <2>3, <5>1
      <4>3. 1 \in 1 .. 2 /\ 2 \in 1 .. 2
        BY ONLY <4>2
      <4>4. Len(lead) = n + 2
        BY ONLY <4>2
      <4> QED
        BY <4>2, <4>3, <4>4, Zenon
    <3> QED
      BY <1>5, <3>1, <3>2, Zenon
  <2> QED
    BY <1>4, <2>1, <2>2, Zenon
<1>8. LeadsAt(lead, n)
  BY <1>3, <1>7, Zenon DEF LeadsAt
<1> QED
  BY <1>2, <1>6, <1>8, Zenon

\* What every reader finds in the text of a setting.
ReadsAs(X, raw, name, value) ==
    /\ raw \in Seq(X) /\ NoBreaks(raw) /\ name \in Seq(X) /\ IsProper(name)
    /\ \E w : Says(X, raw, name, w) /\ ParseValue(w) = value

\* A symbol that no reader looks for outside a value.
IsCalm(c) == c \notin { "\n", "\r", ";", "'", "\"", "BOM" }

AllCalm(t) == \A i \in 1 .. Len(t) : IsCalm(t[i])

\* A text without quotes, separators and breaks leaves the scan where it was.
LEMMA CalmStays ==
    ASSUME NEW X, NEW t \in Seq(X), AllCalm(t)
    PROVE  NoBreaks(t) /\ Stays(X, "none", t)
<1>1. ASSUME NEW i \in 1 .. Len(t)
      PROVE  IsQuiet("none", t[i]) /\ t[i] \notin { "\n", "\r" }
  BY Zenon DEF AllCalm, IsCalm, IsQuiet
<1>2. NoBreaks(t)
  BY <1>1, Zenon DEF NoBreaks
<1>3. \A i \in 1 .. Len(t) : IsQuiet("none", t[i])
  BY <1>1, Zenon
<1> QED
  BY ONLY <1>2, <1>3, t \in Seq(X), QuietStays

\* Two such texts make one.
LEMMA CalmBehind ==
    ASSUME NEW X, NEW a \in Seq(X), AllCalm(a), NEW b \in Seq(X), AllCalm(b)
    PROVE  AllCalm(a \o b) /\ a \o b \in Seq(X)
<1>1. /\ a \o b \in Seq(X) /\ Len(a \o b) = Len(a) + Len(b)
      /\ Len(a) \in Nat /\ Len(b) \in Nat
      /\ \A i \in 1 .. Len(a) : (a \o b)[i] = a[i]
      /\ \A i \in 1 .. Len(b) : (a \o b)[Len(a) + i] = b[i]
  BY ConcatFacts
<1>2. ASSUME NEW i \in 1 .. Len(a \o b) PROVE IsCalm((a \o b)[i])
  <2>1. CASE i \in 1 .. Len(a)
    BY <1>1, <2>1, Zenon DEF AllCalm
  <2>2. CASE i \notin 1 .. Len(a)
    <3>1. i - Len(a) \in 1 .. Len(b) /\ Len(a) + (i - Len(a)) = i
      BY <1>1, <2>2
    <3>2. (a \o b)[Len(a) + (i - Len(a))] = b[i - Len(a)]
      BY <1>1, <3>1, Zenon
    <3>3. IsCalm(b[i - Len(a)])
      BY <3>1, Zenon DEF AllCalm
    <3> QED
      BY <3>1, <3>2, <3>3, Zenon
  <2> QED
    BY <2>1, <2>2
<1> QED
  BY <1>1, <1>2, Zenon DEF AllCalm

\* The blanks and the equals sign between them.
LEMMA MiddleStands ==
    ASSUME NEW m, m = << " ", "=", " " >>
    PROVE  m \in Seq(ConfigSymbols) /\ IsMiddle(m) /\ AllCalm(m)
<1> PICK d, e, X : d = " " /\ e = "=" /\ X = ConfigSymbols
  OBVIOUS
<1>1. d \in X /\ e \in X /\ m = << d, e, d >>
  BY Zenon DEF ConfigSymbols
<1>2. m \in Seq(X) /\ Len(m) = 3 /\ m[1] = d /\ m[2] = e /\ m[3] = d
  BY ONLY <1>1, OfThree
<1>3. d \in Whitespace \ { "=" } /\ e = "="
  BY Zenon DEF Whitespace
<1>4. IsMiddle(m)
  BY <1>2, <1>3, Zenon DEF IsMiddle
<1>5. ASSUME NEW i \in 1 .. Len(m) PROVE IsCalm(m[i])
  <2>1. i = 1 \/ i = 2 \/ i = 3
    <3>1. Len(m) = 3 /\ i \in 1 .. Len(m)
      BY <1>2, Zenon
    <3> QED
      BY ONLY <3>1
  <2>2. IsCalm(d) /\ IsCalm(e)
    BY Zenon DEF IsCalm
  <2> QED
    BY <1>2, <2>1, <2>2, Zenon
<1> QED
  BY <1>2, <1>4, <1>5, Zenon DEF AllCalm

\* What stands before a key is such a text.
LEMMA LeadCalm ==
    ASSUME NEW X, NEW lead \in Seq(X), NEW k, LeadsAt(lead, k),
           \A i \in 1 .. k : lead[i] \in Blanks
    PROVE  AllCalm(lead)
<1>1. /\ k \in 0 .. Len(lead) /\ \A j \in 1 .. k : IsCalm(lead[j])
      /\ \/ Len(lead) = k
         \/ Len(lead) = k + 2 /\ IsCalm(lead[k + 1]) /\ IsCalm(lead[k + 2])
  BY Zenon DEF LeadsAt, Blanks, IsCalm
<1>2. Len(lead) = k \/ Len(lead) = k + 2
  BY <1>1, Zenon
<1>3. ASSUME NEW i \in 1 .. Len(lead) PROVE IsCalm(lead[i])
  <2>0. k \in 0 .. Len(lead) /\ i \in 1 .. Len(lead) /\ Len(lead) \in Nat
    BY <1>1, LenProperties, Zenon
  <2>1. i \in 1 .. k \/ (Len(lead) = k + 2 /\ (i = k + 1 \/ i = k + 2))
    BY ONLY <1>2, <2>0
  <2>2. CASE i \in 1 .. k
    BY <1>1, <2>2, Zenon
  <2>3. CASE Len(lead) = k + 2 /\ (i = k + 1 \/ i = k + 2)
    <3>1. Len(lead) # k
      <4>1. k \in 0 .. Len(lead) /\ Len(lead) = k + 2
        BY <2>0, <2>3, Zenon
      <4> QED
        BY ONLY <2>0, <4>1
    <3> QED
      BY <1>1, <2>3, <3>1, Zenon
  <2> QED
    BY <2>1, <2>2, <2>3, Zenon
<1> QED
  BY <1>3, Zenon DEF AllCalm

\* A key is such a text, and a proper one.
LEMMA NameStands ==
    ASSUME NEW name, IsName(name)
    PROVE  name \in Seq(ConfigSymbols) /\ IsProper(name) /\ AllCalm(name)
<1>1. /\ name \in Seq(STRING) /\ name # << >>
      /\ \A i \in DOMAIN name :
          name[i] \notin Whitespace \cup { "=", "#", ";", "'", "\"", "export", "BOM" }
  BY Zenon DEF IsName
<1>2. name \in Seq(ConfigSymbols) /\ DOMAIN name = 1 .. Len(name)
  BY <1>1, ConfigTextIs
<1>3. IsProper(name)
  BY <1>1, <1>2, Zenon DEF IsProper
<1>4. AllCalm(name)
  BY <1>1, <1>2, Zenon DEF AllCalm, IsCalm, Whitespace
<1> QED
  BY <1>2, <1>3, <1>4, Zenon

\* The text that a setting in a file or in a string is.
IsSettingText(raw, name, value, form) ==
    /\ ReadsAs(ConfigSymbols, raw, name, value)
    /\ form = "inline" => Stays(ConfigSymbols, "none", raw)
    /\ Len(raw) \in Nat /\ Len(raw) # 0 /\ IsCalm(raw[1])

\* A setting is read as its key and its value.
LEMMA SettingReads ==
    ASSUME NEW s, IsSetting(s), NEW form, Fits(s, form)
    PROVE  IsSettingText(Setting(s), s.name, s.value, form)
<1> PICK X, m, w, raw, lead, name, value :
        /\ X = ConfigSymbols /\ m = << " ", "=", " " >>
        /\ w = Written(s.value, s.style) /\ raw = Setting(s)
        /\ lead = s.lead /\ name = s.name /\ value = s.value
  OBVIOUS
<1>1. IsLead(lead) /\ IsName(name)
  BY Zenon DEF IsSetting
<1>2. PICK k : LeadsAt(lead, k) /\ \A i \in 1 .. k : lead[i] \in Blanks
  BY <1>1, LeadStands, Zenon
<1>3. lead \in Seq(X) /\ Len(lead) \in Nat
  BY <1>1, LeadStands, Zenon
<1>4. AllCalm(lead)
  BY <1>2, <1>3, LeadCalm, Zenon
<1>5. name \in Seq(X) /\ IsProper(name) /\ AllCalm(name)
  BY <1>1, NameStands, Zenon
<1>6. m \in Seq(X) /\ IsMiddle(m) /\ AllCalm(m)
  BY MiddleStands, Zenon
<1>7. WrittenFor(X, w, value) /\ (form = "inline" => Stays(X, "none", w))
  BY FittingWritten, Zenon DEF ValueFits
<1>8. w \in Seq(X) /\ NoBreaks(w) /\ IsTrimmed(w) /\ ParseValue(w) = value
  BY <1>7, Zenon DEF WrittenFor
<1> PICK b, h : b = lead \o name /\ h = b \o m
  OBVIOUS
<1>9. raw = h \o w /\ raw = ((lead \o name) \o m) \o w
  BY Zenon DEF Setting
<1>10. AllCalm(b) /\ b \in Seq(X)
  BY <1>3, <1>4, <1>5, CalmBehind, Zenon
<1>11. AllCalm(h) /\ h \in Seq(X)
  BY <1>6, <1>10, CalmBehind, Zenon
<1>12. NoBreaks(h) /\ Stays(X, "none", h)
  BY <1>11, CalmStays, Zenon
<1>13. NoBreaks(raw)
  BY <1>8, <1>9, <1>11, <1>12, NoBreaksBehind, Zenon
<1>14. form = "inline" => Stays(X, "none", raw)
  BY <1>7, <1>8, <1>9, <1>11, <1>12, StaysBehind, Zenon
<1>15. PartsAt(X, raw, lead, name, w)
  BY <1>3, <1>5, <1>6, <1>8, <1>9, SettingParts, Zenon
<1>16. Says(X, raw, name, w)
  BY <1>2, <1>3, <1>5, <1>8, <1>15, SettingSays, Zenon
<1>17. raw \in Seq(X)
  BY <1>15, Zenon DEF PartsAt
<1>18. Len(raw) \in Nat /\ Len(raw) # 0 /\ IsCalm(raw[1])
  <2>1. /\ Len(h \o w) = Len(h) + Len(w) /\ Len(h) \in Nat /\ Len(w) \in Nat
        /\ \A i \in 1 .. Len(h) : (h \o w)[i] = h[i]
    BY ONLY <1>8, <1>11, ConcatFacts
  <2>2. Len(b \o m) = Len(b) + Len(m) /\ Len(b) \in Nat
    BY ONLY <1>6, <1>10, ConcatFacts
  <2>3. Len(m) = 3
    BY <1>6, Zenon DEF IsMiddle
  <2>4. Len(h) = Len(b) + 3
    BY <2>2, <2>3, Zenon
  <2>5. 1 \in 1 .. Len(h) /\ Len(h) + Len(w) \in Nat /\ Len(h) + Len(w) # 0
    BY ONLY <2>1, <2>2, <2>4
  <2>6. raw[1] = h[1] /\ IsCalm(h[1])
    <3>1. (h \o w)[1] = h[1]
      BY <2>1, <2>5, Zenon
    <3>2. raw[1] = h[1]
      BY <1>9, <3>1, Zenon
    <3>3. IsCalm(h[1])
      BY <1>11, <2>5, Zenon DEF AllCalm
    <3> QED
      BY <3>2, <3>3, Zenon
  <2> QED
    BY <1>9, <2>1, <2>5, <2>6, Zenon
<1>19. ReadsAs(X, raw, name, value)
  BY <1>5, <1>8, <1>13, <1>16, <1>17, Zenon DEF ReadsAs
<1> QED
  BY <1>14, <1>18, <1>19, Zenon DEF IsSettingText

\* A piece of text that says a key is a value sets it.
LEMMA SettingRead ==
    ASSUME NEW X, NEW raw, NEW name, NEW value, ReadsAs(X, raw, name, value)
    PROVE  ParseLine(raw) = << << NormalizeKey(name), value >> >>
<1>1. /\ raw \in Seq(X) /\ NoBreaks(raw) /\ name \in Seq(X) /\ IsProper(name)
      /\ \E w : Says(X, raw, name, w) /\ ParseValue(w) = value
  BY Zenon DEF ReadsAs
<1>2. PICK w : Says(X, raw, name, w) /\ ParseValue(w) = value
  BY <1>1, Zenon
<1>3. ParseLine(raw) = << << NormalizeKey(name), ParseValue(w) >> >>
  BY <1>1, <1>2, SaidRead, Zenon
<1> QED
  BY <1>2, <1>3, Zenon

\* Two sequences of one make one of two.
LEMMA TwoTogether == ASSUME NEW p, NEW q PROVE << p >> \o << q >> = << p, q >>
<1> DEFINE X == { p, q }
           a == << p >>
           b == << q >>
           c == << p, q >>
<1>1. a \in Seq(X) /\ b \in Seq(X) /\ Len(a) = 1 /\ Len(b) = 1 /\ a[1] = p /\ b[1] = q
  OBVIOUS
<1>2. c \in Seq(X) /\ Len(c) = 2 /\ c[1] = p /\ c[2] = q
  OBVIOUS
<1> HIDE DEF X, a, b, c
<1>3. /\ a \o b \in Seq(X) /\ Len(a \o b) = Len(a) + Len(b)
      /\ \A i \in 1 .. Len(a) : (a \o b)[i] = a[i]
      /\ \A i \in 1 .. Len(b) : (a \o b)[Len(a) + i] = b[i]
  BY ONLY <1>1, ConcatFacts
<1>4. Len(a \o b) = 2 /\ (a \o b)[1] = p /\ (a \o b)[2] = q
  BY <1>1, <1>3
<1>5. \A i \in 1 .. 2 : i = 1 \/ i = 2
  OBVIOUS
<1>6. a \o b = c
  <2>1. \A i \in 1 .. Len(a \o b) : (a \o b)[i] = c[i]
    BY <1>2, <1>4, <1>5, Zenon
  <2> QED
    BY ONLY <1>2, <1>3, <1>4, <2>1, SeqEqual
<1> QED
  BY <1>6 DEF a, b, c

\* Two statements that set a key each.
LEMMA StatementsOfTwo ==
    ASSUME NEW pieces, DOMAIN pieces = 1 .. 2, NEW p, NEW q,
           ParseLine(pieces[1]) = << p >>, ParseLine(pieces[2]) = << q >>
    PROVE  Statements(pieces) = Table(<< p, q >>)
<1> DEFINE X == { p, q }
           ss == [i \in DOMAIN pieces |-> ParseLine(pieces[i])]
           tt == << << p >>, << q >> >>
<1>1. tt \in Seq(Seq(X)) /\ Len(tt) = 2 /\ tt[1] = << p >> /\ tt[2] = << q >>
  OBVIOUS
<1>2. ss = tt
  <2>1. ss = [i \in 1 .. 2 |-> ParseLine(pieces[i])]
    BY Zenon
  <2>2. ss[1] = << p >> /\ ss[2] = << q >>
    <3>1. 1 \in DOMAIN pieces /\ 2 \in DOMAIN pieces
      OBVIOUS
    <3> QED
      BY <3>1, Zenon
  <2> HIDE DEF ss
  <2>3. DOMAIN ss = 1 .. 2
    BY <2>1
  <2>4. ss = << ss[1], ss[2] >>
    <3>1. \A i \in 1 .. 2 : i = 1 \/ i = 2
      OBVIOUS
    <3> QED
      BY <2>1, <3>1
  <2> QED
    BY <2>2, <2>4, Zenon
<1>3. PICK f : Joins(f, tt, X) /\ FlattenSeq(tt) = f[Len(tt)]
  BY <1>1, FlattenJoins
<1>4. f[0] = << >> /\ \A i \in 1 .. Len(tt) : f[i] = f[i - 1] \o tt[i]
  BY <1>3, Zenon DEF Joins
<1>5. f[2] = << p, q >>
  <2>1. f[1] = f[0] \o tt[1] /\ f[2] = f[1] \o tt[2]
    <3>1. 1 \in 1 .. Len(tt) /\ 2 \in 1 .. Len(tt) /\ 1 - 1 = 0 /\ 2 - 1 = 1
      BY ONLY <1>1
    <3>2. f[1] = f[1 - 1] \o tt[1] /\ f[2] = f[2 - 1] \o tt[2]
      BY <1>4, <3>1, Zenon
    <3> QED
      BY <3>1, <3>2, Zenon
  <2>2. f[1] = << p >>
    BY <1>1, <1>4, <2>1
  <2>3. f[2] = << p >> \o << q >>
    BY <1>1, <2>1, <2>2, Zenon
  <2> QED
    BY <2>3, TwoTogether, Zenon
<1>6. FlattenSeq(ss) = << p, q >>
  BY <1>1, <1>2, <1>3, <1>5, Zenon
<1>7. Statements(pieces) = Table(FlattenSeq(ss))
  BY Zenon DEF Statements
<1> QED
  BY <1>6, <1>7, Zenon

-----------------------------------------------------------------------------
(* The lines of a settings file.                                           *)

\* The lines that have ended, and the one that has not.
BrokenTo(X, text, s, c) ==
    /\ text \in Seq(X) /\ s \in Seq(Seq(X)) /\ c \in Seq(X)
    /\ Broken(text) = Append(s, c)

\* Nothing has no line and no rest.
LEMMA BrokenAtFirst == ASSUME NEW X PROVE BrokenTo(X, << >>, << >>, << >>)
<1>1. << >> \in Seq(X) /\ << >> \in Seq(Seq(X))
  BY EmptySeq
<1>2. Broken(<< >>) = Append(<< >>, << >>)
  BY BrokenNothing
<1> QED
  BY <1>1, <1>2, Zenon DEF BrokenTo

\* A character that breaks no line goes to the rest.
LEMMA BrokenSymbol ==
    ASSUME NEW X, NEW text, NEW s, NEW c, BrokenTo(X, text, s, c), NEW x \in X, x # "\n"
    PROVE  BrokenTo(X, Append(text, x), s, Append(c, x))
<1>1. /\ text \in Seq(X) /\ s \in Seq(Seq(X)) /\ c \in Seq(X)
      /\ Broken(text) = Append(s, c)
  BY Zenon DEF BrokenTo
<1>2. Append(text, x) \in Seq(X) /\ Append(c, x) \in Seq(X)
  BY <1>1, AppendProperties
<1>3. Broken(Append(text, x)) = Append(Front(Broken(text)), Append(Last(Broken(text)), x))
  BY ONLY <1>1, x \in X, x # "\n", BrokenAppend
<1>4. Front(Append(s, c)) = s /\ Last(Append(s, c)) = c
  BY ONLY <1>1, OfAppended
<1>5. Broken(Append(text, x)) = Append(s, Append(c, x))
  BY <1>1, <1>3, <1>4, Zenon
<1> QED
  BY <1>1, <1>2, <1>5, Zenon DEF BrokenTo

\* A line break ends the rest, and makes a line of it.
LEMMA BrokenBreak ==
    ASSUME NEW X, NEW text, NEW s, NEW c, BrokenTo(X, text, s, c), NEW x \in X, x = "\n"
    PROVE  BrokenTo(X, Append(text, x), Append(s, c), << >>)
<1>1. /\ text \in Seq(X) /\ s \in Seq(Seq(X)) /\ c \in Seq(X)
      /\ Broken(text) = Append(s, c)
  BY Zenon DEF BrokenTo
<1>2. Append(text, x) \in Seq(X) /\ Append(s, c) \in Seq(Seq(X)) /\ << >> \in Seq(X)
  BY <1>1, AppendProperties, EmptySeq
<1>3. Broken(Append(text, x)) = Append(Broken(text), << >>)
  BY ONLY <1>1, x \in X, x = "\n", BrokenAppend
<1> QED
  BY <1>1, <1>2, <1>3, Zenon DEF BrokenTo

\* Without a line break the last line goes on.
LEMMA BrokenRun ==
    ASSUME NEW X, NEW text, NEW s, NEW c, BrokenTo(X, text, s, c),
           NEW w \in Seq(X), NoBreaks(w)
    PROVE  BrokenTo(X, text \o w, s, c \o w)
<1> DEFINE n == Len(w)
           T == { k \in Nat : k <= n =>
                     BrokenTo(X, text \o Cut(w, k), s, c \o Cut(w, k)) }
<1>0. n \in Nat /\ text \in Seq(X) /\ c \in Seq(X)
  BY LenProperties DEF BrokenTo
<1>1. 0 \in T
  <2>1. Cut(w, 0) = << >>
    BY <1>0, CutFacts, EmptySeq
  <2>2. text \o << >> = text /\ c \o << >> = c
    BY <1>0, ConcatEmptySeq
  <2>3. 0 \in Nat /\ BrokenTo(X, text \o Cut(w, 0), s, c \o Cut(w, 0))
    BY <2>1, <2>2
  <2> QED
    BY <2>3, Zenon
<1>2. ASSUME NEW k \in T PROVE k + 1 \in T
  <2> k \in Nat /\ k + 1 \in Nat
    OBVIOUS
  <2> SUFFICES ASSUME k + 1 <= n
               PROVE  BrokenTo(X, text \o Cut(w, k + 1), s, c \o Cut(w, k + 1))
    OBVIOUS
  <2> PICK u, x : u = Cut(w, k) /\ x = w[k + 1]
    OBVIOUS
  <2>1. k \in 0 .. n /\ k # n /\ k + 1 \in 1 .. n /\ k <= n
    BY <1>0
  <2>2. Cut(w, k + 1) = Append(u, x) /\ u \in Seq(X) /\ x \in X
    BY <2>1, CutNext, CutFacts, ElementOfSeq
  <2>3. x # "\n"
    BY <2>1, Zenon DEF NoBreaks
  <2>4. BrokenTo(X, text \o u, s, c \o u)
    BY <1>2, <2>1
  <2>5. BrokenTo(X, Append(text \o u, x), s, Append(c \o u, x))
    BY <2>2, <2>3, <2>4, BrokenSymbol
  <2>6. text \o Append(u, x) = Append(text \o u, x)
    BY ONLY <1>0, <2>2, BehindAppend, SMTT(20)
  <2>7. c \o Append(u, x) = Append(c \o u, x)
    BY ONLY <1>0, <2>2, BehindAppend, SMTT(20)
  <2> QED
    BY <2>2, <2>5, <2>6, <2>7, Zenon
<1>3. T = Nat
  <2> HIDE DEF T
  <2>1. T \in SUBSET Nat
    BY DEF T
  <2> QED
    BY <1>1, <1>2, <2>1, NumbersInduction
<1>4. BrokenTo(X, text \o Cut(w, n), s, c \o Cut(w, n))
  BY <1>0, <1>3
<1>5. Cut(w, n) = w
  BY CutWhole
<1> QED
  BY <1>4, <1>5, Zenon

\* Both settings are lines of their own, however the first of them ends.
LEMMA FirstLine ==
    ASSUME NEW X, "\n" \in X, "\r" \in X, NEW a \in Seq(X), NoBreaks(a),
           NEW break \in { << "\n" >>, << "\r", "\n" >> }
    PROVE  \E c \in Seq(X) : /\ BrokenTo(X, a \o break, Append(<< >>, c), << >>)
                             /\ WithoutSuffix(c, "\r") = a
<1> PICK e, d : e = "\n" /\ d = "\r"
  OBVIOUS
<1>0. e \in X /\ d \in X /\ d # "\n"
  BY Zenon
<1>1. BrokenTo(X, << >> \o a, << >>, << >> \o a)
  BY BrokenAtFirst, BrokenRun
<1>2. << >> \o a = a
  BY ConcatEmptySeq
<1>3. BrokenTo(X, a, << >>, a)
  BY <1>1, <1>2, Zenon
<1>4. break = << e >> \/ break = << d, e >>
  BY Zenon
<1>5. CASE break = << e >>
  <2>1. a \o << e >> = Append(a, e)
    BY ONLY <1>0, a \in Seq(X), AppendIsConcat
  <2>2. BrokenTo(X, Append(a, e), Append(<< >>, a), << >>)
    BY <1>0, <1>3, BrokenBreak
  <2>3. WithoutSuffix(a, "\r") = a
    BY NothingStripped
  <2> QED
    BY <1>5, <2>1, <2>2, <2>3, Zenon
<1>6. CASE break = << d, e >>
  <2>1. a \o << d, e >> = Append(Append(a, d), e) /\ Append(a, d) \in Seq(X)
    BY ONLY <1>0, a \in Seq(X), TwoBehind
  <2>2. BrokenTo(X, Append(a, d), << >>, Append(a, d))
    BY <1>0, <1>3, BrokenSymbol
  <2>3. BrokenTo(X, Append(Append(a, d), e), Append(<< >>, Append(a, d)), << >>)
    BY <1>0, <2>2, BrokenBreak
  <2>4. WithoutSuffix(Append(a, d), "\r") = a
    <3>1. Front(Append(a, d)) = a /\ Last(Append(a, d)) = d
      BY ONLY <1>0, a \in Seq(X), OfAppended
    <3>2. Append(a, d) # << >>
      <4>1. Len(Append(a, d)) = Len(a) + 1 /\ Len(a) \in Nat
        BY ONLY <1>0, a \in Seq(X), AppendProperties, LenProperties
      <4>2. Len(<< >>) = 0
        BY ONLY <4>1
      <4>3. Len(Append(a, d)) # Len(<< >>)
        BY ONLY <4>1, <4>2
      <4> QED
        BY <4>3, Zenon
    <3> QED
      BY <3>1, <3>2, Zenon DEF WithoutSuffix
  <2> QED
    BY <1>6, <2>1, <2>3, <2>4, Zenon
<1> QED
  BY <1>4, <1>5, <1>6, Zenon

AreLines(lines, c, d) ==
    /\ DOMAIN lines = 1 .. 2
    /\ lines[1] = WithoutSuffix(c, "\r") /\ lines[2] = WithoutSuffix(d, "\r")

\* Two lines that have ended are what Lines gives.
LEMMA TwoLines ==
    ASSUME NEW X, NEW c \in Seq(X), NEW d \in Seq(X), NEW text,
           BrokenTo(X, text, Append(Append(<< >>, c), d), << >>)
    PROVE  AreLines(Lines(text), c, d)
<1> PICK s, pieces, r :
        s = Append(Append(<< >>, c), d) /\ pieces = Broken(text) /\ r = "\r"
  OBVIOUS
<1>1. pieces = Append(s, << >>) /\ s \in Seq(Seq(X)) /\ << >> \in Seq(X)
  BY Zenon DEF BrokenTo
<1>2. Len(s) = 2 /\ s[1] = c /\ s[2] = d /\ DOMAIN s = 1 .. 2
  <2> PICK y : y = Append(<< >>, c)
    OBVIOUS
  <2>1. y \in Seq(Seq(X)) /\ Len(y) = 1 /\ y[1] = c
    <3>1. << >> \in Seq(Seq(X)) /\ Len(<< >>) = 0
      BY ONLY c \in Seq(X)
    <3>2. /\ Append(<< >>, c) \in Seq(Seq(X)) /\ Len(Append(<< >>, c)) = Len(<< >>) + 1
          /\ Append(<< >>, c)[Len(<< >>) + 1] = c
      BY ONLY <3>1, c \in Seq(X), AppendProperties
    <3>3. Len(<< >>) + 1 = 1
      BY ONLY <3>1
    <3> QED
      BY <3>2, <3>3, Zenon
  <2>2. /\ Append(y, d) \in Seq(Seq(X)) /\ Len(Append(y, d)) = Len(y) + 1
        /\ Append(y, d)[Len(y) + 1] = d
        /\ \A i \in 1 .. Len(y) : Append(y, d)[i] = y[i]
    <3>1. y \in Seq(Seq(X)) /\ d \in Seq(X)
      BY <2>1, Zenon
    <3> QED
      BY ONLY <3>1, AppendProperties
  <2>3. Len(Append(y, d)) = 2 /\ Len(y) + 1 = 2 /\ 1 \in 1 .. Len(y)
    BY ONLY <2>1, <2>2
  <2>4. Len(s) = 2 /\ s[1] = c /\ s[2] = d
    BY <2>1, <2>2, <2>3, Zenon
  <2>5. DOMAIN s = 1 .. Len(s)
    BY ONLY <1>1, LenProperties
  <2> QED
    BY <2>4, <2>5, Zenon
<1>3. Front(pieces) = s /\ Last(pieces) = << >>
  <2>1. Front(Append(s, << >>)) = s /\ Last(Append(s, << >>)) = << >>
    BY ONLY <1>1, OfAppended
  <2> QED
    BY <1>1, <2>1, Zenon
<1>4. Len(pieces) = 3
  <2>1. Len(Append(s, << >>)) = Len(s) + 1
    BY ONLY <1>1, AppendProperties
  <2>2. Len(s) + 1 = 3
    BY ONLY <1>2
  <2> QED
    BY <1>1, <2>1, <2>2, Zenon
<1>5. Lines(text) = [i \in DOMAIN s |-> IF i < Len(pieces) THEN WithoutSuffix(s[i], r) ELSE s[i]]
  BY <1>3, Zenon DEF Lines, Broken
<1>6. 1 \in 1 .. 2 /\ 2 \in 1 .. 2 /\ 1 < 3 /\ 2 < 3
  BY ONLY <1>2
<1> QED
  BY <1>2, <1>4, <1>5, <1>6, Zenon DEF AreLines

MeantSettings(a, u, b, v) ==
    Table(<< << NormalizeKey(a), u >>, << NormalizeKey(b), v >> >>)

FileSays(p, break, q, meant) == Parse(((p \o break) \o q) \o << "\n" >>) = meant

\* What a file of two settings says.
LEMMA FileOfTwo ==
    ASSUME NEW p, NEW a, NEW u, IsSettingText(p, a, u, "file"),
           NEW q, NEW b, NEW v, IsSettingText(q, b, v, "file"),
           NEW break, IsBreak(break, "file")
    PROVE  FileSays(p, break, q, MeantSettings(a, u, b, v))
<1> PICK X, e, text :
        X = ConfigSymbols /\ e = "\n" /\ text = ((p \o break) \o q) \o << "\n" >>
  OBVIOUS
<1>0. break \in { << "\n" >>, << "\r", "\n" >> }
  BY Zenon DEF IsBreak
<1>1. /\ ReadsAs(X, p, a, u) /\ ReadsAs(X, q, b, v)
      /\ Len(p) \in Nat /\ Len(p) # 0 /\ IsCalm(p[1])
  BY Zenon DEF IsSettingText
<1>2. p \in Seq(X) /\ NoBreaks(p) /\ q \in Seq(X) /\ NoBreaks(q)
  BY <1>1, Zenon DEF ReadsAs
<1>3. e \in X /\ "\n" \in X /\ "\r" \in X
  BY Zenon DEF ConfigSymbols
<1>4. PICK c \in Seq(X) : /\ BrokenTo(X, p \o break, Append(<< >>, c), << >>)
                          /\ WithoutSuffix(c, "\r") = p
  BY <1>0, <1>2, <1>3, FirstLine, Zenon
<1> PICK h, t : h = p \o break /\ t = h \o q
  OBVIOUS
<1>5. BrokenTo(X, t, Append(<< >>, c), q)
  <2>1. BrokenTo(X, h \o q, Append(<< >>, c), << >> \o q)
    BY <1>2, <1>4, BrokenRun, Zenon
  <2>2. << >> \o q = q
    BY ONLY <1>2, ConcatEmptySeq
  <2> QED
    BY <2>1, <2>2, Zenon
<1>6. BrokenTo(X, text, Append(Append(<< >>, c), q), << >>)
  <2>1. BrokenTo(X, Append(t, e), Append(Append(<< >>, c), q), << >>)
    BY <1>3, <1>5, BrokenBreak, Zenon
  <2>2. t \in Seq(X)
    BY <1>5, Zenon DEF BrokenTo
  <2>3. Append(t, e) = t \o << e >>
    BY ONLY <1>3, <2>2, AppendIsConcat
  <2> QED
    BY <2>1, <2>3, Zenon
<1>7. /\ DOMAIN Lines(text) = 1 .. 2 /\ Lines(text)[1] = p /\ Lines(text)[2] = q
  <2>1. AreLines(Lines(text), c, q)
    <3>1. q \in Seq(X)
      BY <1>2, Zenon
    <3> QED
      BY ONLY c \in Seq(X), <3>1, <1>6, TwoLines
  <2>2. WithoutSuffix(q, "\r") = q
    BY <1>2, NothingStripped, Zenon
  <2> QED
    BY <1>4, <2>1, <2>2, Zenon DEF AreLines
<1>8. Statements(Lines(text)) = MeantSettings(a, u, b, v)
  <2>1. /\ ParseLine(Lines(text)[1]) = << << NormalizeKey(a), u >> >>
        /\ ParseLine(Lines(text)[2]) = << << NormalizeKey(b), v >> >>
    <3>1. ParseLine(p) = << << NormalizeKey(a), u >> >>
      BY ONLY <1>1, SettingRead
    <3>2. ParseLine(q) = << << NormalizeKey(b), v >> >>
      BY ONLY <1>1, SettingRead
    <3> QED
      BY <1>7, <3>1, <3>2, Zenon
  <2> QED
    BY <1>7, <2>1, StatementsOfTwo, Zenon DEF MeantSettings
<1>9. WithoutPrefix(text, "BOM") = text
  <2>1. text \in Seq(X)
    BY <1>6, Zenon DEF BrokenTo
  <2>2. CASE text = << >>
    BY <2>2, Zenon DEF WithoutPrefix
  <2>3. CASE text # << >>
    <3>1. Head(text) = text[1]
      BY ONLY <2>1, <2>3
    <3>2. text[1] = p[1]
      <4>1. break \in Seq(X)
        <5> PICK d : d = "\r"
          OBVIOUS
        <5>1. break \in { << e >>, << d, e >> } /\ e \in X /\ d \in X
          BY <1>0, <1>3, Zenon
        <5>2. << e >> \in Seq(X) /\ << d, e >> \in Seq(X)
          <6>1. e \in X /\ d \in X
            BY <5>1, Zenon
          <6> QED
            BY ONLY <6>1
        <5> QED
          BY <5>1, <5>2, Zenon
      <4>2. \A i \in 1 .. Len(p) : (p \o break)[i] = p[i]
        BY ONLY <1>2, <4>1, ConcatFacts
      <4>3. h \in Seq(X) /\ Len(h) = Len(p) + Len(break) /\ Len(break) \in Nat
        <5>1. /\ p \o break \in Seq(X) /\ Len(p \o break) = Len(p) + Len(break)
              /\ Len(break) \in Nat
          BY ONLY <1>2, <4>1, ConcatFacts
        <5> QED
          BY <5>1, Zenon
      <4>4. /\ \A i \in 1 .. Len(h) : (h \o q)[i] = h[i]
            /\ Len(h \o q) = Len(h) + Len(q) /\ h \o q \in Seq(X) /\ Len(q) \in Nat
        <5>1. h \in Seq(X) /\ q \in Seq(X)
          BY <1>2, <4>3, Zenon
        <5> QED
          BY ONLY <5>1, ConcatFacts
      <4>5. t \in Seq(X) /\ << e >> \in Seq(X)
        <5>1. << e >> \in Seq(X)
          BY ONLY <1>3
        <5> QED
          BY <4>4, <5>1, Zenon
      <4>6. \A i \in 1 .. Len(t) : (t \o << e >>)[i] = t[i]
        BY ONLY <4>5, ConcatFacts
      <4>7. 1 \in 1 .. Len(p) /\ 1 \in 1 .. Len(h) /\ 1 \in 1 .. Len(h) + Len(q)
        <5>1. Len(p) \in Nat /\ Len(p) # 0
          BY <1>1, Zenon
        <5>2. Len(h) = Len(p) + Len(break) /\ Len(break) \in Nat /\ Len(q) \in Nat
          BY <4>3, <4>4, Zenon
        <5> QED
          BY ONLY <5>1, <5>2
      <4>8. 1 \in 1 .. Len(t)
        BY <4>4, <4>7, Zenon
      <4>9. h[1] = p[1]
        BY <4>2, <4>7, Zenon
      <4>10. t[1] = h[1]
        BY <4>4, <4>7, Zenon
      <4>11. text[1] = t[1]
        BY <4>6, <4>8, Zenon
      <4> QED
        BY <4>9, <4>10, <4>11, Zenon
    <3>3. p[1] # "BOM"
      BY <1>1, Zenon DEF IsCalm
    <3> QED
      BY <3>1, <3>2, <3>3, Zenon DEF WithoutPrefix
  <2> QED
    BY <2>2, <2>3
<1> QED
  BY <1>8, <1>9, Zenon DEF Parse, FileSays

-----------------------------------------------------------------------------
(* The statements of a settings string.                                    *)

\* A text around one of its symbols.
LEMMA AroundSymbol ==
    ASSUME NEW X, NEW t \in Seq(X), NEW n \in 1 .. Len(t)
    PROVE  /\ Cut(t, n - 1) \in Seq(X) /\ t[n] \in X /\ Rest(t, n) \in Seq(X)
           /\ t = Append(Cut(t, n - 1), t[n]) \o Rest(t, n)
<1>1. Len(t) \in Nat /\ n - 1 \in 0 .. Len(t) /\ n \in 0 .. Len(t) /\ n - 1 # Len(t)
  <2>1. Len(t) \in Nat
    BY LenProperties
  <2> QED
    BY <2>1
<1>2. Cut(t, n - 1) \in Seq(X)
  BY ONLY <1>1, t \in Seq(X), CutFacts
<1>3. t[n] \in X
  BY ElementOfSeq
<1>4. /\ Rest(t, n) \in Seq(X) /\ Len(Rest(t, n)) = Len(t) - n
      /\ \A i \in 1 .. Len(t) - n : Rest(t, n)[i] = t[n + i]
  BY ONLY <1>1, t \in Seq(X), RestFacts
<1>5. Append(Cut(t, n - 1), t[n]) = Cut(t, n)
  <2>1. Cut(t, (n - 1) + 1) = Append(Cut(t, n - 1), t[(n - 1) + 1])
    BY ONLY <1>1, t \in Seq(X), CutNext
  <2>2. (n - 1) + 1 = n
    BY ONLY n \in 1 .. Len(t)
  <2> QED
    BY ONLY <2>1, <2>2
<1> PICK c, r : c = Cut(t, n) /\ r = Rest(t, n)
  OBVIOUS
<1>6. c \in Seq(X) /\ Len(c) = n /\ \A i \in 1 .. n : c[i] = t[i]
  BY ONLY <1>1, t \in Seq(X), c = Cut(t, n), CutFacts
<1>7. r \in Seq(X) /\ Len(r) = Len(t) - n /\ \A i \in 1 .. Len(t) - n : r[i] = t[n + i]
  BY <1>4, Zenon
<1>8. /\ c \o r \in Seq(X) /\ Len(c \o r) = Len(c) + Len(r)
      /\ \A i \in 1 .. Len(c) : (c \o r)[i] = c[i]
      /\ \A i \in 1 .. Len(r) : (c \o r)[Len(c) + i] = r[i]
  <2>1. c \in Seq(X) /\ r \in Seq(X)
    BY <1>6, <1>7, Zenon
  <2> QED
    BY ONLY <2>1, ConcatFacts
<1>9. Len(c \o r) = Len(t)
  BY ONLY <1>1, <1>6, <1>7, <1>8
<1>10. ASSUME NEW i \in 1 .. Len(t) PROVE (c \o r)[i] = t[i]
  <2>1. CASE i \in 1 .. n
    BY <1>6, <1>8, <2>1, Zenon
  <2>2. CASE i \notin 1 .. n
    <3>1. i - n \in 1 .. Len(t) - n /\ n + (i - n) = i
      BY ONLY <1>1, <2>2, i \in 1 .. Len(t), n \in 1 .. Len(t)
    <3>2. (c \o r)[n + (i - n)] = r[i - n]
      BY <1>6, <1>7, <1>8, <3>1, Zenon
    <3>3. r[i - n] = t[n + (i - n)]
      BY <1>7, <3>1, Zenon
    <3> QED
      BY ONLY <3>1, <3>2, <3>3
  <2> QED
    BY <2>1, <2>2
<1>11. c \o r = t
  BY ONLY <1>8, <1>9, <1>10, t \in Seq(X), SeqEqual
<1> QED
  BY <1>2, <1>3, <1>4, <1>5, <1>11, Zenon

Around(t, l, x, r) == t = Append(l, x) \o r

\* A separator between two texts, seen from the whole.
LEMMA AroundBreak ==
    ASSUME NEW X, NEW p \in Seq(X), NEW q \in Seq(X), NEW l \in Seq(X), NEW x \in X,
           NEW r \in Seq(X), NEW break, Around(break, l, x, r)
    PROVE  Around((p \o break) \o q, p \o l, x, r \o q)
<1> PICK a, b : a = Append(l, x) /\ b = r \o q
  OBVIOUS
<1>1. a \in Seq(X) /\ b \in Seq(X)
  BY AppendProperties, ConcatProperties
<1>2. a \o r \in Seq(X) /\ p \o a \in Seq(X)
  BY <1>1, ConcatProperties
<1>3. (p \o (a \o r)) \o q = p \o ((a \o r) \o q)
  BY ONLY p \in Seq(X), <1>2, q \in Seq(X), ConcatAssociative, SMTT(60)
<1>4. (a \o r) \o q = a \o (r \o q)
  BY ONLY <1>1, r \in Seq(X), q \in Seq(X), ConcatAssociative, SMTT(30)
<1>5. (p \o a) \o b = p \o (a \o b)
  BY ONLY <1>1, p \in Seq(X), ConcatAssociative, SMTT(30)
<1>6. p \o Append(l, x) = Append(p \o l, x)
  BY BehindAppend
<1>7. break = Append(l, x) \o r
  BY Zenon DEF Around
<1> QED
  BY <1>3, <1>4, <1>5, <1>6, <1>7, Zenon DEF Around

\* The separator is what the scan finds.
LEMMA OneCut ==
    ASSUME NEW X, NEW a \in Seq(X), Stays(X, "none", a), NEW x \in X, x \in { ";", "\n" },
           NEW b \in Seq(X), Stays(X, "none", b)
    PROVE  SplitStatements(Append(a, x) \o b) = << a, b >>
<1> PICK cuts : cuts = {} \cup { Len(a) + 1 }
  OBVIOUS
<1>1. InState(<< >>, "none", FALSE, {})
  BY NothingScanned, Zenon DEF InState, QuoteState, Unscanned
<1>2. InState(<< >> \o a, "none", FALSE, {})
  <2>1. << >> \in Seq(X)
    BY EmptySeq
  <2> QED
    BY <1>1, <2>1, Zenon DEF Stays
<1>3. << >> \o a = a
  BY ConcatEmptySeq
<1>4. InState(Append(a, x), "none", FALSE, cuts)
  <2>1. InState(a, "none", FALSE, {})
    BY <1>2, <1>3, Zenon
  <2> QED
    BY <2>1, BehindSeparator, Zenon
<1>5. Append(a, x) \in Seq(X)
  BY AppendProperties
<1>6. InState(Append(a, x) \o b, "none", FALSE, cuts)
  BY <1>4, <1>5, Zenon DEF Stays
<1>7. Scanned(Append(a, x) \o b).cuts = cuts
  <2>1. Scanned(Append(a, x) \o b) = QuoteState("none", FALSE, cuts)
    BY <1>6, Zenon DEF InState
  <2>2. QuoteState("none", FALSE, cuts).cuts = cuts
    BY ONLY cuts = cuts DEF QuoteState
  <2> QED
    BY <2>1, <2>2, Zenon
<1>8. cuts = { Len(a) + 1 }
  BY Zenon
<1>9. Pieces(Append(a, x) \o b, { Len(a) + 1 }) = << a, b >>
  BY PiecesCut
<1> QED
  BY <1>7, <1>8, <1>9, Zenon DEF SplitStatements

\* Blanks around a setting change nothing of what it says.
LEMMA BlanksCalm ==
    ASSUME NEW t, \A i \in 1 .. Len(t) : t[i] \in Blanks
    PROVE  AllCalm(t) /\ \A i \in 1 .. Len(t) : t[i] \in Whitespace
  BY Zenon DEF AllCalm, IsCalm, Blanks, Whitespace

\* Blanks behind a setting change nothing of how it is read.
LEMMA ReadsBefore ==
    ASSUME NEW X, NEW raw, NEW name, NEW value, ReadsAs(X, raw, name, value),
           NEW t \in Seq(X), \A i \in 1 .. Len(t) : t[i] \in Blanks
    PROVE  ReadsAs(X, raw \o t, name, value)
<1>1. /\ raw \in Seq(X) /\ NoBreaks(raw) /\ name \in Seq(X) /\ IsProper(name)
      /\ \E w : Says(X, raw, name, w) /\ ParseValue(w) = value
  BY Zenon DEF ReadsAs
<1>2. AllCalm(t) /\ \A i \in 1 .. Len(t) : t[i] \in Whitespace
  BY BlanksCalm, Zenon
<1>3. NoBreaks(t)
  BY <1>2, CalmStays, Zenon
<1>4. PICK w : Says(X, raw, name, w) /\ ParseValue(w) = value
  BY <1>1, Zenon
<1>5. Says(X, raw \o t, name, w)
  BY <1>2, <1>4, SaysBefore, Zenon
<1>6. NoBreaks(raw \o t)
  BY <1>1, <1>3, NoBreaksBehind, Zenon
<1>7. raw \o t \in Seq(X)
  BY <1>1, ConcatProperties
<1> QED
  BY <1>1, <1>4, <1>5, <1>6, <1>7, Zenon DEF ReadsAs

\* Nor do blanks in front of it.
LEMMA ReadsBehind ==
    ASSUME NEW X, NEW raw, NEW name, NEW value, ReadsAs(X, raw, name, value),
           NEW t \in Seq(X), \A i \in 1 .. Len(t) : t[i] \in Blanks
    PROVE  ReadsAs(X, t \o raw, name, value)
<1>1. /\ raw \in Seq(X) /\ NoBreaks(raw) /\ name \in Seq(X) /\ IsProper(name)
      /\ \E w : Says(X, raw, name, w) /\ ParseValue(w) = value
  BY Zenon DEF ReadsAs
<1>2. AllCalm(t) /\ \A i \in 1 .. Len(t) : t[i] \in Whitespace
  BY BlanksCalm, Zenon
<1>3. NoBreaks(t)
  BY <1>2, CalmStays, Zenon
<1>4. PICK w : Says(X, raw, name, w) /\ ParseValue(w) = value
  BY <1>1, Zenon
<1>5. Says(X, t \o raw, name, w)
  BY <1>2, <1>4, SaysBehind, Zenon
<1>6. NoBreaks(t \o raw)
  BY <1>1, <1>3, NoBreaksBehind, Zenon
<1>7. t \o raw \in Seq(X)
  BY <1>1, ConcatProperties
<1> QED
  BY <1>1, <1>4, <1>5, <1>6, <1>7, Zenon DEF ReadsAs

\* Blanks, a separator, blanks.
LEMMA BreakStands ==
    ASSUME NEW break, IsBreak(break, "inline")
    PROVE  \E l, r \in Seq(ConfigSymbols), x \in ConfigSymbols :
              /\ break = Append(l, x) \o r /\ x \in { ";", "\n" }
              /\ \A i \in 1 .. Len(l) : l[i] \in Blanks
              /\ \A i \in 1 .. Len(r) : r[i] \in Blanks
<1> PICK X : X = ConfigSymbols
  OBVIOUS
<1>1. break \in Seq(STRING)
  BY Zenon DEF IsBreak
<1>2. break \in Seq(X) /\ Len(break) \in Nat /\ DOMAIN break = 1 .. Len(break)
  BY <1>1, ConfigTextIs, Zenon
<1>3. PICK n \in 1 .. Len(break) :
        /\ break[n] \in { ";", "\n" }
        /\ \A i \in DOMAIN break \ {n} : break[i] \in Blanks
  BY <1>2, Zenon DEF IsBreak
<1> PICK l, r, x : l = Cut(break, n - 1) /\ r = Rest(break, n) /\ x = break[n]
  OBVIOUS
<1>4. l \in Seq(X) /\ r \in Seq(X) /\ x \in X /\ break = Append(l, x) \o r
  <2>1. n \in 1 .. Len(break)
    OBVIOUS
  <2>2. /\ Cut(break, n - 1) \in Seq(X) /\ break[n] \in X /\ Rest(break, n) \in Seq(X)
        /\ break = Append(Cut(break, n - 1), break[n]) \o Rest(break, n)
    BY ONLY <1>2, <2>1, AroundSymbol
  <2> QED
    BY <2>2, Zenon
<1>5. n - 1 \in 0 .. Len(break) /\ n \in 0 .. Len(break)
  <2>1. n \in 1 .. Len(break)
    OBVIOUS
  <2>2. Len(break) \in Nat
    BY <1>2, Zenon
  <2> QED
    BY ONLY <2>1, <2>2
<1>6. ASSUME NEW i \in 1 .. Len(l) PROVE l[i] \in Blanks
  <2>1. Len(Cut(break, n - 1)) = n - 1 /\ \A k \in 1 .. n - 1 : Cut(break, n - 1)[k] = break[k]
    BY ONLY <1>2, <1>5, CutFacts
  <2>2. i \in 1 .. n - 1 /\ l[i] = break[i]
    BY <2>1, Zenon
  <2>3. i \in 1 .. Len(break) /\ i # n
    BY ONLY <1>5, <2>2
  <2> QED
    BY <1>2, <1>3, <2>2, <2>3, Zenon
<1>7. ASSUME NEW i \in 1 .. Len(r) PROVE r[i] \in Blanks
  <2>1. /\ Len(Rest(break, n)) = Len(break) - n
        /\ \A k \in 1 .. Len(break) - n : Rest(break, n)[k] = break[n + k]
    BY ONLY <1>2, <1>5, RestFacts
  <2>2. i \in 1 .. Len(break) - n /\ r[i] = break[n + i]
    BY <2>1, Zenon
  <2>3. n + i \in 1 .. Len(break) /\ n + i # n
    BY ONLY <1>5, <2>2, <1>2
  <2> QED
    BY <1>2, <1>3, <2>2, <2>3, Zenon
<1> QED
  BY <1>3, <1>4, <1>6, <1>7, Zenon

StringSays(p, break, q, meant) == ParseInline((p \o break) \o q) = meant

\* What a string of two settings says.
LEMMA StringOfTwo ==
    ASSUME NEW p, NEW a, NEW u, IsSettingText(p, a, u, "inline"),
           NEW q, NEW b, NEW v, IsSettingText(q, b, v, "inline"),
           NEW break, IsBreak(break, "inline")
    PROVE  StringSays(p, break, q, MeantSettings(a, u, b, v))
<1> PICK X, text : X = ConfigSymbols /\ text = (p \o break) \o q
  OBVIOUS
<1>1. /\ ReadsAs(X, p, a, u) /\ ReadsAs(X, q, b, v)
      /\ Stays(X, "none", p) /\ Stays(X, "none", q)
  BY Zenon DEF IsSettingText
<1>2. p \in Seq(X) /\ q \in Seq(X)
  BY <1>1, Zenon DEF ReadsAs
<1>3. PICK l, r \in Seq(X), x \in X :
        /\ break = Append(l, x) \o r /\ x \in { ";", "\n" }
        /\ \A i \in 1 .. Len(l) : l[i] \in Blanks
        /\ \A i \in 1 .. Len(r) : r[i] \in Blanks
  BY BreakStands, ZenonT(40)
<1> PICK c, d : c = p \o l /\ d = r \o q
  OBVIOUS
<1>4. (p \o break) \o q = Append(c, x) \o d
  <2>1. p \in Seq(X) /\ q \in Seq(X) /\ l \in Seq(X) /\ r \in Seq(X) /\ x \in X
    BY <1>2, Zenon
  <2>2. Around(break, l, x, r)
    BY <1>3, Zenon DEF Around
  <2>3. Around((p \o break) \o q, p \o l, x, r \o q)
    BY ONLY <2>1, <2>2, AroundBreak
  <2> QED
    BY <2>3, Zenon DEF Around
<1>5. ReadsAs(X, c, a, u) /\ ReadsAs(X, d, b, v)
  <2>1. ReadsAs(X, p \o l, a, u)
    BY <1>1, <1>3, ReadsBefore, Zenon
  <2>2. ReadsAs(X, r \o q, b, v)
    BY <1>1, <1>3, ReadsBehind, Zenon
  <2> QED
    BY <2>1, <2>2, Zenon
<1>6. Stays(X, "none", c) /\ Stays(X, "none", d)
  <2>1. Stays(X, "none", l) /\ Stays(X, "none", r)
    BY <1>3, BlanksCalm, CalmStays, Zenon
  <2>2. Stays(X, "none", p \o l) /\ Stays(X, "none", r \o q)
    BY <1>1, <1>2, <2>1, StaysBehind, Zenon
  <2> QED
    BY <2>2, Zenon
<1>7. c \in Seq(X) /\ d \in Seq(X)
  BY <1>5, Zenon DEF ReadsAs
<1>8. SplitStatements(text) = << c, d >>
  <2>1. SplitStatements(Append(c, x) \o d) = << c, d >>
    BY <1>3, <1>6, <1>7, OneCut, Zenon
  <2> QED
    BY <1>4, <2>1, Zenon
<1>9. /\ ParseLine(c) = << << NormalizeKey(a), u >> >>
      /\ ParseLine(d) = << << NormalizeKey(b), v >> >>
  BY ONLY <1>5, SettingRead
<1>10. Statements(<< c, d >>) = MeantSettings(a, u, b, v)
  <2> PICK pieces : pieces = << c, d >>
    OBVIOUS
  <2>1. DOMAIN pieces = 1 .. 2 /\ pieces[1] = c /\ pieces[2] = d
    BY ONLY pieces = << c, d >>
  <2>2. /\ ParseLine(pieces[1]) = << << NormalizeKey(a), u >> >>
        /\ ParseLine(pieces[2]) = << << NormalizeKey(b), v >> >>
    BY <1>9, <2>1, Zenon
  <2> QED
    BY <2>1, <2>2, StatementsOfTwo, Zenon DEF MeantSettings
<1> QED
  BY <1>8, <1>10, Zenon DEF ParseInline, StringSays

MeantOf(c) == MeantSettings(c.first.name, c.first.value, c.second.name, c.second.value)

\* What has been read is what was meant.
ConfigInv ==
    input.what \in { "file", "inline" } =>
        /\ input \in Configs
        /\ Fits(input.first, input.what) /\ Fits(input.second, input.what)
        /\ output \in { << >>, << MeantOf(input) >> }

\* Nothing has been read at first.
LEMMA ConfigInvInit == TextInit => ConfigInv
<1> SUFFICES ASSUME TextInit, input.what \in { "file", "inline" }
             PROVE  /\ input \in Configs /\ output = << >>
                    /\ Fits(input.first, input.what) /\ Fits(input.second, input.what)
  BY Zenon DEF ConfigInv
<1>1. output = << >>
  BY Zenon DEF TextInit
<1>2. input \notin Mails /\ input \notin Templates /\ input \notin Requests
  BY TextAssumption
<1> QED
  BY <1>1, <1>2, Zenon DEF TextInit

\* A file and a string are read as they are meant.
LEMMA ConfigRead ==
    ASSUME NEW c \in Configs, Fits(c.first, c.what), Fits(c.second, c.what),
           NEW p, p = Setting(c.first), NEW q, q = Setting(c.second)
    PROVE  /\ c.what = "file" =>
                FileSays(p, c.break, q, MeantOf(c))
           /\ c.what = "inline" => StringSays(p, c.break, q, MeantOf(c))
<1>1. IsBreak(c.break, c.what) /\ IsSetting(c.first) /\ IsSetting(c.second)
  BY TextAssumption, Zenon
<1>2. IsSettingText(p, c.first.name, c.first.value, c.what)
  BY <1>1, SettingReads, Zenon
<1>3. IsSettingText(q, c.second.name, c.second.value, c.what)
  BY <1>1, SettingReads, Zenon
<1> PICK a, u, b, v, break :
        /\ a = c.first.name /\ u = c.first.value
        /\ b = c.second.name /\ v = c.second.value /\ break = c.break
  OBVIOUS
<1>4. MeantOf(c) = MeantSettings(a, u, b, v)
  BY Zenon DEF MeantOf
<1>5. ASSUME c.what = "file" PROVE FileSays(p, break, q, MeantSettings(a, u, b, v))
  <2>1. /\ IsSettingText(p, a, u, "file") /\ IsSettingText(q, b, v, "file")
        /\ IsBreak(break, "file")
    BY <1>1, <1>2, <1>3, <1>5, Zenon
  <2> QED
    BY ONLY <2>1, FileOfTwo
<1>6. ASSUME c.what = "inline" PROVE StringSays(p, break, q, MeantSettings(a, u, b, v))
  <2>1. /\ IsSettingText(p, a, u, "inline") /\ IsSettingText(q, b, v, "inline")
        /\ IsBreak(break, "inline")
    BY <1>1, <1>2, <1>3, <1>6, Zenon
  <2> QED
    BY ONLY <2>1, StringOfTwo
<1> QED
  BY <1>4, <1>5, <1>6, Zenon

\* The step that reads a file or a string keeps the invariant.
LEMMA ConfigStep ==
    ASSUME ConfigInv, [TextNext]_textVars
    PROVE  ConfigInv'
<1>1. CASE UNCHANGED textVars
  BY <1>1 DEF ConfigInv, textVars
<1>2. CASE ReadFile \/ ReadInline
  <2>1. input' = input /\ input.what \in { "file", "inline" }
    BY <1>2, Zenon DEF ReadFile, ReadInline, Reads
  <2>2. /\ input \in Configs
        /\ Fits(input.first, input.what) /\ Fits(input.second, input.what)
    BY <2>1, Zenon DEF ConfigInv
  <2>3. output' = << MeantOf(input) >>
    <3>1. CASE ReadFile
      <4>1. input.what = "file" /\ output' = << Parse(Both \o << "\n" >>) >>
        BY <3>1, Zenon DEF ReadFile, Reads
      <4>2. FileSays(Setting(input.first), input.break, Setting(input.second), MeantOf(input))
        BY <2>2, <4>1, ConfigRead, Zenon
      <4>3. Parse(Both \o << "\n" >>) = MeantOf(input)
        BY <4>2, Zenon DEF Both, FileSays
      <4> QED
        BY <4>1, <4>3, Zenon
    <3>2. CASE ReadInline
      <4>1. input.what = "inline" /\ output' = << ParseInline(Both) >>
        BY <3>2, Zenon DEF ReadInline, Reads
      <4>2. StringSays(Setting(input.first), input.break, Setting(input.second), MeantOf(input))
        BY <2>2, <4>1, ConfigRead, Zenon
      <4>3. ParseInline(Both) = MeantOf(input)
        BY <4>2, Zenon DEF Both, StringSays
      <4> QED
        BY <4>1, <4>3, Zenon
    <3> QED
      BY <1>2, <3>1, <3>2
  <2> QED
    BY <2>1, <2>2, <2>3, Zenon DEF ConfigInv
<1>3. CASE ReadMail \/ ReadTemplate \/ ReadPath
  <2>1. input' = input /\ input.what \notin { "file", "inline" }
    BY <1>3 DEF ReadMail, ReadTemplate, ReadPath, Reads
  <2> QED
    BY <2>1 DEF ConfigInv
<1> QED
  BY <1>1, <1>2, <1>3 DEF TextNext

\* "One parser means one set of rules for a password, wherever it was written":
\* parse and parse_inline of src/config.rs read a value that fits the style it
\* is written in as what it was, and nothing of the setting beside it.
THEOREM AlwaysRoundTrip == TextSpec => []ConfigRoundTrip
<1>1. ConfigInv => ConfigRoundTrip
  <2> SUFFICES ASSUME ConfigInv, input.what \in { "file", "inline" }, output # << >>
               PROVE  output[1] = MeantOf(input)
    BY Zenon DEF ConfigRoundTrip, MeantOf, MeantSettings
  <2>1. output = << MeantOf(input) >>
    BY Zenon DEF ConfigInv
  <2> QED
    BY <2>1
<1>2. ConfigInv /\ [TextNext]_textVars => ConfigInv'
  BY ConfigStep
<1> QED
  BY <1>1, <1>2, ConfigInvInit, PTL DEF TextSpec

=============================================================================
