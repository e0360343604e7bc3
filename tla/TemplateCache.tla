--------------------------- MODULE TemplateCache ---------------------------
(***************************************************************************)
(* TemplateCache of src/template.rs and the sandbox::read it reads with:   *)
(* get, one file operation at a time, with editors and deploy scripts      *)
(* changing the files in between, and clear.  The natives all run on the   *)
(* main thread, so one call is open at a time.                             *)
(*                                                                         *)
(* What a path names is the history of its versions.  A version is a       *)
(* regular file, or a symlink to one, with the stamp (length and           *)
(* modification time) that stat reports: an editor may write a new text    *)
(* under an old stamp.  The symlink may be the last part of the path, or a *)
(* folder above it: the walk looks at each, same_file only at the last.    *)
(* There are two of same_file, and Unix says which one was compiled.       *)
(***************************************************************************)
EXTENDS SequencesExt, Naturals

CONSTANTS
    Paths,
    Files,     \* what a path may name, identified by device and inode
    Stamps,
    Gone,      \* in place of a version: there is nothing at the path
    Unix,      \* the build compares the file it opened; no other one does
    MaxEdits   \* bound: the changes made to the paths, all together

ASSUME CacheAssumption == Unix \in BOOLEAN /\ MaxEdits \in Nat

VARIABLES
    history,   \* history[p]: the versions of path p, Gone among them
    cache,     \* the entries of the cache, by path
    call,      \* the call of get that is open
    answer,    \* what the last successful one returned
    cleared    \* cleared[p]: the version of p when the cache was last cleared

cacheVars == << history, cache, call, answer, cleared >>

\* Where the symlink is that the path goes through.
Links == {"none", "above", "last"}

Seen == [file : Files, link : Links, stamp : Stamps]

Version(p) == Len(history[p])
Now(p) == Last(history[p])
Edits == FoldFunction(LAMBDA h, n : Len(h) - 1 + n, 0, history)

\* Path p led to file f as version v.
Named(f, p, v) == history[p][v] # Gone /\ history[p][v].file = f

\* It was itself the last part of the path, and not behind a link.
Stood(f, p, v) == Named(f, p, v) /\ history[p][v].link # "last"

\* No call is open, and none has succeeded yet.
NoCall == [step |-> "none"]
NoAnswer == [path |-> "none"]

CacheInit ==
    /\ history \in [Paths -> { << s >> : s \in Seen \cup {Gone} }]
    /\ cache = << >>
    /\ call = NoCall
    /\ answer = NoAnswer
    /\ cleared = [p \in Paths |-> 0]

\* Someone saves, replaces, removes or restores the file, or puts a link there.
EditFile(p) ==
    /\ Edits < MaxEdits
    /\ \E s \in Seen \cup {Gone} :
        /\ s = Gone => Now(p) # Gone
        /\ history' = [history EXCEPT ![p] = Append(@, s)]
    /\ UNCHANGED << cache, call, answer, cleared >>

-----------------------------------------------------------------------------
(* sandbox::resolve, twice: once by get, once by the sandbox::read it calls.*)

\* The path ends at a file, whether a link leads there or not.
IsFile(p) == Now(p) # Gone

Link(p) == IF IsFile(p) THEN Now(p).link ELSE "none"

\* The walk looks at the folders ...
Get(p) ==
    /\ call = NoCall
    /\ Link(p) # "above"
    /\ call' = [path |-> p, step |-> "walking", asked |-> Version(p)]
    /\ UNCHANGED << history, cache, answer, cleared >>

WalkAgain ==
    /\ call.step = "missed"
    /\ Link(call.path) # "above"
    /\ call' = [call EXCEPT !.step = "rewalking"]
    /\ UNCHANGED << history, cache, answer, cleared >>

\* ... then at the last part itself ...
WalkEnds ==
    /\ \/ /\ call.step = "walking"
          /\ call' = [call EXCEPT !.step = "walked"]
       \/ /\ call.step = "rewalking"
          /\ call' = [call EXCEPT !.step = "rewalked"]
    /\ IsFile(call.path) /\ Link(call.path) # "last"
    /\ UNCHANGED << history, cache, answer, cleared >>

\* ... and is_file at what the path leads to.
IsFileStill ==
    /\ \/ /\ call.step = "walked"
          /\ call' = [call EXCEPT !.step = "stat"]
       \/ /\ call.step = "rewalked"
          /\ call' = [call EXCEPT !.step = "open"]
    /\ IsFile(call.path)
    /\ UNCHANGED << history, cache, answer, cleared >>

-----------------------------------------------------------------------------
(* TemplateCache::get and sandbox::read.                                   *)

\* Any look at the file may fail or be refused, and what was read may not be
\* UTF-8: the cache keeps its entry.
GetFails ==
    /\ call # NoCall
    /\ call' = NoCall
    /\ UNCHANGED << history, cache, answer, cleared >>

Matches(p, stamp) == p \in DOMAIN cache /\ cache[p].stamp = stamp

Answered(version) ==
    /\ answer' = [path |-> call.path, asked |-> call.asked, version |-> version]
    /\ call' = NoCall

\* The file looks as it did when it was read.
Hit ==
    /\ call.step = "stat"
    /\ IsFile(call.path) /\ Matches(call.path, Now(call.path).stamp)
    /\ Answered(cache[call.path].version)
    /\ UNCHANGED << history, cache, cleared >>

Stat ==
    /\ call.step = "stat"
    /\ IsFile(call.path) /\ ~Matches(call.path, Now(call.path).stamp)
    /\ call' = [path |-> call.path, step |-> "missed", asked |-> call.asked,
                stamp |-> Now(call.path).stamp]
    /\ UNCHANGED << history, cache, answer, cleared >>

\* open follows a link that has been put there since.
Open ==
    /\ call.step = "open"
    /\ IsFile(call.path)
    /\ call' = [path |-> call.path, step |-> "opened", asked |-> call.asked,
                stamp |-> call.stamp, file |-> Now(call.path).file]
    /\ UNCHANGED << history, cache, answer, cleared >>

\* Mutant: the file is compared with the one the path leads to.
SameFile_FollowsLinks == IsFile(call.path) /\ Now(call.path).file = call.file

\* On Unix the open file is the one that stands at the path now, whatever the
\* walk saw there; elsewhere nothing is compared.
SameFile == Unix => Stood(call.file, call.path, Version(call.path))

Compare ==
    /\ call.step = "opened"
    /\ SameFile
    /\ call' = [call EXCEPT !.step = "read"]
    /\ UNCHANGED << history, cache, answer, cleared >>

\* The text of the open file is the last one it was given at this path.
TextOf(f, p) ==
    SelectLastInSeq(history[p], LAMBDA s : s # Gone /\ s.file = f)

Reading ==
    /\ call.step = "read"
    /\ call' = [path |-> call.path, step |-> "store", asked |-> call.asked,
                stamp |-> call.stamp, file |-> call.file,
                version |-> TextOf(call.file, call.path)]
    /\ UNCHANGED << history, cache, answer, cleared >>

\* Mutant: the entry is stamped as the file looks once it has been read.
Entry_StampedLate ==
    [version |-> call.version,
     stamp |-> IF IsFile(call.path) THEN Now(call.path).stamp ELSE call.stamp]

\* The entry carries the stamp that was seen before the read.
Entry == [version |-> call.version, stamp |-> call.stamp]

Store ==
    /\ call.step = "store"
    /\ cache' = [p \in DOMAIN cache \cup {call.path} |->
                    IF p = call.path THEN Entry ELSE cache[p]]
    /\ Answered(call.version)
    /\ UNCHANGED << history, cleared >>

\* Mutant: an entry whose file looks unchanged is kept.
Dropped_StaleOnly ==
    { p \in DOMAIN cache : ~(IsFile(p) /\ Matches(p, Now(p).stamp)) }

Dropped == DOMAIN cache

\* email_force_reload_templates.
Clear ==
    /\ call = NoCall
    /\ cache' = [p \in DOMAIN cache \ Dropped |-> cache[p]]
    /\ cleared' = [p \in Paths |-> Version(p)]
    /\ UNCHANGED << history, call, answer >>

CacheNext ==
    \/ \E p \in Paths : EditFile(p) \/ Get(p)
    \/ WalkAgain \/ WalkEnds \/ IsFileStill
    \/ GetFails \/ Hit \/ Stat \/ Open \/ Compare \/ Reading \/ Store
    \/ Clear

CacheSpec == CacheInit /\ [][CacheNext]_cacheVars

-----------------------------------------------------------------------------
(* What makes it correct.                                                  *)

\* What sandbox::read does against a symlink put at the path after the walk: on
\* Unix, the text that is read is that of a file which, at some moment of the
\* call, was itself the last part of the path and not behind a link there.
\* Elsewhere a link put there before the open is followed, and what is left is
\* that the path led to the file during the call.
\* sandbox.rs:81-84 says more: that the opened file's identity is compared "with
\* the checked one's" and "a mismatch is refused".  same_file (100-109) compares
\* with what the path names by then, so another regular file put there between
\* the walk and the open is read, and so is one that a folder replaced by a
\* link leads to; off Unix (113-116) nothing is compared.
ReadIsChecked ==
    call.step \in {"read", "store"} =>
        \E v \in call.asked .. Version(call.path) :
            IF Unix THEN Stood(call.file, call.path, v)
                    ELSE Named(call.file, call.path, v)

\* "Edit the file, save, and the next mail uses it": get returns a text at
\* least as new as the file was when get was called, whatever happens to the
\* file between the stat and the read, unless the file was given a stamp that
\* it had already had, at or before the text that is returned.
FreshUnlessStampRepeats ==
    answer # NoAnswer /\ answer.version < answer.asked =>
        LET seen == history[answer.path]
        IN  \E old \in 1 .. answer.version, new \in answer.asked .. Len(seen) :
                /\ seen[old] # Gone /\ seen[new] # Gone
                /\ seen[old].stamp = seen[new].stamp

\* email_force_reload_templates covers what the stamp hides: no get that
\* follows it returns a text older than the file was at that moment.
ClearForcesRead ==
    [][answer' # answer => answer'.version >= cleared[answer'.path]]_cacheVars
=============================================================================
