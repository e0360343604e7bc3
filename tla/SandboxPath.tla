---------------------------- MODULE SandboxPath -----------------------------
(***************************************************************************)
(* sandbox::resolve of src/sandbox.rs: a path is reduced by arithmetic,    *)
(* must stay in the server folder, and is then walked part by part on the  *)
(* disk.  A path is its parts as Path::components gives them.              *)
(***************************************************************************)
EXTENDS Naturals, SequencesExt

CONSTANTS
    Names,  \* what a file or a folder may be called
    Disk,   \* Disk[p]: the folder, file or symlink at the absolute path p
    Root    \* the server folder, as canonicalize gives it

Found(p) == p \in DOMAIN Disk

\* Whatever is there is in a folder, or in what a link leads to; the way to
\* the server folder has no links.
ASSUME DiskAssumption ==
    /\ { ".", ".." } \cap Names = {}
    /\ DOMAIN Disk \subseteq Seq(Names) /\ Root \in Seq(Names)
    /\ \A p \in DOMAIN Disk : Disk[p].kind \in { "folder", "file", "link" }
    /\ \A p \in DOMAIN Disk \ { << >> } :
        Found(Front(p)) /\ Disk[Front(p)].kind # "file"
    /\ \A n \in 0 .. Len(Root) :
        Found(SubSeq(Root, 1, n)) /\ Disk[SubSeq(Root, 1, n)].kind = "folder"

\* Climbing above the root of the disk stays there.
Step(out, part) ==
    CASE part = "." -> out
      [] part = ".." -> IF out = << >> THEN out ELSE Front(out)
      [] OTHER -> Append(out, part)

Normalize(parts) ==
    LET out[i \in 0 .. Len(parts)] ==
            IF i = 0 THEN << >> ELSE Step(out[i - 1], parts[i])
    IN  out[Len(parts)]

\* An absolute path replaces the root it is joined to.
Joined(path) == IF path.absolute THEN path.parts ELSE Root \o path.parts

IsSymlink(p) == Disk[p].kind = "link"

\* Mutant: only the last part is looked at.
Walked_LastOnly(full) == { full }

\* The parts the walk looks at.
Walked(full) == { SubSeq(full, 1, n) : n \in Len(Root) + 1 .. Len(full) }

\* The absolute path that is read, or nothing when it is refused.  is_file
\* follows links, but the walk has found none.
Resolve(path) ==
    LET full == Normalize(Joined(path))
    IN  IF /\ IsPrefix(Root, full)
           /\ \A p \in Walked(full) : Found(p) /\ ~IsSymlink(p)
           /\ Disk[full].kind = "file"
        THEN << full >> ELSE << >>
=============================================================================
