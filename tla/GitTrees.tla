------------------------------ MODULE GitTrees -------------------------------
(***************************************************************************)
(* The part of git's object layer that package git builds on: trees, the   *)
(* question "git cat-file --batch" answers about <commit>:<path>, and what *)
(* "git update-index --index-info" does to the index it is run on.  A tree *)
(* is a function from repository-relative paths to entries; a directory    *)
(* is not an entry but a path with something below it.                     *)
(***************************************************************************)
EXTENDS Documents

CONSTANTS
    Paths,    \* repository-relative paths
    Inside,   \* <<q, p>>: q lies below p, as "a.md/b.md" lies below "a.md"
    Absent,   \* nothing at that path
    Gitlink   \* a submodule at that path

Entries == Blobs \cup {Absent, Gitlink}

Trees == [Paths -> Entries]

ASSUME GitTreesAssumption ==
    /\ Absent \notin Blobs
    /\ Gitlink \notin Blobs \cup {Absent}
    /\ NoRevision # Absent
    /\ Inside \subseteq Paths \X Paths
    /\ \A p \in Paths : <<p, p>> \notin Inside

EmptyTree == [p \in Paths |-> Absent]

(* A name in a git tree is an entry or a directory and never both.         *)
IsWellFormed(tree) ==
    \A q, p \in Paths : <<q, p>> \in Inside /\ tree[q] # Absent => tree[p] = Absent

IsDirectory(tree, path) ==
    \E q \in Paths : <<q, path>> \in Inside /\ tree[q] # Absent

(* cat-file's answer for one <tree>:<path>: the type of the object there,  *)
(* or "missing".  A submodule's commit is not in this object database, so  *)
(* it is missing too.                                                      *)
CatFile(tree, path) ==
    IF tree[path] \in Blobs THEN "blob"
    ELSE IF IsDirectory(tree, path) THEN "tree"
    ELSE "missing"

(* One edit of writeTree: the entry to place at a path, Absent to remove   *)
(* what is there.                                                          *)
Edits == [path: Paths, entry: Entries]

(* update-index --index-info places an entry even where a file or a        *)
(* directory is in the way, and drops what was in the way.                 *)
InTheWay(p, path) == <<p, path>> \in Inside \/ <<path, p>> \in Inside

UpdateIndex(tree, edit) ==
    [p \in Paths |->
        IF p = edit.path THEN edit.entry
        ELSE IF edit.entry # Absent /\ InTheWay(p, edit.path) THEN Absent
        ELSE tree[p]]
==============================================================================
