---------------------------- MODULE ContentPaths -----------------------------
(***************************************************************************)
(* The path values of package core: ContentPath and Collection, and what   *)
(* joining one onto another may give.  A path is the sequence of its       *)
(* segments, and of a segment only what the rules ask is kept.             *)
(*                                                                         *)
(* A length in bytes is a number of segments.                              *)
(***************************************************************************)
EXTENDS Integers, Sequences, SequencesExt

CONSTANTS
    Segments,       \* what may stand between two slashes
    Unusable,       \* empty, ".", "..", too long, not UTF-8, or with a
                    \* backslash or a control character in it
    Prefixed,       \* with a colon, so that it may not come first
    GitDirs,        \* ".git" in any casing
    MarkdownNames,  \* ending in ".md" or ".markdown"
    MaxContentPath  \* the longest content path

ASSUME ContentPathsAssumption ==
    /\ Unusable \cup Prefixed \cup GitDirs \cup MarkdownNames \subseteq Segments
    /\ MaxContentPath \in Nat

(* The empty sequence is the zero value: no path, and the root collection. *)
NoPath == << >>
Root == << >>

Uses(path, segments) == \E i \in DOMAIN path : path[i] \in segments

validateRelPath(path, longest) ==
    /\ path # NoPath
    /\ Len(path) <= longest
    /\ ~Uses(path, Unusable)
    /\ path[1] \notin Prefixed

IsContentPath(path) ==
    /\ validateRelPath(path, MaxContentPath)
    /\ ~Uses(path, GitDirs)

IsCollection(path) == path = Root \/ IsContentPath(path)

IsMarkdown(path) == Last(path) \in MarkdownNames

Within(collection, path) == IsStrictPrefix(collection, path)

(* The relative part is validated before it is joined, and the whole again *)
(* after.                                                                  *)
Join(collection, rel) ==
    IF validateRelPath(rel, MaxContentPath) /\ IsContentPath(collection \o rel)
    THEN collection \o rel ELSE NoPath

Rel(collection, path) ==
    IF Within(collection, path) THEN SubSeq(path, Len(collection) + 1, Len(path))
    ELSE NoPath
==============================================================================
