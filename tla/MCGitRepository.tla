--------------------------- MODULE MCGitRepository ---------------------------
(***************************************************************************)
(* Instances of GitRepository for TLC: what the branch holds at the start, *)
(* and which calls the writers and plain git may make.                     *)
(***************************************************************************)
EXTENDS GitRepositoryRefinement, TLC

CONSTANTS
    w1, w2, w3,   \* writers
    p1, p2,       \* *Repository values
    a, b, inb,    \* paths: inb lies below b
    t1, t2, bad   \* texts; bad is one that cannot be written

Stored(shape, text) == [shape |-> shape, text |-> text]

BranchWith(entries) ==
    << [tree |-> [p \in Paths |->
                    IF p \in DOMAIN entries THEN entries[p] ELSE Absent],
        author |-> PlainGit, nth |-> 0] >>

Place(p, entry) == [path |-> p, entry |-> entry]

(* w1 and w2 share a *Repository, w3 has its own.                          *)
SharedProcess == [w \in Writers |-> IF w = w3 THEN p2 ELSE p1]

Create(p, t) == [op |-> "put", path |-> p, text |-> t, rev |-> NoRevision]

Updates(p, T) == [op: {"put"}, path: {p}, text: T, rev: Blobs]

Deletes(p) == [op: {"delete"}, path: {p}, rev: Revisions]

Unconditional(p) == [op |-> "delete", path |-> p, rev |-> NoRevision]

NoGitEdits == {}

(* A document that the processes contend for, that w3 takes away and plain *)
(* git puts back as it was, and a directory b with a document in it, so    *)
(* that b is taken until that document is gone.                            *)
StoreBranches ==
    {Unborn, BranchWith(a :> Stored("crlf", t1) @@ inb :> Stored("crlf", t1))}

StoreCalls ==
    [w \in Writers |-> CASE w = w1 -> {Create(a, t1)} \cup Updates(a, {t2})
                         [] w = w2 -> {Create(b, t2)} \cup Updates(a, {t1})
                         [] OTHER  -> {Create(a, t2)} \cup Deletes(a) \cup {Unconditional(inb)}]

StoreGitEdits == {Place(a, Stored("crlf", t1))}

InB == {<< inb, b >>}

(* A damaged document and texts that are refused, with every fault.        *)
FaultBranches == {Unborn, BranchWith(a :> Stored("damaged", t1))}

FaultCalls ==
    [w \in Writers |->
        {Create(a, t1), Create(a, t2), Create(a, bad)} \cup Updates(a, {t1, bad}) \cup Deletes(a)]

FaultGitEdits == {Place(a, Absent), Place(a, Stored("canonical", t1))}

(* b lies below a, and a is a document.                                    *)
BInsideA == {<< b, a >>}

NestedBranches == {BranchWith(a :> Stored("canonical", t1))}

NestedCalls == [w \in Writers |-> {Create(b, t1)}]
==============================================================================
