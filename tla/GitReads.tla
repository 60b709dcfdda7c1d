------------------------------- MODULE GitReads ------------------------------
(***************************************************************************)
(* The read path of git.Repository: Get, List, History and GetRevision,    *)
(* by readers that hold nothing and take no turn, while the branch moves   *)
(* under them.  Get is one git command and so one instant; the others are  *)
(* two or three, and each command resolves the branch for itself.          *)
(*                                                                         *)
(* The history is a graph: others commit on the branch, or beside it and   *)
(* merge, and whoever writes moves the branch to a descendant of its tip   *)
(* (FastForwardOnly of GitRepository).  A commit is the index it has in    *)
(* the order of the commit dates, which is the order git log prints.       *)
(*                                                                         *)
(* Left out: the author, date and message of a revision.                   *)
(***************************************************************************)
EXTENDS GitTrees, ContentPaths, FiniteSets

CONSTANTS
    Roots,            \* the content roots a repository may be opened with
    Readers,          \* callers of the four read methods
    Asked,            \* the content paths they ask for
    Collections,      \* the collections they list
    InitialTrees,     \* the tree of the first commit; {} for an unborn branch
    WriterEdits,      \* what one commit may do to the tree
    SideEdits,        \* what a commit beside the branch may do
    Limits,           \* the limits History is called with; 0 means none
    Guesses,          \* revisions a caller may make up for GetRevision
    Dashed,           \* segments that begin with a dash
    MaxCommits,       \* bound: commits that are no merges
    MaxMerges,        \* bound: merges
    MaxReads          \* bound: calls per reader

ASSUME GitReadsAssumption ==
    /\ Paths \subseteq Seq(Segments) \ {NoPath}
    /\ Inside = {pair \in Paths \X Paths : IsStrictPrefix(pair[2], pair[1])}
    /\ Roots \cup Asked \cup Collections \subseteq Seq(Segments)
    /\ \A contentRoot \in Roots : IsCollection(contentRoot)
    /\ \A contentRoot \in Roots \ {Root} : contentRoot[1] \notin Dashed
    /\ \A path \in Asked : IsContentPath(path)
    /\ \A collection \in Collections : IsCollection(collection)
    /\ InitialTrees \subseteq {tree \in Trees : IsWellFormed(tree)}
    /\ WriterEdits \cup SideEdits \subseteq Edits
    /\ Limits \subseteq Nat
    /\ Guesses \subseteq Revisions
    /\ Dashed \subseteq Segments
    /\ MaxCommits \in Nat
    /\ MaxMerges \in Nat
    /\ MaxReads \in Nat

VARIABLES
    root,     \* the content root
    commits,  \* every commit: its tree and its parents
    tips,     \* the commits the branch has stood at, oldest first
    pc,       \* per reader, which git command its call runs next
    call,     \* per reader, the arguments of its call
    log,      \* per reader, the commits "git log" printed, newest first
    answer,   \* per reader, what its last call returned
    known,    \* per reader, the <<path, revision>> pairs it has been given
    began,    \* per reader, how many tips there were when its call began
    reads     \* per reader, how many calls it has made

vars == << root, commits, tips, pc, call, log, answer, known, began, reads >>

branchVars == << root, commits, tips >>

Unborn == 0

Tip == IF tips = << >> THEN Unborn ELSE Last(tips)

TreeOf(commit) == IF commit = Unborn THEN EmptyTree ELSE commits[commit].tree

(***************************************************************************)
(* Paths: what a caller calls a document, and what git calls it.           *)
(***************************************************************************)
repoPath(path) == Join(root, path)

(* repoPath backwards; NoPath for what callers cannot ask for.             *)
contentPath(path) ==
    LET rel == Rel(root, path)
    IN  IF IsContentPath(path) /\ IsContentPath(rel) THEN rel ELSE NoPath

(* safeArg: an operand is refused when it begins with a dash.              *)
IsPathspec(path) == path # NoPath /\ path[1] \notin Dashed

listPrefix(collection) ==
    IF collection = Root THEN root
    ELSE IF root = Root THEN collection
    ELSE Join(root, collection)

(* ":(top,literal)" matches the path and what is below it.                 *)
Matches(path, pathspec) == IsPrefix(pathspec, path)

Calls ==
    [op: {"get"}, path: Asked]
    \cup [op: {"list"}, path: Collections]
    \cup [op: {"history"}, path: Asked, limit: Limits]
    \cup [op: {"revision"}, path: Asked, rev: Revisions]

Failure(why) == [kind |-> why]

PCs == {"idle", "get", "list", "listhead", "log", "loghead", "blobs", "read"}

Init ==
    /\ root \in Roots
    /\ \/ commits = << >> /\ tips = << >>
       \/ \E tree \in InitialTrees :
             commits = << [tree |-> tree, parents |-> << >>] >> /\ tips = << 1 >>
    /\ pc = [r \in Readers |-> "idle"]
    /\ call = [r \in Readers |-> [op |-> "none"]]
    /\ log = [r \in Readers |-> << >>]
    /\ answer = [r \in Readers |-> Failure("none")]
    /\ known = [r \in Readers |-> {}]
    /\ began = [r \in Readers |-> 0]
    /\ reads = [r \in Readers |-> 0]

(* What a call refuses before it runs git: the zero revision, a path that  *)
(* leaves no room for the content root, and an operand with a dash.        *)
Refusal(c) ==
    CASE c.op = "revision" /\ c.rev = NoRevision -> "notfound"
      [] c.op # "list" /\ repoPath(c.path) = NoPath -> "invalid"
      [] c.op \in {"history", "revision"} /\ ~IsPathspec(repoPath(c.path)) -> "invalid"
      [] c.op = "list" /\ << root, c.path >> # << Root, Root >>
                      /\ ~IsPathspec(listPrefix(c.path)) -> "invalid"
      [] OTHER -> "none"

(* Revisions come from this repository's answers; a caller may also make   *)
(* one up.                                                                 *)
Ask(r) ==
    /\ pc[r] = "idle"
    /\ reads[r] < MaxReads
    /\ \E c \in Calls :
        /\ c.op = "revision" =>
             << c.path, c.rev >> \in known[r] \/ c.rev \in Guesses
        /\ call' = [call EXCEPT ![r] = c]
        /\ answer' = [answer EXCEPT ![r] = Failure(Refusal(c))]
        /\ pc' = [pc EXCEPT ![r] =
             IF Refusal(c) # "none" THEN "idle"
             ELSE IF c.op \in {"history", "revision"} THEN "log"
             ELSE c.op]
    /\ began' = [began EXCEPT ![r] = Len(tips)]
    /\ reads' = [reads EXCEPT ![r] = @ + 1]
    /\ UNCHANGED << branchVars, log, known >>

(* Ends a call, and adds to what the caller knows.                         *)
Answer(r, result, learned) ==
    /\ answer' = [answer EXCEPT ![r] = result]
    /\ known' = [known EXCEPT ![r] = @ \cup learned]
    /\ pc' = [pc EXCEPT ![r] = "idle"]
    /\ log' = [log EXCEPT ![r] = << >>]
    /\ UNCHANGED << branchVars, call, began, reads >>

Continue(r, label) ==
    /\ pc' = [pc EXCEPT ![r] = label]
    /\ UNCHANGED << branchVars, call, answer, known, began, reads >>

(* What a caller is handed for a blob: the document, or the parser's       *)
(* refusal of it.                                                          *)
Parsed(blob) ==
    IF blob.shape = Damaged THEN Failure("invalid")
    ELSE [kind |-> "document", rev |-> blob]

EntryAt(commit, path) == IF path \in Paths THEN TreeOf(commit)[path] ELSE Absent

(* Get: one cat-file of <ref>:<path>.                                      *)
Get(r) ==
    LET path   == repoPath(call[r].path)
        stored == EntryAt(Tip, path)
    IN  /\ pc[r] = "get"
        /\ IF path \notin Paths \/ CatFile(TreeOf(Tip), path) # "blob"
           THEN Answer(r, Failure("notfound"), {})
           ELSE Answer(r, Parsed(stored),
                       IF stored.shape = Damaged THEN {} ELSE {<< call[r].path, stored >>})

(* Slip: the listing keeps every record ls-tree prints.                    *)
AnyRecord(path, entry) == entry # Absent

(* isDocument, contentPath and IsMarkdown: the records that are listed.    *)
IsListed(path, entry) ==
    /\ entry \in Blobs
    /\ contentPath(path) # NoPath
    /\ IsMarkdown(contentPath(path))

Listing(commit, prefix) ==
    {<< contentPath(path), TreeOf(commit)[path] >> :
        path \in {p \in Paths : Matches(p, prefix) /\ IsListed(p, TreeOf(commit)[p])}}

(* List: one ls-tree of the branch, which fails while it is unborn.        *)
ListTree(r) ==
    LET listed == Listing(Tip, listPrefix(call[r].path))
    IN  /\ pc[r] = "list"
        /\ \/ /\ Tip # Unborn
              /\ Answer(r, [kind |-> "list", entries |-> listed], listed)
           \/ /\ Tip = Unborn
              /\ Continue(r, "listhead")
              /\ UNCHANGED log

(* The failure is then explained by asking head, which asks git again.     *)
ListHead(r) ==
    /\ pc[r] = "listhead"
    /\ Answer(r, IF Tip = Unborn THEN [kind |-> "list", entries |-> {}]
                 ELSE Failure("failed"), {})

(***************************************************************************)
(* git log.  A commit that left what is at the path, and below it, as one  *)
(* of its parents had it is not printed, and the walk goes on to the first *)
(* such parent alone; a commit that did not is printed, and the walk goes  *)
(* on to all of them.                                                      *)
(***************************************************************************)
Part(tree, path) == [p \in {q \in Paths : Matches(q, path)} |-> tree[p]]

(* The parents of a commit that have at the path what it has.              *)
Same(graph, commit, path) ==
    {k \in DOMAIN graph[commit].parents :
        Part(graph[graph[commit].parents[k]].tree, path) = Part(graph[commit].tree, path)}

ChangedUpTo(graph, path) ==
    LET from[c \in DOMAIN graph] ==
            LET parents == graph[c].parents
                same == Same(graph, c, path)
            IN  IF parents = << >>
                THEN IF Part(graph[c].tree, path) = Part(EmptyTree, path) THEN {} ELSE {c}
                ELSE IF same # {}
                THEN from[parents[CHOOSE k \in same : \A j \in same : k <= j]]
                ELSE {c} \cup UNION {from[parents[k]] : k \in DOMAIN parents}
    IN  from

Changed(path) == IF Tip = Unborn THEN {} ELSE ChangedUpTo(commits, path)[Tip]

NewestFirst(S) ==
    CHOOSE s \in [1..Cardinality(S) -> S] : \A i, j \in DOMAIN s : i < j => s[i] > s[j]

(* Slip: the limit keeps the oldest commits.                               *)
OldestKept(path, limit) ==
    LET all == NewestFirst(Changed(path))
    IN  IF limit > 0 /\ limit < Len(all)
        THEN SubSeq(all, Len(all) - limit + 1, Len(all)) ELSE all

(* Slip: the commits are printed oldest first.                             *)
OldestFirst(path, limit) ==
    LET all == Reverse(NewestFirst(Changed(path)))
    IN  IF limit > 0 /\ limit < Len(all) THEN SubSeq(all, 1, limit) ELSE all

GitLog(path, limit) ==
    LET all == NewestFirst(Changed(path))
    IN  IF limit > 0 /\ limit < Len(all) THEN SubSeq(all, 1, limit) ELSE all

(* Slip: GetRevision looks at the newest commit of the path only.          *)
LimitToNewest(c) == IF c.op = "history" THEN c.limit ELSE 1

(* GetRevision walks the whole history.                                    *)
LimitOf(c) == IF c.op = "history" THEN c.limit ELSE 0

(* History: one path-filtered log.                                         *)
Log(r) ==
    LET found == GitLog(repoPath(call[r].path), LimitOf(call[r]))
    IN  /\ pc[r] = "log"
        /\ \/ /\ Tip = Unborn
              /\ Continue(r, "loghead")
              /\ UNCHANGED log
           \/ /\ Tip # Unborn
              /\ found = << >>
              /\ Answer(r, Failure("notfound"), {})
           \/ /\ Tip # Unborn
              /\ found # << >>
              /\ log' = [log EXCEPT ![r] = found]
              /\ Continue(r, "blobs")

LogHead(r) ==
    /\ pc[r] = "loghead"
    /\ Answer(r, Failure(IF Tip = Unborn THEN "notfound" ELSE "failed"), {})

(* What each of those commits has at the path.                             *)
Resolved(r) == [k \in DOMAIN log[r] |-> EntryAt(log[r][k], repoPath(call[r].path))]

(* Slip: a commit that removed the document is not skipped.                *)
AllOf(entries) == entries

(* A commit that has no blob there contributes nothing.                    *)
BlobsOf(entries) ==
    LET upTo[k \in 0..Len(entries)] ==
            IF k = 0 THEN << >>
            ELSE IF entries[k] \in Blobs THEN Append(upTo[k - 1], entries[k])
            ELSE upTo[k - 1]
    IN  upTo[Len(entries)]

Revised(r) == BlobsOf(Resolved(r))

(* Slip: the membership check is left to cat-file.                         *)
ReadBlobsUnchecked(r) ==
    /\ pc[r] = "blobs"
    /\ IF call[r].op = "history"
       THEN Answer(r, [kind |-> "history", revs |-> Revised(r)],
                   {<< call[r].path, Revised(r)[k] >> : k \in DOMAIN Revised(r)})
       ELSE Continue(r, "read") /\ UNCHANGED log

(* One cat-file of <commit>:<path> for every commit.  GetRevision then     *)
(* looks for its revision among them.                                      *)
ReadBlobs(r) ==
    LET revs == Revised(r)
    IN  /\ pc[r] = "blobs"
        /\ \/ /\ call[r].op = "history"
              /\ Answer(r, [kind |-> "history", revs |-> revs],
                        {<< call[r].path, revs[k] >> : k \in DOMAIN revs})
           \/ /\ call[r].op = "revision"
              /\ call[r].rev \notin ToSet(revs)
              /\ Answer(r, Failure("notfound"), {})
           \/ /\ call[r].op = "revision"
              /\ call[r].rev \in ToSet(revs)
              /\ Continue(r, "read")
              /\ UNCHANGED log

(* One cat-file by object id, which the object database answers whoever    *)
(* the object belongs to.                                                  *)
ReadRevision(r) ==
    /\ pc[r] = "read"
    /\ Answer(r, Parsed(call[r].rev), {})

(* The context is done: a read leaves nothing behind.                      *)
GiveUp(r) ==
    /\ pc[r] # "idle"
    /\ Answer(r, Failure("cancelled"), {})

Merges == {c \in DOMAIN commits : Len(commits[c].parents) > 1}

MayCommit == Len(commits) - Cardinality(Merges) < MaxCommits

(* A commit of whomever, on top of parents.                                *)
Commit(tree, parents) == commits' = Append(commits, [tree |-> tree, parents |-> parents])

ReadersWait == UNCHANGED << root, pc, call, log, answer, known, began, reads >>

BranchMoves ==
    /\ MayCommit
    /\ \E edit \in WriterEdits :
        LET next == UpdateIndex(TreeOf(Tip), edit)
        IN  /\ next # TreeOf(Tip)
            /\ Commit(next, IF Tip = Unborn THEN << >> ELSE << Tip >>)
    /\ tips' = Append(tips, Len(commits'))
    /\ ReadersWait

(* A commit beside the branch, on any commit there is.                     *)
CommitBeside ==
    /\ MayCommit
    /\ \E edit \in SideEdits, parent \in DOMAIN commits :
        LET next == UpdateIndex(TreeOf(parent), edit)
        IN  next # TreeOf(parent) /\ Commit(next, << parent >>)
    /\ UNCHANGED tips
    /\ ReadersWait

AncestorsIn(graph) ==
    LET of[c \in DOMAIN graph] ==
            {c} \cup UNION {of[graph[c].parents[k]] : k \in DOMAIN graph[c].parents}
    IN  of

Ancestors(commit) == IF commit = Unborn THEN {} ELSE AncestorsIn(commits)[commit]

(* A merge of what stands beside the branch takes each path from one side. *)
Merged(ours, theirs) ==
    {tree \in {[p \in Paths |-> IF p \in taken THEN theirs[p] ELSE ours[p]] :
                  taken \in SUBSET {p \in Paths : ours[p] # theirs[p]}} :
        \A p \in Paths : tree[p] # Absent => ~IsDirectory(tree, p)}

Merge ==
    /\ Tip # Unborn
    /\ Cardinality(Merges) < MaxMerges
    /\ \E side \in DOMAIN commits \ Ancestors(Tip) :
        /\ Tip \notin Ancestors(side)
        /\ \E tree \in Merged(TreeOf(Tip), TreeOf(side)) : Commit(tree, << Tip, side >>)
    /\ tips' = Append(tips, Len(commits'))
    /\ ReadersWait

Progress(r) ==
    Get(r) \/ ListTree(r) \/ ListHead(r) \/ Log(r) \/ LogHead(r)
        \/ ReadBlobs(r) \/ ReadRevision(r)

AllAnswered == (\A r \in Readers : pc[r] = "idle") /\ UNCHANGED vars

Next ==
    \/ \E r \in Readers : Ask(r) \/ Progress(r) \/ GiveUp(r)
    \/ BranchMoves
    \/ CommitBeside
    \/ Merge
    \/ AllAnswered

Spec == Init /\ [][Next]_vars

------------------------------------------------------------------------------
(***************************************************************************)
(* Properties.                                                             *)
(***************************************************************************)

(* Every variable has the type the four methods give it, and the branch    *)
(* only ever moved to descendants.                                         *)
TypeOK ==
    /\ root \in Roots
    /\ \A i \in DOMAIN commits :
        /\ commits[i].tree \in Trees
        /\ ToSet(commits[i].parents) \subseteq 1..(i - 1)
    /\ ToSet(tips) \subseteq DOMAIN commits
    /\ \A k \in DOMAIN tips : k > 1 => tips[k - 1] \in Ancestors(tips[k])
    /\ pc \in [Readers -> PCs]
    /\ \A r \in Readers :
        /\ call[r] \in Calls \cup {[op |-> "none"]}
        /\ ToSet(log[r]) \subseteq DOMAIN commits
        /\ known[r] \subseteq {p \in Seq(Segments) : IsContentPath(p)} \X Blobs
        /\ began[r] \in 0..Len(tips)
        /\ reads[r] \in 0..MaxReads
        /\ answer[r].kind \in {"none", "notfound", "invalid", "failed", "cancelled",
                               "document", "list", "history"}

Ended(r, op) == pc[r] = "idle" /\ call[r].op = op

(* The commits the branch has stood at since a reader's call began.        *)
During(r) ==
    {tips[k] : k \in (IF began[r] = 0 THEN 1 ELSE began[r])..Len(tips)}
        \cup (IF began[r] = 0 THEN {Unborn} ELSE {})

IsLinear(commit) == \A c \in Ancestors(commit) : Len(commits[c].parents) < 2

(* What the adapter has told a caller stays true: a revision that Get,     *)
(* List or History gave for a path is one GetRevision finds there, however *)
(* far the branch has moved on and though the document may be gone.        *)
RevisionIsRead(r) ==
    Ended(r, "revision") /\ << call[r].path, call[r].rev >> \in known[r]
        => \/ answer[r].kind \in {"document", "cancelled"}
           \/ answer[r].kind = "invalid" /\
                (call[r].rev.shape = Damaged \/ ~IsPathspec(repoPath(call[r].path)))

ReportedRevisionsStayReadable == \A r \in Readers : RevisionIsRead(r)

(* The same, as long as no merge has reached the branch: git log leaves    *)
(* out the side of a merge that did not decide the document.               *)
UnmergedRevisionsStayReadable ==
    IsLinear(Tip) => \A r \in Readers : RevisionIsRead(r)

(* GetRevision is not a way to read any object: a document it returns was  *)
(* stored at that very path in the history of the branch, and is the one   *)
(* asked for.                                                              *)
GetRevisionStaysInThePath ==
    \A r \in Readers :
        Ended(r, "revision") /\ answer[r].kind = "document"
            => /\ answer[r].rev = call[r].rev
               /\ \E c \in Ancestors(Tip) :
                    EntryAt(c, repoPath(call[r].path)) = call[r].rev

(* The commits up to a tip that changed the document itself.               *)
Versions(tip, path) ==
    {c \in Ancestors(tip) :
        /\ EntryAt(c, path) \in Blobs
        /\ \A k \in DOMAIN commits[c].parents :
              EntryAt(commits[c].parents[k], path) # EntryAt(c, path)}

NthNewest(S, k) == CHOOSE i \in S : Cardinality({j \in S : j >= i}) = k

IsHistoryOf(revs, tip, path) ==
    LET S == Versions(tip, path)
    IN  /\ Len(revs) = Cardinality(S)
        /\ \A k \in DOMAIN revs : revs[k] = EntryAt(NthNewest(S, k), path)

IsSomeOf(revs, tip, path) ==
    \A k \in DOMAIN revs : \E c \in Versions(tip, path) : revs[k] = EntryAt(c, path)

(* History is one branch's: every version the document had on the branch   *)
(* at one instant of the call, the newest first, none twice and none left  *)
(* out, though the blobs are read after the branch has moved on; and where *)
(* there are merges, nothing but such versions.                            *)
HistoryIsOfOneInstant ==
    \A r \in Readers :
        Ended(r, "history") /\ answer[r].kind = "history" /\ call[r].limit = 0
            => \E tip \in During(r) :
                 LET path == repoPath(call[r].path)
                 IN  IF IsLinear(tip) THEN IsHistoryOf(answer[r].revs, tip, path)
                     ELSE IsSomeOf(answer[r].revs, tip, path)

(* Whatever the limit and the merges, a history begins with the document   *)
(* as it is: the revision a caller needs to write it again.                *)
HistoryBeginsAtTheTip ==
    \A r \in Readers :
        Ended(r, "history") /\ answer[r].kind \in {"history", "notfound"}
                /\ repoPath(call[r].path) # NoPath
            => \E tip \in During(r) :
                 LET entry == EntryAt(tip, repoPath(call[r].path))
                 IN  entry \in Blobs =>
                       /\ answer[r].kind = "history"
                       /\ answer[r].revs # << >>
                       /\ answer[r].revs[1] = entry

(* A listing is the documents of one instant of the call, all those of the *)
(* collection that a caller can ask for, under the names to ask for them,  *)
(* and nothing that is not one.  A collection that has the name of a       *)
(* document lists that document too.                                       *)
ListIsOfOneInstant ==
    \A r \in Readers :
        Ended(r, "list") /\ answer[r].kind = "list"
            => \E tip \in During(r) :
                 LET found == {p \in Paths : EntryAt(tip, p) \in Blobs}
                     names == {p \in {Rel(root, q) : q \in found} :
                                 IsContentPath(p) /\ repoPath(p) \in found}
                 IN  answer[r].entries =
                       {<< p, EntryAt(tip, repoPath(p)) >> :
                          p \in {q \in names :
                                   IsMarkdown(q) /\ IsPrefix(call[r].path, q)}}

(* A limit caps a history and does nothing else to it: as many revisions   *)
(* as there are, up to the limit.                                          *)
LimitOnlyCaps ==
    \A r \in Readers :
        Ended(r, "history") /\ answer[r].kind = "history" /\ call[r].limit > 0
            => \E tip \in During(r) :
                 LET S == Versions(tip, repoPath(call[r].path))
                 IN  Len(answer[r].revs) = IF call[r].limit < Cardinality(S)
                                           THEN call[r].limit ELSE Cardinality(S)

------------------------------------------------------------------------------
(***************************************************************************)
(* The inductive invariants that the proofs rest on.                       *)
(***************************************************************************)

(* A commit is made on commits that are there already.                     *)
IsGraph(graph) ==
    /\ graph \in Seq([tree: Trees, parents: Seq(Nat)])
    /\ \A c \in DOMAIN graph : \A k \in DOMAIN graph[c].parents :
           graph[c].parents[k] \in 1..(c - 1)

GraphInv ==
    /\ root \in Roots
    /\ IsGraph(commits)
    /\ \A c \in DOMAIN commits : IsWellFormed(commits[c].tree)
    /\ tips \in Seq(DOMAIN commits)
    /\ \A k \in DOMAIN tips : k > 1 => tips[k - 1] \in Ancestors(tips[k])

(* The commits of which git log prints all, or some where it simplifies.   *)
Prints(graph, commit, path) ==
    /\ Same(graph, commit, path) = {}
    /\ graph[commit].parents = << >> =>
           Part(graph[commit].tree, path) # Part(EmptyTree, path)

IsLogOf(printed, tip, path, limit) ==
    /\ printed \in Seq(Ancestors(tip)) \ {<< >>}
    /\ \A i, j \in DOMAIN printed : i < j => printed[i] > printed[j]
    /\ \A i \in DOMAIN printed : Prints(commits, printed[i], path)
    /\ limit = 0 /\ IsLinear(tip) =>
           {c \in Ancestors(tip) : Prints(commits, c, path)} \subseteq ToSet(printed)
    /\ EntryAt(tip, path) \in Blobs => EntryAt(printed[1], path) = EntryAt(tip, path)

(* A revision was at the path in a commit that the branch has had.         *)
WasAt(tip, path, rev) == \E c \in Ancestors(tip) : EntryAt(c, path) = rev

KnownInv(r) ==
    \A pair \in known[r] :
        /\ pair \in {p \in Seq(Segments) : IsContentPath(p)} \X Blobs
        /\ WasAt(Tip, repoPath(pair[1]), pair[2])

(* What a call has done so far: its operation runs this command, it was    *)
(* not refused, and what git log printed is of one instant of the call.    *)
CallInv(r) ==
    /\ pc[r] \in PCs
    /\ call[r] \in Calls \cup {[op |-> "none"]}
    /\ pc[r] # "idle" => call[r] \in Calls /\ Refusal(call[r]) = "none"
    /\ pc[r] = "get" => call[r].op = "get"
    /\ pc[r] \in {"list", "listhead"} => call[r].op = "list"
    /\ pc[r] \in {"log", "loghead", "blobs"} => call[r].op \in {"history", "revision"}
    /\ pc[r] = "read" => call[r].op = "revision"
    /\ began[r] \in 0..Len(tips)
    /\ reads[r] \in 0..MaxReads
    /\ log[r] \in Seq(DOMAIN commits)
    /\ pc[r] = "loghead" => began[r] = 0
    /\ pc[r] = "loghead" => known[r] = {}

LogInv(r) ==
    LET path == repoPath(call[r].path)
    IN  /\ pc[r] = "blobs" =>
               \E tip \in During(r) \ {Unborn} :
                   /\ IsLogOf(log[r], tip, path, LimitOf(call[r]))
                   /\ call[r].op = "revision" /\ << call[r].path, call[r].rev >> \in known[r]
                          => WasAt(tip, path, call[r].rev)
        /\ pc[r] = "read" => WasAt(Tip, path, call[r].rev)

(* Every reader has its own of each variable.                              *)
PerReader(f) == DOMAIN f = Readers

ReadsInv ==
    /\ GraphInv
    /\ TypeOK
    /\ PerReader(call) /\ PerReader(log) /\ PerReader(answer)
    /\ PerReader(known) /\ PerReader(began) /\ PerReader(reads)
    /\ \A r \in Readers : CallInv(r) /\ KnownInv(r) /\ LogInv(r)
    /\ UnmergedRevisionsStayReadable
    /\ GetRevisionStaysInThePath
    /\ HistoryIsOfOneInstant
    /\ HistoryBeginsAtTheTip
    /\ ListIsOfOneInstant
==============================================================================
