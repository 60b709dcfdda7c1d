---------------------------- MODULE GitRepository ----------------------------
(***************************************************************************)
(* The write path of git.Repository: Put and Delete, which share apply.    *)
(* Writers are concurrent callers; those of one *Repository take turns in  *)
(* its queue, and other processes and plain git are kept out by nothing    *)
(* but the compare-and-swap on the branch ref.                             *)
(*                                                                         *)
(* A commit is content-addressed, its parent included, so it is modelled   *)
(* by what its id determines: the sequence of changes from the first       *)
(* commit to it.  The branch ref holds one such sequence, << >> while it   *)
(* is unborn, and an object nothing refers to is not state.                *)
(***************************************************************************)
EXTENDS GitTrees, Integers, Sequences, FiniteSets

CONSTANTS
    Writers,          \* callers of Put and Delete
    Processes,        \* the *Repository values open on this branch
    ProcessOf,        \* the *Repository each writer calls
    Nobody,           \* holds a free turn
    PlainGit,         \* the author of a commit this package did not make
    CallsOf,          \* the calls each writer may make
    InitialBranches,  \* what the branch may hold at the start
    GitEdits,         \* the edits plain git may commit
    MaxAttempts,      \* maxPublishAttempts
    MaxCalls,         \* bound: calls per writer
    MaxGitCommits,    \* bound: commits plain git adds
    MayCancel,        \* the writers whose context may be cancelled
    Faults            \* which of AllFaults may happen to a git subprocess

(* fails: a git command fails before anything is visible.                  *)
(* refused: update-ref fails though the ref has not moved, as it does when *)
(* a stranded <ref>.lock or a reference-transaction hook stops it.         *)
(* killed: update-ref moves the ref and is killed before it can say so.    *)
AllFaults == {"fails", "refused", "killed"}

Authors == Writers \cup {PlainGit}

(* What one commit adds to its parent: its tree and the core.Change that   *)
(* made it, which names the author and which of the author's calls it was. *)
Changes == [tree: Trees, author: Authors, nth: Nat]

Branches == Seq(Changes)

Unborn == << >>

ASSUME GitRepositoryAssumption ==
    /\ ProcessOf \in [Writers -> Processes]
    /\ Nobody \notin Writers
    /\ PlainGit \notin Writers
    /\ CallsOf \in [Writers -> SUBSET CallsOn(Paths)]
    /\ InitialBranches \subseteq Branches
    /\ \A branch \in InitialBranches :     \* what a call did is not there before it
           \A i \in DOMAIN branch : branch[i].author = PlainGit
    /\ \A branch \in InitialBranches :     \* and git wrote its trees
           \A i \in DOMAIN branch : IsWellFormed(branch[i].tree)
    /\ GitEdits \subseteq Edits
    /\ MaxAttempts \in Nat \ {0}
    /\ MaxCalls \in Nat
    /\ MaxGitCommits \in Nat
    /\ MayCancel \subseteq Writers
    /\ Faults \subseteq AllFaults

(* A writer that has made no call yet. *)
NoCall == [op |-> "none"]

VARIABLES
    ref,        \* the branch ref: the commit it points at
    turn,       \* per *Repository, the writer whose token is in r.writes
    pc,         \* per writer, where its call is
    call,       \* per writer, the arguments of its call
    nth,        \* per writer, how many calls it has made
    cancelled,  \* per writer, whether the call's context is done
    attempt,    \* apply's loop counter
    parent,     \* apply's parent and born: Unborn when there is none
    edits,      \* the edits plan asked for
    rev,        \* the revision plan reported, which the call returns
    tree,       \* the tree writeTree returned
    commit,     \* the commit commitTree returned
    reply,      \* per writer, how its last call ended
    began       \* per writer, the length of the branch when its call began

vars == << ref, turn, pc, call, nth, cancelled, attempt, parent, edits, rev,
           tree, commit, reply, began >>

Replies == {"none", "ok", "exists", "conflict", "notfound", "invalid",
            "cancelled", "failed", "exhausted"}

(* The points of a call at which it holds its process's turn. *)
InTurn == {"head", "plan", "tree", "commit", "publish", "published",
           "rejected", "backoff"}

PCs == {"idle", "queued"} \cup InTurn

TreeOf(branch) ==
    IF branch = Unborn THEN EmptyTree ELSE branch[Len(branch)].tree

(***************************************************************************)
(* The plans: what one attempt of a write does against a parent.  A        *)
(* refusal is an error of the call; "done" is wanted = false.  An unborn   *)
(* branch has the empty tree, so planCreate finds the path free on it and  *)
(* the other two find nothing there.                                       *)
(***************************************************************************)
Refusal(why) == [verdict |-> why, edits |-> {}, rev |-> NoRevision]

Write(path, blob) ==
    [verdict |-> "write", edits |-> {[path |-> path, entry |-> blob]},
     rev |-> blob]

PlanCreate(c, branch) ==
    IF CatFile(TreeOf(branch), c.path) # "missing" THEN Refusal("exists")
    ELSE IF c.text \in Unwritable THEN Refusal("invalid")
    ELSE Write(c.path, Format(c.text))

(* Slip: the revision is compared before the retry only, not on each plan. *)
PlanUpdateUnchecked(c, branch) ==
    LET written == SerializeInto(TreeOf(branch)[c.path], c.text)
    IN  IF CatFile(TreeOf(branch), c.path) # "blob" THEN Refusal("notfound")
        ELSE Write(c.path, written)

PlanUpdate(c, branch) ==
    LET stored  == TreeOf(branch)[c.path]
        written == SerializeInto(stored, c.text)
    IN  IF CatFile(TreeOf(branch), c.path) # "blob" THEN Refusal("notfound")
        ELSE IF stored # c.rev THEN Refusal("conflict")
        ELSE IF c.text \in Unwritable THEN Refusal("invalid")
        ELSE IF written = stored
             THEN [verdict |-> "done", edits |-> {}, rev |-> c.rev]
        ELSE Write(c.path, written)

PlanDelete(c, branch) ==
    LET stored == TreeOf(branch)[c.path]
    IN  IF CatFile(TreeOf(branch), c.path) # "blob" THEN Refusal("notfound")
        ELSE IF c.rev # NoRevision /\ stored # c.rev THEN Refusal("conflict")
        ELSE [verdict |-> "write",
              edits   |-> {[path |-> c.path, entry |-> Absent]},
              rev     |-> NoRevision]

Plan(c, branch) ==
    IF c.op = "delete" THEN PlanDelete(c, branch)
    ELSE IF c.rev = NoRevision THEN PlanCreate(c, branch)
    ELSE PlanUpdate(c, branch)

(* On an unborn branch there is no object to read, and a refusal needs no  *)
(* git command that a context already done would stop.                     *)
PlanRunsGit(c, branch) ==
    branch # Unborn \/ Plan(c, branch).verdict = "write"

------------------------------------------------------------------------------
Init ==
    /\ ref \in InitialBranches
    /\ turn = [p \in Processes |-> Nobody]
    /\ pc = [w \in Writers |-> "idle"]
    /\ call = [w \in Writers |-> NoCall]
    /\ nth = [w \in Writers |-> 0]
    /\ cancelled = [w \in Writers |-> FALSE]
    /\ attempt = [w \in Writers |-> 0]
    /\ parent = [w \in Writers |-> Unborn]
    /\ edits = [w \in Writers |-> {}]
    /\ rev = [w \in Writers |-> NoRevision]
    /\ tree = [w \in Writers |-> EmptyTree]
    /\ commit = [w \in Writers |-> Unborn]
    /\ reply = [w \in Writers |-> "none"]
    /\ began = [w \in Writers |-> 0]

attemptVars == << parent, edits, tree, commit >>
callVars == << call, nth, began >>

Goto(w, label) == pc' = [pc EXCEPT ![w] = label]

(* Slip: an error path that forgets to give the turn back.                 *)
ReturnKeepingTurn(w, why) ==
    /\ Goto(w, "idle")
    /\ reply' = [reply EXCEPT ![w] = why]
    /\ turn' = IF why = "ok" THEN [turn EXCEPT ![ProcessOf[w]] = Nobody] ELSE turn
    /\ cancelled' = [cancelled EXCEPT ![w] = FALSE]
    /\ parent' = [parent EXCEPT ![w] = Unborn]
    /\ edits' = [edits EXCEPT ![w] = {}]
    /\ tree' = [tree EXCEPT ![w] = EmptyTree]
    /\ commit' = [commit EXCEPT ![w] = Unborn]
    /\ UNCHANGED callVars

(* Slip: the deferred receive runs for a caller that never got its turn.   *)
ReturnTakingATurnBack(w, why) ==
    /\ Goto(w, "idle")
    /\ reply' = [reply EXCEPT ![w] = why]
    /\ turn' = [turn EXCEPT ![ProcessOf[w]] = Nobody]
    /\ cancelled' = [cancelled EXCEPT ![w] = FALSE]
    /\ parent' = [parent EXCEPT ![w] = Unborn]
    /\ edits' = [edits EXCEPT ![w] = {}]
    /\ tree' = [tree EXCEPT ![w] = EmptyTree]
    /\ commit' = [commit EXCEPT ![w] = Unborn]
    /\ UNCHANGED callVars

(* Ends the call: the deferred receive gives the turn back, and apply's    *)
(* variables go out of scope.                                              *)
Return(w, why) ==
    /\ Goto(w, "idle")
    /\ reply' = [reply EXCEPT ![w] = why]
    /\ turn' = IF pc[w] \in InTurn
               THEN [turn EXCEPT ![ProcessOf[w]] = Nobody] ELSE turn
    /\ cancelled' = [cancelled EXCEPT ![w] = FALSE]
    /\ parent' = [parent EXCEPT ![w] = Unborn]
    /\ edits' = [edits EXCEPT ![w] = {}]
    /\ tree' = [tree EXCEPT ![w] = EmptyTree]
    /\ commit' = [commit EXCEPT ![w] = Unborn]
    /\ UNCHANGED callVars

(***************************************************************************)
(* Put and Delete up to the queue.  A caller learns a revision by reading  *)
(* it from the branch, and may hold it for as long as it likes.            *)
(***************************************************************************)
Reported(path) == {ref[i].tree[path] : i \in DOMAIN ref} \cap Blobs

IsRefused(c) == c.op = "put" /\ c.text \in Invalid

Begin(w) ==
    /\ pc[w] = "idle"
    /\ nth[w] < MaxCalls
    /\ \E c \in CallsOf[w] :
        /\ c.rev \in Reported(c.path) \cup {NoRevision}
        /\ call' = [call EXCEPT ![w] = c]
        /\ Goto(w, IF IsRefused(c) THEN "idle" ELSE "queued")
        /\ reply' = [reply EXCEPT ![w] = IF IsRefused(c) THEN "invalid" ELSE "none"]
    /\ nth' = [nth EXCEPT ![w] = @ + 1]
    /\ began' = [began EXCEPT ![w] = Len(ref)]
    /\ attempt' = [attempt EXCEPT ![w] = 0]
    /\ rev' = [rev EXCEPT ![w] = NoRevision]
    /\ UNCHANGED << ref, turn, cancelled, attemptVars >>

(* The caller's context is done: cancelled, or past its deadline.          *)
Cancel(w) ==
    /\ pc[w] # "idle"
    /\ w \in MayCancel
    /\ ~cancelled[w]
    /\ cancelled' = [cancelled EXCEPT ![w] = TRUE]
    /\ UNCHANGED << ref, turn, pc, attempt, rev, reply, attemptVars, callVars >>

(* Slip: no queue, so this process's writers stampede the branch.          *)
TakeTurnAtOnce(w) ==
    /\ pc[w] = "queued"
    /\ turn' = [turn EXCEPT ![ProcessOf[w]] = w]
    /\ attempt' = [attempt EXCEPT ![w] = 1]
    /\ Goto(w, "head")
    /\ UNCHANGED << ref, cancelled, rev, reply, attemptVars, callVars >>

(* apply's select: the send on r.writes.                                   *)
TakeTurn(w) ==
    /\ pc[w] = "queued"
    /\ turn[ProcessOf[w]] = Nobody
    /\ turn' = [turn EXCEPT ![ProcessOf[w]] = w]
    /\ attempt' = [attempt EXCEPT ![w] = 1]
    /\ Goto(w, "head")
    /\ UNCHANGED << ref, cancelled, rev, reply, attemptVars, callVars >>

(* Slip: a retry commits the tree of its first attempt on the new parent.  *)
ResolveHeadKeepingTree(w) ==
    /\ pc[w] = "head"
    /\ ~cancelled[w]
    /\ parent' = [parent EXCEPT ![w] = ref]
    /\ Goto(w, IF attempt[w] = 1 THEN "plan" ELSE "commit")
    /\ UNCHANGED << ref, turn, cancelled, attempt, rev, reply, edits, tree,
                    commit, callVars >>

(* head: every attempt starts from a freshly resolved branch.              *)
ResolveHead(w) ==
    /\ pc[w] = "head"
    /\ ~cancelled[w]
    /\ parent' = [parent EXCEPT ![w] = ref]
    /\ Goto(w, "plan")
    /\ UNCHANGED << ref, turn, cancelled, attempt, rev, reply, edits, tree,
                    commit, callVars >>

(* plan: decides against parent, whatever the branch holds by now.         *)
MakePlan(w) ==
    LET plan == Plan(call[w], parent[w])
    IN  /\ pc[w] = "plan"
        /\ cancelled[w] => ~PlanRunsGit(call[w], parent[w])
        /\ rev' = [rev EXCEPT ![w] = plan.rev]
        /\ \/ /\ plan.verdict = "write"
              /\ edits' = [edits EXCEPT ![w] = plan.edits]
              /\ Goto(w, "tree")
              /\ UNCHANGED << turn, cancelled, reply, parent, tree, commit, callVars >>
           \/ /\ plan.verdict = "done"
              /\ Return(w, "ok")
           \/ /\ plan.verdict \notin {"write", "done"}
              /\ Return(w, plan.verdict)
        /\ UNCHANGED << ref, attempt >>

(* writeTree: the edits staged over parent's tree in a scratch index.      *)
WriteTree(w) ==
    /\ pc[w] = "tree"
    /\ ~cancelled[w]
    /\ \E edit \in edits[w] :
        tree' = [tree EXCEPT ![w] = UpdateIndex(TreeOf(parent[w]), edit)]
    /\ Goto(w, "commit")
    /\ UNCHANGED << ref, turn, cancelled, attempt, rev, reply, parent, edits,
                    commit, callVars >>

(* commitTree: the tree and the Change on top of parent.                   *)
CommitTree(w) ==
    /\ pc[w] = "commit"
    /\ ~cancelled[w]
    /\ commit' = [commit EXCEPT ![w] =
        Append(parent[w], [tree |-> tree[w], author |-> w, nth |-> nth[w]])]
    /\ Goto(w, "publish")
    /\ UNCHANGED << ref, turn, cancelled, attempt, rev, reply, parent, edits,
                    tree, callVars >>

(* Slip: update-ref is not given the old value.                            *)
UpdateRefBlindly(w) ==
    /\ pc[w] = "publish"
    /\ ~cancelled[w]
    /\ ref' = commit[w]
    /\ Goto(w, "published")
    /\ UNCHANGED << turn, cancelled, attempt, rev, reply, attemptVars, callVars >>

(* Slip: on a branch that was unborn any first commit is welcome.          *)
UpdateRefUnlessUnborn(w) ==
    /\ pc[w] = "publish"
    /\ ~cancelled[w]
    /\ \/ /\ parent[w] \in {ref, Unborn}
          /\ ref' = commit[w]
          /\ Goto(w, "published")
       \/ /\ parent[w] \notin {ref, Unborn}
          /\ ref' = ref
          /\ Goto(w, "rejected")
    /\ UNCHANGED << turn, cancelled, attempt, rev, reply, attemptVars, callVars >>

(* update-ref <ref> <commit> <parent>: git moves the ref only from parent, *)
(* or creates it only where there was none, in one atomic step.            *)
UpdateRef(w) ==
    /\ pc[w] = "publish"
    /\ ~cancelled[w]
    /\ \/ /\ ref = parent[w]
          /\ ref' = commit[w]
          /\ Goto(w, "published")
       \/ /\ ref # parent[w] \/ "refused" \in Faults
          /\ ref' = ref
          /\ Goto(w, "rejected")
       \/ /\ "killed" \in Faults
          /\ ref = parent[w]
          /\ ref' = commit[w]
          /\ Goto(w, "rejected")
    /\ UNCHANGED << turn, cancelled, attempt, rev, reply, attemptVars, callVars >>

(* publish returned nil.  A context that ends while update-ref is still    *)
(* running makes run report the cancellation, although the ref moved.      *)
Published(w) ==
    /\ pc[w] = "published"
    /\ \/ Return(w, "ok")
       \/ cancelled[w] /\ Return(w, "cancelled")
    /\ UNCHANGED << ref, attempt, rev >>

(* Slip: a failed publish is reported as a conflict without asking plan.   *)
RejectedIsAConflict(w) ==
    /\ pc[w] = "rejected"
    /\ Return(w, IF cancelled[w] THEN "cancelled" ELSE "conflict")
    /\ UNCHANGED << ref, attempt, rev >>

(* publish returned an error, which is not classified.  With the context   *)
(* done that error is the call's: the cancellation, or git's own when the  *)
(* context ended only after update-ref did.                                *)
Rejected(w) ==
    /\ pc[w] = "rejected"
    /\ \/ cancelled[w] /\ \E why \in {"cancelled", "failed"} : Return(w, why)
       \/ /\ ~cancelled[w]
          /\ Goto(w, "backoff")
          /\ UNCHANGED << turn, cancelled, reply, attemptVars, callVars >>
    /\ UNCHANGED << ref, attempt, rev >>

(* Slip: the bound is compared after the counter has moved.                *)
BackoffOnceTooOften(w) ==
    /\ pc[w] = "backoff"
    /\ \/ /\ attempt[w] <= MaxAttempts
          /\ attempt' = [attempt EXCEPT ![w] = @ + 1]
          /\ Goto(w, "head")
          /\ UNCHANGED << turn, cancelled, reply, attemptVars, callVars >>
       \/ /\ attempt[w] > MaxAttempts
          /\ Return(w, "exhausted")
          /\ UNCHANGED attempt
    /\ UNCHANGED << ref, rev >>

(* waitBeforeRetry's timer fires, after the last attempt too; the loop     *)
(* then goes round or falls out of its bound.                              *)
Backoff(w) ==
    /\ pc[w] = "backoff"
    /\ \/ /\ attempt[w] < MaxAttempts
          /\ attempt' = [attempt EXCEPT ![w] = @ + 1]
          /\ Goto(w, "head")
          /\ UNCHANGED << turn, cancelled, reply, attemptVars, callVars >>
       \/ /\ attempt[w] = MaxAttempts
          /\ Return(w, "exhausted")
          /\ UNCHANGED attempt
    /\ UNCHANGED << ref, rev >>

(* A context that is done ends the call wherever apply looks at it: in the *)
(* queue, at the top of the loop, in every git command and in the backoff. *)
StopsAt(w) ==
    CASE pc[w] = "plan" -> PlanRunsGit(call[w], parent[w])
      [] OTHER -> pc[w] \in {"queued", "head", "tree", "commit", "publish", "backoff"}

Abort(w) ==
    /\ cancelled[w]
    /\ StopsAt(w)
    /\ Return(w, "cancelled")
    /\ UNCHANGED << ref, attempt, rev >>

(* A git command before the publish exits with an error of its own.        *)
GitFails(w) ==
    /\ "fails" \in Faults
    /\ ~cancelled[w]
    /\ \/ pc[w] \in {"head", "tree", "commit"}
       \/ pc[w] = "plan" /\ PlanRunsGit(call[w], parent[w])
    /\ Return(w, "failed")
    /\ UNCHANGED << ref, attempt, rev >>

(* A commit by plain git: one edit of the current tree, published by the   *)
(* same compare-and-swap.                                                  *)
ByPlainGit(branch) == {i \in DOMAIN branch : branch[i].author = PlainGit}

GitCommits ==
    /\ Cardinality(ByPlainGit(ref)) < MaxGitCommits
    /\ \E edit \in GitEdits :
        LET next == UpdateIndex(TreeOf(ref), edit)
        IN  /\ next # TreeOf(ref)
            /\ ref' = Append(ref, [tree |-> next, author |-> PlainGit,
                                   nth |-> Cardinality(ByPlainGit(ref))])
    /\ UNCHANGED << turn, pc, cancelled, attempt, rev, reply, attemptVars, callVars >>

(* What a writer's goroutine does by itself once its call has begun.       *)
Progress(w) ==
    \/ TakeTurn(w)
    \/ ResolveHead(w)
    \/ MakePlan(w)
    \/ WriteTree(w)
    \/ CommitTree(w)
    \/ UpdateRef(w)
    \/ Published(w)
    \/ Rejected(w)
    \/ Backoff(w)
    \/ Abort(w)

(* Callers may stop calling once every call has returned, and only then.   *)
AllReturned == (\A w \in Writers : pc[w] = "idle") /\ UNCHANGED vars

Next ==
    \/ \E w \in Writers : Begin(w) \/ Cancel(w) \/ Progress(w) \/ GitFails(w)
    \/ GitCommits
    \/ AllReturned

(* A goroutine that can run is run, and git commands and timers end.       *)
Fairness == \A w \in Writers : WF_vars(Progress(w))

Spec == Init /\ [][Next]_vars

FairSpec == Spec /\ Fairness

------------------------------------------------------------------------------
(***************************************************************************)
(* Properties.                                                             *)
(***************************************************************************)

(* Every variable has the type apply gives it, and the loop counter never  *)
(* passes maxPublishAttempts.                                              *)
TypeOK ==
    /\ ref \in Branches
    /\ turn \in [Processes -> Writers \cup {Nobody}]
    /\ pc \in [Writers -> PCs]
    /\ call \in [Writers -> CallsOn(Paths) \cup {NoCall}]
    /\ nth \in [Writers -> 0..MaxCalls]
    /\ cancelled \in [Writers -> BOOLEAN]
    /\ attempt \in [Writers -> 0..MaxAttempts]
    /\ parent \in [Writers -> Branches]
    /\ edits \in [Writers -> SUBSET Edits]
    /\ rev \in [Writers -> Revisions]
    /\ tree \in [Writers -> Trees]
    /\ commit \in [Writers -> Branches]
    /\ reply \in [Writers -> Replies]
    /\ began \in [Writers -> Nat]

(* apply's queue: a writer is past the select exactly while its token is   *)
(* the one in its process's channel, on every path out of apply.           *)
TurnsAreExclusive ==
    \A w \in Writers : pc[w] \in InTurn <=> turn[ProcessOf[w]] = w

(* The branch only ever grows: whoever publishes, no commit that was on    *)
(* the branch is lost from it.                                             *)
FastForwardOnly ==
    [][Len(ref) <= Len(ref') /\ \A i \in DOMAIN ref : ref'[i] = ref[i]]_vars

(* The commits a writer's current or last call has put on the branch.      *)
CommitsOf(w) ==
    {i \in DOMAIN ref : ref[i].author = w /\ ref[i].nth = nth[w]}

TreeBefore(i) == IF i = 1 THEN EmptyTree ELSE ref[i - 1].tree

(* What a commit may do to the document its call names: a create finds the *)
(* path free, an update and a conditional delete find the revision they    *)
(* were given, and what is stored afterwards is what was asked for, in the *)
(* shape the document had.                                                 *)
IsWhatWasAsked(c, before, after) ==
    LET old == before[c.path]
        new == after[c.path]
    IN  \/ /\ c.op = "delete"
           /\ old \in Blobs
           /\ c.rev \in {old, NoRevision}
           /\ new = Absent
        \/ /\ c.op = "put"
           /\ c.rev = NoRevision
           /\ CatFile(before, c.path) = "missing"
           /\ new = Format(c.text)
        \/ /\ c.op = "put"
           /\ c.rev = old
           /\ new # old
           /\ new.text = c.text
           /\ new.shape = IF old.shape = Damaged THEN Canonical ELSE old.shape

(* Put and Delete are compare-and-swaps on the document, not on the        *)
(* branch: every commit they publish, on whichever attempt and whoever     *)
(* committed in between, does what was asked to the tree it was put on.    *)
CommitsAreCompareAndSwaps ==
    \A w \in Writers : \A i \in CommitsOf(w) :
        IsWhatWasAsked(call[w], TreeBefore(i), ref[i].tree)

(* A write changes its own document and nothing else in the repository,    *)
(* what others committed during the call included.                         *)
OnlyNamedDocumentChanges ==
    \A w \in Writers : \A i \in CommitsOf(w) : \A p \in Paths :
        p # call[w].path => ref[i].tree[p] = TreeBefore(i)[p]

(* What a caller is told agrees with the branch: a success left exactly    *)
(* one commit, holding the revision returned, unless the bytes were the    *)
(* stored ones already; an error left none; a cancelled call left none or  *)
(* one.  A lost or a repeated update breaks it.                            *)
RepliesMatchTheBranch ==
    \A w \in Writers :
        LET mine == CommitsOf(w)
        IN  /\ Cardinality(mine) <= 1
            /\ reply[w] \notin {"none", "ok", "cancelled"} => mine = {}
            /\ reply[w] = "ok" /\ call[w].op = "put" =>
                IF mine = {}
                THEN /\ rev[w] = call[w].rev
                     /\ SerializeInto(rev[w], call[w].text) = rev[w]
                ELSE \A i \in mine : ref[i].tree[call[w].path] = rev[w]
            /\ reply[w] = "ok" /\ call[w].op = "delete" => mine # {}

(* The publishes a call has lost so far.                                   *)
Losses(w) ==
    IF pc[w] \in {"rejected", "backoff"} \/ reply[w] = "exhausted"
    THEN attempt[w]
    ELSE IF pc[w] \in InTurn THEN attempt[w] - 1 ELSE 0

(* The commits other processes and plain git have made since a call began. *)
FromOutside(w) ==
    {i \in began[w] + 1 .. Len(ref) :
        \/ ref[i].author = PlainGit
        \/ /\ ref[i].author \in Writers
           /\ ProcessOf[ref[i].author] # ProcessOf[w]}

(* Writers of one *Repository never cost each other an attempt: every      *)
(* publish a call loses was lost to a commit from outside its process, so  *)
(* an exhausted call was overtaken from outside maxPublishAttempts times.  *)
RetriesComeFromOutside ==
    \A w \in Writers : Losses(w) <= Cardinality(FromOutside(w))

(* No call waits for ever: not in the queue, not in the retry loop.        *)
EveryCallReturns ==
    \A w \in Writers : pc[w] # "idle" ~> pc[w] = "idle"

------------------------------------------------------------------------------
(***************************************************************************)
(* The inductive invariant behind the theorems of GitRepository_proofs:    *)
(* TypeOK says nothing of a call's arguments while the call is under way,  *)
(* and FastForwardOnly needs to know that the commit about to be published *)
(* is one change on top of the parent update-ref is told to expect.        *)
(***************************************************************************)
CallsAreUnderWay ==
    \A w \in Writers : pc[w] # "idle" => call[w] \in CallsOn(Paths)

CommitsExtendTheirParent ==
    \A w \in Writers : pc[w] = "publish" =>
        commit[w] = Append(parent[w], [tree |-> tree[w], author |-> w, nth |-> nth[w]])

IInv ==
    /\ TypeOK
    /\ TurnsAreExclusive
    /\ CallsAreUnderWay
    /\ CommitsExtendTheirParent

(***************************************************************************)
(* And the one behind the compare-and-swap: what a call stages, commits    *)
(* and has published is its plan, made against the very parent its commit  *)
(* is put on.                                                              *)
(***************************************************************************)
CarriesOut(c, branch, result) ==
    /\ c \in CallsOn(Paths)
    /\ Plan(c, branch).verdict = "write"
    /\ \E edit \in Plan(c, branch).edits : result = UpdateIndex(TreeOf(branch), edit)

CallsAreNumbered ==
    \A w \in Writers : \A i \in DOMAIN ref :
        ref[i].author = w => ref[i].nth <= nth[w]

PlansAreOfTheParent ==
    \A w \in Writers : pc[w] \in {"tree", "commit", "publish"} =>
        LET plan == Plan(call[w], parent[w])
        IN  plan.verdict = "write" /\ edits[w] = plan.edits

TreesArePlanned ==
    \A w \in Writers : pc[w] \in {"commit", "publish"} =>
        CarriesOut(call[w], parent[w], tree[w])

CommitsArePlanned ==
    \A w \in Writers : \A i \in CommitsOf(w) :
        CarriesOut(call[w], SubSeq(ref, 1, i - 1), ref[i].tree)

PInv ==
    /\ CallsAreNumbered
    /\ PlansAreOfTheParent
    /\ TreesArePlanned
    /\ CommitsArePlanned

(***************************************************************************)
(* And the one behind the replies: a call has nothing on the branch until  *)
(* update-ref has moved it, and one commit of the planned revision then.   *)
(***************************************************************************)
IsTruthful(w) ==
    LET mine == CommitsOf(w)
    IN  /\ pc[w] # "idle" => reply[w] = "none"
        /\ pc[w] \notin {"idle", "published"} => mine = {}
        /\ pc[w] = "published" => mine # {}
        /\ \A i, j \in mine : i = j
        /\ \A i \in mine : call[w].op = "put" => ref[i].tree[call[w].path] = rev[w]
        /\ pc[w] \in {"tree", "commit", "publish"} =>
               rev[w] = Plan(call[w], parent[w]).rev
        /\ reply[w] \notin {"none", "ok", "cancelled"} => mine = {}
        /\ reply[w] = "ok" /\ call[w].op = "delete" => mine # {}
        /\ reply[w] = "ok" /\ call[w].op = "put" /\ mine = {} =>
               /\ rev[w] = call[w].rev
               /\ SerializeInto(rev[w], call[w].text) = rev[w]

RInv == \A w \in Writers : IsTruthful(w)

(***************************************************************************)
(* And the one behind the retries: while an attempt is under way nobody of *)
(* the caller's own process publishes, so whatever the branch has gained   *)
(* on the attempt's parent came from outside, and none of it was counted   *)
(* against an earlier attempt.                                             *)
(***************************************************************************)
Attempting == {"plan", "tree", "commit", "publish"}

SeenFromOutside(w) == {i \in FromOutside(w) : i <= Len(parent[w])}

IsOvertakenFromOutside(w) ==
    /\ pc[w] # "idle" => reply[w] = "none"
    /\ began[w] <= Len(ref)
    /\ Losses(w) <= Cardinality(FromOutside(w))
    /\ pc[w] \in Attempting =>
           /\ began[w] <= Len(parent[w]) /\ Len(parent[w]) <= Len(ref)
           /\ \A i \in DOMAIN parent[w] : parent[w][i] = ref[i]
           /\ Len(parent[w]) + 1 .. Len(ref) \subseteq FromOutside(w)
           /\ Losses(w) <= Cardinality(SeenFromOutside(w))

OInv == \A w \in Writers : IsOvertakenFromOutside(w)

(***************************************************************************)
(* And the one behind what a write leaves alone: the trees on the branch   *)
(* are git's, whoever committed them, and a call is one its writer makes.  *)
(***************************************************************************)
WInv ==
    /\ \A i \in DOMAIN ref : IsWellFormed(ref[i].tree)
    /\ \A w \in Writers : call[w] \in CallsOf[w] \cup {NoCall}

(* update-index drops a document that is in the way of a new one, so what  *)
(* a write promises about the others is promised of callers that create no *)
(* document below the path of another.                                     *)
NoNestedCreates ==
    \A w \in Writers : \A c \in CallsOf[w] :
        c.op = "put" /\ c.rev = NoRevision =>
            \A p \in Paths : <<c.path, p>> \notin Inside
==============================================================================
