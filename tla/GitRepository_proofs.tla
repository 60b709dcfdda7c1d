------------------------- MODULE GitRepository_proofs ------------------------
(***************************************************************************)
(* Theorems about GitRepository, for any number of writers, processes,     *)
(* documents and attempts: types and turns, what is published and what is  *)
(* planned, the commits of a call and what it replies.                     *)
(***************************************************************************)
EXTENDS GitRepository, SequenceTheorems, FiniteSetTheorems, TLAPS

(* git's trees stay trees, whatever commit they are read from.             *)
LEMMA TreeOfType ==
    ASSUME NEW branch \in Branches
    PROVE  TreeOf(branch) \in Trees
<1>1. CASE branch = Unborn
    BY <1>1 DEF TreeOf, EmptyTree, Trees, Entries
<1>2. CASE branch # Unborn
    <2>1. Len(branch) \in 1..Len(branch)
        BY <1>2 DEF Branches, Unborn
    <2>2. branch[Len(branch)] \in Changes
        BY <2>1 DEF Branches
    <2> QED
        BY <1>2, <2>2 DEF TreeOf, Changes
<1> QED
    BY <1>1, <1>2

(* The commits plain git has put on a branch can be counted.               *)
LEMMA PlainGitCounted ==
    ASSUME NEW branch \in Branches
    PROVE  Cardinality(ByPlainGit(branch)) \in Nat
<1>1. IsFiniteSet(DOMAIN branch)
    BY FS_Interval DEF Branches
<1> QED
    BY <1>1, FS_Subset, FS_CardinalityType DEF ByPlainGit

(* update-index turns a tree into a tree.                                  *)
LEMMA UpdateIndexType ==
    ASSUME NEW t \in Trees, NEW edit \in Edits
    PROVE  UpdateIndex(t, edit) \in Trees
BY DEF UpdateIndex, Trees, Edits, Entries

(* The serializer yields documents.                                        *)
LEMMA SerializerType ==
    ASSUME NEW stored \in Blobs, NEW text \in Texts
    PROVE  /\ Format(text) \in Blobs
           /\ SerializeInto(stored, text) \in Blobs
BY DocumentsAssumption DEF Format, SerializeInto, Blobs

(* What plan hands to apply: edits writeTree can stage, a revision, and a  *)
(* verdict that is a write, nothing to do, or an error of the call.        *)
LEMMA PlanType ==
    ASSUME NEW c \in CallsOn(Paths), NEW branch \in Branches
    PROVE  /\ Plan(c, branch).edits \in SUBSET Edits
           /\ Plan(c, branch).rev \in Revisions
           /\ Plan(c, branch).verdict \in
                {"write", "done", "exists", "notfound", "conflict", "invalid"}
<1> DEFINE t == TreeOf(branch)
<1>1. t \in Trees
    BY TreeOfType
<1>2. c.path \in Paths /\ c.rev \in Revisions
    BY DEF CallsOn, PutCalls, DeleteCalls
<1>3. \A blob \in Blobs : {[path |-> c.path, entry |-> blob]} \in SUBSET Edits
    BY <1>2 DEF Edits, Entries
<1>4. CASE c.op = "delete"
    <2>1. {[path |-> c.path, entry |-> Absent]} \in SUBSET Edits
        BY <1>2 DEF Edits, Entries
    <2> QED
        BY <1>4, <2>1 DEF Plan, PlanDelete, Refusal, Revisions
<1>5. CASE c.op # "delete"
    <2>1. c.text \in Texts
        BY <1>5 DEF CallsOn, PutCalls, DeleteCalls
    <2>2. Format(c.text) \in Blobs
        BY <2>1, DocumentsAssumption DEF Format, Blobs
    <2>3. CASE c.rev = NoRevision
        BY <1>5, <2>2, <2>3, <1>3 DEF Plan, PlanCreate, Refusal, Write, Revisions
    <2>4. CASE c.rev # NoRevision
        <3>1. CASE CatFile(t, c.path) = "blob"
            <4>1. t[c.path] \in Blobs
                BY <3>1 DEF CatFile
            <4>2. SerializeInto(t[c.path], c.text) \in Blobs
                BY <4>1, <2>1, SerializerType
            <4> QED
                BY <1>5, <2>4, <4>2, <1>2, <1>3
                DEF Plan, PlanUpdate, Refusal, Write, Revisions
        <3>2. CASE CatFile(t, c.path) # "blob"
            BY <1>5, <2>4, <3>2 DEF Plan, PlanUpdate, Refusal, Revisions
        <3> QED
            BY <3>1, <3>2
    <2> QED
        BY <2>3, <2>4
<1> QED
    BY <1>4, <1>5

------------------------------------------------------------------------------
(* The branch may start as anything a commit by plain git may leave.       *)
LEMMA InitIInv == Init => IInv
<1> SUFFICES ASSUME Init PROVE IInv
    OBVIOUS
<1>1. EmptyTree \in Trees /\ Unborn \in Branches
    BY DEF EmptyTree, Trees, Entries, Unborn, Branches
<1>2. TypeOK
    BY <1>1, GitRepositoryAssumption
    DEF Init, TypeOK, PCs, Replies, Revisions
<1>3. TurnsAreExclusive
    BY GitRepositoryAssumption DEF Init, TurnsAreExclusive, InTurn
<1>4. CallsAreUnderWay /\ CommitsExtendTheirParent
    BY DEF Init, CallsAreUnderWay, CommitsExtendTheirParent
<1> QED
    BY <1>2, <1>3, <1>4 DEF IInv

(* Every way out of apply: the turn goes back to its own process and to no *)
(* other, and nothing of the call is left over.                            *)
LEMMA ReturnIInv ==
    ASSUME IInv, NEW w \in Writers, NEW why \in Replies, pc[w] # "idle",
           Return(w, why), ref' = ref,
           attempt' \in [Writers -> 0..MaxAttempts],
           rev' \in [Writers -> Revisions]
    PROVE  IInv'
<1> USE DEF IInv
<1>1. TypeOK'
    <2>1. EmptyTree \in Trees /\ Unborn \in Branches
        BY DEF EmptyTree, Trees, Entries, Unborn, Branches
    <2>2. turn' \in [Processes -> Writers \cup {Nobody}]
        BY DEF Return, TypeOK
    <2>3. pc' \in [Writers -> PCs] /\ reply' \in [Writers -> Replies]
        BY DEF Return, Goto, TypeOK, PCs
    <2> QED
        BY <2>1, <2>2, <2>3 DEF Return, callVars, TypeOK
<1>2. TurnsAreExclusive'
    BY GitRepositoryAssumption
    DEF Return, Goto, TypeOK, TurnsAreExclusive, InTurn
<1>3. CallsAreUnderWay'
    BY DEF Return, Goto, callVars, TypeOK, CallsAreUnderWay
<1>4. CommitsExtendTheirParent'
    BY DEF Return, Goto, callVars, TypeOK, CommitsExtendTheirParent
<1> QED
    BY <1>1, <1>2, <1>3, <1>4

(* A step of one writer that stays in its turn, between two points of      *)
(* apply, and touches nothing the queue is made of.                        *)
LEMMA StayingInTurn ==
    ASSUME IInv, NEW w \in Writers, NEW label \in InTurn, pc[w] \in InTurn,
           Goto(w, label), turn' = turn
    PROVE  TurnsAreExclusive'
BY DEF IInv, TypeOK, TurnsAreExclusive, Goto

(* No step of a writer, of plain git or of a cancelled context leaves the  *)
(* inductive invariant.                                                    *)
LEMMA StepIInv == IInv /\ [Next]_vars => IInv'
<1> SUFFICES ASSUME IInv, [Next]_vars PROVE IInv'
    OBVIOUS
<1> USE DEF IInv, attemptVars, callVars
<1>1. ASSUME NEW w \in Writers, Begin(w) PROVE IInv'
    <2>0. PICK c \in CallsOf[w] :
            /\ call' = [call EXCEPT ![w] = c]
            /\ Goto(w, IF IsRefused(c) THEN "idle" ELSE "queued")
            /\ reply' = [reply EXCEPT ![w] = IF IsRefused(c) THEN "invalid" ELSE "none"]
        BY <1>1 DEF Begin
    <2>1. c \in CallsOn(Paths)
        BY GitRepositoryAssumption
    <2>2. TypeOK'
        <3>1. nth[w] + 1 \in 0..MaxCalls
            BY <1>1, GitRepositoryAssumption DEF Begin, TypeOK
        <3>2. Len(ref) \in Nat
            BY DEF TypeOK, Branches
        <3>3. 0 \in 0..MaxAttempts
            BY GitRepositoryAssumption
        <3>4. NoRevision \in Revisions
            BY DEF Revisions
        <3>5. pc' \in [Writers -> PCs] /\ reply' \in [Writers -> Replies]
            BY <2>0 DEF Goto, TypeOK, PCs, Replies
        <3> QED
            BY <1>1, <2>0, <2>1, <3>1, <3>2, <3>3, <3>4, <3>5 DEF Begin, TypeOK
    <2>3. TurnsAreExclusive'
        BY <1>1, <2>0 DEF Begin, Goto, TypeOK, TurnsAreExclusive, InTurn
    <2>4. CallsAreUnderWay' /\ CommitsExtendTheirParent'
        BY <1>1, <2>0, <2>1
        DEF Begin, Goto, TypeOK, CallsAreUnderWay, CommitsExtendTheirParent
    <2> QED
        BY <2>2, <2>3, <2>4
<1>2. ASSUME NEW w \in Writers, Cancel(w) PROVE IInv'
    BY <1>2 DEF Cancel, TypeOK, TurnsAreExclusive, CallsAreUnderWay,
                CommitsExtendTheirParent
<1>3. ASSUME NEW w \in Writers, TakeTurn(w) PROVE IInv'
    <2>1. 1 \in 0..MaxAttempts
        BY GitRepositoryAssumption
    <2>2. TypeOK'
        BY <1>3, <2>1 DEF TakeTurn, Goto, TypeOK, PCs, InTurn
    <2>3. TurnsAreExclusive'
        <3> SUFFICES ASSUME NEW v \in Writers
                     PROVE  pc'[v] \in InTurn <=> turn'[ProcessOf[v]] = v
            BY GitRepositoryAssumption DEF TurnsAreExclusive
        <3>1. /\ turn[ProcessOf[w]] = Nobody
              /\ turn' = [turn EXCEPT ![ProcessOf[w]] = w]
              /\ pc' = [pc EXCEPT ![w] = "head"]
            BY <1>3 DEF TakeTurn, Goto
        <3>2. ProcessOf[v] \in Processes /\ ProcessOf[w] \in Processes
            BY GitRepositoryAssumption
        <3>3. CASE v = w
            BY <3>1, <3>2, <3>3 DEF TypeOK, InTurn
        <3>4. CASE v # w
            <4>1. pc'[v] = pc[v]
                BY <3>1, <3>4 DEF TypeOK
            <4>2. CASE ProcessOf[v] = ProcessOf[w]
                BY <3>1, <3>2, <3>4, <4>1, <4>2, GitRepositoryAssumption
                DEF TypeOK, TurnsAreExclusive
            <4>3. CASE ProcessOf[v] # ProcessOf[w]
                BY <3>1, <3>2, <4>1, <4>3 DEF TypeOK, TurnsAreExclusive
            <4> QED
                BY <4>2, <4>3
        <3> QED
            BY <3>3, <3>4
    <2>4. CallsAreUnderWay' /\ CommitsExtendTheirParent'
        BY <1>3 DEF TakeTurn, Goto, TypeOK, CallsAreUnderWay, CommitsExtendTheirParent
    <2> QED
        BY <2>2, <2>3, <2>4
<1>4. ASSUME NEW w \in Writers, ResolveHead(w) PROVE IInv'
    <2>1. TypeOK'
        BY <1>4 DEF ResolveHead, Goto, TypeOK, PCs, InTurn
    <2>2. TurnsAreExclusive'
        BY <1>4, StayingInTurn DEF ResolveHead, InTurn
    <2>3. CallsAreUnderWay' /\ CommitsExtendTheirParent'
        BY <1>4 DEF ResolveHead, Goto, TypeOK, CallsAreUnderWay, CommitsExtendTheirParent
    <2> QED
        BY <2>1, <2>2, <2>3
<1>5. ASSUME NEW w \in Writers, MakePlan(w) PROVE IInv'
    <2> DEFINE plan == Plan(call[w], parent[w])
    <2>1. call[w] \in CallsOn(Paths) /\ parent[w] \in Branches
        BY <1>5 DEF MakePlan, TypeOK, CallsAreUnderWay
    <2>2. /\ plan.edits \in SUBSET Edits
          /\ plan.rev \in Revisions
          /\ plan.verdict \in
               {"write", "done", "exists", "notfound", "conflict", "invalid"}
        BY <2>1, PlanType
    <2> HIDE DEF plan
    <2>3. /\ pc[w] = "plan"
          /\ rev' = [rev EXCEPT ![w] = plan.rev]
          /\ ref' = ref
          /\ attempt' = attempt
        BY <1>5 DEF MakePlan, plan
    <2>4. rev' \in [Writers -> Revisions] /\ attempt' \in [Writers -> 0..MaxAttempts]
        BY <2>2, <2>3 DEF TypeOK
    <2>5. CASE plan.verdict = "write"
        <3>1. /\ edits' = [edits EXCEPT ![w] = plan.edits]
              /\ Goto(w, "tree")
              /\ UNCHANGED << turn, cancelled, reply, parent, tree, commit, callVars >>
            BY <1>5, <2>5 DEF MakePlan, plan
        <3>2. TypeOK'
            BY <2>2, <2>3, <2>4, <3>1 DEF Goto, TypeOK, PCs, InTurn
        <3>3. TurnsAreExclusive'
            BY <2>3, <3>1, StayingInTurn DEF InTurn
        <3>4. CallsAreUnderWay' /\ CommitsExtendTheirParent'
            BY <2>3, <3>1 DEF Goto, TypeOK, CallsAreUnderWay, CommitsExtendTheirParent
        <3> QED
            BY <3>2, <3>3, <3>4
    <2>6. CASE plan.verdict # "write"
        <3>1. \E why \in Replies : Return(w, why)
            BY <1>5, <2>2, <2>6 DEF MakePlan, plan, Replies
        <3> QED
            BY <2>3, <2>4, <3>1, ReturnIInv
    <2> QED
        BY <2>5, <2>6
<1>6. ASSUME NEW w \in Writers, WriteTree(w) PROVE IInv'
    <2>1. PICK edit \in edits[w] :
            tree' = [tree EXCEPT ![w] = UpdateIndex(TreeOf(parent[w]), edit)]
        BY <1>6 DEF WriteTree
    <2>2. edit \in Edits
        BY <2>1 DEF TypeOK
    <2>3. UpdateIndex(TreeOf(parent[w]), edit) \in Trees
        BY <2>2, TreeOfType, UpdateIndexType DEF TypeOK
    <2>4. TypeOK'
        BY <1>6, <2>1, <2>3 DEF WriteTree, Goto, TypeOK, PCs, InTurn
    <2>5. TurnsAreExclusive'
        BY <1>6, StayingInTurn DEF WriteTree, InTurn
    <2>6. CallsAreUnderWay' /\ CommitsExtendTheirParent'
        BY <1>6, <2>1
        DEF WriteTree, Goto, TypeOK, CallsAreUnderWay, CommitsExtendTheirParent
    <2> QED
        BY <2>4, <2>5, <2>6
<1>7. ASSUME NEW w \in Writers, CommitTree(w) PROVE IInv'
    <2> DEFINE change == [tree |-> tree[w], author |-> w, nth |-> nth[w]]
    <2>1. change \in Changes
        BY DEF TypeOK, Changes, Authors
    <2> HIDE DEF change
    <2>2. commit' = [commit EXCEPT ![w] = Append(parent[w], change)]
        BY <1>7 DEF CommitTree, change
    <2>3. Append(parent[w], change) \in Branches
        BY <2>1 DEF TypeOK, Branches
    <2>4. TypeOK'
        BY <1>7, <2>2, <2>3 DEF CommitTree, Goto, TypeOK, PCs, InTurn
    <2>5. TurnsAreExclusive'
        BY <1>7, StayingInTurn DEF CommitTree, InTurn
    <2>6. CallsAreUnderWay'
        BY <1>7 DEF CommitTree, Goto, TypeOK, CallsAreUnderWay
    <2>7. CommitsExtendTheirParent'
        BY <1>7, <2>2 DEF CommitTree, Goto, TypeOK, CommitsExtendTheirParent, change
    <2> QED
        BY <2>4, <2>5, <2>6, <2>7
<1>8. ASSUME NEW w \in Writers, UpdateRef(w) PROVE IInv'
    <2>1. /\ pc[w] = "publish"
          /\ ref' \in {ref, commit[w]}
          /\ Goto(w, "published") \/ Goto(w, "rejected")
          /\ UNCHANGED << turn, cancelled, attempt, rev, reply, parent, edits, tree,
                          commit, call, nth, began >>
        BY <1>8 DEF UpdateRef
    <2>2. TypeOK'
        BY <2>1 DEF Goto, TypeOK, PCs, InTurn
    <2>3. TurnsAreExclusive'
        BY <2>1, StayingInTurn DEF InTurn
    <2>4. CallsAreUnderWay' /\ CommitsExtendTheirParent'
        BY <2>1 DEF Goto, TypeOK, CallsAreUnderWay, CommitsExtendTheirParent
    <2> QED
        BY <2>2, <2>3, <2>4
<1>9. ASSUME NEW w \in Writers, Published(w) PROVE IInv'
    <2>1. /\ pc[w] # "idle"
          /\ \E why \in Replies : Return(w, why)
          /\ UNCHANGED << ref, attempt, rev >>
        BY <1>9 DEF Published, Replies
    <2> QED
        BY <2>1, ReturnIInv DEF TypeOK
<1>10. ASSUME NEW w \in Writers, Rejected(w) PROVE IInv'
    <2>1. pc[w] = "rejected" /\ UNCHANGED << ref, attempt, rev >>
        BY <1>10 DEF Rejected
    <2>2. CASE \E why \in {"cancelled", "failed"} : Return(w, why)
        BY <2>1, <2>2, ReturnIInv DEF TypeOK, Replies
    <2>3. CASE /\ Goto(w, "backoff")
               /\ UNCHANGED << turn, cancelled, reply, attemptVars, callVars >>
        <3>1. TypeOK'
            BY <2>1, <2>3 DEF Goto, TypeOK, PCs, InTurn
        <3>2. TurnsAreExclusive'
            BY <2>1, <2>3, StayingInTurn DEF InTurn
        <3>3. CallsAreUnderWay' /\ CommitsExtendTheirParent'
            BY <2>1, <2>3 DEF Goto, TypeOK, CallsAreUnderWay, CommitsExtendTheirParent
        <3> QED
            BY <3>1, <3>2, <3>3
    <2> QED
        BY <1>10, <2>2, <2>3 DEF Rejected
<1>11. ASSUME NEW w \in Writers, Backoff(w) PROVE IInv'
    <2>1. pc[w] = "backoff" /\ UNCHANGED << ref, rev >>
        BY <1>11 DEF Backoff
    <2>2. CASE Return(w, "exhausted") /\ UNCHANGED attempt
        BY <2>1, <2>2, ReturnIInv DEF TypeOK, Replies
    <2>3. CASE /\ attempt[w] < MaxAttempts
               /\ attempt' = [attempt EXCEPT ![w] = @ + 1]
               /\ Goto(w, "head")
               /\ UNCHANGED << turn, cancelled, reply, attemptVars, callVars >>
        <3>1. attempt[w] + 1 \in 0..MaxAttempts
            BY <2>3, GitRepositoryAssumption DEF TypeOK
        <3>2. TypeOK'
            BY <2>1, <2>3, <3>1 DEF Goto, TypeOK, PCs, InTurn
        <3>3. TurnsAreExclusive'
            BY <2>1, <2>3, StayingInTurn DEF InTurn
        <3>4. CallsAreUnderWay' /\ CommitsExtendTheirParent'
            BY <2>1, <2>3 DEF Goto, TypeOK, CallsAreUnderWay, CommitsExtendTheirParent
        <3> QED
            BY <3>2, <3>3, <3>4
    <2> QED
        BY <1>11, <2>2, <2>3 DEF Backoff
<1>12. ASSUME NEW w \in Writers, Abort(w) PROVE IInv'
    <2>1. pc[w] # "idle"
        BY <1>12 DEF Abort, StopsAt
    <2> QED
        BY <1>12, <2>1, ReturnIInv DEF Abort, TypeOK, Replies
<1>13. ASSUME NEW w \in Writers, GitFails(w) PROVE IInv'
    BY <1>13, ReturnIInv DEF GitFails, TypeOK, Replies
<1>14. ASSUME GitCommits PROVE IInv'
    <2>1. PICK edit \in GitEdits :
            ref' = Append(ref, [tree |-> UpdateIndex(TreeOf(ref), edit),
                                author |-> PlainGit,
                                nth |-> Cardinality(ByPlainGit(ref))])
        BY <1>14 DEF GitCommits
    <2>2. UpdateIndex(TreeOf(ref), edit) \in Trees
        BY TreeOfType, UpdateIndexType, GitRepositoryAssumption DEF TypeOK
    <2>3. Cardinality(ByPlainGit(ref)) \in Nat
        BY PlainGitCounted DEF TypeOK
    <2>4. ref' \in Branches
        BY <2>1, <2>2, <2>3 DEF TypeOK, Branches, Changes, Authors
    <2> QED
        BY <1>14, <2>4
        DEF GitCommits, TypeOK, TurnsAreExclusive, CallsAreUnderWay,
            CommitsExtendTheirParent
<1>15. ASSUME UNCHANGED vars PROVE IInv'
    BY <1>15
    DEF vars, TypeOK, TurnsAreExclusive, CallsAreUnderWay, CommitsExtendTheirParent
<1> QED
    BY <1>1, <1>2, <1>3, <1>4, <1>5, <1>6, <1>7, <1>8, <1>9, <1>10, <1>11,
       <1>12, <1>13, <1>14, <1>15
    DEF Next, Progress, AllReturned

(* The inductive invariant holds in every state apply can reach.           *)
THEOREM Invariance == Spec => []IInv
<1>1. Init => IInv
    BY InitIInv
<1>2. IInv /\ [Next]_vars => IInv'
    BY StepIInv
<1> QED
    BY <1>1, <1>2, PTL DEF Spec

(* Every state apply can reach is well typed; the loop counter never       *)
(* passes maxPublishAttempts.                                              *)
THEOREM TypeCorrect == Spec => []TypeOK
BY Invariance, PTL DEF IInv

(* The queue admits one writer of a *Repository at a time, and gives the   *)
(* turn back on every path out of apply.                                   *)
THEOREM TurnsExclusive == Spec => []TurnsAreExclusive
BY Invariance, PTL DEF IInv

(* No step of anybody takes a commit off the branch: update-ref moves the  *)
(* ref from parent only, and commitTree put its commit on top of parent.   *)
THEOREM FastForward == Spec => FastForwardOnly
<1> DEFINE Grows == Len(ref) <= Len(ref') /\ \A i \in DOMAIN ref : ref'[i] = ref[i]
<1>1. ASSUME NEW base \in Branches, NEW change \in Changes
      PROVE  /\ Len(base) <= Len(Append(base, change))
             /\ \A i \in DOMAIN base : Append(base, change)[i] = base[i]
    BY <1>1, AppendProperties DEF Branches
<1>2. IInv /\ [Next]_vars => [Grows]_vars
    <2> SUFFICES ASSUME IInv, [Next]_vars PROVE Grows
        OBVIOUS
    <2>0. ref \in Branches
        BY DEF IInv, TypeOK
    <2>1. CASE ref' = ref
        BY <2>0, <2>1 DEF Branches
    <2>2. ASSUME NEW w \in Writers, UpdateRef(w), ref' # ref PROVE Grows
        <3> DEFINE change == [tree |-> tree[w], author |-> w, nth |-> nth[w]]
        <3>1. ref = parent[w] /\ ref' = commit[w] /\ pc[w] = "publish"
            BY <2>2 DEF UpdateRef
        <3>2. commit[w] = Append(parent[w], change)
            BY <3>1 DEF IInv, CommitsExtendTheirParent
        <3>3. change \in Changes
            BY DEF IInv, TypeOK, Changes, Authors
        <3> QED
            BY <1>1, <2>0, <3>1, <3>2, <3>3
    <2>3. ASSUME GitCommits PROVE Grows
        <3>1. PICK edit \in GitEdits :
                ref' = Append(ref, [tree |-> UpdateIndex(TreeOf(ref), edit),
                                    author |-> PlainGit,
                                    nth |-> Cardinality(ByPlainGit(ref))])
            BY <2>3 DEF GitCommits
        <3>2. UpdateIndex(TreeOf(ref), edit) \in Trees
            BY <2>0, TreeOfType, UpdateIndexType, GitRepositoryAssumption
        <3>3. Cardinality(ByPlainGit(ref)) \in Nat
            BY <2>0, PlainGitCounted
        <3> QED
            BY <1>1, <2>0, <3>1, <3>2, <3>3 DEF Changes, Authors
    <2>4. \/ ref' = ref
          \/ \E w \in Writers : UpdateRef(w)
          \/ GitCommits
        BY DEF Next, Progress, AllReturned, vars, Begin, Cancel, TakeTurn, ResolveHead,
               MakePlan, WriteTree, CommitTree, Published, Rejected, Backoff, Abort,
               GitFails
    <2> QED
        BY <2>1, <2>2, <2>3, <2>4
<1> QED
    BY <1>2, Invariance, PTL DEF Spec, FastForwardOnly

(***************************************************************************)
(* Every commit a Put or a Delete publishes is a compare-and-swap on its   *)
(* document, for any number of writers, processes, documents and attempts, *)
(* with every fault.  IInv says that the commit about to be published is   *)
(* one change on top of the parent update-ref is told to expect; PInv adds *)
(* that the change is the plan made against that parent.                   *)
(***************************************************************************)

(* A plan that is carried out does what the call asked for to the tree it  *)
(* was made against.                                                       *)
LEMMA PlansDoWhatWasAsked ==
    ASSUME NEW c, NEW branch \in Branches, NEW result,
           CarriesOut(c, branch, result)
    PROVE  IsWhatWasAsked(c, TreeOf(branch), result)
<1> DEFINE t == TreeOf(branch)
           plan == Plan(c, branch)
<1>1. PICK edit \in plan.edits : result = UpdateIndex(t, edit)
    BY DEF CarriesOut
<1>2. plan.verdict = "write"
    BY DEF CarriesOut
<1>3. t \in Trees
    BY TreeOfType
<1>4. c.path \in Paths /\ c.rev \in Revisions /\ c.op \in {"put", "delete"}
    BY DEF CarriesOut, CallsOn, PutCalls, DeleteCalls
<1>5. ASSUME edit.path = c.path PROVE result[c.path] = edit.entry
    BY <1>1, <1>4, <1>5 DEF UpdateIndex
<1>6. CASE c.op = "delete"
    <2>1. /\ CatFile(t, c.path) = "blob"
          /\ c.rev # NoRevision => t[c.path] = c.rev
          /\ edit = [path |-> c.path, entry |-> Absent]
        BY <1>1, <1>2, <1>6 DEF Plan, PlanDelete, Refusal
    <2>2. t[c.path] \in Blobs
        BY <2>1 DEF CatFile
    <2> QED
        BY <1>5, <1>6, <2>1, <2>2 DEF IsWhatWasAsked
<1>7. CASE c.op = "put" /\ c.rev = NoRevision
    <2>1. /\ CatFile(t, c.path) = "missing"
          /\ edit = [path |-> c.path, entry |-> Format(c.text)]
        BY <1>1, <1>2, <1>7 DEF Plan, PlanCreate, Refusal, Write
    <2> QED
        BY <1>5, <1>7, <2>1 DEF IsWhatWasAsked
<1>8. CASE c.op = "put" /\ c.rev # NoRevision
    <2> DEFINE written == SerializeInto(t[c.path], c.text)
    <2>1. /\ CatFile(t, c.path) = "blob"
          /\ t[c.path] = c.rev
          /\ written # t[c.path]
          /\ edit = [path |-> c.path, entry |-> written]
        BY <1>1, <1>2, <1>8 DEF Plan, PlanUpdate, Refusal, Write
    <2>2. t[c.path] \in Blobs
        BY <2>1 DEF CatFile
    <2>3. /\ written.text = c.text
          /\ written.shape = IF t[c.path].shape = Damaged THEN Canonical
                             ELSE t[c.path].shape
        BY <2>2 DEF SerializeInto, Format, Blobs
    <2> HIDE DEF written
    <2>4. result[c.path] = written
        BY <1>5, <2>1
    <2> QED
        BY <1>8, <2>1, <2>3, <2>4 DEF IsWhatWasAsked
<1> QED
    BY <1>4, <1>6, <1>7, <1>8

(* The branch below a commit is the branch that commit was put on.         *)
LEMMA BranchBelow ==
    ASSUME NEW branch \in Branches, NEW i \in DOMAIN branch
    PROVE  /\ SubSeq(branch, 1, i - 1) \in Branches
           /\ TreeOf(SubSeq(branch, 1, i - 1))
                  = IF i = 1 THEN EmptyTree ELSE branch[i - 1].tree
<1> DEFINE below == SubSeq(branch, 1, i - 1)
<1>1. i \in 1..Len(branch) /\ Len(branch) \in Nat
    BY DEF Branches
<1>2. \A j \in 1..Len(branch) : branch[j] \in Changes
    BY DEF Branches
<1>3. /\ below \in Branches
      /\ Len(below) = i - 1
      /\ \A j \in 1..(i - 1) : below[j] = branch[j]
    BY <1>1, <1>2, SubSeqProperties DEF Branches
<1> HIDE DEF below
<1>4. CASE i = 1
    BY <1>3, <1>4, EmptySeq DEF TreeOf, Unborn, Branches
<1>5. CASE i # 1
    <2>1. below # Unborn
        BY <1>1, <1>3, <1>5, EmptySeq DEF Unborn
    <2>2. below[Len(below)] = branch[i - 1]
        BY <1>1, <1>3, <1>5
    <2> QED
        BY <1>3, <1>5, <2>1, <2>2 DEF TreeOf, below
<1> QED
    BY <1>3, <1>4, <1>5 DEF below

(* A commit on top of a branch moves nothing below it.                     *)
LEMMA BranchGrown ==
    ASSUME NEW branch \in Branches, NEW change \in Changes,
           NEW i \in DOMAIN Append(branch, change)
    PROVE  \/ /\ i \in DOMAIN branch
              /\ Append(branch, change)[i] = branch[i]
              /\ SubSeq(Append(branch, change), 1, i - 1) = SubSeq(branch, 1, i - 1)
           \/ /\ Append(branch, change)[i] = change
              /\ SubSeq(Append(branch, change), 1, i - 1) = branch
<1> DEFINE grown == Append(branch, change)
<1>1. /\ branch \in Seq(Changes) /\ Len(branch) \in Nat
      /\ grown \in Seq(Changes)
      /\ Len(grown) = Len(branch) + 1
      /\ grown[Len(branch) + 1] = change
      /\ \A j \in 1..Len(branch) : grown[j] = branch[j]
    BY AppendProperties DEF Branches
<1>2. i \in 1..(Len(branch) + 1)
    BY <1>1
<1> HIDE DEF grown
<1>3. SubSeq(grown, 1, i - 1) = SubSeq(branch, 1, i - 1)
    <2>1. /\ \A j \in 1..(i - 1) : grown[j] \in Changes /\ branch[j] \in Changes
        BY <1>1, <1>2
    <2>2. /\ SubSeq(grown, 1, i - 1) = [j \in 1..(i - 1) |-> grown[j]]
          /\ SubSeq(branch, 1, i - 1) = [j \in 1..(i - 1) |-> branch[j]]
        BY <1>1, <1>2
    <2> QED
        BY <1>1, <1>2, <2>2
<1>4. CASE i = Len(branch) + 1
    <2>1. SubSeq(branch, 1, Len(branch)) = branch
        BY <1>1, SubSeqFull
    <2> QED
        BY <1>1, <1>3, <1>4, <2>1 DEF grown
<1>5. CASE i # Len(branch) + 1
    BY <1>1, <1>2, <1>3, <1>5 DEF grown
<1> QED
    BY <1>4, <1>5

------------------------------------------------------------------------------
(* The invariant of the plans holds initially. *)
LEMMA InitPInv == Init => PInv
<1> SUFFICES ASSUME Init PROVE PInv
    OBVIOUS
<1>1. \A w \in Writers : \A i \in DOMAIN ref : ref[i].author # w
    BY GitRepositoryAssumption DEF Init
<1>2. CallsAreNumbered /\ CommitsArePlanned
    BY <1>1 DEF CallsAreNumbered, CommitsArePlanned, CommitsOf
<1>3. PlansAreOfTheParent /\ TreesArePlanned
    BY DEF Init, PlansAreOfTheParent, TreesArePlanned
<1> QED
    BY <1>2, <1>3 DEF PInv

(* A step that publishes nothing and begins no call.                       *)
LEMMA NothingPublished ==
    ASSUME PInv, UNCHANGED << ref, call, nth >>
    PROVE  CallsAreNumbered' /\ CommitsArePlanned'
BY DEF PInv, CallsAreNumbered, CommitsArePlanned, CommitsOf

(* A step that publishes a commit, whose plan was made for the branch it   *)
(* is put on.                                                              *)
LEMMA OnePublished ==
    ASSUME IInv, PInv, NEW change \in Changes,
           ref' = Append(ref, change), UNCHANGED << call, nth >>,
           change.author \in Writers =>
               /\ change.nth = nth[change.author]
               /\ CarriesOut(call[change.author], ref, change.tree)
    PROVE  CallsAreNumbered' /\ CommitsArePlanned'
<1>0. ref \in Branches
    BY DEF IInv, TypeOK
<1>1. ASSUME NEW i \in DOMAIN ref'
      PROVE  \/ /\ i \in DOMAIN ref
                /\ ref'[i] = ref[i]
                /\ SubSeq(ref', 1, i - 1) = SubSeq(ref, 1, i - 1)
             \/ /\ ref'[i] = change
                /\ SubSeq(ref', 1, i - 1) = ref
    BY <1>0, <1>1, BranchGrown
<1>2. CallsAreNumbered'
    <2> SUFFICES ASSUME NEW w \in Writers, NEW i \in DOMAIN ref', ref'[i].author = w
                 PROVE  ref'[i].nth <= nth'[w]
        BY DEF CallsAreNumbered
    <2>1. nth[w] \in Nat
        BY GitRepositoryAssumption DEF IInv, TypeOK
    <2> QED
        BY <1>1, <2>1 DEF PInv, CallsAreNumbered
<1>3. CommitsArePlanned'
    <2> SUFFICES ASSUME NEW w \in Writers, NEW i \in CommitsOf(w)'
                 PROVE  CarriesOut(call[w], SubSeq(ref', 1, i - 1), ref'[i].tree)
        BY DEF CommitsArePlanned, CarriesOut
    <2>1. i \in DOMAIN ref' /\ ref'[i].author = w /\ ref'[i].nth = nth[w]
        BY DEF CommitsOf
    <2>2. CASE /\ i \in DOMAIN ref
               /\ ref'[i] = ref[i]
               /\ SubSeq(ref', 1, i - 1) = SubSeq(ref, 1, i - 1)
        <3>1. i \in CommitsOf(w)
            BY <2>1, <2>2 DEF CommitsOf
        <3> QED
            BY <2>2, <3>1 DEF PInv, CommitsArePlanned
    <2>3. CASE ref'[i] = change /\ SubSeq(ref', 1, i - 1) = ref
        BY <2>1, <2>3
    <2> QED
        BY <1>1, <2>1, <2>2, <2>3
<1> QED
    BY <1>2, <1>3

(* A step that takes a call to where there is no plan, or not yet one.     *)
LEMMA NothingPlanned ==
    ASSUME IInv, PInv, NEW w \in Writers,
           NEW label \in PCs \ {"tree", "commit", "publish"},
           Goto(w, label), call' = call,
           \A v \in Writers \ {w} : /\ parent'[v] = parent[v]
                                    /\ edits'[v] = edits[v]
                                    /\ tree'[v] = tree[v]
    PROVE  PlansAreOfTheParent' /\ TreesArePlanned'
<1>1. /\ pc'[w] = label
      /\ \A v \in Writers \ {w} : pc'[v] = pc[v]
    BY DEF Goto, IInv, TypeOK
<1> QED
    BY <1>1 DEF PInv, PlansAreOfTheParent, TreesArePlanned, CarriesOut

(* A call that returns.                                                    *)
LEMMA ReturnPInv ==
    ASSUME IInv, PInv, NEW w \in Writers, NEW why, Return(w, why), ref' = ref
    PROVE  PInv'
<1>1. UNCHANGED << ref, call, nth >>
    BY DEF Return, callVars
<1>2. CallsAreNumbered' /\ CommitsArePlanned'
    BY <1>1, NothingPublished
<1>3. /\ Goto(w, "idle") /\ call' = call
      /\ \A v \in Writers \ {w} : /\ parent'[v] = parent[v]
                                  /\ edits'[v] = edits[v]
                                  /\ tree'[v] = tree[v]
    BY DEF Return, callVars, IInv, TypeOK
<1>4. PlansAreOfTheParent' /\ TreesArePlanned'
    BY <1>3, NothingPlanned DEF PCs
<1> QED
    BY <1>2, <1>4 DEF PInv

(* Each step keeps it: the plan, the tree and the commit of an attempt are
   those of its call on its parent. *)
LEMMA StepPInv == IInv /\ PInv /\ [Next]_vars => PInv'
<1> SUFFICES ASSUME IInv, PInv, [Next]_vars PROVE PInv'
    OBVIOUS
<1> USE DEF attemptVars, callVars
<1>1. ASSUME NEW w \in Writers, Begin(w) PROVE PInv'
    <2>0. PICK c \in CallsOf[w] :
            /\ call' = [call EXCEPT ![w] = c]
            /\ Goto(w, IF IsRefused(c) THEN "idle" ELSE "queued")
        BY <1>1 DEF Begin
    <2>1. /\ \A v \in Writers \ {w} : pc'[v] = pc[v] /\ call'[v] = call[v] /\ nth'[v] = nth[v]
          /\ pc'[w] \in {"idle", "queued"}
          /\ nth'[w] = nth[w] + 1
          /\ UNCHANGED << ref, parent, edits, tree >>
        BY <1>1, <2>0 DEF Begin, Goto, IInv, TypeOK
    <2>2. PlansAreOfTheParent' /\ TreesArePlanned'
        BY <2>1 DEF PInv, PlansAreOfTheParent, TreesArePlanned, CarriesOut
    <2>3. \A v \in Writers : nth[v] \in Nat
        BY GitRepositoryAssumption DEF IInv, TypeOK
    <2>4. \A i \in DOMAIN ref : ref[i].nth \in Nat
        <3>1. \A i \in DOMAIN ref : ref[i] \in Changes
            BY ElementOfSeq DEF IInv, TypeOK, Branches
        <3> QED
            BY <3>1 DEF Changes
    <2>5. CallsAreNumbered'
        BY <2>1, <2>3, <2>4 DEF PInv, CallsAreNumbered
    <2>6. CommitsOf(w)' = {}
        BY <2>1, <2>3, <2>4 DEF PInv, CallsAreNumbered, CommitsOf
    <2>7. \A v \in Writers \ {w} : CommitsOf(v)' = CommitsOf(v)
        BY <2>1 DEF CommitsOf
    <2>8. CommitsArePlanned'
        BY <2>1, <2>6, <2>7 DEF PInv, CommitsArePlanned
    <2> QED
        BY <2>2, <2>5, <2>8 DEF PInv
<1>2. ASSUME NEW w \in Writers, Cancel(w) PROVE PInv'
    <2>1. UNCHANGED << ref, pc, parent, edits, tree, call, nth >>
        BY <1>2 DEF Cancel
    <2> QED
        BY <2>1, NothingPublished
        DEF PInv, PlansAreOfTheParent, TreesArePlanned, CarriesOut
<1>3. ASSUME NEW w \in Writers, TakeTurn(w) PROVE PInv'
    <2>1. Goto(w, "head") /\ UNCHANGED << ref, parent, edits, tree, call, nth >>
        BY <1>3 DEF TakeTurn
    <2> QED
        BY <2>1, NothingPublished, NothingPlanned DEF PInv, PCs, InTurn
<1>4. ASSUME NEW w \in Writers, ResolveHead(w) PROVE PInv'
    <2>1. /\ Goto(w, "plan") /\ UNCHANGED << ref, edits, tree, call, nth >>
          /\ \A v \in Writers \ {w} : parent'[v] = parent[v]
        BY <1>4 DEF ResolveHead, IInv, TypeOK
    <2> QED
        BY <2>1, NothingPublished, NothingPlanned DEF PInv, PCs, InTurn
<1>5. ASSUME NEW w \in Writers, MakePlan(w) PROVE PInv'
    <2> DEFINE plan == Plan(call[w], parent[w])
    <2>1. CASE plan.verdict = "write"
        <3>1. /\ edits' = [edits EXCEPT ![w] = plan.edits]
              /\ Goto(w, "tree")
              /\ UNCHANGED << ref, parent, tree, call, nth >>
            BY <1>5, <2>1 DEF MakePlan
        <3>2. /\ pc'[w] = "tree" /\ edits'[w] = plan.edits
              /\ \A v \in Writers \ {w} : pc'[v] = pc[v] /\ edits'[v] = edits[v]
            BY <3>1 DEF Goto, IInv, TypeOK
        <3>3. PlansAreOfTheParent'
            BY <2>1, <3>1, <3>2 DEF PInv, PlansAreOfTheParent
        <3>4. TreesArePlanned'
            BY <3>1, <3>2 DEF PInv, TreesArePlanned
        <3> QED
            BY <3>1, <3>3, <3>4, NothingPublished DEF PInv
    <2>2. CASE plan.verdict # "write"
        <3>1. ref' = ref /\ \E why : Return(w, why)
            BY <1>5, <2>2 DEF MakePlan
        <3> QED
            BY <3>1, ReturnPInv
    <2> QED
        BY <2>1, <2>2
<1>6. ASSUME NEW w \in Writers, WriteTree(w) PROVE PInv'
    <2>1. PICK edit \in edits[w] :
            tree' = [tree EXCEPT ![w] = UpdateIndex(TreeOf(parent[w]), edit)]
        BY <1>6 DEF WriteTree
    <2>2. /\ pc[w] = "tree" /\ pc' = [pc EXCEPT ![w] = "commit"]
          /\ UNCHANGED << ref, parent, edits, call, nth >>
        BY <1>6 DEF WriteTree, Goto
    <2>3. /\ pc'[w] = "commit"
          /\ tree'[w] = UpdateIndex(TreeOf(parent[w]), edit)
          /\ \A v \in Writers \ {w} : pc'[v] = pc[v] /\ tree'[v] = tree[v]
        BY <2>1, <2>2 DEF IInv, TypeOK
    <2>4. PlansAreOfTheParent'
        BY <2>2, <2>3 DEF PInv, PlansAreOfTheParent
    <2>5. CarriesOut(call[w], parent[w], tree'[w])
        BY <2>1, <2>2, <2>3 DEF IInv, CallsAreUnderWay, PInv, PlansAreOfTheParent, CarriesOut
    <2>6. TreesArePlanned'
        BY <2>2, <2>3, <2>5 DEF PInv, TreesArePlanned
    <2> QED
        BY <2>2, <2>4, <2>6, NothingPublished DEF PInv
<1>7. ASSUME NEW w \in Writers, CommitTree(w) PROVE PInv'
    <2>1. /\ pc[w] = "commit" /\ pc' = [pc EXCEPT ![w] = "publish"]
          /\ UNCHANGED << ref, parent, edits, tree, call, nth >>
        BY <1>7 DEF CommitTree, Goto
    <2>2. pc'[w] = "publish" /\ \A v \in Writers \ {w} : pc'[v] = pc[v]
        BY <2>1 DEF IInv, TypeOK
    <2>3. PlansAreOfTheParent' /\ TreesArePlanned'
        BY <2>1, <2>2 DEF PInv, PlansAreOfTheParent, TreesArePlanned, CarriesOut
    <2> QED
        BY <2>1, <2>3, NothingPublished DEF PInv
<1>8. ASSUME NEW w \in Writers, UpdateRef(w) PROVE PInv'
    <2>1. /\ pc[w] = "publish"
          /\ ref' = ref \/ (ref = parent[w] /\ ref' = commit[w])
          /\ Goto(w, "published") \/ Goto(w, "rejected")
          /\ UNCHANGED << parent, edits, tree, call, nth >>
        BY <1>8 DEF UpdateRef
    <2>2. PlansAreOfTheParent' /\ TreesArePlanned'
        BY <2>1, NothingPlanned DEF PCs, InTurn
    <2>3. CASE ref' = ref
        BY <2>1, <2>2, <2>3, NothingPublished DEF PInv
    <2>4. CASE ref = parent[w] /\ ref' = commit[w]
        <3> DEFINE change == [tree |-> tree[w], author |-> w, nth |-> nth[w]]
        <3>1. ref' = Append(ref, change)
            BY <2>1, <2>4 DEF IInv, CommitsExtendTheirParent
        <3>2. change \in Changes
            BY GitRepositoryAssumption DEF IInv, TypeOK, Changes, Authors
        <3>3. CarriesOut(call[w], ref, tree[w])
            BY <2>1, <2>4 DEF PInv, TreesArePlanned
        <3>4. CallsAreNumbered' /\ CommitsArePlanned'
            BY <2>1, <3>1, <3>2, <3>3, OnePublished
        <3> QED
            BY <2>2, <3>4 DEF PInv
    <2> QED
        BY <2>1, <2>3, <2>4
<1>9. ASSUME NEW w \in Writers, Published(w) PROVE PInv'
    BY <1>9, ReturnPInv DEF Published
<1>10. ASSUME NEW w \in Writers, Rejected(w) PROVE PInv'
    <2>1. ref' = ref
        BY <1>10 DEF Rejected
    <2>2. CASE \E why \in {"cancelled", "failed"} : Return(w, why)
        BY <2>1, <2>2, ReturnPInv
    <2>3. CASE Goto(w, "backoff") /\ UNCHANGED << attemptVars, callVars >>
        BY <2>1, <2>3, NothingPublished, NothingPlanned DEF PInv, PCs, InTurn
    <2> QED
        BY <1>10, <2>2, <2>3 DEF Rejected
<1>11. ASSUME NEW w \in Writers, Backoff(w) PROVE PInv'
    <2>1. ref' = ref
        BY <1>11 DEF Backoff
    <2>2. CASE Return(w, "exhausted")
        BY <2>1, <2>2, ReturnPInv
    <2>3. CASE Goto(w, "head") /\ UNCHANGED << attemptVars, callVars >>
        BY <2>1, <2>3, NothingPublished, NothingPlanned DEF PInv, PCs, InTurn
    <2> QED
        BY <1>11, <2>2, <2>3 DEF Backoff
<1>12. ASSUME NEW w \in Writers, Abort(w) PROVE PInv'
    BY <1>12, ReturnPInv DEF Abort
<1>13. ASSUME NEW w \in Writers, GitFails(w) PROVE PInv'
    BY <1>13, ReturnPInv DEF GitFails
<1>14. ASSUME GitCommits PROVE PInv'
    <2>1. PICK edit \in GitEdits :
            ref' = Append(ref, [tree |-> UpdateIndex(TreeOf(ref), edit),
                                author |-> PlainGit,
                                nth |-> Cardinality(ByPlainGit(ref))])
        BY <1>14 DEF GitCommits
    <2> DEFINE change == [tree |-> UpdateIndex(TreeOf(ref), edit), author |-> PlainGit,
                          nth |-> Cardinality(ByPlainGit(ref))]
    <2>2. change \in Changes
        BY TreeOfType, UpdateIndexType, PlainGitCounted, GitRepositoryAssumption
        DEF IInv, TypeOK, Changes, Authors
    <2>3. change.author \notin Writers
        BY GitRepositoryAssumption
    <2>4. UNCHANGED << pc, parent, edits, tree, call, nth >>
        BY <1>14 DEF GitCommits
    <2> HIDE DEF change
    <2>5. CallsAreNumbered' /\ CommitsArePlanned'
        BY <2>1, <2>2, <2>3, <2>4, OnePublished DEF change
    <2>6. PlansAreOfTheParent' /\ TreesArePlanned'
        BY <2>4 DEF PInv, PlansAreOfTheParent, TreesArePlanned, CarriesOut
    <2> QED
        BY <2>5, <2>6 DEF PInv
<1>15. ASSUME UNCHANGED vars PROVE PInv'
    <2>1. UNCHANGED << ref, pc, parent, edits, tree, call, nth >>
        BY <1>15 DEF vars
    <2> QED
        BY <2>1, NothingPublished
        DEF PInv, PlansAreOfTheParent, TreesArePlanned, CarriesOut
<1> QED
    BY <1>1, <1>2, <1>3, <1>4, <1>5, <1>6, <1>7, <1>8, <1>9, <1>10, <1>11,
       <1>12, <1>13, <1>14, <1>15
    DEF Next, Progress, AllReturned

(* What a call stages, commits and has published is its plan, made against *)
(* the parent its commit is put on.                                        *)
THEOREM PlansCarriedOut == Spec => []PInv
<1>1. Init => PInv
    BY InitPInv
<1>2. IInv /\ PInv /\ [Next]_vars => PInv'
    BY StepPInv
<1> QED
    BY <1>1, <1>2, Invariance, PTL DEF Spec

(* A commit of a call stands where the call is known.                      *)
LEMMA CommittedCalls ==
    ASSUME IInv, NEW w \in Writers, NEW i \in CommitsOf(w), PInv
    PROVE  /\ i \in DOMAIN ref
           /\ SubSeq(ref, 1, i - 1) \in Branches
           /\ TreeOf(SubSeq(ref, 1, i - 1)) = TreeBefore(i)
<1>1. ref \in Branches /\ i \in DOMAIN ref
    BY DEF IInv, TypeOK, CommitsOf
<1> QED
    BY <1>1, BranchBelow DEF TreeBefore

(* Every commit a call publishes, on whichever attempt, under whatever     *)
(* faults and whoever committed in between, does what was asked to the     *)
(* tree it was put on (repository.go:350-388, 461-636).                    *)
THEOREM CompareAndSwap == Spec => []CommitsAreCompareAndSwaps
<1>1. IInv /\ PInv => CommitsAreCompareAndSwaps
    <2> SUFFICES ASSUME IInv, PInv, NEW w \in Writers, NEW i \in CommitsOf(w)
                 PROVE  IsWhatWasAsked(call[w], TreeBefore(i), ref[i].tree)
        BY DEF CommitsAreCompareAndSwaps
    <2>1. CarriesOut(call[w], SubSeq(ref, 1, i - 1), ref[i].tree)
        BY DEF PInv, CommitsArePlanned
    <2> QED
        BY <2>1, CommittedCalls, PlansDoWhatWasAsked
<1> QED
    BY <1>1, Invariance, PlansCarriedOut, PTL

------------------------------------------------------------------------------
(* A plan that is carried out on a tree of git's leaves every other        *)
(* document alone, provided it does not create one below another.          *)
LEMMA PlansLeaveTheRest ==
    ASSUME NEW c, NEW branch \in Branches, NEW result,
           CarriesOut(c, branch, result), IsWellFormed(TreeOf(branch)),
           c.op = "put" /\ c.rev = NoRevision =>
               \A p \in Paths : <<c.path, p>> \notin Inside,
           NEW p \in Paths, p # c.path
    PROVE  result[p] = TreeOf(branch)[p]
<1> DEFINE t == TreeOf(branch)
<1>1. PICK edit \in Plan(c, branch).edits : result = UpdateIndex(t, edit)
    BY DEF CarriesOut
<1>2. Plan(c, branch).verdict = "write" /\ c.path \in Paths /\ c.op \in {"put", "delete"}
    BY DEF CarriesOut, CallsOn, PutCalls, DeleteCalls
<1>3. edit.path = c.path
    BY <1>1 DEF Plan, PlanCreate, PlanUpdate, PlanDelete, Refusal, Write
<1>4. CASE c.op = "delete"
    <2>1. edit.entry = Absent
        BY <1>1, <1>2, <1>4 DEF Plan, PlanDelete, Refusal
    <2> QED
        BY <1>1, <1>3, <2>1 DEF UpdateIndex
<1>5. ASSUME c.op = "put", InTheWay(p, c.path) PROVE t[p] = Absent
    <2>1. CASE c.rev = NoRevision
        <3>1. CatFile(t, c.path) = "missing"
            BY <1>2, <1>5, <2>1 DEF Plan, PlanCreate, Refusal
        <3>2. ~IsDirectory(t, c.path)
            BY <3>1 DEF CatFile
        <3>3. <<p, c.path>> \in Inside
            BY <1>5, <2>1 DEF InTheWay
        <3> QED
            BY <3>2, <3>3 DEF IsDirectory
    <2>2. CASE c.rev # NoRevision
        <3>1. t[c.path] \in Blobs
            BY <1>2, <1>5, <2>2 DEF Plan, PlanUpdate, Refusal, CatFile
        <3>2. t[c.path] # Absent
            BY <3>1, GitTreesAssumption
        <3> QED
            BY <1>2, <1>5, <3>2 DEF InTheWay, IsWellFormed
    <2> QED
        BY <2>1, <2>2
<1>6. CASE c.op = "put"
    BY <1>1, <1>3, <1>5, <1>6 DEF UpdateIndex
<1> QED
    BY <1>2, <1>4, <1>6

(* The trees git writes stay what git's trees are.                         *)
LEMMA UpdateIndexWellFormed ==
    ASSUME NEW t \in Trees, IsWellFormed(t), NEW edit \in Edits
    PROVE  IsWellFormed(UpdateIndex(t, edit))
<1> DEFINE u == UpdateIndex(t, edit)
<1> SUFFICES ASSUME NEW q \in Paths, NEW p \in Paths, <<q, p>> \in Inside, u[q] # Absent
             PROVE  u[p] = Absent
    BY DEF IsWellFormed
<1>1. q # p
    BY GitTreesAssumption
<1>2. \A r \in Paths :
        u[r] = IF r = edit.path THEN edit.entry
               ELSE IF edit.entry # Absent /\ InTheWay(r, edit.path) THEN Absent
               ELSE t[r]
    BY DEF UpdateIndex
<1> HIDE DEF u
<1>3. CASE q = edit.path
    BY <1>1, <1>2, <1>3 DEF InTheWay, IsWellFormed
<1>4. CASE q # edit.path
    <2>1. t[q] # Absent
        BY <1>2, <1>4
    <2>2. t[p] = Absent
        BY <2>1 DEF IsWellFormed
    <2>3. CASE p = edit.path
        <3>1. edit.entry = Absent
            BY <1>2, <1>4, <2>3 DEF InTheWay
        <3> QED
            BY <1>2, <2>3, <3>1
    <2>4. CASE p # edit.path
        BY <1>2, <2>2, <2>4
    <2> QED
        BY <2>3, <2>4
<1> QED
    BY <1>3, <1>4

(* The tree of the branch's tip is well formed when all its trees are. *)
LEMMA TipWellFormed ==
    ASSUME NEW branch \in Branches,
           \A i \in DOMAIN branch : IsWellFormed(branch[i].tree)
    PROVE  IsWellFormed(TreeOf(branch))
<1>1. CASE branch = Unborn
    BY <1>1 DEF TreeOf, EmptyTree, IsWellFormed
<1>2. CASE branch # Unborn
    <2>1. Len(branch) \in DOMAIN branch
        BY <1>2 DEF Branches, Unborn
    <2> QED
        BY <1>2, <2>1 DEF TreeOf
<1> QED
    BY <1>1, <1>2

(* The invariant of the trees holds initially. *)
LEMMA InitWInv == Init => WInv
BY GitRepositoryAssumption DEF Init, WInv

(* A commit whose tree git wrote keeps the branch one of git's trees.      *)
LEMMA WellFormedGrown ==
    ASSUME IInv, WInv, NEW change \in Changes, IsWellFormed(change.tree),
           ref' = Append(ref, change), call' = call
    PROVE  WInv'
<1>1. ref \in Seq(Changes)
    BY DEF IInv, TypeOK, Branches
<1>2. /\ DOMAIN ref = 1..Len(ref) /\ Len(ref) \in Nat
      /\ DOMAIN ref' = 1..(Len(ref) + 1)
      /\ \A i \in 1..Len(ref) : ref'[i] = ref[i]
      /\ ref'[Len(ref) + 1] = change
    BY <1>1, AppendProperties, LenProperties
<1>3. ASSUME NEW i \in DOMAIN ref' PROVE IsWellFormed(ref'[i].tree)
    <2>1. i \in 1..Len(ref) \/ i = Len(ref) + 1
        BY <1>2
    <2> QED
        BY <1>2, <2>1 DEF WInv
<1> QED
    BY <1>3 DEF WInv

(* Each step keeps it: every tree on the branch is well formed, whoever
   committed it. *)
LEMMA StepWInv == IInv /\ PInv /\ WInv /\ [Next]_vars => WInv'
<1> SUFFICES ASSUME IInv, PInv, WInv, [Next]_vars PROVE WInv'
    OBVIOUS
<1>1. CASE UNCHANGED << ref, call >>
    BY <1>1 DEF WInv
<1>2. ASSUME NEW w \in Writers, Begin(w) PROVE WInv'
    <2>1. ref' = ref /\ \E c \in CallsOf[w] : call' = [call EXCEPT ![w] = c]
        BY <1>2 DEF Begin
    <2> QED
        BY <2>1 DEF WInv, IInv, TypeOK
<1>3. ASSUME NEW w \in Writers, UpdateRef(w), ref' # ref PROVE WInv'
    <2> DEFINE change == [tree |-> tree[w], author |-> w, nth |-> nth[w]]
    <2>1. pc[w] = "publish" /\ ref = parent[w] /\ ref' = commit[w] /\ call' = call
        BY <1>3 DEF UpdateRef, callVars
    <2>2. ref' = Append(ref, change)
        BY <2>1 DEF IInv, CommitsExtendTheirParent
    <2>3. change \in Changes
        BY GitRepositoryAssumption DEF IInv, TypeOK, Changes, Authors
    <2>4. CarriesOut(call[w], ref, tree[w])
        BY <2>1 DEF PInv, TreesArePlanned
    <2>5. PICK edit \in Plan(call[w], ref).edits : tree[w] = UpdateIndex(TreeOf(ref), edit)
        BY <2>4 DEF CarriesOut
    <2>6. ref \in Branches /\ edit \in Edits
        BY <2>4, <2>5, PlanType DEF IInv, TypeOK, CarriesOut
    <2>7. IsWellFormed(tree[w])
        BY <2>5, <2>6, TipWellFormed, TreeOfType, UpdateIndexWellFormed DEF WInv
    <2>8. IsWellFormed(change.tree)
        BY <2>7
    <2> HIDE DEF change
    <2> QED
        BY <2>1, <2>2, <2>3, <2>8, WellFormedGrown
<1>4. ASSUME GitCommits PROVE WInv'
    <2>1. PICK edit \in GitEdits :
            ref' = Append(ref, [tree |-> UpdateIndex(TreeOf(ref), edit),
                                author |-> PlainGit,
                                nth |-> Cardinality(ByPlainGit(ref))])
        BY <1>4 DEF GitCommits
    <2> DEFINE change == [tree |-> UpdateIndex(TreeOf(ref), edit), author |-> PlainGit,
                          nth |-> Cardinality(ByPlainGit(ref))]
    <2>2. change \in Changes
        BY TreeOfType, UpdateIndexType, PlainGitCounted, GitRepositoryAssumption
        DEF IInv, TypeOK, Changes, Authors
    <2>3. edit \in Edits /\ TreeOf(ref) \in Trees
        BY GitRepositoryAssumption, TreeOfType DEF IInv, TypeOK
    <2>4. IsWellFormed(change.tree)
        BY <2>3, TipWellFormed, UpdateIndexWellFormed DEF WInv, IInv, TypeOK
    <2>5. call' = call
        BY <1>4 DEF GitCommits, callVars
    <2> HIDE DEF change
    <2>6. ref' = Append(ref, change)
        BY <2>1 DEF change
    <2> QED
        BY <2>2, <2>4, <2>5, <2>6, WellFormedGrown
<1>5. \/ UNCHANGED << ref, call >>
      \/ \E w \in Writers : Begin(w)
      \/ \E w \in Writers : UpdateRef(w) /\ ref' # ref
      \/ GitCommits
    BY DEF Next, Progress, AllReturned, vars, Cancel, TakeTurn, ResolveHead, MakePlan,
           WriteTree, CommitTree, UpdateRef, Published, Rejected, Backoff, Abort,
           GitFails, Return, callVars
<1> QED
    BY <1>1, <1>2, <1>3, <1>4, <1>5

(* The trees on the branch stay git's, whoever writes them.                *)
THEOREM TreesWellFormed == Spec => []WInv
<1>1. Init => WInv
    BY InitWInv
<1>2. IInv /\ PInv /\ WInv /\ [Next]_vars => WInv'
    BY StepWInv
<1> QED
    BY <1>1, <1>2, Invariance, PlansCarriedOut, PTL DEF Spec

(* A write changes its own document and nothing else in the repository,    *)
(* what others committed while the call was under way included, so long as *)
(* nobody creates a document below the path of another                     *)
(* (repository.go:350-636, tree.go:63).                                    *)
THEOREM NamedDocumentOnly ==
    ASSUME NoNestedCreates
    PROVE  Spec => []OnlyNamedDocumentChanges
<1>1. IInv /\ PInv /\ WInv => OnlyNamedDocumentChanges
    <2> SUFFICES ASSUME IInv, PInv, WInv, NEW w \in Writers, NEW i \in CommitsOf(w),
                        NEW p \in Paths, p # call[w].path
                 PROVE  ref[i].tree[p] = TreeBefore(i)[p]
        BY DEF OnlyNamedDocumentChanges
    <2> DEFINE below == SubSeq(ref, 1, i - 1)
    <2>1. CarriesOut(call[w], below, ref[i].tree)
        BY DEF PInv, CommitsArePlanned
    <2>2. /\ i \in DOMAIN ref /\ below \in Branches
          /\ TreeOf(below) = TreeBefore(i)
        BY CommittedCalls
    <2>3. IsWellFormed(TreeBefore(i))
        <3>1. CASE i = 1
            BY <3>1 DEF TreeBefore, EmptyTree, IsWellFormed
        <3>2. CASE i # 1
            <4>1. i - 1 \in DOMAIN ref
                BY <2>2, <3>2 DEF IInv, TypeOK, Branches
            <4> QED
                BY <3>2, <4>1 DEF TreeBefore, WInv
        <3> QED
            BY <3>1, <3>2
    <2>4. call[w] \in CallsOf[w]
        <3>1. call[w] # NoCall
            BY <2>1 DEF CarriesOut, CallsOn, PutCalls, DeleteCalls, NoCall
        <3> QED
            BY <3>1 DEF WInv
    <2> HIDE DEF below
    <2> QED
        BY <2>1, <2>2, <2>3, <2>4, PlansLeaveTheRest DEF NoNestedCreates
<1> QED
    BY <1>1, Invariance, PlansCarriedOut, TreesWellFormed, PTL

------------------------------------------------------------------------------
(***************************************************************************)
(* What Put and Delete tell their callers agrees with the branch, for any  *)
(* number of writers, processes, documents and attempts, and with every    *)
(* fault but one: an update-ref that is killed after it has moved the ref. *)
(* And no call retries because of another call of its own process.         *)
(***************************************************************************)

(* A write that creates or updates leaves the revision its plan reported,  *)
(* and only the writes of a delete report none.                            *)
LEMMA PlannedRevision ==
    ASSUME NEW c, NEW branch \in Branches, NEW result, CarriesOut(c, branch, result),
           c.op = "put"
    PROVE  result[c.path] = Plan(c, branch).rev
<1>1. PICK edit \in Plan(c, branch).edits : result = UpdateIndex(TreeOf(branch), edit)
    BY DEF CarriesOut
<1>2. Plan(c, branch).verdict = "write" /\ c.path \in Paths
    BY DEF CarriesOut, CallsOn, PutCalls, DeleteCalls
<1>3. edit = [path |-> c.path, entry |-> Plan(c, branch).rev]
    BY <1>1, <1>2 DEF Plan, PlanCreate, PlanUpdate, Refusal, Write
<1> QED
    BY <1>1, <1>2, <1>3 DEF UpdateIndex

(* A plan that finds nothing to write has found the bytes already stored   *)
(* under the revision it was given.                                        *)
LEMMA NothingToWrite ==
    ASSUME NEW c \in CallsOn(Paths), NEW branch, Plan(c, branch).verdict = "done"
    PROVE  /\ c.op = "put"
           /\ Plan(c, branch).rev = c.rev
           /\ SerializeInto(c.rev, c.text) = c.rev
<1>1. c.op \in {"put", "delete"}
    BY DEF CallsOn, PutCalls, DeleteCalls
<1> QED
    BY <1>1 DEF Plan, PlanCreate, PlanUpdate, PlanDelete, Refusal, Write

(* The commits of a caller that a step does not concern stay its commits.  *)
LEMMA CommitsStay ==
    ASSUME IInv, NEW v \in Writers, nth'[v] = nth[v],
           \/ ref' = ref
           \/ \E change \in Changes : ref' = Append(ref, change) /\ change.author # v
    PROVE  /\ CommitsOf(v)' = CommitsOf(v)
           /\ \A i \in CommitsOf(v) : ref'[i] = ref[i]
<1>1. CASE ref' = ref
    BY <1>1 DEF CommitsOf
<1>2. ASSUME NEW change \in Changes, ref' = Append(ref, change), change.author # v
      PROVE  /\ CommitsOf(v)' = CommitsOf(v)
             /\ \A i \in CommitsOf(v) : ref'[i] = ref[i]
    <2>1. ref \in Seq(Changes)
        BY DEF IInv, TypeOK, Branches
    <2>2. /\ DOMAIN ref = 1..Len(ref) /\ Len(ref) \in Nat
          /\ DOMAIN ref' = 1..(Len(ref) + 1)
          /\ \A i \in 1..Len(ref) : ref'[i] = ref[i]
          /\ ref'[Len(ref) + 1] = change
        BY <1>2, <2>1, AppendProperties, LenProperties
    <2>3. ASSUME NEW i \in DOMAIN ref', ref'[i].author = v
          PROVE  i \in DOMAIN ref /\ ref'[i] = ref[i]
        <3>1. i # Len(ref) + 1
            BY <1>2, <2>2, <2>3
        <3> QED
            BY ONLY <2>2, <3>1, i \in DOMAIN ref'
    <2>4. \A i \in DOMAIN ref : i \in DOMAIN ref' /\ ref'[i] = ref[i]
        BY <2>2
    <2>5. CommitsOf(v)' = {i \in DOMAIN ref' : ref'[i].author = v /\ ref'[i].nth = nth[v]}
        BY DEF CommitsOf
    <2> QED
        BY <2>3, <2>4, <2>5 DEF CommitsOf
<1> QED
    BY <1>1, <1>2

(* A step that does not concern a caller leaves what it was told true.     *)
LEMMA OthersStayTruthful ==
    ASSUME IInv, NEW v \in Writers, IsTruthful(v),
           \/ ref' = ref
           \/ \E change \in Changes : ref' = Append(ref, change) /\ change.author # v,
           pc'[v] = pc[v], call'[v] = call[v], nth'[v] = nth[v], parent'[v] = parent[v],
           rev'[v] = rev[v], reply'[v] = reply[v]
    PROVE  IsTruthful(v)'
<1>1. CommitsOf(v)' = CommitsOf(v) /\ \A i \in CommitsOf(v) : ref'[i] = ref[i]
    BY CommitsStay
<1> QED
    BY <1>1 DEF IsTruthful

(* A step that takes a call on, with nothing published and nothing planned.*)
LEMMA GoesOnTruthful ==
    ASSUME IInv, NEW w \in Writers, IsTruthful(w), ref' = ref,
           pc[w] \notin {"idle", "published"}, pc'[w] \notin {"idle", "published"},
           call'[w] = call[w], nth'[w] = nth[w], reply'[w] = reply[w],
           pc'[w] \in {"tree", "commit", "publish"} =>
               rev'[w] = Plan(call[w], parent'[w]).rev
    PROVE  IsTruthful(w)'
<1>1. CommitsOf(w)' = CommitsOf(w)
    BY CommitsStay
<1> QED
    BY <1>1 DEF IsTruthful

(* A call that returns with nothing published is told of an error, or that *)
(* there was nothing to write.                                             *)
LEMMA ReturnsTruthful ==
    ASSUME IInv, NEW w \in Writers, IsTruthful(w), ref' = ref,
           pc[w] \notin {"idle", "published"}, NEW why \in Replies, Return(w, why),
           why = "ok" => /\ call[w].op = "put"
                         /\ rev'[w] = call[w].rev
                         /\ SerializeInto(call[w].rev, call[w].text) = call[w].rev
    PROVE  IsTruthful(w)'
<1>1. /\ pc'[w] = "idle" /\ reply'[w] = why
      /\ call'[w] = call[w] /\ nth'[w] = nth[w]
    BY DEF Return, Goto, callVars, IInv, TypeOK
<1>2. CommitsOf(w)' = CommitsOf(w)
    BY <1>1, CommitsStay
<1>3. CommitsOf(w) = {}
    BY DEF IsTruthful
<1> QED
    BY <1>1, <1>2, <1>3 DEF IsTruthful

(* The variables of every caller but one.                                  *)
LEMMA ReturnLeavesOthers ==
    ASSUME IInv, NEW w \in Writers, NEW why, Return(w, why),
           NEW v \in Writers \ {w}
    PROVE  /\ pc'[v] = pc[v] /\ call'[v] = call[v] /\ nth'[v] = nth[v]
           /\ parent'[v] = parent[v] /\ reply'[v] = reply[v]
BY DEF Return, Goto, callVars, IInv, TypeOK

------------------------------------------------------------------------------
(* The invariant of the replies holds initially. *)
LEMMA InitRInv == Init => RInv
<1> SUFFICES ASSUME Init, NEW w \in Writers PROVE IsTruthful(w)
    BY DEF RInv
<1>1. CommitsOf(w) = {}
    BY GitRepositoryAssumption DEF Init, CommitsOf
<1> QED
    BY <1>1 DEF Init, IsTruthful

(* A step of one writer that leaves that writer truthful.                  *)
LEMMA OfOneWriter ==
    ASSUME IInv, RInv, NEW w \in Writers, IsTruthful(w)',
           \A v \in Writers \ {w} :
               /\ \/ ref' = ref
                  \/ \E change \in Changes :
                         ref' = Append(ref, change) /\ change.author # v
               /\ pc'[v] = pc[v] /\ call'[v] = call[v] /\ nth'[v] = nth[v]
               /\ parent'[v] = parent[v] /\ rev'[v] = rev[v] /\ reply'[v] = reply[v]
    PROVE  RInv'
<1>1. ASSUME NEW v \in Writers \ {w} PROVE IsTruthful(v)'
    BY <1>1, OthersStayTruthful DEF RInv
<1> QED
    BY <1>1 DEF RInv

(* A call that returns before anything is published, with its revision     *)
(* settled in the same step.                                               *)
LEMMA ReturnRInv ==
    ASSUME IInv, RInv, NEW w \in Writers, ref' = ref,
           pc[w] \notin {"idle", "published"}, NEW why \in Replies, Return(w, why),
           \A v \in Writers \ {w} : rev'[v] = rev[v],
           why = "ok" => /\ call[w].op = "put"
                         /\ rev'[w] = call[w].rev
                         /\ SerializeInto(call[w].rev, call[w].text) = call[w].rev
    PROVE  RInv'
<1>1. IsTruthful(w)'
    BY ReturnsTruthful DEF RInv
<1> QED
    BY <1>1, ReturnLeavesOthers, OfOneWriter

(* While no command is killed, each step keeps it. *)
LEMMA StepRInv ==
    ASSUME "killed" \notin Faults, IInv, PInv, RInv, [Next]_vars
    PROVE  RInv'
<1> USE DEF attemptVars, callVars
<1>0. \A w \in Writers : IsTruthful(w)
    BY DEF RInv
<1>1. ASSUME NEW w \in Writers, Begin(w) PROVE RInv'
    <2>0. PICK c \in CallsOf[w] :
            /\ call' = [call EXCEPT ![w] = c]
            /\ Goto(w, IF IsRefused(c) THEN "idle" ELSE "queued")
            /\ reply' = [reply EXCEPT ![w] = IF IsRefused(c) THEN "invalid" ELSE "none"]
        BY <1>1 DEF Begin
    <2>1. /\ \A v \in Writers \ {w} :
                 /\ pc'[v] = pc[v] /\ call'[v] = call[v] /\ nth'[v] = nth[v]
                 /\ parent'[v] = parent[v] /\ rev'[v] = rev[v] /\ reply'[v] = reply[v]
          /\ \/ pc'[w] = "idle" /\ reply'[w] = "invalid"
             \/ pc'[w] = "queued" /\ reply'[w] = "none"
          /\ nth'[w] = nth[w] + 1
          /\ ref' = ref
        BY <1>1, <2>0 DEF Begin, Goto, IInv, TypeOK
    <2>2. CommitsOf(w)' = {}
        <3>1. nth[w] \in Nat
            BY GitRepositoryAssumption DEF IInv, TypeOK
        <3>2. \A i \in DOMAIN ref : ref[i] \in Changes
            BY ElementOfSeq DEF IInv, TypeOK, Branches
        <3> QED
            BY <2>1, <3>1, <3>2 DEF PInv, CallsAreNumbered, CommitsOf, Changes
    <2>3. IsTruthful(w)'
        BY <2>1, <2>2 DEF IsTruthful
    <2> QED
        BY <2>1, <2>3, OfOneWriter
<1>2. ASSUME NEW w \in Writers, Cancel(w) PROVE RInv'
    <2>1. UNCHANGED << ref, pc, call, nth, parent, rev, reply >>
        BY <1>2 DEF Cancel
    <2> QED
        BY <1>0, <2>1, OthersStayTruthful DEF RInv
<1>3. ASSUME NEW w \in Writers, NEW label \in PCs \ {"idle", "published", "tree"},
             pc[w] \notin {"idle", "published", "tree", "commit"}, Goto(w, label),
             label # "publish",
             label # "commit",
             UNCHANGED << ref, call, nth, rev, reply >>,
             \A v \in Writers \ {w} : parent'[v] = parent[v]
      PROVE  RInv'
    <2>1. pc'[w] = label /\ \A v \in Writers \ {w} : pc'[v] = pc[v]
        BY <1>3 DEF Goto, IInv, TypeOK
    <2>2. IsTruthful(w)'
        BY <1>0, <1>3, <2>1, GoesOnTruthful
    <2> QED
        BY <1>3, <2>1, <2>2, OfOneWriter
<1>4. ASSUME NEW w \in Writers, TakeTurn(w) PROVE RInv'
    BY <1>3, <1>4 DEF TakeTurn, PCs, InTurn
<1>5. ASSUME NEW w \in Writers, ResolveHead(w) PROVE RInv'
    <2>1. /\ pc[w] = "head" /\ Goto(w, "plan")
          /\ UNCHANGED << ref, call, nth, rev, reply >>
          /\ \A v \in Writers \ {w} : parent'[v] = parent[v]
        BY <1>5 DEF ResolveHead, IInv, TypeOK
    <2> QED
        BY <1>3, <2>1 DEF PCs, InTurn
<1>6. ASSUME NEW w \in Writers, MakePlan(w) PROVE RInv'
    <2> DEFINE plan == Plan(call[w], parent[w])
    <2>1. /\ pc[w] = "plan" /\ ref' = ref
          /\ rev' = [rev EXCEPT ![w] = plan.rev]
        BY <1>6 DEF MakePlan
    <2>2. rev'[w] = plan.rev /\ \A v \in Writers \ {w} : rev'[v] = rev[v]
        BY <2>1 DEF IInv, TypeOK
    <2>3. call[w] \in CallsOn(Paths) /\ parent[w] \in Branches
        BY <2>1 DEF IInv, TypeOK, CallsAreUnderWay
    <2>4. CASE plan.verdict = "write"
        <3>1. Goto(w, "tree") /\ UNCHANGED << call, nth, parent, reply >>
            BY <1>6, <2>4 DEF MakePlan
        <3>2. pc'[w] = "tree" /\ \A v \in Writers \ {w} : pc'[v] = pc[v]
            BY <3>1 DEF Goto, IInv, TypeOK
        <3>3. IsTruthful(w)'
            BY <1>0, <2>1, <2>2, <3>1, <3>2, GoesOnTruthful
        <3> QED
            BY <2>1, <2>2, <3>1, <3>2, <3>3, OfOneWriter
    <2>5. CASE plan.verdict = "done"
        <3>1. Return(w, "ok")
            BY <1>6, <2>5 DEF MakePlan
        <3>2. /\ call[w].op = "put" /\ plan.rev = call[w].rev
              /\ SerializeInto(call[w].rev, call[w].text) = call[w].rev
            BY <2>3, <2>5, NothingToWrite
        <3> QED
            BY <2>1, <2>2, <3>1, <3>2, ReturnRInv DEF Replies
    <2>6. CASE plan.verdict \notin {"write", "done"}
        <3>1. Return(w, plan.verdict)
            BY <1>6, <2>6 DEF MakePlan
        <3>2. plan.verdict \in {"exists", "notfound", "conflict", "invalid"}
            BY <2>3, <2>6, PlanType
        <3> QED
            BY <2>1, <2>2, <3>1, <3>2, ReturnRInv DEF Replies
    <2> QED
        BY <2>4, <2>5, <2>6
<1>7. ASSUME NEW w \in Writers, WriteTree(w) \/ CommitTree(w) PROVE RInv'
    <2>1. /\ pc[w] \in {"tree", "commit"}
          /\ \E label \in {"commit", "publish"} : Goto(w, label)
          /\ UNCHANGED << ref, call, nth, parent, rev, reply >>
        BY <1>7 DEF WriteTree, CommitTree
    <2>2. /\ pc'[w] \in {"commit", "publish"}
          /\ \A v \in Writers \ {w} : pc'[v] = pc[v]
        BY <2>1 DEF Goto, IInv, TypeOK
    <2>3. rev[w] = Plan(call[w], parent[w]).rev
        BY <1>0, <2>1 DEF IsTruthful
    <2>4. IsTruthful(w)'
        BY <1>0, <2>1, <2>2, <2>3, GoesOnTruthful
    <2> QED
        BY <2>1, <2>2, <2>4, OfOneWriter
<1>8. ASSUME NEW w \in Writers, UpdateRef(w) PROVE RInv'
    <2>1. /\ pc[w] = "publish"
          /\ UNCHANGED << call, nth, parent, rev, reply >>
        BY <1>8 DEF UpdateRef
    <2>2. CASE Goto(w, "rejected") /\ ref' = ref
        BY <1>3, <2>1, <2>2 DEF PCs, InTurn
    <2>3. CASE Goto(w, "published") /\ ref = parent[w] /\ ref' = commit[w]
        <3> DEFINE change == [tree |-> tree[w], author |-> w, nth |-> nth[w]]
        <3>1. ref' = Append(ref, change)
            BY <2>1, <2>3 DEF IInv, CommitsExtendTheirParent
        <3>2. change \in Changes
            BY GitRepositoryAssumption DEF IInv, TypeOK, Changes, Authors
        <3>3. ref \in Branches
            BY DEF IInv, TypeOK
        <3>4. pc'[w] = "published" /\ \A v \in Writers \ {w} : pc'[v] = pc[v]
            BY <2>3 DEF Goto, IInv, TypeOK
        <3>5. CarriesOut(call[w], ref, tree[w])
            BY <2>1, <2>3 DEF PInv, TreesArePlanned
        <3>6. CommitsOf(w) = {} /\ reply[w] = "none" /\ rev[w] = Plan(call[w], ref).rev
            BY <1>0, <2>1, <2>3 DEF IsTruthful
        <3>7. call[w].op = "put" => tree[w][call[w].path] = rev[w]
            BY <3>3, <3>5, <3>6, PlannedRevision
        <3>8. /\ DOMAIN ref = 1..Len(ref) /\ Len(ref) \in Nat
              /\ DOMAIN ref' = 1..(Len(ref) + 1)
              /\ \A i \in 1..Len(ref) : ref'[i] = ref[i]
              /\ ref'[Len(ref) + 1] = change
            BY <3>1, <3>2, <3>3, AppendProperties, LenProperties DEF Branches
        <3>9. CommitsOf(w)' = {Len(ref) + 1}
            BY <2>1, <3>6, <3>8 DEF CommitsOf
        <3>10. IsTruthful(w)'
            BY <2>1, <3>4, <3>6, <3>7, <3>8, <3>9 DEF IsTruthful
        <3>11. \A v \in Writers \ {w} : change.author # v
            OBVIOUS
        <3> HIDE DEF change
        <3> QED
            BY <2>1, <3>1, <3>2, <3>4, <3>10, <3>11, OfOneWriter
    <2> QED
        BY <1>8, <2>2, <2>3 DEF UpdateRef
<1>9. ASSUME NEW w \in Writers, Published(w) PROVE RInv'
    <2>1. PICK why \in {"ok", "cancelled"} : Return(w, why)
        BY <1>9 DEF Published
    <2>2. pc[w] = "published" /\ UNCHANGED << ref, rev >>
        BY <1>9 DEF Published
    <2>3. /\ pc'[w] = "idle" /\ reply'[w] = why
          /\ call'[w] = call[w] /\ nth'[w] = nth[w]
        BY <2>1 DEF Return, Goto, IInv, TypeOK
    <2>4. CommitsOf(w)' = CommitsOf(w) /\ CommitsOf(w) # {}
        BY <1>0, <2>2, <2>3, CommitsStay DEF IsTruthful
    <2>5. IsTruthful(w)'
        BY <1>0, <2>1, <2>2, <2>3, <2>4 DEF IsTruthful
    <2> QED
        BY <2>1, <2>2, <2>5, ReturnLeavesOthers, OfOneWriter
<1>10. ASSUME NEW w \in Writers, Rejected(w) PROVE RInv'
    <2>1. pc[w] = "rejected" /\ UNCHANGED << ref, rev >>
        BY <1>10 DEF Rejected
    <2>2. CASE \E why \in {"cancelled", "failed"} : Return(w, why)
        BY <2>1, <2>2, ReturnRInv DEF Replies
    <2>3. CASE Goto(w, "backoff") /\ UNCHANGED << reply, attemptVars, callVars >>
        BY <1>3, <2>1, <2>3 DEF PCs, InTurn
    <2> QED
        BY <1>10, <2>2, <2>3 DEF Rejected
<1>11. ASSUME NEW w \in Writers, Backoff(w) PROVE RInv'
    <2>1. pc[w] = "backoff" /\ UNCHANGED << ref, rev >>
        BY <1>11 DEF Backoff
    <2>2. CASE Return(w, "exhausted")
        BY <2>1, <2>2, ReturnRInv DEF Replies
    <2>3. CASE Goto(w, "head") /\ UNCHANGED << reply, attemptVars, callVars >>
        BY <1>3, <2>1, <2>3 DEF PCs, InTurn
    <2> QED
        BY <1>11, <2>2, <2>3 DEF Backoff
<1>12. ASSUME NEW w \in Writers, Abort(w) PROVE RInv'
    <2>1. /\ pc[w] \notin {"idle", "published"} /\ UNCHANGED << ref, rev >>
          /\ Return(w, "cancelled")
        BY <1>12 DEF Abort, StopsAt
    <2> QED
        BY <2>1, ReturnRInv DEF Replies
<1>13. ASSUME NEW w \in Writers, GitFails(w) PROVE RInv'
    <2>1. /\ pc[w] \notin {"idle", "published"} /\ UNCHANGED << ref, rev >>
          /\ Return(w, "failed")
        BY <1>13 DEF GitFails
    <2> QED
        BY <2>1, ReturnRInv DEF Replies
<1>14. ASSUME GitCommits PROVE RInv'
    <2>1. PICK edit \in GitEdits :
            ref' = Append(ref, [tree |-> UpdateIndex(TreeOf(ref), edit),
                                author |-> PlainGit,
                                nth |-> Cardinality(ByPlainGit(ref))])
        BY <1>14 DEF GitCommits
    <2> DEFINE change == [tree |-> UpdateIndex(TreeOf(ref), edit), author |-> PlainGit,
                          nth |-> Cardinality(ByPlainGit(ref))]
    <2>2. change \in Changes
        BY TreeOfType, UpdateIndexType, PlainGitCounted, GitRepositoryAssumption
        DEF IInv, TypeOK, Changes, Authors
    <2>3. \A v \in Writers : change.author # v
        BY GitRepositoryAssumption
    <2>4. UNCHANGED << pc, call, nth, parent, rev, reply >>
        BY <1>14 DEF GitCommits
    <2> HIDE DEF change
    <2>5. ref' = Append(ref, change)
        BY <2>1 DEF change
    <2> QED
        BY <1>0, <2>2, <2>3, <2>4, <2>5, OthersStayTruthful DEF RInv
<1>15. ASSUME UNCHANGED vars PROVE RInv'
    <2>1. UNCHANGED << ref, pc, call, nth, parent, rev, reply >>
        BY <1>15 DEF vars
    <2> QED
        BY <1>0, <2>1, OthersStayTruthful DEF RInv
<1> QED
    BY <1>1, <1>2, <1>4, <1>5, <1>6, <1>7, <1>8, <1>9, <1>10, <1>11,
       <1>12, <1>13, <1>14, <1>15
    DEF Next, Progress, AllReturned

(* A set whose members are all the same has at most one.                   *)
LEMMA AtMostOne ==
    ASSUME NEW S, \A i, j \in S : i = j
    PROVE  Cardinality(S) <= 1
<1>1. CASE S = {}
    BY <1>1, FS_EmptySet
<1>2. CASE S # {}
    <2>1. PICK i \in S : TRUE
        BY <1>2
    <2>2. S = {i}
        BY <2>1
    <2>3. Cardinality({i}) = 1
        BY FS_Singleton
    <2> QED
        BY <2>2, <2>3
<1> QED
    BY <1>1, <1>2

(* What a caller is told is what happened: a success left exactly one      *)
(* commit, of the revision it returned, or had nothing to write; an error  *)
(* left none; a cancellation left none or one.  A repeated or a lost       *)
(* update breaks it (repository.go:455-516).                               *)
THEOREM TrueReplies ==
    ASSUME "killed" \notin Faults
    PROVE  Spec => []RepliesMatchTheBranch
<1>1. Init => RInv
    BY InitRInv
<1>2. IInv /\ PInv /\ RInv /\ [Next]_vars => RInv'
    BY StepRInv
<1>3. RInv => RepliesMatchTheBranch
    <2> SUFFICES ASSUME RInv, NEW w \in Writers
                 PROVE  LET mine == CommitsOf(w)
                        IN  /\ Cardinality(mine) <= 1
                            /\ reply[w] \notin {"none", "ok", "cancelled"} => mine = {}
                            /\ reply[w] = "ok" /\ call[w].op = "put" =>
                                IF mine = {}
                                THEN /\ rev[w] = call[w].rev
                                     /\ SerializeInto(rev[w], call[w].text) = rev[w]
                                ELSE \A i \in mine : ref[i].tree[call[w].path] = rev[w]
                            /\ reply[w] = "ok" /\ call[w].op = "delete" => mine # {}
        BY DEF RepliesMatchTheBranch
    <2>1. IsTruthful(w)
        BY DEF RInv
    <2>2. Cardinality(CommitsOf(w)) <= 1
        BY <2>1, AtMostOne DEF IsTruthful
    <2> QED
        BY <2>1, <2>2 DEF IsTruthful
<1> QED
    BY <1>1, <1>2, <1>3, Invariance, PlansCarriedOut, PTL DEF Spec

------------------------------------------------------------------------------
(***************************************************************************)
(* And a call that gives up retrying, or has to retry at all, has been     *)
(* overtaken from outside its process every time.                          *)
(***************************************************************************)
(* The branch as the bare sequence the counting needs.                     *)
LEMMA BranchAsRange ==
    ASSUME IInv
    PROVE  /\ ref \in Seq(Changes) /\ Len(ref) \in Nat /\ DOMAIN ref = 1..Len(ref)
           /\ \A v \in Writers :
                  /\ began[v] \in Nat /\ attempt[v] \in Nat
                  /\ parent[v] \in Seq(Changes) /\ Len(parent[v]) \in Nat
                  /\ DOMAIN parent[v] = 1..Len(parent[v])
<1>1. attempt \in [Writers -> 0..MaxAttempts] /\ MaxAttempts \in Nat
    BY GitRepositoryAssumption DEF IInv, TypeOK
<1> QED
    BY <1>1, LenProperties DEF IInv, TypeOK, Branches

(* What came from outside can be counted, and so can any part of it.       *)
LEMMA OutsideCounted ==
    ASSUME IInv, NEW v \in Writers
    PROVE  /\ IsFiniteSet(FromOutside(v)) /\ Cardinality(FromOutside(v)) \in Nat
           /\ IsFiniteSet(SeenFromOutside(v)) /\ Cardinality(SeenFromOutside(v)) \in Nat
           /\ Cardinality(SeenFromOutside(v)) <= Cardinality(FromOutside(v))
<1>1. IsFiniteSet(began[v] + 1 .. Len(ref))
    BY BranchAsRange, FS_Interval
<1>2. FromOutside(v) \subseteq began[v] + 1 .. Len(ref)
    BY DEF FromOutside
<1>3. SeenFromOutside(v) \subseteq FromOutside(v)
    BY DEF SeenFromOutside
<1>4. IsFiniteSet(FromOutside(v))
    BY <1>1, <1>2, FS_Subset
<1> QED
    BY <1>3, <1>4, FS_Subset, FS_CardinalityType

(* A step that keeps the branch, or puts one commit on it, takes nothing   *)
(* away from what came from outside.                                       *)
Grows ==
    \/ ref' = ref
    \/ \E change \in Changes : ref' = Append(ref, change)

(* A branch that grows has one commit more at most, and keeps those it had. *)
LEMMA GrownBranch ==
    ASSUME IInv, Grows
    PROVE  /\ Len(ref') \in Nat /\ Len(ref) <= Len(ref') /\ Len(ref') <= Len(ref) + 1
           /\ DOMAIN ref' = 1..Len(ref')
           /\ \A i \in 1..Len(ref) : ref'[i] = ref[i]
<1>1. ref \in Seq(Changes) /\ Len(ref) \in Nat /\ DOMAIN ref = 1..Len(ref)
    BY BranchAsRange
<1>2. CASE ref' = ref
    BY <1>1, <1>2
<1>3. ASSUME NEW change \in Changes, ref' = Append(ref, change)
      PROVE  /\ Len(ref') = Len(ref) + 1
             /\ DOMAIN ref' = 1..(Len(ref) + 1)
             /\ \A i \in 1..Len(ref) : ref'[i] = ref[i]
    BY <1>1, <1>3, AppendProperties
<1> QED
    BY <1>1, <1>2, <1>3 DEF Grows

(* The commits that came from outside during a call only become more. *)
LEMMA OutsideGrows ==
    ASSUME IInv, Grows, NEW v \in Writers, began'[v] = began[v]
    PROVE  /\ FromOutside(v) \subseteq FromOutside(v)'
           /\ IsFiniteSet(FromOutside(v)') /\ Cardinality(FromOutside(v)') \in Nat
           /\ Cardinality(FromOutside(v)) <= Cardinality(FromOutside(v)')
<1>1. FromOutside(v) \subseteq FromOutside(v)'
    BY GrownBranch, BranchAsRange DEF FromOutside
<1>2. began[v] + 1 \in Int /\ Len(ref') \in Int
    BY GrownBranch, BranchAsRange
<1>3. IsFiniteSet(began[v] + 1 .. Len(ref'))
    BY <1>2, FS_Interval
<1>4. FromOutside(v)' \subseteq began[v] + 1 .. Len(ref')
    BY DEF FromOutside
<1>5. IsFiniteSet(FromOutside(v)')
    BY <1>3, <1>4, FS_Subset
<1> QED
    BY <1>1, <1>5, FS_Subset, FS_CardinalityType

(* A step of a call that is not in, and does not come into, the middle of  *)
(* an attempt, and counts no loss the outside has not caused.              *)
LEMMA BetweenAttempts ==
    ASSUME IInv, NEW w \in Writers, IsOvertakenFromOutside(w), Grows,
           began'[w] = began[w],
           pc'[w] # "idle" => reply'[w] = "none",
           pc'[w] \notin Attempting,
           Losses(w)' <= Cardinality(FromOutside(w)')
    PROVE  IsOvertakenFromOutside(w)'
<1>1. began[w] <= Len(ref')
    BY GrownBranch, BranchAsRange DEF IsOvertakenFromOutside
<1> QED
    BY <1>1 DEF IsOvertakenFromOutside

(* A step that takes an attempt on.                                        *)
LEMMA WithinAnAttempt ==
    ASSUME IInv, NEW w \in Writers, IsOvertakenFromOutside(w), ref' = ref,
           pc[w] \in Attempting, pc'[w] \in Attempting,
           began'[w] = began[w], parent'[w] = parent[w], reply'[w] = reply[w],
           attempt'[w] = attempt[w]
    PROVE  IsOvertakenFromOutside(w)'
<1>1. FromOutside(w)' = FromOutside(w) /\ SeenFromOutside(w)' = SeenFromOutside(w)
    BY DEF FromOutside, SeenFromOutside
<1>2. Losses(w)' = Losses(w)
    BY DEF Losses, Attempting, InTurn, IsOvertakenFromOutside
<1> QED
    BY <1>1, <1>2 DEF IsOvertakenFromOutside, Attempting

(* A step that publishes nothing, or something that comes from outside the *)
(* process of a caller in the middle of an attempt.                        *)
LeavesTheAttemptAlone(v) ==
    \/ ref' = ref
    \/ \E change \in Changes :
        /\ ref' = Append(ref, change)
        /\ pc[v] \in Attempting =>
             \/ change.author = PlainGit
             \/ /\ change.author \in Writers
                /\ ProcessOf[change.author] # ProcessOf[v]

(* A caller the step leaves alone stays overtaken from outside. *)
LEMMA OthersAreOvertaken ==
    ASSUME IInv, NEW v \in Writers, IsOvertakenFromOutside(v),
           LeavesTheAttemptAlone(v), pc'[v] = pc[v], began'[v] = began[v], parent'[v] = parent[v],
           reply'[v] = reply[v], attempt'[v] = attempt[v]
    PROVE  IsOvertakenFromOutside(v)'
<1>1. Grows
    BY DEF Grows, LeavesTheAttemptAlone
<1>2. /\ FromOutside(v) \subseteq FromOutside(v)'
      /\ Cardinality(FromOutside(v)) <= Cardinality(FromOutside(v)')
      /\ Cardinality(FromOutside(v)) \in Nat /\ Cardinality(FromOutside(v)') \in Nat
    BY <1>1, OutsideGrows, OutsideCounted
<1>3. Losses(v)' = Losses(v) /\ Losses(v) \in Int
    BY BranchAsRange DEF Losses
<1>4. /\ Len(ref') \in Nat /\ Len(ref) \in Nat /\ began[v] \in Nat
      /\ Len(ref) <= Len(ref') /\ Len(ref') <= Len(ref) + 1
      /\ DOMAIN ref' = 1..Len(ref')
      /\ \A i \in 1..Len(ref) : ref'[i] = ref[i]
    BY <1>1, GrownBranch, BranchAsRange
<1>5. /\ pc'[v] # "idle" => reply'[v] = "none"
      /\ began'[v] <= Len(ref')
      /\ Losses(v)' <= Cardinality(FromOutside(v)')
    <2> QED
        BY <1>2, <1>3, <1>4 DEF IsOvertakenFromOutside
<1>6. ASSUME pc[v] \in Attempting
      PROVE  /\ began[v] <= Len(parent[v]) /\ Len(parent[v]) <= Len(ref')
             /\ \A i \in DOMAIN parent[v] : parent[v][i] = ref'[i]
             /\ Len(parent[v]) + 1 .. Len(ref') \subseteq FromOutside(v)'
             /\ Losses(v)' <= Cardinality(SeenFromOutside(v)')
    <2>1. /\ began[v] <= Len(parent[v]) /\ Len(parent[v]) <= Len(ref)
          /\ \A i \in DOMAIN parent[v] : parent[v][i] = ref[i]
          /\ Len(parent[v]) + 1 .. Len(ref) \subseteq FromOutside(v)
          /\ Losses(v) <= Cardinality(SeenFromOutside(v))
        BY <1>6 DEF IsOvertakenFromOutside
    <2>2. Len(parent[v]) \in Nat /\ DOMAIN parent[v] = 1..Len(parent[v])
        BY BranchAsRange
    <2>3. Len(parent[v]) <= Len(ref')
        BY <1>4, <2>1, <2>2
    <2>4. \A i \in DOMAIN parent[v] : parent[v][i] = ref'[i]
        BY <1>4, <2>1, <2>2
    <2>5. ASSUME Len(ref') = Len(ref) + 1 PROVE Len(ref') \in FromOutside(v)'
        <3>1. PICK change \in Changes :
                /\ ref' = Append(ref, change)
                /\ \/ change.author = PlainGit
                   \/ /\ change.author \in Writers
                      /\ ProcessOf[change.author] # ProcessOf[v]
            BY <1>4, <1>6, <2>5 DEF LeavesTheAttemptAlone
        <3>2. ref'[Len(ref) + 1] = change
            BY <3>1, BranchAsRange, AppendProperties
        <3>3. Len(ref') \in began[v] + 1 .. Len(ref')
            BY <1>4, <2>1, <2>2, <2>5
        <3> QED
            BY <2>5, <3>1, <3>2, <3>3 DEF FromOutside
    <2>6. Len(parent[v]) + 1 .. Len(ref') \subseteq FromOutside(v)'
        <3> SUFFICES ASSUME NEW i \in Len(parent[v]) + 1 .. Len(ref')
                     PROVE  i \in FromOutside(v)'
            OBVIOUS
        <3>1. i \in Nat /\ Len(parent[v]) + 1 <= i /\ i <= Len(ref')
            BY <1>4, <2>2
        <3>2. CASE i <= Len(ref)
            BY <1>2, <1>4, <2>1, <2>2, <3>1, <3>2
        <3>3. CASE ~(i <= Len(ref))
            <4>1. i = Len(ref') /\ Len(ref') = Len(ref) + 1
                <5> DEFINE m == Len(ref)
                           n == Len(ref')
                <5>1. m \in Nat /\ n \in Nat /\ n <= m + 1
                    BY <1>4
                <5>2. i <= n /\ ~(i <= m)
                    BY <3>1, <3>3
                <5> HIDE DEF m, n
                <5>3. i = n /\ n = m + 1
                    BY <3>1, <5>1, <5>2
                <5> QED
                    BY <5>3 DEF m, n
            <4> QED
                BY <2>5, <4>1
        <3> QED
            BY <3>2, <3>3
    <2>7. SeenFromOutside(v)' = SeenFromOutside(v)
        <3>1. ASSUME NEW i \in FromOutside(v)', i <= Len(parent[v])
              PROVE  i \in FromOutside(v)
            <4>0. i \in began[v] + 1 .. Len(ref')
                BY DEF FromOutside
            <4>1. i \in began[v] + 1 .. Len(ref)
                BY <1>4, <2>1, <2>2, <3>1, <4>0
            <4>2. i \in 1..Len(ref)
                BY <1>4, <4>1
            <4> QED
                BY <1>4, <3>1, <4>1, <4>2 DEF FromOutside
        <3> QED
            BY <1>2, <3>1 DEF SeenFromOutside
    <2> QED
        BY <1>3, <2>1, <2>3, <2>4, <2>6, <2>7
<1> QED
    BY <1>5, <1>6 DEF IsOvertakenFromOutside

------------------------------------------------------------------------------
(* The invariant of the retries holds initially. *)
LEMMA InitOInv == Init => OInv
<1> SUFFICES ASSUME Init, NEW w \in Writers PROVE IsOvertakenFromOutside(w)
    BY DEF OInv
<1>1. IInv
    BY InitIInv
<1>2. Losses(w) = 0 /\ pc[w] = "idle" /\ began[w] = 0
    BY DEF Init, Losses, InTurn
<1>3. Cardinality(FromOutside(w)) \in Nat /\ Len(ref) \in Nat
    BY <1>1, OutsideCounted, BranchAsRange
<1> QED
    BY <1>2, <1>3 DEF IsOvertakenFromOutside, Attempting

(* A step of one writer that publishes nothing.                            *)
LEMMA OvertakenByOneWriter ==
    ASSUME IInv, OInv, NEW w \in Writers, ref' = ref, IsOvertakenFromOutside(w)',
           \A v \in Writers \ {w} :
               /\ pc'[v] = pc[v] /\ began'[v] = began[v] /\ parent'[v] = parent[v]
               /\ reply'[v] = reply[v] /\ attempt'[v] = attempt[v]
    PROVE  OInv'
<1>1. ASSUME NEW v \in Writers \ {w} PROVE IsOvertakenFromOutside(v)'
    BY <1>1, OthersAreOvertaken DEF OInv, LeavesTheAttemptAlone
<1> QED
    BY <1>1 DEF OInv

(* A step that ends a call: only an exhausted one has lost anything that   *)
(* still counts.                                                           *)
LEMMA ReturnOInv ==
    ASSUME IInv, OInv, NEW w \in Writers, NEW why, Return(w, why),
           UNCHANGED << ref, attempt >>,
           why = "exhausted" => pc[w] = "backoff"
    PROVE  OInv'
<1>1. /\ pc'[w] = "idle" /\ reply'[w] = why
      /\ began'[w] = began[w] /\ attempt'[w] = attempt[w]
      /\ \A v \in Writers \ {w} :
            /\ pc'[v] = pc[v] /\ began'[v] = began[v] /\ parent'[v] = parent[v]
            /\ reply'[v] = reply[v] /\ attempt'[v] = attempt[v]
    BY DEF Return, Goto, callVars, IInv, TypeOK
<1>2. FromOutside(w)' = FromOutside(w)
    BY <1>1 DEF FromOutside
<1>3. Losses(w)' = IF why = "exhausted" THEN Losses(w) ELSE 0
    BY <1>1 DEF Losses, InTurn
<1>4. Losses(w)' <= Cardinality(FromOutside(w)')
    BY <1>2, <1>3, OutsideCounted DEF OInv, IsOvertakenFromOutside
<1>5. IsOvertakenFromOutside(w)'
    BY <1>1, <1>4, BetweenAttempts DEF OInv, Grows, Attempting
<1> QED
    BY <1>1, <1>5, OvertakenByOneWriter

(* A step of a call, outside the middle of an attempt, that counts one     *)
(* loss more only where the outside has just caused it.                    *)
LEMMA GoesOnOInv ==
    ASSUME IInv, OInv, NEW w \in Writers, NEW label \in PCs \ Attempting,
           label # "idle", pc[w] # "idle", Goto(w, label),
           UNCHANGED << ref, reply, parent, began >>,
           \A v \in Writers \ {w} : attempt'[v] = attempt[v],
           Losses(w)' <= Cardinality(FromOutside(w))
    PROVE  OInv'
<1>1. pc'[w] = label /\ \A v \in Writers \ {w} : pc'[v] = pc[v]
    BY DEF Goto, IInv, TypeOK
<1>2. FromOutside(w)' = FromOutside(w)
    BY DEF FromOutside
<1>3. IsOvertakenFromOutside(w)'
    BY <1>1, <1>2, BetweenAttempts DEF OInv, Grows, IsOvertakenFromOutside
<1> QED
    BY <1>1, <1>3, OvertakenByOneWriter

(* A step of a call from one point of an attempt to another.               *)
LEMMA AttemptOInv ==
    ASSUME IInv, OInv, NEW w \in Writers, NEW label \in Attempting,
           pc[w] \in Attempting, Goto(w, label),
           UNCHANGED << ref, reply, parent, began, attempt >>
    PROVE  OInv'
<1>1. pc'[w] = label /\ \A v \in Writers \ {w} : pc'[v] = pc[v]
    BY DEF Goto, IInv, TypeOK
<1>2. IsOvertakenFromOutside(w)'
    BY <1>1, WithinAnAttempt DEF OInv
<1> QED
    BY <1>1, <1>2, OvertakenByOneWriter

(* While no update is refused and no command killed, each step keeps it. *)
LEMMA StepOInv ==
    ASSUME Faults \cap {"refused", "killed"} = {}, IInv, OInv, [Next]_vars
    PROVE  OInv'
<1> USE DEF attemptVars, callVars
<1>0. \A w \in Writers : IsOvertakenFromOutside(w)
    BY DEF OInv
<1>1. ASSUME NEW w \in Writers, Begin(w) PROVE OInv'
    <2>1. PICK c \in CallsOf[w] :
            /\ Goto(w, IF IsRefused(c) THEN "idle" ELSE "queued")
            /\ reply' = [reply EXCEPT ![w] = IF IsRefused(c) THEN "invalid" ELSE "none"]
        BY <1>1 DEF Begin
    <2>2. /\ \A v \in Writers \ {w} :
                /\ pc'[v] = pc[v] /\ began'[v] = began[v] /\ parent'[v] = parent[v]
                /\ reply'[v] = reply[v] /\ attempt'[v] = attempt[v]
          /\ \/ pc'[w] = "idle" /\ reply'[w] = "invalid"
             \/ pc'[w] = "queued" /\ reply'[w] = "none"
          /\ began'[w] = Len(ref) /\ ref' = ref
        BY <1>1, <2>1 DEF Begin, Goto, IInv, TypeOK
    <2>3. Len(ref) \in Nat
        BY BranchAsRange
    <2>4. FromOutside(w)' = {}
        BY <2>2, <2>3 DEF FromOutside
    <2>5. Losses(w)' = 0
        BY <2>2 DEF Losses, InTurn
    <2>6. Losses(w)' <= Cardinality(FromOutside(w)')
        BY <2>4, <2>5, FS_EmptySet
    <2>7. IsOvertakenFromOutside(w)'
        BY <2>2, <2>3, <2>6 DEF IsOvertakenFromOutside, Attempting
    <2> QED
        BY <2>2, <2>7, OvertakenByOneWriter
<1>2. ASSUME NEW w \in Writers, Cancel(w) PROVE OInv'
    <2>1. UNCHANGED << ref, pc, attempt, parent, reply, began >>
        BY <1>2 DEF Cancel
    <2> QED
        BY <1>0, <2>1, OthersAreOvertaken DEF OInv, LeavesTheAttemptAlone
<1>3. ASSUME NEW w \in Writers, TakeTurn(w) PROVE OInv'
    <2>1. /\ pc[w] = "queued" /\ Goto(w, "head")
          /\ UNCHANGED << ref, reply, parent, began >>
          /\ attempt' = [attempt EXCEPT ![w] = 1]
        BY <1>3 DEF TakeTurn
    <2>2. pc'[w] = "head" /\ reply'[w] = "none" /\ attempt'[w] = 1
        BY <1>0, <2>1 DEF Goto, IInv, TypeOK, IsOvertakenFromOutside
    <2>3. Losses(w)' = 0
        BY <2>2 DEF Losses, InTurn
    <2>4. \A v \in Writers \ {w} : attempt'[v] = attempt[v]
        BY <2>1 DEF IInv, TypeOK
    <2>5. "head" \in PCs \ Attempting
        BY DEF PCs, InTurn, Attempting
    <2> QED
        BY <2>1, <2>3, <2>4, <2>5, OutsideCounted, GoesOnOInv
<1>4. ASSUME NEW w \in Writers, ResolveHead(w) PROVE OInv'
    <2>1. /\ pc[w] = "head" /\ Goto(w, "plan")
          /\ parent' = [parent EXCEPT ![w] = ref]
          /\ UNCHANGED << ref, reply, began, attempt >>
        BY <1>4 DEF ResolveHead
    <2>2. /\ pc'[w] = "plan" /\ parent'[w] = ref
          /\ \A v \in Writers \ {w} : pc'[v] = pc[v] /\ parent'[v] = parent[v]
        BY <2>1 DEF Goto, IInv, TypeOK
    <2>3. FromOutside(w)' = FromOutside(w)
        BY <2>1 DEF FromOutside
    <2>4. Losses(w)' = Losses(w) /\ reply[w] = "none"
        BY <1>0, <2>1, <2>2 DEF Losses, InTurn, IsOvertakenFromOutside
    <2>5. SeenFromOutside(w)' = FromOutside(w)
        BY <2>1, <2>2, <2>3, BranchAsRange DEF SeenFromOutside, FromOutside
    <2>6. Len(ref) + 1 .. Len(ref) = {}
        BY BranchAsRange
    <2>7. Len(ref) <= Len(ref)
        BY BranchAsRange
    <2>8. IsOvertakenFromOutside(w)'
        BY <1>0, <2>1, <2>2, <2>3, <2>4, <2>5, <2>6, <2>7
        DEF IsOvertakenFromOutside
    <2> QED
        BY <2>1, <2>2, <2>8, OvertakenByOneWriter
<1>5. ASSUME NEW w \in Writers, MakePlan(w) PROVE OInv'
    <2>1. pc[w] = "plan" /\ UNCHANGED << ref, attempt >>
        BY <1>5 DEF MakePlan
    <2>2. CASE Goto(w, "tree") /\ UNCHANGED << reply, parent, callVars >>
        BY <2>1, <2>2, AttemptOInv DEF Attempting
    <2>3. ASSUME NEW why, Return(w, why), why # "exhausted" PROVE OInv'
        BY <2>1, <2>3, ReturnOInv
    <2>4. Plan(call[w], parent[w]).verdict # "exhausted"
        BY <2>1, PlanType DEF IInv, TypeOK, CallsAreUnderWay
    <2> QED
        BY <1>5, <2>2, <2>3, <2>4 DEF MakePlan
<1>6. ASSUME NEW w \in Writers, WriteTree(w) \/ CommitTree(w) PROVE OInv'
    <2>1. /\ pc[w] \in Attempting
          /\ \E label \in Attempting : Goto(w, label)
          /\ UNCHANGED << ref, reply, parent, began, attempt >>
        BY <1>6 DEF WriteTree, CommitTree, Attempting
    <2> QED
        BY <2>1, AttemptOInv
<1>7. ASSUME NEW w \in Writers, UpdateRef(w) PROVE OInv'
    <2>1. /\ pc[w] = "publish"
          /\ UNCHANGED << reply, parent, began, attempt >>
        BY <1>7 DEF UpdateRef
    <2>2. CASE Goto(w, "rejected") /\ ref # parent[w] /\ ref' = ref
        <3>1. /\ began[w] <= Len(parent[w]) /\ Len(parent[w]) <= Len(ref)
              /\ \A i \in DOMAIN parent[w] : parent[w][i] = ref[i]
              /\ Len(parent[w]) + 1 .. Len(ref) \subseteq FromOutside(w)
              /\ Losses(w) <= Cardinality(SeenFromOutside(w))
              /\ reply[w] = "none"
            BY <1>0, <2>1 DEF IsOvertakenFromOutside, Attempting
        <3>2. Len(parent[w]) + 1 \in FromOutside(w)
            <4>1. Len(parent[w]) # Len(ref)
                BY <2>2, <3>1, BranchAsRange, SeqEqual
            <4> QED
                BY <3>1, <4>1, BranchAsRange
        <3>3. Len(parent[w]) + 1 \notin SeenFromOutside(w)
            BY BranchAsRange DEF SeenFromOutside
        <3>4. SeenFromOutside(w) \cup {Len(parent[w]) + 1} \in SUBSET FromOutside(w)
            BY <3>2 DEF SeenFromOutside
        <3>5. Cardinality(SeenFromOutside(w)) + 1 <= Cardinality(FromOutside(w))
            BY <3>3, <3>4, OutsideCounted, FS_AddElement, FS_Subset
        <3>6. Losses(w) = attempt[w] - 1
            BY <2>1, <3>1 DEF Losses, InTurn
        <3>7. pc'[w] = "rejected"
            BY <2>2 DEF Goto, IInv, TypeOK
        <3>8. Losses(w)' = attempt[w]
            BY <2>1, <3>7 DEF Losses
        <3>9. Losses(w)' <= Cardinality(FromOutside(w))
            BY <3>1, <3>5, <3>6, <3>8, OutsideCounted, BranchAsRange
        <3>10. "rejected" \in PCs \ Attempting
            BY DEF PCs, InTurn, Attempting
        <3> QED
            BY <2>1, <2>2, <3>9, <3>10, GoesOnOInv
    <2>3. CASE Goto(w, "published") /\ ref = parent[w] /\ ref' = commit[w]
        <3> DEFINE change == [tree |-> tree[w], author |-> w, nth |-> nth[w]]
        <3>1. ref' = Append(ref, change)
            BY <2>1, <2>3 DEF IInv, CommitsExtendTheirParent
        <3>2. change \in Changes /\ change.author = w
            BY GitRepositoryAssumption DEF IInv, TypeOK, Changes, Authors
        <3> HIDE DEF change
        <3>3. pc'[w] = "published" /\ \A v \in Writers \ {w} : pc'[v] = pc[v]
            BY <2>3 DEF Goto, IInv, TypeOK
        <3>4. Grows
            BY <3>1, <3>2 DEF Grows
        <3>5. IsOvertakenFromOutside(w)'
            <4>1. Losses(w)' = Losses(w) /\ Losses(w) \in Int
                BY <1>0, <2>1, <3>3, BranchAsRange
                DEF Losses, InTurn, IsOvertakenFromOutside
            <4>2. Losses(w)' <= Cardinality(FromOutside(w)')
                BY <1>0, <2>1, <3>4, <4>1, OutsideGrows, OutsideCounted
                DEF IsOvertakenFromOutside
            <4> QED
                BY <1>0, <2>1, <3>3, <3>4, <4>2, BetweenAttempts
                DEF Attempting, IsOvertakenFromOutside
        <3>6. ASSUME NEW v \in Writers \ {w} PROVE IsOvertakenFromOutside(v)'
            <4>1. pc[v] \in Attempting => ProcessOf[v] # ProcessOf[w]
                BY <2>1 DEF IInv, TurnsAreExclusive, InTurn, Attempting
            <4>2. LeavesTheAttemptAlone(v)
                BY <3>1, <3>2, <4>1 DEF LeavesTheAttemptAlone
            <4> QED
                BY <1>0, <2>1, <3>3, <4>2, OthersAreOvertaken
        <3> QED
            BY <3>5, <3>6 DEF OInv
    <2> QED
        BY <1>7, <2>2, <2>3 DEF UpdateRef
<1>8. ASSUME NEW w \in Writers, Published(w) \/ Abort(w) \/ GitFails(w) PROVE OInv'
    <2>1. /\ UNCHANGED << ref, attempt >>
          /\ \E why \in {"ok", "cancelled", "failed"} : Return(w, why)
        BY <1>8 DEF Published, Abort, GitFails
    <2> QED
        BY <2>1, ReturnOInv
<1>9. ASSUME NEW w \in Writers, Rejected(w) PROVE OInv'
    <2>1. pc[w] = "rejected" /\ UNCHANGED << ref, attempt >>
        BY <1>9 DEF Rejected
    <2>2. CASE \E why \in {"cancelled", "failed"} : Return(w, why)
        BY <2>1, <2>2, ReturnOInv
    <2>3. CASE Goto(w, "backoff") /\ UNCHANGED << reply, attemptVars, callVars >>
        <3>1. pc'[w] = "backoff"
            BY <2>3 DEF Goto, IInv, TypeOK
        <3>2. Losses(w)' = Losses(w)
            BY <2>1, <3>1 DEF Losses
        <3>3. "backoff" \in PCs \ Attempting
            BY DEF PCs, InTurn, Attempting
        <3> QED
            BY <1>0, <2>1, <2>3, <3>2, <3>3, GoesOnOInv DEF IsOvertakenFromOutside
    <2> QED
        BY <1>9, <2>2, <2>3 DEF Rejected
<1>10. ASSUME NEW w \in Writers, Backoff(w) PROVE OInv'
    <2>1. pc[w] = "backoff" /\ ref' = ref
        BY <1>10 DEF Backoff
    <2>2. CASE Return(w, "exhausted") /\ UNCHANGED attempt
        BY <2>1, <2>2, ReturnOInv
    <2>3. CASE /\ attempt' = [attempt EXCEPT ![w] = @ + 1]
               /\ Goto(w, "head")
               /\ UNCHANGED << reply, attemptVars, callVars >>
        <3>1. pc'[w] = "head" /\ attempt'[w] = attempt[w] + 1 /\ reply'[w] = "none"
            BY <1>0, <2>1, <2>3 DEF Goto, IInv, TypeOK, IsOvertakenFromOutside
        <3>2. Losses(w)' = Losses(w)
            BY <2>1, <3>1, BranchAsRange DEF Losses, InTurn
        <3>3. \A v \in Writers \ {w} : attempt'[v] = attempt[v]
            BY <2>3 DEF IInv, TypeOK
        <3>4. "head" \in PCs \ Attempting
            BY DEF PCs, InTurn, Attempting
        <3> QED
            BY <1>0, <2>1, <2>3, <3>2, <3>3, <3>4, GoesOnOInv DEF IsOvertakenFromOutside
    <2> QED
        BY <1>10, <2>2, <2>3 DEF Backoff
<1>11. ASSUME GitCommits PROVE OInv'
    <2>1. PICK edit \in GitEdits :
            ref' = Append(ref, [tree |-> UpdateIndex(TreeOf(ref), edit),
                                author |-> PlainGit,
                                nth |-> Cardinality(ByPlainGit(ref))])
        BY <1>11 DEF GitCommits
    <2> DEFINE change == [tree |-> UpdateIndex(TreeOf(ref), edit), author |-> PlainGit,
                          nth |-> Cardinality(ByPlainGit(ref))]
    <2>2. change \in Changes /\ change.author = PlainGit
        BY TreeOfType, UpdateIndexType, PlainGitCounted, GitRepositoryAssumption
        DEF IInv, TypeOK, Changes, Authors
    <2>3. UNCHANGED << pc, attempt, parent, reply, began >>
        BY <1>11 DEF GitCommits
    <2>4. ref' = Append(ref, change)
        BY <2>1
    <2> HIDE DEF change
    <2>5. \A v \in Writers : LeavesTheAttemptAlone(v)
        BY <2>2, <2>4 DEF LeavesTheAttemptAlone
    <2> QED
        BY <1>0, <2>3, <2>5, OthersAreOvertaken DEF OInv
<1>12. ASSUME UNCHANGED vars PROVE OInv'
    <2>1. UNCHANGED << ref, pc, attempt, parent, reply, began >>
        BY <1>12 DEF vars
    <2> QED
        BY <1>0, <2>1, OthersAreOvertaken DEF OInv, LeavesTheAttemptAlone
<1> QED
    BY <1>1, <1>2, <1>3, <1>4, <1>5, <1>6, <1>7, <1>8, <1>9, <1>10, <1>11, <1>12
    DEF Next, Progress, AllReturned

(* Writers of one *Repository never cost each other an attempt: a publish  *)
(* is lost to a commit from outside the process and to nothing else, so    *)
(* long as update-ref fails only where the ref has moved                   *)
(* (repository.go:455-516).                                                *)
THEOREM LossesComeFromOutside ==
    ASSUME Faults \cap {"refused", "killed"} = {}
    PROVE  Spec => []RetriesComeFromOutside
<1>1. Init => OInv
    BY InitOInv
<1>2. IInv /\ OInv /\ [Next]_vars => OInv'
    BY StepOInv
<1>3. OInv => RetriesComeFromOutside
    BY DEF OInv, IsOvertakenFromOutside, RetriesComeFromOutside
<1> QED
    BY <1>1, <1>2, <1>3, Invariance, PTL DEF Spec
==============================================================================
