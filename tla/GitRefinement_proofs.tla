-------------------------- MODULE GitRefinement_proofs ------------------------
(***************************************************************************)
(* git.Repository implements core.ContentRepository, for any number of     *)
(* writers, processes, documents and attempts and with every fault: each   *)
(* step of a call, of plain git or of a context maps to a step of          *)
(* ContentStore or to none.  The calls are those that create no document   *)
(* below the path of another.                                              *)
(***************************************************************************)
EXTENDS GitRepositoryRefinement, GitRepository_proofs

(* What a caller sees at a path of a tree.                                 *)
LEMMA DocAt ==
    ASSUME NEW t \in Trees, NEW p \in Paths
    PROVE  /\ DocsIn(t)[p] \in Blobs \cup {Absent, Other}
           /\ DocsIn(t)[p] \in Blobs <=> CatFile(t, p) = "blob"
           /\ DocsIn(t)[p] = Absent <=> CatFile(t, p) = "missing"
           /\ t[p] \in Blobs <=> CatFile(t, p) = "blob"
           /\ t[p] \in Blobs => DocsIn(t)[p] = t[p]
<1>1. DocsIn(t)[p] = CASE CatFile(t, p) = "blob"    -> t[p]
                       [] CatFile(t, p) = "tree"    -> Other
                       [] CatFile(t, p) = "missing" -> Absent
    BY DEF DocsIn
<1>2. CASE t[p] \in Blobs
    <2>1. CatFile(t, p) = "blob"
        BY <1>2 DEF CatFile
    <2>2. DocsIn(t)[p] = t[p]
        BY <1>1, <2>1
    <2> QED
        BY <1>2, <2>1, <2>2, GitTreesAssumption
<1>3. CASE t[p] \notin Blobs /\ IsDirectory(t, p)
    <2>1. CatFile(t, p) = "tree"
        BY <1>3 DEF CatFile
    <2> QED
        BY <1>1, <1>3, <2>1, OtherAssumption
<1>4. CASE t[p] \notin Blobs /\ ~IsDirectory(t, p)
    <2>1. CatFile(t, p) = "missing"
        BY <1>4 DEF CatFile
    <2> QED
        BY <1>1, <1>4, <2>1, GitTreesAssumption
<1> QED
    BY <1>2, <1>3, <1>4

(* The two modules speak of the same documents, calls and serializer.      *)
LEMMA SameVocabulary ==
    /\ Store!NoCall = NoCall
    /\ Store!Blobs = Blobs
    /\ Store!CallsOn(Paths) = CallsOn(Paths)
    /\ Store!Stores = [Paths -> Blobs \cup {Absent, Other}]
    /\ \A text : Store!Format(text) = Format(text)
    /\ \A stored, text : Store!SerializeInto(stored, text) = SerializeInto(stored, text)
BY DEF Store!NoCall, NoCall, Store!Blobs, Blobs, Store!Stores, Store!CallsOn, CallsOn,
       Store!PutCalls, PutCalls, Store!DeleteCalls, DeleteCalls, Store!Revisions,
       Revisions, Store!Format, Format, Store!SerializeInto, SerializeInto

(* The documents in a tree are a state of the abstract store. *)
LEMMA DocsType ==
    ASSUME NEW t \in Trees
    PROVE  DocsIn(t) \in Store!Stores
<1>1. \A p \in Paths : DocsIn(t)[p] \in Blobs \cup {Absent, Other}
    BY DocAt
<1>2. DocsIn(t) \in [Paths -> Blobs \cup {Absent, Other}]
    BY <1>1 DEF DocsIn
<1> QED
    BY <1>2, SameVocabulary

(* What the contract refuses, refusal by refusal.                          *)
LEMMA Refusals ==
    ASSUME NEW c \in CallsOn(Paths), NEW stored
    PROVE  /\ Store!Refuses(c, stored) \subseteq {"exists", "notfound", "conflict", "invalid"}
           /\ "exists" \in Store!Refuses(c, stored) <=>
                 c.op = "put" /\ c.rev = NoRevision /\ stored # Absent
           /\ "notfound" \in Store!Refuses(c, stored) <=>
                 ~(c.op = "put" /\ c.rev = NoRevision) /\ stored \notin Blobs
           /\ "conflict" \in Store!Refuses(c, stored) <=>
                 /\ stored \in Blobs
                 /\ ~(c.op = "put" /\ c.rev = NoRevision)
                 /\ c.rev \notin {stored, NoRevision}
           /\ "invalid" \in Store!Refuses(c, stored) <=>
                 c.op = "put" /\ c.text \in Unwritable
<1> DEFINE Applies(why) ==
        CASE why = "exists"   -> Store!IsCreate(c) /\ stored # Absent
          [] why = "notfound" -> ~Store!IsCreate(c) /\ stored \notin Store!Blobs
          [] why = "conflict" -> /\ stored \in Store!Blobs
                                 /\ ~Store!IsCreate(c)
                                 /\ c.rev \notin {stored, NoRevision}
          [] why = "invalid"  -> c.op = "put" /\ c.text \in Unwritable
<1>1. Store!Refuses(c, stored) =
        {why \in {"exists", "notfound", "conflict", "invalid"} : Applies(why)}
    BY DEF Store!Refuses
<1>2. Applies("exists") <=> Store!IsCreate(c) /\ stored # Absent
    OBVIOUS
<1>3. Applies("notfound") <=> ~Store!IsCreate(c) /\ stored \notin Store!Blobs
    OBVIOUS
<1>4. Applies("conflict") <=> /\ stored \in Store!Blobs
                              /\ ~Store!IsCreate(c)
                              /\ c.rev \notin {stored, NoRevision}
    OBVIOUS
<1>5. Applies("invalid") <=> c.op = "put" /\ c.text \in Unwritable
    OBVIOUS
<1> HIDE DEF Applies
<1>6. Store!IsCreate(c) <=> c.op = "put" /\ c.rev = NoRevision
    BY DEF Store!IsCreate
<1> QED
    BY <1>1, <1>2, <1>3, <1>4, <1>5, <1>6, SameVocabulary

(* What the contract stores.                                               *)
LEMMA Results ==
    ASSUME NEW c \in CallsOn(Paths), NEW stored
    PROVE  Store!Result(c, stored) = IF c.op = "delete" THEN Absent
                                     ELSE IF c.rev = NoRevision THEN Format(c.text)
                                     ELSE SerializeInto(stored, c.text)
<1>1. c.op \in {"put", "delete"}
    BY DEF CallsOn, PutCalls, DeleteCalls
<1> QED
    BY <1>1, SameVocabulary DEF Store!Result, Store!IsCreate, Store!IsUpdate

------------------------------------------------------------------------------
(* A plan that refuses tells the truth about the parent it was made for.   *)
LEMMA RefusalsAreTrue ==
    ASSUME NEW c \in CallsOn(Paths), NEW branch \in Branches,
           Plan(c, branch).verdict \notin {"write", "done"}
    PROVE  Plan(c, branch).verdict \in Store!Refuses(c, DocsIn(TreeOf(branch))[c.path])
<1> DEFINE t == TreeOf(branch)
           stored == DocsIn(t)[c.path]
<1>1. t \in Trees /\ c.path \in Paths /\ c.op \in {"put", "delete"}
    BY TreeOfType DEF CallsOn, PutCalls, DeleteCalls
<1>2. /\ stored \in Blobs <=> CatFile(t, c.path) = "blob"
      /\ stored = Absent <=> CatFile(t, c.path) = "missing"
      /\ CatFile(t, c.path) = "blob" => stored = t[c.path]
    BY <1>1, DocAt
<1>3. CASE c.op = "delete"
    <2>1. \/ Plan(c, branch).verdict = "notfound" /\ CatFile(t, c.path) # "blob"
          \/ /\ Plan(c, branch).verdict = "conflict" /\ CatFile(t, c.path) = "blob"
             /\ c.rev \notin {t[c.path], NoRevision}
        BY <1>3 DEF Plan, PlanDelete, Refusal
    <2> QED
        BY <1>2, <1>3, <2>1, Refusals
<1>4. CASE c.op = "put" /\ c.rev = NoRevision
    <2>1. \/ Plan(c, branch).verdict = "exists" /\ CatFile(t, c.path) # "missing"
          \/ Plan(c, branch).verdict = "invalid" /\ c.text \in Unwritable
        BY <1>4 DEF Plan, PlanCreate, Refusal, Write
    <2> QED
        BY <1>2, <1>4, <2>1, Refusals
<1>5. CASE c.op = "put" /\ c.rev # NoRevision
    <2>1. \/ Plan(c, branch).verdict = "notfound" /\ CatFile(t, c.path) # "blob"
          \/ /\ Plan(c, branch).verdict = "conflict" /\ CatFile(t, c.path) = "blob"
             /\ c.rev # t[c.path]
          \/ Plan(c, branch).verdict = "invalid" /\ c.text \in Unwritable
        BY <1>5 DEF Plan, PlanUpdate, Refusal, Write
    <2> QED
        BY <1>2, <1>5, <2>1, Refusals
<1> QED
    BY <1>1, <1>3, <1>4, <1>5

(* A plan that finds nothing to write leaves what the contract would store.*)
LEMMA DoneIsStored ==
    ASSUME NEW c \in CallsOn(Paths), NEW branch \in Branches,
           Plan(c, branch).verdict = "done"
    PROVE  LET stored == DocsIn(TreeOf(branch))[c.path]
           IN  /\ Store!Refuses(c, stored) = {}
               /\ Store!Result(c, stored) = stored
<1> DEFINE t == TreeOf(branch)
           stored == DocsIn(t)[c.path]
<1>1. t \in Trees /\ c.path \in Paths /\ c.op \in {"put", "delete"}
    BY TreeOfType DEF CallsOn, PutCalls, DeleteCalls
<1>2. /\ c.op = "put" /\ c.rev # NoRevision /\ c.text \notin Unwritable
      /\ CatFile(t, c.path) = "blob" /\ t[c.path] = c.rev
      /\ SerializeInto(t[c.path], c.text) = t[c.path]
    BY <1>1 DEF Plan, PlanCreate, PlanUpdate, PlanDelete, Refusal, Write
<1>3. stored \in Blobs /\ stored = t[c.path]
    BY <1>1, <1>2, DocAt
<1> HIDE DEF stored, t
<1>4. Store!Refuses(c, stored) = {}
    BY <1>2, <1>3, Refusals
<1>5. Store!Result(c, stored) = stored
    BY <1>2, <1>3, Results
<1> QED
    BY <1>4, <1>5 DEF stored, t

(* A plan that is carried out does what the contract does, and no more.    *)
LEMMA WritesAreStored ==
    ASSUME NEW c, NEW branch \in Branches, NEW result \in Trees,
           CarriesOut(c, branch, result), IsWellFormed(TreeOf(branch)),
           IsWellFormed(result),
           c.op = "put" /\ c.rev = NoRevision =>
               \A p \in Paths : <<c.path, p>> \notin Inside
    PROVE  LET before == DocsIn(TreeOf(branch))
               after  == DocsIn(result)
           IN  /\ Store!Refuses(c, before[c.path]) = {}
               /\ after[c.path] = Store!Result(c, before[c.path])
               /\ \A p \in Paths \ {c.path} :
                     IF before[p] \in Blobs THEN after[p] = before[p]
                                            ELSE after[p] \notin Blobs
<1> DEFINE t == TreeOf(branch)
           old == DocsIn(t)[c.path]
           new == DocsIn(result)[c.path]
<1>1. /\ t \in Trees /\ c \in CallsOn(Paths) /\ c.path \in Paths
      /\ c.op \in {"put", "delete"}
    BY TreeOfType DEF CarriesOut, CallsOn, PutCalls, DeleteCalls
<1>2. /\ old \in Blobs <=> CatFile(t, c.path) = "blob"
      /\ old = Absent <=> CatFile(t, c.path) = "missing"
      /\ CatFile(t, c.path) = "blob" => old = t[c.path]
      /\ result[c.path] \in Blobs => new = result[c.path]
      /\ new = Absent <=> CatFile(result, c.path) = "missing"
    BY <1>1, DocAt
<1>3. PICK edit \in Plan(c, branch).edits : result = UpdateIndex(t, edit)
    BY DEF CarriesOut
<1>4. Plan(c, branch).verdict = "write"
    BY DEF CarriesOut
<1>5. edit.path = c.path
    BY <1>3 DEF Plan, PlanCreate, PlanUpdate, PlanDelete, Refusal, Write
<1>6. result[c.path] = edit.entry
    BY <1>1, <1>3, <1>5 DEF UpdateIndex
<1>7. ASSUME NEW p \in Paths \ {c.path}
      PROVE  IF DocsIn(t)[p] \in Blobs THEN DocsIn(result)[p] = DocsIn(t)[p]
                                       ELSE DocsIn(result)[p] \notin Blobs
    <2>1. result[p] = t[p]
        BY PlansLeaveTheRest
    <2> QED
        BY <1>1, <2>1, DocAt
<1>8. Store!Refuses(c, old) = {} /\ new = Store!Result(c, old)
    <2>1. CASE c.op = "delete"
        <3>1. /\ CatFile(t, c.path) = "blob"
              /\ c.rev # NoRevision => t[c.path] = c.rev
              /\ edit.entry = Absent
            BY <1>3, <1>4, <2>1 DEF Plan, PlanDelete, Refusal
        <3>2. ~IsDirectory(result, c.path)
            <4>1. \A q \in Paths : <<q, c.path>> \in Inside => t[q] = Absent
                BY <1>1, <1>2, <3>1, DocAt, GitTreesAssumption DEF IsWellFormed
            <4>2. \A q \in Paths : <<q, c.path>> \in Inside => result[q] = Absent
                BY <1>3, <1>6, <3>1, <4>1 DEF UpdateIndex
            <4> QED
                BY <4>2 DEF IsDirectory
        <3>3. CatFile(result, c.path) = "missing"
            BY <1>6, <3>1, <3>2, GitTreesAssumption DEF CatFile
        <3> HIDE DEF old, new, t
        <3> QED
            BY <1>1, <1>2, <2>1, <3>1, <3>3, Refusals, Results
    <2>2. CASE c.op = "put" /\ c.rev = NoRevision
        <3>1. /\ CatFile(t, c.path) = "missing" /\ c.text \notin Unwritable
              /\ edit.entry = Format(c.text)
            BY <1>3, <1>4, <2>2 DEF Plan, PlanCreate, Refusal, Write
        <3>2. c.text \in Texts
            BY <1>1, <2>2 DEF CallsOn, PutCalls, DeleteCalls
        <3>3. Format(c.text) \in Blobs
            BY <3>2, DocumentsAssumption DEF Format, Blobs
        <3> HIDE DEF old, new, t
        <3> QED
            BY <1>1, <1>2, <1>6, <2>2, <3>1, <3>3, Refusals, Results
    <2>3. CASE c.op = "put" /\ c.rev # NoRevision
        <3>1. /\ CatFile(t, c.path) = "blob" /\ t[c.path] = c.rev
              /\ c.text \notin Unwritable
              /\ edit.entry = SerializeInto(t[c.path], c.text)
            BY <1>3, <1>4, <2>3 DEF Plan, PlanUpdate, Refusal, Write
        <3>2. c.text \in Texts
            BY <1>1, <2>3 DEF CallsOn, PutCalls, DeleteCalls
        <3>3. SerializeInto(t[c.path], c.text) \in Blobs
            BY <1>2, <3>1, <3>2, SerializerType
        <3> HIDE DEF old, new, t
        <3> QED
            BY <1>1, <1>2, <1>6, <2>3, <3>1, <3>3, Refusals, Results
    <2> QED
        BY <1>1, <2>1, <2>2, <2>3
<1> QED
    BY <1>7, <1>8

------------------------------------------------------------------------------
(* A caller's side of the mapping.                                         *)
AnswerOf(w) ==
    CASE pc[w] = "idle"      -> reply[w]
      [] pc[w] = "plan"      -> Decision(w)
      [] pc[w] = "published" -> "ok"
      [] OTHER               -> "pending"

AskedBy(w) == IF pc[w] = "idle" THEN NoCall ELSE call[w]

(* The answers and calls the store sees, caller by caller. *)
LEMMA Mapping ==
    /\ Answers = [w \in Writers |-> AnswerOf(w)]
    /\ Waiting = [w \in Writers |-> AskedBy(w)]
BY DEF Answers, Waiting, AnswerOf, AskedBy

(* What the store sees of a caller, by where the caller is. *)
LEMMA AnswerAt ==
    ASSUME NEW w \in Writers
    PROVE  /\ pc[w] = "idle" => AnswerOf(w) = reply[w]
           /\ pc[w] = "plan" => AnswerOf(w) = Decision(w)
           /\ pc[w] = "published" => AnswerOf(w) = "ok"
           /\ pc[w] \notin {"idle", "plan", "published"} => AnswerOf(w) = "pending"
BY DEF AnswerOf

(* A step of one caller changes that caller's side only.                   *)
OnlyMoves(w) ==
    \A v \in Writers \ {w} :
        pc'[v] = pc[v] /\ call'[v] = call[v] /\ parent'[v] = parent[v] /\ reply'[v] = reply[v]

(* When one caller moves, the store sees that one's answer and call change,
   and no other. *)
LEMMA OneCallerMoves ==
    ASSUME NEW w \in Writers, OnlyMoves(w)
    PROVE  /\ Answers' = [Answers EXCEPT ![w] = AnswerOf(w)']
           /\ Waiting' = [Waiting EXCEPT ![w] = AskedBy(w)']
<1>1. ASSUME NEW v \in Writers \ {w}
      PROVE  AnswerOf(v)' = AnswerOf(v) /\ AskedBy(v)' = AskedBy(v)
    BY <1>1 DEF AnswerOf, AskedBy, Decision, OnlyMoves
<1>2. /\ Answers = [v \in Writers |-> AnswerOf(v)]
      /\ Waiting = [v \in Writers |-> AskedBy(v)]
    BY Mapping
<1>3. /\ Answers' = [v \in Writers |-> AnswerOf(v)']
      /\ Waiting' = [v \in Writers |-> AskedBy(v)']
    BY DEF Answers, Waiting, AnswerOf, AskedBy
<1> QED
    BY <1>1, <1>2, <1>3

(* A step that leaves the branch and the caller's answer as they are is a
   stutter. *)
LEMMA MapsToNothing ==
    ASSUME NEW w \in Writers, OnlyMoves(w), ref' = ref,
           AnswerOf(w)' = AnswerOf(w), AskedBy(w)' = AskedBy(w)
    PROVE  UNCHANGED Store!vars
<1>1. StoredDocs' = StoredDocs
    BY DEF StoredDocs
<1>2. Answers' = Answers /\ Waiting' = Waiting
    BY OneCallerMoves, Mapping
<1> QED
    BY <1>1, <1>2 DEF Store!vars

(* A step of a call at points where nothing is decided.                    *)
LEMMA MapsToNoDecision ==
    ASSUME NEW w \in Writers, OnlyMoves(w), ref' = ref, call'[w] = call[w],
           pc[w] \notin {"idle", "plan", "published"},
           pc'[w] \notin {"idle", "plan", "published"}
    PROVE  UNCHANGED Store!vars
<1>1. AnswerOf(w)' = AnswerOf(w) /\ AskedBy(w)' = AskedBy(w)
    BY DEF AnswerOf, AskedBy
<1> QED
    BY <1>1, MapsToNothing

(* A call under way is a call of the contract.                             *)
LEMMA AsksForSomething ==
    ASSUME IInv, NEW w \in Writers, pc[w] # "idle"
    PROVE  /\ call[w] \in CallsOn(Paths)
           /\ Waiting[w] = call[w]
           /\ Waiting[w] # Store!NoCall
<1>1. call[w] \in CallsOn(Paths)
    BY DEF IInv, CallsAreUnderWay
<1>2. call[w].op \in {"put", "delete"}
    BY <1>1 DEF CallsOn, PutCalls, DeleteCalls
<1>3. call[w] # NoCall
    BY <1>2 DEF NoCall
<1> QED
    BY <1>1, <1>3, Mapping, SameVocabulary DEF AskedBy

(* A return moves its caller alone. *)
LEMMA ReturnOnlyMoves ==
    ASSUME IInv, NEW w \in Writers, NEW why, Return(w, why)
    PROVE  OnlyMoves(w) /\ pc'[w] = "idle" /\ reply'[w] = why
BY DEF Return, Goto, callVars, IInv, TypeOK, OnlyMoves

(* A call that returns what was decided, or gives up.                      *)
LEMMA ReturnMaps ==
    ASSUME IInv, NEW w \in Writers, NEW why, pc[w] # "idle", Return(w, why), ref' = ref,
           why \in {"cancelled", "failed", "exhausted"}
              \/ (AnswerOf(w) = why /\ why # "pending")
    PROVE  Store!Reply(w)
<1>1. OnlyMoves(w) /\ pc'[w] = "idle" /\ reply'[w] = why
    BY ReturnOnlyMoves
<1>2. AnswerOf(w)' = why /\ AskedBy(w)' = NoCall
    BY <1>1 DEF AnswerOf, AskedBy
<1>3. /\ Answers' = [Answers EXCEPT ![w] = why]
      /\ Waiting' = [Waiting EXCEPT ![w] = Store!NoCall]
    BY <1>1, <1>2, OneCallerMoves, SameVocabulary
<1>4. StoredDocs' = StoredDocs
    BY DEF StoredDocs
<1>5. Waiting[w] # Store!NoCall
    BY AsksForSomething
<1>6. Answers[w] = AnswerOf(w) /\ (AnswerOf(w) = why => Answers' = Answers)
    BY <1>3, Mapping
<1> QED
    BY <1>3, <1>4, <1>5, <1>6 DEF Store!Reply, Store!GivenUp

(* A call that begins asks the store, or is rejected by it. *)
LEMMA BeginMaps ==
    ASSUME IInv, NEW w \in Writers, Begin(w)
    PROVE  Store!Ask(w) \/ Store!Reject(w)
<1>1. PICK c \in CallsOf[w] :
        /\ call' = [call EXCEPT ![w] = c]
        /\ Goto(w, IF IsRefused(c) THEN "idle" ELSE "queued")
        /\ reply' = [reply EXCEPT ![w] = IF IsRefused(c) THEN "invalid" ELSE "none"]
    BY DEF Begin
<1>2. pc[w] = "idle" /\ ref' = ref /\ parent' = parent
    BY DEF Begin, attemptVars
<1>3. c \in CallsOn(Paths)
    BY GitRepositoryAssumption
<1>4. OnlyMoves(w) /\ call'[w] = c
    BY <1>1, <1>2 DEF Goto, IInv, TypeOK, OnlyMoves
<1>5. Waiting[w] = Store!NoCall /\ StoredDocs' = StoredDocs
    BY <1>2, Mapping, SameVocabulary DEF AskedBy, StoredDocs
<1>6. CASE IsRefused(c)
    <2>1. pc'[w] = "idle" /\ reply'[w] = "invalid"
        BY <1>1, <1>6 DEF Goto, IInv, TypeOK
    <2>2. AnswerOf(w)' = "invalid" /\ AskedBy(w)' = AskedBy(w)
        BY <1>2, <2>1 DEF AnswerOf, AskedBy
    <2>3. Answers' = [Answers EXCEPT ![w] = "invalid"] /\ Waiting' = Waiting
        BY <1>4, <2>2, OneCallerMoves, Mapping
    <2> QED
        BY <1>5, <2>3 DEF Store!Reject
<1>7. CASE ~IsRefused(c)
    <2>1. pc'[w] = "queued"
        BY <1>1, <1>7 DEF Goto, IInv, TypeOK
    <2>2. AnswerOf(w)' = "pending" /\ AskedBy(w)' = c
        BY <1>4, <2>1 DEF AnswerOf, AskedBy
    <2>3. /\ Answers' = [Answers EXCEPT ![w] = "pending"]
          /\ Waiting' = [Waiting EXCEPT ![w] = c]
        BY <1>4, <2>2, OneCallerMoves
    <2> QED
        BY <1>3, <1>5, <2>3, SameVocabulary DEF Store!Ask
<1> QED
    BY <1>6, <1>7

(* head fixes what a call that does not write is told.                     *)
LEMMA ResolveHeadMaps ==
    ASSUME IInv, NEW w \in Writers, ResolveHead(w)
    PROVE  Store!Decide(w) \/ UNCHANGED Store!vars
<1>1. /\ pc[w] = "head" /\ pc'[w] = "plan" /\ parent'[w] = ref
      /\ UNCHANGED << ref, call, reply >> /\ OnlyMoves(w)
    BY DEF ResolveHead, callVars, Goto, IInv, TypeOK, OnlyMoves
<1> DEFINE c == call[w]
           verdict == Plan(c, ref).verdict
           stored == StoredDocs[c.path]
<1>2. c \in CallsOn(Paths) /\ Waiting[w] = c /\ ref \in Branches
    BY <1>1, AsksForSomething DEF IInv, TypeOK
<1>3. Answers[w] = "pending" /\ AnswerOf(w) = "pending"
    BY <1>1, Mapping, AnswerAt
<1>4. AnswerOf(w)' = IF verdict = "done" THEN "ok"
                     ELSE IF verdict = "write" THEN "pending" ELSE verdict
    BY <1>1 DEF AnswerOf, Decision
<1>5. AskedBy(w)' = AskedBy(w)
    BY <1>1 DEF AskedBy
<1>6. Waiting' = Waiting /\ Answers' = [Answers EXCEPT ![w] = AnswerOf(w)']
    BY <1>1, <1>5, OneCallerMoves, Mapping
<1>7. StoredDocs' = StoredDocs /\ StoredDocs = DocsIn(TreeOf(ref))
    BY <1>1 DEF StoredDocs
<1>8. CASE verdict = "write"
    BY <1>1, <1>3, <1>4, <1>5, <1>8, MapsToNothing
<1>9. CASE verdict = "done"
    <2>1. Store!Refuses(c, stored) = {} /\ Store!Result(c, stored) = stored
        BY <1>2, <1>7, <1>9, DoneIsStored
    <2>2. StoredDocs \in Store!Stores
        BY <1>2, <1>7, TreeOfType, DocsType
    <2>3. Store!OnlyDocumentAt(c.path)
        <3>1. \A p \in Paths : StoredDocs'[p] = StoredDocs[p]
            BY <1>7
        <3> QED
            BY <3>1 DEF Store!OnlyDocumentAt
    <2>4. Answers' = [Answers EXCEPT ![w] = "ok"]
        BY <1>4, <1>6, <1>9
    <2> HIDE DEF c, stored, verdict
    <2>5. StoredDocs'[c.path] = stored
        BY <1>7 DEF stored
    <2> QED
        BY <1>2, <1>3, <1>6, <1>7, <2>1, <2>2, <2>3, <2>4, <2>5
        DEF Store!Decide, stored
<1>10. CASE verdict \notin {"write", "done"}
    <2>1. verdict \in Store!Refuses(c, stored)
        BY <1>2, <1>7, <1>10, RefusalsAreTrue
    <2>2. Answers' = [Answers EXCEPT ![w] = verdict]
        BY <1>4, <1>6, <1>10
    <2> HIDE DEF verdict
    <2> QED
        BY <1>2, <1>3, <1>6, <1>7, <2>1, <2>2 DEF Store!Decide
<1> QED
    BY <1>8, <1>9, <1>10

(* The moved ref is the write taking effect.                               *)
LEMMA PublishMaps ==
    ASSUME NoNestedCreates, IInv, IInv', PInv, WInv, WInv', NEW w \in Writers,
           pc[w] = "publish", ref = parent[w], ref' = commit[w], Goto(w, "published"),
           UNCHANGED << call, parent, reply >>
    PROVE  Store!Decide(w)
<1> DEFINE change == [tree |-> tree[w], author |-> w, nth |-> nth[w]]
           c == call[w]
<1>1. ref' = Append(ref, change) /\ change \in Changes /\ ref \in Branches
    BY GitRepositoryAssumption
    DEF IInv, TypeOK, CommitsExtendTheirParent, Changes, Authors
<1> HIDE DEF change
<1>2. /\ Len(ref) \in Nat /\ Len(ref') = Len(ref) + 1
      /\ ref'[Len(ref')] = change /\ ref' # << >>
      /\ Len(ref') \in DOMAIN ref'
    BY <1>1, AppendProperties, LenProperties DEF Branches
<1>3. TreeOf(ref') = tree[w] /\ change.tree = tree[w] /\ tree[w] \in Trees
    BY <1>2 DEF TreeOf, Unborn, change, IInv, TypeOK
<1>4. IsWellFormed(TreeOf(ref)) /\ IsWellFormed(tree[w])
    BY <1>1, <1>2, <1>3, TipWellFormed DEF WInv
<1>5. CarriesOut(c, ref, tree[w])
    BY DEF PInv, TreesArePlanned
<1>6. c \in CallsOn(Paths) /\ Waiting[w] = c /\ c \in CallsOf[w]
    BY AsksForSomething, SameVocabulary DEF WInv
<1>7. c.op = "put" /\ c.rev = NoRevision => \A p \in Paths : <<c.path, p>> \notin Inside
    BY <1>6 DEF NoNestedCreates
<1>8. StoredDocs = DocsIn(TreeOf(ref)) /\ StoredDocs' = DocsIn(tree[w])
    BY <1>3 DEF StoredDocs
<1> HIDE DEF c
<1>9. /\ Store!Refuses(c, StoredDocs[c.path]) = {}
      /\ StoredDocs'[c.path] = Store!Result(c, StoredDocs[c.path])
      /\ \A p \in Paths \ {c.path} :
            IF StoredDocs[p] \in Blobs THEN StoredDocs'[p] = StoredDocs[p]
                                       ELSE StoredDocs'[p] \notin Blobs
    BY <1>1, <1>3, <1>4, <1>5, <1>7, <1>8, WritesAreStored
<1>10. Store!OnlyDocumentAt(c.path)
    BY <1>9, SameVocabulary DEF Store!OnlyDocumentAt
<1>11. StoredDocs' \in Store!Stores
    BY <1>3, <1>8, DocsType
<1>12. pc'[w] = "published" /\ OnlyMoves(w)
    BY DEF Goto, IInv, TypeOK, OnlyMoves
<1>13. AnswerOf(w) = "pending" /\ AnswerOf(w)' = "ok" /\ AskedBy(w)' = AskedBy(w)
    BY <1>12 DEF AnswerOf, AskedBy
<1>14. /\ Answers[w] = "pending"
       /\ Answers' = [Answers EXCEPT ![w] = "ok"]
       /\ Waiting' = Waiting
    BY <1>12, <1>13, OneCallerMoves, Mapping
<1> QED
    BY <1>6, <1>9, <1>10, <1>11, <1>14 DEF Store!Decide

(* A write nobody is told of, and everybody else's steps: the contract     *)
(* says nothing of other writers, and an update-ref that is killed after   *)
(* it has moved the ref is one of them.                                    *)
LEMMA OutsideMaps ==
    ASSUME ref' \in Branches, Answers' = Answers, Waiting' = Waiting
    PROVE  Store!Outside
<1>1. TreeOf(ref') \in Trees
    BY TreeOfType
<1>2. StoredDocs' = DocsIn(TreeOf(ref'))
    BY DEF StoredDocs
<1>3. StoredDocs' \in Store!Stores
    BY <1>1, <1>2, DocsType
<1> QED
    BY <1>3 DEF Store!Outside

------------------------------------------------------------------------------
(* Initial states map to initial states. *)
LEMMA InitMaps == Init => Store!Init
<1> SUFFICES ASSUME Init PROVE Store!Init
    OBVIOUS
<1>1. StoredDocs \in Store!Stores
    BY TreeOfType, DocsType, GitRepositoryAssumption DEF Init, StoredDocs
<1>2. Waiting = [w \in Writers |-> Store!NoCall]
    BY SameVocabulary DEF Init, Waiting
<1>3. Answers = [w \in Writers |-> "none"]
    <2>1. \A w \in Writers : AnswerOf(w) = "none"
        BY DEF Init, AnswerOf
    <2> QED
        BY <2>1, Mapping
<1> QED
    BY <1>1, <1>2, <1>3 DEF Store!Init

(* Every step maps to a step of the store or to a stutter. *)
LEMMA StepMaps ==
    ASSUME NoNestedCreates, IInv, IInv', PInv, WInv, WInv', [Next]_vars
    PROVE  [Store!Next]_(Store!vars)
<1> USE DEF attemptVars, callVars
<1> DEFINE Maps == [Store!Next]_(Store!vars)
<1>0. ASSUME NEW w \in Writers,
             Store!Ask(w) \/ Store!Reject(w) \/ Store!Decide(w) \/ Store!Reply(w)
                \/ Store!Outside \/ UNCHANGED Store!vars
      PROVE  Maps
    BY <1>0 DEF Store!Next
<1> HIDE DEF Maps
<1>1. ASSUME NEW w \in Writers, Begin(w) PROVE Maps
    BY <1>0, <1>1, BeginMaps
<1>2. ASSUME NEW w \in Writers, Cancel(w) PROVE Maps
    <2>1. ref' = ref /\ OnlyMoves(w) /\ UNCHANGED << pc, call, parent, reply >>
        BY <1>2 DEF Cancel, OnlyMoves
    <2>2. AnswerOf(w)' = AnswerOf(w) /\ AskedBy(w)' = AskedBy(w)
        BY <2>1 DEF AnswerOf, AskedBy, Decision
    <2> QED
        BY <1>0, <2>1, <2>2, MapsToNothing
<1>3. ASSUME NEW w \in Writers, NEW label \in PCs \ {"idle", "plan", "published"},
             pc[w] \notin {"idle", "plan", "published"}, Goto(w, label),
             UNCHANGED << ref, call, parent, reply >>
      PROVE  Maps
    <2>1. OnlyMoves(w) /\ pc'[w] = label
        BY <1>3 DEF Goto, IInv, TypeOK, OnlyMoves
    <2> QED
        BY <1>0, <1>3, <2>1, MapsToNoDecision
<1>4. ASSUME NEW w \in Writers, TakeTurn(w) PROVE Maps
    BY <1>3, <1>4 DEF TakeTurn, PCs, InTurn
<1>5. ASSUME NEW w \in Writers, ResolveHead(w) PROVE Maps
    BY <1>0, <1>5, ResolveHeadMaps
<1>6. ASSUME NEW w \in Writers, MakePlan(w) PROVE Maps
    <2> DEFINE verdict == Plan(call[w], parent[w]).verdict
    <2>1. pc[w] = "plan" /\ ref' = ref
        BY <1>6 DEF MakePlan
    <2>2. AnswerOf(w) = IF verdict = "done" THEN "ok"
                        ELSE IF verdict = "write" THEN "pending" ELSE verdict
        BY <2>1, AnswerAt DEF Decision
    <2>3. CASE verdict = "write"
        <3>1. Goto(w, "tree") /\ UNCHANGED << call, parent, reply >>
            BY <1>6, <2>3 DEF MakePlan
        <3>2. pc'[w] = "tree" /\ OnlyMoves(w)
            BY <3>1 DEF Goto, IInv, TypeOK, OnlyMoves
        <3>3. AnswerOf(w)' = AnswerOf(w) /\ AskedBy(w)' = AskedBy(w)
            BY <2>1, <2>2, <2>3, <3>1, <3>2 DEF AnswerOf, AskedBy
        <3> QED
            BY <1>0, <2>1, <3>2, <3>3, MapsToNothing
    <2>4. CASE verdict = "done"
        <3>1. Return(w, "ok")
            BY <1>6, <2>4 DEF MakePlan
        <3>2. Store!Reply(w)
            BY <2>1, <2>2, <2>4, <3>1, ReturnMaps
        <3> QED
            BY <1>0, <3>2
    <2>5. CASE verdict \notin {"write", "done"}
        <3>1. Return(w, verdict)
            BY <1>6, <2>5 DEF MakePlan
        <3>2. verdict # "pending"
            BY <2>1, PlanType DEF IInv, TypeOK, CallsAreUnderWay
        <3>3. Store!Reply(w)
            BY <2>1, <2>2, <2>5, <3>1, <3>2, ReturnMaps
        <3> QED
            BY <1>0, <3>3
    <2> QED
        BY <2>3, <2>4, <2>5
<1>7. ASSUME NEW w \in Writers, WriteTree(w) \/ CommitTree(w) PROVE Maps
    <2>1. /\ pc[w] \in {"tree", "commit"}
          /\ \E label \in {"commit", "publish"} : Goto(w, label)
          /\ UNCHANGED << ref, call, parent, reply >>
        BY <1>7 DEF WriteTree, CommitTree
    <2> QED
        BY <1>3, <2>1 DEF PCs, InTurn
<1>8. ASSUME NEW w \in Writers, UpdateRef(w) PROVE Maps
    <2>1. pc[w] = "publish" /\ UNCHANGED << call, parent, reply >>
        BY <1>8 DEF UpdateRef
    <2>2. CASE Goto(w, "published") /\ ref = parent[w] /\ ref' = commit[w]
        <3>1. Store!Decide(w)
            BY <2>1, <2>2, PublishMaps
        <3> QED
            BY <1>0, <3>1
    <2>3. CASE Goto(w, "rejected") /\ ref' = ref
        BY <1>3, <2>1, <2>3 DEF PCs, InTurn
    <2>4. CASE Goto(w, "rejected") /\ ref' = commit[w]
        <3>1. pc'[w] = "rejected" /\ OnlyMoves(w)
            BY <2>1, <2>4 DEF Goto, IInv, TypeOK, OnlyMoves
        <3>2. AnswerOf(w)' = AnswerOf(w) /\ AskedBy(w)' = AskedBy(w)
            BY <2>1, <3>1 DEF AnswerOf, AskedBy
        <3>3. Answers' = Answers /\ Waiting' = Waiting
            BY <3>1, <3>2, OneCallerMoves, Mapping
        <3>4. Store!Outside
            BY <3>3, OutsideMaps DEF IInv, TypeOK
        <3> QED
            BY <1>0, <3>4
    <2> QED
        BY <1>8, <2>2, <2>3, <2>4 DEF UpdateRef
<1>9. ASSUME NEW w \in Writers, Published(w) PROVE Maps
    <2>1. pc[w] = "published" /\ ref' = ref
        BY <1>9 DEF Published
    <2>2. PICK why \in {"ok", "cancelled"} : Return(w, why)
        BY <1>9 DEF Published
    <2>3. AnswerOf(w) = "ok"
        BY <2>1, AnswerAt
    <2>4. Store!Reply(w)
        BY <2>1, <2>2, <2>3, ReturnMaps
    <2> QED
        BY <1>0, <2>4
<1>10. ASSUME NEW w \in Writers, Rejected(w) PROVE Maps
    <2>1. pc[w] = "rejected" /\ ref' = ref
        BY <1>10 DEF Rejected
    <2>2. CASE \E why \in {"cancelled", "failed"} : Return(w, why)
        BY <1>0, <2>1, <2>2, ReturnMaps
    <2>3. CASE Goto(w, "backoff") /\ UNCHANGED << reply, attemptVars, callVars >>
        BY <1>3, <2>1, <2>3 DEF PCs, InTurn
    <2> QED
        BY <1>10, <2>2, <2>3 DEF Rejected
<1>11. ASSUME NEW w \in Writers, Backoff(w) PROVE Maps
    <2>1. pc[w] = "backoff" /\ ref' = ref
        BY <1>11 DEF Backoff
    <2>2. CASE Return(w, "exhausted")
        BY <1>0, <2>1, <2>2, ReturnMaps
    <2>3. CASE Goto(w, "head") /\ UNCHANGED << reply, attemptVars, callVars >>
        BY <1>3, <2>1, <2>3 DEF PCs, InTurn
    <2> QED
        BY <1>11, <2>2, <2>3 DEF Backoff
<1>12. ASSUME NEW w \in Writers, Abort(w) \/ GitFails(w) PROVE Maps
    <2>1. /\ pc[w] # "idle" /\ ref' = ref
          /\ \E why \in {"cancelled", "failed"} : Return(w, why)
        BY <1>12 DEF Abort, StopsAt, GitFails
    <2> QED
        BY <1>0, <2>1, ReturnMaps
<1>13. ASSUME GitCommits PROVE Maps
    <2>1. UNCHANGED << pc, call, parent, reply >>
        BY <1>13 DEF GitCommits
    <2>2. Answers' = Answers /\ Waiting' = Waiting
        BY <2>1 DEF Answers, Waiting, Decision
    <2>3. Store!Outside
        BY <2>2, OutsideMaps DEF IInv, TypeOK
    <2> QED
        BY <2>3 DEF Maps, Store!Next
<1>14. ASSUME UNCHANGED vars PROVE Maps
    <2>1. UNCHANGED << ref, pc, call, parent, reply >>
        BY <1>14 DEF vars
    <2>2. UNCHANGED Store!vars
        BY <2>1 DEF Store!vars, StoredDocs, Answers, Waiting, Decision
    <2> QED
        BY <2>2 DEF Maps
<1>15. Maps
    BY <1>1, <1>2, <1>4, <1>5, <1>6, <1>7, <1>8, <1>9, <1>10, <1>11, <1>12,
       <1>13, <1>14
    DEF Next, Progress, AllReturned
<1> QED
    BY <1>15 DEF Maps

(* Whatever the interleaving of callers, processes, plain git, faults and  *)
(* contexts, every call is decided in one instant of its own, against what *)
(* was stored then: git.Repository implements the compare-and-swap of      *)
(* core.ContentRepository (repository.go:350-636, core/repository.go:45).  *)
THEOREM ContentStoreImplemented ==
    ASSUME NoNestedCreates
    PROVE  Spec => ImplementsContentStore
<1>1. Init => Store!Init
    BY InitMaps
<1>2. /\ IInv /\ IInv' /\ PInv /\ WInv /\ WInv' /\ [Next]_vars
      => [Store!Next]_(Store!vars)
    BY StepMaps
<1> QED
    BY <1>1, <1>2, Invariance, PlansCarriedOut, TreesWellFormed, PTL
    DEF Spec, ImplementsContentStore, Store!Spec
==============================================================================
