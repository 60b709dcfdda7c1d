----------------------- MODULE GitRepositoryRefinement -----------------------
(***************************************************************************)
(* git.Repository implements core.ContentRepository's compare-and-swap.    *)
(*                                                                         *)
(* A call that writes takes effect when update-ref moves the ref.  A call  *)
(* that is refused, or that has nothing to write, is decided when head     *)
(* resolves the branch: from then on its plan looks at that parent only,   *)
(* whatever happens to the branch before the caller hears of it.           *)
(***************************************************************************)
EXTENDS GitRepository

CONSTANT Other

ASSUME OtherAssumption == Other \notin Blobs \cup {Absent}

Decision(w) ==
    LET verdict == Plan(call[w], parent[w]).verdict
    IN  IF verdict = "done" THEN "ok"
        ELSE IF verdict = "write" THEN "pending"
        ELSE verdict

DocsIn(stored) ==
    [p \in Paths |->
        CASE CatFile(stored, p) = "blob"    -> stored[p]
          [] CatFile(stored, p) = "tree"    -> Other
          [] CatFile(stored, p) = "missing" -> Absent]

StoredDocs == DocsIn(TreeOf(ref))

Waiting == [w \in Writers |-> IF pc[w] = "idle" THEN NoCall ELSE call[w]]

Answers ==
    [w \in Writers |->
        CASE pc[w] = "idle"      -> reply[w]
          [] pc[w] = "plan"      -> Decision(w)
          [] pc[w] = "published" -> "ok"
          [] OTHER               -> "pending"]

Store == INSTANCE ContentStore WITH
    docs <- StoredDocs, asked <- Waiting, answer <- Answers, Nothing <- Absent

(* Every behaviour of the branch, the queue and the retry loop is one of   *)
(* an atomic store: whatever the interleaving with other writers, a call   *)
(* told of a conflict, an existing or a missing document was told the      *)
(* truth about an instant of the call, and a success was one atomic swap.  *)
ImplementsContentStore == Store!Spec
==============================================================================
