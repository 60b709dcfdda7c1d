------------------------ MODULE AssetRefinement_proofs -----------------------
(***************************************************************************)
(* localfs.Store implements core.AssetStore's map, for any number of       *)
(* callers, keys and calls and with every fault: each step of a call, of   *)
(* the operator and of the machine maps to a step of AssetMap or to none.  *)
(* The store is one without prefixes, in which nobody places anything but  *)
(* objects.                                                                *)
(***************************************************************************)
EXTENDS AssetStoreRefinement, AssetStore_proofs

(* Somebody else's entries are objects, so an object is replaced by one.   *)
LEMMA ObjectsStay ==
    ASSUME FlatStore, OnlyObjectsPlaced, AInv, [Next]_vars, ~PowerCut,
           NEW k \in Keys, names[k] \in Files \cup {Absent}
    PROVE  names'[k] \in Files \cup {Absent}
  <1>0. names \in [Keys -> Entries]
    BY DEF AInv, TypeOK
  <1>1. ASSUME NEW l \in Keys, NEW e \in Files \cup {Absent}, SetName(l, e)
        PROVE  names'[k] \in Files \cup {Absent}
    BY <1>0, <1>1 DEF SetName
  <1>2. CASE OperatorPlaces
    <2>1. PICK put \in Placed :
              \/ put[2] = Directory
              \/ SetName(put[1], put[2])
      BY <1>2 DEF OperatorPlaces
    <2>2. put[1] \in Keys /\ put[2] \in Files \cup {Absent}
      BY AssetStoreAssumption DEF OnlyObjectsPlaced
    <2> QED
      BY <1>1, <2>1, <2>2, AssetStoreAssumption
  <1>3. ASSUME NEW c \in Callers, Step(c) \/ Cancel(c) \/ Kill(c)
        PROVE  names'[k] \in Files \cup {Absent}
    <2>1. CASE Rename(c)
      <3>1. pc[c] = "rename" => call[c].key \in Keys /\ file[c] \in Files
        BY TemporariesAreMine DEF Writing, PutCalls
      <3> QED
        BY <1>1, <2>1, <3>1 DEF Rename
    <2>2. CASE Remove(c)
      <3>1. pc[c] = "remove" => call[c].key \in Keys
        BY DEF AInv, CallInv, DeletePCs
      <3> QED
        BY <1>1, <2>2, <3>1 DEF Remove, OnClosedRoot, fsVars
    <2>3. CASE ~Rename(c) /\ ~Remove(c)
      BY <1>3, <2>3, NamesStay
    <2> QED
      BY <2>1, <2>2, <2>3
  <1>4. CASE Close \/ (\E l \in Keys : Writeback(l)) \/ UNCHANGED vars
    BY <1>4 DEF Close, Writeback, vars
  <1> QED
    BY <1>2, <1>3, <1>4 DEF Next, AllReturned

(* DecisionInv, of one caller.                                             *)
CallDecisionInv(c) ==
    /\ pc[c] \in {"open", "remove"} => names[call[c].key] \in Files \cup {Absent}
    /\ pc[c] \in DeletePCs => info[c] = SizeUnknown
    /\ pc[c] = "abort" /\ reply[c] = "invalid" =>
           call[c].size \notin {SizeUnknown, call[c].length}

(* The invariant of the decisions, caller by caller. *)
LEMMA EachDecisionInv == DecisionInv <=> \A c \in Callers : CallDecisionInv(c)
  BY DEF DecisionInv, CallDecisionInv

(* How a call comes to the points DecisionInv speaks of.                   *)
LEMMA Undecided ==
    ASSUME AInv, NEW c \in Callers, Step(c) \/ Cancel(c) \/ Kill(c)
    PROVE  /\ pc'[c] \in {"open", "remove"} =>
                  /\ call'[c] = call[c] /\ names' = names
                  /\ pc'[c] = pc[c] \/ names[call[c].key] \in Files
           /\ pc'[c] \in DeletePCs =>
                  info'[c] = SizeUnknown \/ (pc[c] \in DeletePCs /\ info'[c] = info[c])
           /\ pc'[c] = "abort" /\ reply'[c] = "invalid" =>
                  /\ call'[c] = call[c]
                  /\ \/ pc[c] = "abort" /\ reply[c] = "invalid"
                     \/ call[c].size \notin {SizeUnknown, call[c].length}
  <1> USE DEF AInv, TypeOK, Goto, Return, Abort, OnClosedRoot, Observed, fsVars, callVars, DeletePCs
  <1>1. CASE Begin(c)
    <2>1. PICK made \in CallsOf[c] : Goto(c, FirstStep(made)) \/ pc' = pc
      BY <1>1 DEF Begin
    <2>2. FirstStep(made) \notin {"open", "remove", "abort"}
      BY FirstSteps, AssetStoreAssumption
    <2>3. pc[c] = "idle" /\ info'[c] = SizeUnknown
      BY <1>1 DEF Begin
    <2> QED
      BY <2>1, <2>2, <2>3
  <1>2. CASE MkdirAll(c) \/ CreateTemp(c)
    BY <1>2 DEF MkdirAll, CreateTemp
  <1>3. CASE CopyBuffer(c) \/ Sync(c) \/ Rename(c)
    BY <1>3 DEF CopyBuffer, Sync, Rename
  <1>4. CASE EndCopy(c)
    <2>1. /\ pc[c] = "copy" /\ call' = call /\ pc'[c] \in {"abort", "sync"}
          /\ IsAtEnd(c)
          /\ pc'[c] = "abort" /\ reply'[c] = "invalid" =>
                 call[c].size \notin {SizeUnknown, Len(bytes[file[c]])}
      BY <1>4 DEF EndCopy
    <2>2. /\ call[c] \in PutCalls /\ file[c] = Mine(c) /\ file[c] \in Files
          /\ Len(bytes[file[c]]) <= call[c].length
      BY <2>1, TemporariesAreMine DEF Writing, WriterInv
    <2>3. Len(bytes[file[c]]) \in Nat /\ call[c].length \in Nat /\ call[c].size \in Sizes
      BY <2>2, AssetStoreAssumption DEF PutCalls
    <2>4. call[c].size # SizeUnknown => call[c].size \in Nat
      BY <2>3, AssetStoreAssumption DEF Sizes
    <2>5. ASSUME pc'[c] = "abort", reply'[c] = "invalid"
          PROVE  call[c].size \notin {SizeUnknown, call[c].length}
      BY <2>1, <2>2, <2>3, <2>4, <2>5 DEF IsAtEnd, IsCut
    <2> QED
      BY <2>1, <2>5
  <1>5. CASE SyncDir(c) \/ RemoveTemp(c) \/ Kill(c)
    BY <1>5 DEF SyncDir, RemoveTemp, Kill
  <1>6. CASE Lstat(c) \/ Check(c)
    <2>1. call[c].key \in Keys
      BY <1>6 DEF Lstat, Check, CallInv, GetPCs
    <2>2. At(names, call[c].key) = names[call[c].key]
      BY <2>1, Found
    <2> QED
      BY <1>6, <2>2 DEF Lstat, Check
  <1>7. CASE Open(c) \/ Read(c)
    BY <1>7 DEF Open, Read
  <1>8. CASE Stat(c) \/ Remove(c)
    BY <1>8 DEF Stat, Remove
  <1>9. CASE Cancel(c)
    BY <1>9 DEF Cancel
  <1> QED
    BY <1>1, <1>2, <1>3, <1>4, <1>5, <1>6, <1>7, <1>8, <1>9 DEF Step

(* In a flat store that only objects are placed in, each step keeps it. *)
LEMMA StepDecisionInv ==
    ASSUME FlatStore, OnlyObjectsPlaced, AInv, DecisionInv, [Next]_vars
    PROVE  DecisionInv'
  <1>0. TypeOK
    BY DEF AInv
  <1>1. SUFFICES ASSUME NEW c \in Callers
                 PROVE  CallDecisionInv(c)'
    BY DEF DecisionInv, CallDecisionInv
  <1>2. CallDecisionInv(c)
    BY EachDecisionInv
  <1>3. CASE PowerCut
    BY <1>3 DEF PowerCut, CallDecisionInv, DeletePCs
  <1>4. CASE ~PowerCut /\ Same(c)
    <2>1. pc[c] \in {"open", "remove"} => call[c].key \in Keys
      BY DEF AInv, CallInv, GetPCs, DeletePCs
    <2>2. pc[c] \in {"open", "remove"} => names'[call[c].key] \in Files \cup {Absent}
      BY <1>2, <1>4, <2>1, ObjectsStay DEF CallDecisionInv
    <2> QED
      BY <1>2, <1>4, <2>2 DEF CallDecisionInv, Same
  <1>5. CASE Step(c) \/ Cancel(c) \/ Kill(c)
    BY <1>2, <1>5, Undecided DEF CallDecisionInv
  <1>6. ASSUME NEW d \in Callers \ {c}, Step(d) \/ Cancel(d) \/ Kill(d)
        PROVE  Same(c)
    BY <1>0, <1>6, OthersStay
  <1>7. ASSUME \/ Close \/ OperatorPlaces
               \/ \E k \in Keys : Writeback(k)
               \/ UNCHANGED vars
        PROVE  Same(c)
    BY <1>0, <1>7, SurroundingsStay
  <1> QED
    BY <1>3, <1>4, <1>5, <1>6, <1>7 DEF Next, AllReturned

------------------------------------------------------------------------------
------------------------------------------------------------------------------
(* The mapping.                                                            *)

(* Nothing is ever garbled: what is stored at a key is the object there.   *)
ObjectsIn(tree) == [k \in Keys |-> IF tree[k] \in Files THEN tree[k] ELSE Absent]

(* The abstract store is what the names of the files hold. *)
LEMMA StoredIs == AInv => Stored = ObjectsIn(names)
  <1> SUFFICES ASSUME AInv PROVE Stored = ObjectsIn(names)
    OBVIOUS
  <1>1. ASSUME NEW k \in Keys
        PROVE  /\ Stored[k] = IF names[k] \in Files THEN names[k] ELSE Absent
               /\ names[k] \in WasHeld(k)
    <2>1. At(names, k) = names[k] /\ names[k] \in WasHeld(k)
      BY Found, NamesAreHeld DEF AInv
    <2>2. names[k] \in Files => bytes[names[k]] = Whole(names[k])
      BY <2>1, HeldIsPublished, PublishedAreWhole
    <2> QED
      BY <2>1, <2>2 DEF Stored, StoredAt
  <1>2. Stored = [k \in Keys |-> Stored[k]]
    BY DEF Stored
  <1> QED
    BY <1>1, <1>2 DEF ObjectsIn

(* So it is after the step. *)
LEMMA StoredIsThen == AInv' => Stored' = ObjectsIn(names')
  <1>1. AInv' => (Stored = ObjectsIn(names))'
    BY StoredIs, PTL
  <1> QED
    BY <1>1 DEF ObjectsIn

(* What the names hold is an object, or nothing, at each key. *)
LEMMA ObjectsType == ObjectsIn(names) \in [Keys -> Files \cup {Absent}]
  BY DEF ObjectsIn

(* Where names and times are left alone, so is the abstract store. *)
LEMMA StoredStays ==
    ASSUME AInv, AInv', UNCHANGED << names, held >>
    PROVE  Stored' = Stored /\ Kept' = Kept
  <1>1. Stored' = Stored
    BY StoredIs, StoredIsThen
  <1>2. Kept' = Kept
    BY DEF Kept, WasStored, WasHeld
  <1> QED
    BY <1>1, <1>2

(* What is stored now was kept.                                            *)
LEMMA StoredIsKept ==
    ASSUME AInv, NEW k \in Keys
    PROVE  /\ Kept[k] = WasHeld(k) \cap Files
           /\ Stored[k] # Absent => Stored[k] \in Kept[k]
           /\ Stored[k] = IF names[k] \in Files THEN names[k] ELSE Absent
  <1>1. names[k] \in WasHeld(k)
    BY NamesAreHeld DEF AInv
  <1> QED
    BY <1>1, StoredIs DEF ObjectsIn, Kept, WasStored

(* An entry that changes: the map changes at that key at most.             *)
LEMMA StoredChanges ==
    ASSUME AInv, AInv', NEW k \in Keys, NEW e \in Files \cup {Absent}, SetName(k, e)
    PROVE  /\ Stored' = [Stored EXCEPT ![k] = e]
           /\ Kept' = [l \in Keys |-> Kept[l] \cup ({Stored'[l]} \ {Absent})]
  <1>1. /\ names'[k] = e /\ WasHeld(k)' = WasHeld(k) \cup {e}
        /\ \A l \in Keys \ {k} : names'[l] = names[l] /\ WasHeld(l)' = WasHeld(l)
    BY NameSet, Kinds DEF AInv
  <1>2. names' = [names EXCEPT ![k] = e] /\ DOMAIN names = Keys
    BY DEF SetName, AInv, TypeOK
  <1>3. Stored' = [Stored EXCEPT ![k] = e]
    BY <1>1, <1>2, StoredIs, StoredIsThen DEF ObjectsIn
  <1>4. Kept' = [l \in Keys |-> WasHeld(l)' \cap Files]
    BY DEF Kept, WasStored
  <1>5. Stored'[k] = e /\ \A l \in Keys \ {k} : Stored'[l] = Stored[l]
    BY <1>3, StoredIs DEF ObjectsIn
  <1>6. ASSUME NEW l \in Keys
        PROVE  WasHeld(l)' \cap Files = Kept[l] \cup ({Stored'[l]} \ {Absent})
    <2>1. CASE l = k
      BY <1>1, <1>5, <2>1, Kinds, StoredIsKept
    <2>2. CASE l # k
      BY <1>1, <1>5, <2>2, StoredIsKept
    <2> QED
      BY <2>1, <2>2
  <1> QED
    BY <1>3, <1>4, <1>6

(* The answers of the two specifications are written alike. *)
LEMMA SameVocabulary ==
    /\ Map!NoCall = NoCall
    /\ \A what : Map!Told(what) = Told(what)
    /\ \A size : Map!Sized(size) = [kind |-> "ok", size |-> size]
    /\ \A object : Map!Stream(object) = [kind |-> "read", object |-> object]
  BY DEF Map!NoCall, NoCall, Map!Told, Told, Map!Sized, Map!Stream

(* What a caller asks for.                                                 *)
LEMMA AsksForSomething ==
    ASSUME AInv, NEW c \in Callers, pc[c] # "idle"
    PROVE  /\ Asked[c] = Waiting(c) /\ Asked[c] # NoCall
           /\ call[c].key \in Keys /\ Asked[c].key = call[c].key
           /\ Asked[c].op = call[c].op /\ call[c].op \in {"put", "get", "stat", "delete"}
           /\ call[c].op = "put" =>
                  /\ Asked[c].object = Mine(c) /\ Asked[c].size = call[c].size
                  /\ Asked[c].fails = call[c].fails
           /\ call[c] # NoCall
  <1>1. call[c].op \in {"put", "get", "stat", "delete"} /\ call[c].key \in Keys
    <2>1. pc[c] \in PutPCs \cup GetPCs \cup DeletePCs \cup {"stat"}
      BY DEF AInv, TypeOK, PCs, PutPCs, GetPCs, DeletePCs
    <2>2. CASE pc[c] \in PutPCs
      BY <2>2 DEF AInv, CallInv, PutCalls
    <2>3. CASE pc[c] \in GetPCs
      BY <2>3 DEF AInv, CallInv
    <2>4. CASE pc[c] \in DeletePCs
      BY <2>4 DEF AInv, CallInv
    <2>5. CASE pc[c] = "stat"
      BY <2>5 DEF AInv, CallInv
    <2> QED
      BY <2>1, <2>2, <2>3, <2>4, <2>5
  <1>2. Asked[c] = Waiting(c)
    BY DEF Asked
  <1>3. CASE call[c].op = "put"
    <2>1. Waiting(c) = [op |-> "put", key |-> call[c].key, object |-> Mine(c),
                        size |-> call[c].size, fails |-> call[c].fails]
      BY <1>3 DEF Waiting
    <2>2. Waiting(c).op # NoCall.op
      BY <2>1 DEF NoCall
    <2>3. call[c] # NoCall
      BY <1>3 DEF NoCall
    <2> QED
      BY <1>1, <1>2, <1>3, <2>1, <2>2, <2>3
  <1>4. CASE call[c].op # "put"
    <2>1. Waiting(c) = [op |-> call[c].op, key |-> call[c].key]
      BY <1>4 DEF Waiting
    <2>2. Waiting(c).op # NoCall.op /\ call[c].op # NoCall.op
      BY <1>1, <2>1 DEF NoCall
    <2> QED
      BY <1>1, <1>2, <1>4, <2>1, <2>2
  <1> QED
    BY <1>3, <1>4

(* What a caller has been told.                                            *)
LEMMA AnswerAt ==
    ASSUME NEW c \in Callers
    PROVE  /\ Learned[c] = SoFar(c)
           /\ pc[c] = "idle" => SoFar(c) = Outcome(c)
           /\ pc[c] = "syncdir" => SoFar(c) = [kind |-> "ok", size |-> info[c]]
           /\ pc[c] = "read" => SoFar(c) = [kind |-> "read", object |-> file[c]]
           /\ pc[c] \notin {"idle", "syncdir", "read"} => SoFar(c) = Told("pending")
           /\ pc[c] = "idle" => Asked[c] = NoCall
  <1>1. Learned[c] = SoFar(c)
    BY DEF Learned
  <1>2. pc[c] = "idle" => Asked[c] = NoCall
    <2>1. Asked[c] = Waiting(c)
      BY DEF Asked
    <2>2. pc[c] = "idle" => Waiting(c) = NoCall
      BY DEF Waiting
    <2> QED
      BY <2>1, <2>2
  <1>3. CASE pc[c] = "idle"
    BY <1>1, <1>2, <1>3 DEF SoFar
  <1>4. CASE pc[c] = "syncdir"
    BY <1>1, <1>4 DEF SoFar
  <1>5. CASE pc[c] = "read"
    BY <1>1, <1>5 DEF SoFar
  <1>6. CASE pc[c] \notin {"idle", "syncdir", "read"}
    BY <1>1, <1>6 DEF SoFar
  <1> QED
    BY <1>3, <1>4, <1>5, <1>6

(* What a finished call answered, by the kind of its reply. *)
LEMMA Outcomes ==
    ASSUME NEW c \in Callers
    PROVE  /\ reply[c] = "ok" => Outcome(c) = [kind |-> "ok", size |-> info[c]]
           /\ reply[c] = "read" /\ got[c] = Whole(file[c]) =>
                  Outcome(c) = [kind |-> "read", object |-> file[c]]
           /\ reply[c] \notin {"ok", "read"} => Outcome(c) = Told(reply[c])
  <1>1. CASE reply[c] = "ok"
    BY <1>1 DEF Outcome
  <1>2. CASE reply[c] = "read"
    BY <1>2 DEF Outcome
  <1>3. CASE reply[c] \notin {"ok", "read"}
    BY <1>3 DEF Outcome
  <1> QED
    BY <1>1, <1>2, <1>3

(* A caller that does not move is seen waiting, and answered, as before. *)
LEMMA CallerStays ==
    ASSUME NEW d \in Callers, Same(d)
    PROVE  Waiting(d)' = Waiting(d) /\ SoFar(d)' = SoFar(d)
  <1>1. Waiting(d)' = Waiting(d)
    BY DEF Same, Waiting, Mine
  <1>2. Outcome(d)' = Outcome(d)
    BY DEF Same, Outcome
  <1>3. SoFar(d)' = SoFar(d)
    BY <1>2 DEF Same, SoFar
  <1> QED
    BY <1>1, <1>3

(* A step of one caller changes that caller's side only.                   *)
LEMMA OneCallerMoves ==
    ASSUME NEW c \in Callers, \A d \in Callers \ {c} : Same(d)
    PROVE  /\ Asked' = [Asked EXCEPT ![c] = Waiting(c)']
           /\ Learned' = [Learned EXCEPT ![c] = SoFar(c)']
  <1>1. ASSUME NEW d \in Callers \ {c}
        PROVE  Waiting(d)' = Waiting(d) /\ SoFar(d)' = SoFar(d)
    BY CallerStays
  <1>2. /\ Asked = [d \in Callers |-> Waiting(d)]
        /\ Learned = [d \in Callers |-> SoFar(d)]
        /\ Asked' = [d \in Callers |-> Waiting(d)']
        /\ Learned' = [d \in Callers |-> SoFar(d)']
    BY DEF Asked, Learned
  <1> QED
    BY <1>1, <1>2

------------------------------------------------------------------------------
------------------------------------------------------------------------------
(* The steps of a caller.                                                  *)

(* What the abstract store sees of a caller after the step, by where it is
   then. *)
LEMMA AnswerThen ==
    ASSUME NEW c \in Callers
    PROVE  /\ pc'[c] = "idle" => SoFar(c)' = Outcome(c)' /\ Waiting(c)' = NoCall
           /\ pc'[c] = "syncdir" => SoFar(c)' = [kind |-> "ok", size |-> info'[c]]
           /\ pc'[c] = "read" => SoFar(c)' = [kind |-> "read", object |-> file'[c]]
           /\ pc'[c] \notin {"idle", "syncdir", "read"} => SoFar(c)' = Told("pending")
           /\ pc'[c] # "idle" /\ pc[c] # "idle" /\ call'[c] = call[c] /\ nth'[c] = nth[c] =>
                  Waiting(c)' = Waiting(c)
  <1>1. pc'[c] = "idle" => Waiting(c)' = NoCall
    BY DEF Waiting
  <1>2. pc'[c] # "idle" /\ pc[c] # "idle" /\ call'[c] = call[c] /\ nth'[c] = nth[c] =>
            Waiting(c)' = Waiting(c)
    BY DEF Waiting, Mine
  <1>3. CASE pc'[c] = "idle"
    BY <1>1, <1>3 DEF SoFar
  <1>4. CASE pc'[c] = "syncdir"
    BY <1>2, <1>4 DEF SoFar
  <1>5. CASE pc'[c] = "read"
    BY <1>2, <1>5 DEF SoFar
  <1>6. CASE pc'[c] \notin {"idle", "syncdir", "read"}
    BY <1>2, <1>6 DEF SoFar, Told
  <1> QED
    BY <1>3, <1>4, <1>5, <1>6

(* What a call that has just finished answered, by the kind of its reply. *)
LEMMA OutcomeThen ==
    ASSUME NEW c \in Callers
    PROVE  /\ reply'[c] = "ok" => Outcome(c)' = [kind |-> "ok", size |-> info'[c]]
           /\ reply'[c] = "read" /\ got'[c] = Whole(file'[c]) =>
                  Outcome(c)' = [kind |-> "read", object |-> file'[c]]
           /\ reply'[c] \notin {"ok", "read"} => Outcome(c)' = Told(reply'[c])
  <1>1. CASE reply'[c] = "ok"
    BY <1>1 DEF Outcome
  <1>2. CASE reply'[c] = "read"
    BY <1>2 DEF Outcome, Whole
  <1>3. CASE reply'[c] \notin {"ok", "read"}
    BY <1>3 DEF Outcome, Told
  <1> QED
    BY <1>1, <1>2, <1>3

(* A call that is over, with an answer.                                    *)
LEMMA ReturnMoves ==
    ASSUME TypeOK, NEW c \in Callers, NEW why \in Replies, pc[c] # "idle", Return(c, why)
    PROVE  pc'[c] = "idle" /\ reply'[c] = why
  BY DEF TypeOK, Return, Goto

(* A call that leaves the map alone and goes on with nothing decided.      *)
LEMMA MapsToNothing ==
    ASSUME AInv, AInv', UNCHANGED << names, held >>, NEW c \in Callers,
           \A d \in Callers \ {c} : Same(d),
           Waiting(c)' = Waiting(c), SoFar(c)' = SoFar(c)
    PROVE  UNCHANGED Map!vars
  <1>1. Stored' = Stored /\ Kept' = Kept
    BY StoredStays
  <1>2. Asked' = [Asked EXCEPT ![c] = Waiting(c)'] /\ Learned' = [Learned EXCEPT ![c] = SoFar(c)']
    BY OneCallerMoves
  <1>3. Asked' = Asked /\ Learned' = Learned
    BY <1>2 DEF Asked, Learned
  <1> QED
    BY <1>1, <1>3 DEF Map!vars

(* A step inside a call that decides nothing is a stutter of the map. *)
LEMMA GoesOn ==
    ASSUME AInv, AInv', UNCHANGED << names, held, call, nth >>, NEW c \in Callers,
           \A d \in Callers \ {c} : Same(d),
           pc[c] \notin {"idle", "syncdir", "read"}, pc'[c] \notin {"idle", "syncdir", "read"}
    PROVE  UNCHANGED Map!vars
  <1>1. Waiting(c)' = Waiting(c) /\ SoFar(c)' = SoFar(c)
    BY AnswerAt, AnswerThen
  <1> QED
    BY <1>1, MapsToNothing

(* A call that ends having learned nothing of its object.                  *)
LEMMA GivesUp ==
    ASSUME AInv, AInv', UNCHANGED << names, held >>, NEW c \in Callers,
           \A d \in Callers \ {c} : Same(d),
           pc[c] # "idle", pc'[c] = "idle", reply'[c] \in {"cancelled", "failed", "killed", "exists"}
    PROVE  Map!Reply(c)
  <1>1. Stored' = Stored /\ Kept' = Kept
    BY StoredStays
  <1>2. Waiting(c)' = NoCall /\ SoFar(c)' = Told(reply'[c])
    BY AnswerThen, OutcomeThen
  <1>3. Asked' = [Asked EXCEPT ![c] = NoCall] /\ Learned' = [Learned EXCEPT ![c] = Told(reply'[c])]
    BY <1>2, OneCallerMoves
  <1>4. Asked[c] # NoCall
    BY AsksForSomething
  <1> QED
    BY <1>1, <1>3, <1>4, SameVocabulary DEF Map!Reply, Map!Stay, Map!GivenUp

(* A call that ends with what was decided before.                          *)
LEMMA ReportsBack ==
    ASSUME AInv, AInv', UNCHANGED << names, held >>, NEW c \in Callers,
           \A d \in Callers \ {c} : Same(d),
           pc[c] \in {"syncdir", "read"}, pc'[c] = "idle", SoFar(c)' = SoFar(c)
    PROVE  Map!Reply(c)
  <1>1. Stored' = Stored /\ Kept' = Kept
    BY StoredStays
  <1>2. Waiting(c)' = NoCall
    BY AnswerThen
  <1>3. Asked' = [Asked EXCEPT ![c] = NoCall] /\ Learned' = [Learned EXCEPT ![c] = SoFar(c)']
    BY <1>2, OneCallerMoves
  <1>4. Learned' = Learned
    BY <1>3 DEF Learned
  <1>5. Asked[c] # NoCall
    BY AsksForSomething
  <1>6. Learned[c] # Told("pending")
    <2>1. Learned[c] \in {[kind |-> "ok", size |-> info[c]], [kind |-> "read", object |-> file[c]]}
      BY AnswerAt
    <2>2. Learned[c].kind # "pending"
      BY <2>1
    <2> QED
      BY <2>2 DEF Told
  <1> QED
    BY <1>1, <1>3, <1>4, <1>5, <1>6, SameVocabulary DEF Map!Reply, Map!Stay

(* A look that decides a call: what it found, or that nothing was there.   *)
LEMMA Decides ==
    ASSUME AInv, AInv', UNCHANGED << names, held, call, nth >>, NEW c \in Callers,
           \A d \in Callers \ {c} : Same(d),
           pc[c] \notin {"idle", "syncdir", "read"}
    PROVE  /\ Learned[c] = Told("pending")
           /\ Asked' \in {Asked, [Asked EXCEPT ![c] = NoCall]}
           /\ Learned' = [Learned EXCEPT ![c] = SoFar(c)']
           /\ Map!Stay
  <1>1. Stored' = Stored /\ Kept' = Kept
    BY StoredStays
  <1>2. Asked' = [Asked EXCEPT ![c] = Waiting(c)'] /\ Learned' = [Learned EXCEPT ![c] = SoFar(c)']
    BY OneCallerMoves
  <1>3. Waiting(c)' \in {Waiting(c), NoCall}
    BY AnswerThen
  <1>4. [Asked EXCEPT ![c] = Waiting(c)] = Asked
    BY DEF Asked
  <1> QED
    BY <1>1, <1>2, <1>3, <1>4, AnswerAt DEF Map!Stay

------------------------------------------------------------------------------
------------------------------------------------------------------------------

(* A call that begins asks the map, or is rejected by it. *)
LEMMA BeginMaps ==
    ASSUME AInv, AInv', NEW c \in Callers, Begin(c)
    PROVE  Map!Ask(c) \/ Map!Reject(c)
  <1>0. TypeOK /\ \A d \in Callers \ {c} : Same(d)
    BY OthersStay DEF AInv, Step
  <1>1. PICK made \in CallsOf[c] :
            /\ call' = [call EXCEPT ![c] = made]
            /\ \/ Goto(c, FirstStep(made))
               \/ reply' = [reply EXCEPT ![c] = "cancelled"] /\ pc' = pc
    BY DEF Begin
  <1>2. pc[c] = "idle" /\ UNCHANGED << names, held >>
    BY DEF Begin
  <1>3. made \in AllCalls /\ call'[c] = made
    BY <1>0, <1>1, AssetStoreAssumption DEF TypeOK
  <1>4. Stored' = Stored /\ Kept' = Kept
    BY <1>2, StoredStays
  <1>5. Asked' = [Asked EXCEPT ![c] = Waiting(c)'] /\ Learned' = [Learned EXCEPT ![c] = SoFar(c)']
    BY <1>0, OneCallerMoves
  <1>6. Asked[c] = NoCall /\ DOMAIN Asked = Callers
    BY <1>2, AnswerAt DEF Asked
  <1>7. CASE reply' = [reply EXCEPT ![c] = "cancelled"] /\ pc' = pc
    <2>1. pc'[c] = "idle" /\ reply'[c] = "cancelled"
      BY <1>0, <1>2, <1>7 DEF TypeOK
    <2>2. Waiting(c)' = NoCall /\ SoFar(c)' = Told("cancelled")
      BY <2>1, AnswerThen, OutcomeThen
    <2>3. Asked' = Asked
      BY <1>5, <1>6, <2>2 DEF Asked
    <2> QED
      BY <1>4, <1>5, <1>6, <2>2, <2>3, SameVocabulary DEF Map!Reject
  <1>8. CASE Goto(c, FirstStep(made))
    <2>1. pc'[c] = FirstStep(made) /\ FirstStep(made) \in {"mkdir", "temp", "lstat", "stat", "check"}
      BY <1>0, <1>3, <1>8, FirstSteps DEF Goto, TypeOK
    <2>2. SoFar(c)' = Told("pending")
      BY <2>1, AnswerThen
    <2>3. /\ Waiting(c)' # NoCall
          /\ Waiting(c)'.op \in {"put", "get", "stat", "delete"}
          /\ Waiting(c)'.key \in Keys
      <3>1. made.op \in {"put", "get", "stat", "delete"} /\ made.key \in Keys
        BY <1>3 DEF AllCalls, PutCalls
      <3>2. CASE made.op = "put"
        <4>1. Waiting(c)' = [op |-> "put", key |-> made.key, object |-> Mine(c)',
                             size |-> made.size, fails |-> made.fails]
          BY <1>3, <2>1, <3>2 DEF Waiting
        <4>2. Waiting(c)'.op = "put" /\ Waiting(c)'.key = made.key
          BY <4>1
        <4> QED
          BY <3>1, <4>2 DEF NoCall
      <3>3. CASE made.op # "put"
        <4>1. Waiting(c)' = [op |-> made.op, key |-> made.key]
          BY <1>3, <2>1, <3>3 DEF Waiting
        <4>2. Waiting(c)'.op = made.op /\ Waiting(c)'.key = made.key
          BY <4>1
        <4> QED
          BY <3>1, <4>2 DEF NoCall
      <3> QED
        BY <3>2, <3>3
    <2>4. Asked'[c] = Waiting(c)'
      BY <1>5, <1>6
    <2>5. Asked' = [Asked EXCEPT ![c] = Asked'[c]]
      BY <1>5, <2>4
    <2> QED
      BY <1>4, <1>5, <1>6, <2>2, <2>3, <2>4, <2>5, SameVocabulary DEF Map!Ask, Map!Stay
  <1> QED
    BY <1>1, <1>7, <1>8

(* The rename of a Put.                                                    *)
LEMMA RenameMaps ==
    ASSUME AInv, AInv', NEW c \in Callers, Rename(c)
    PROVE  Map!Put(c) \/ UNCHANGED Map!vars
  <1>0. /\ TypeOK /\ \A d \in Callers \ {c} : Same(d)
        /\ UNCHANGED << call, nth >> /\ pc[c] = "rename"
    BY OthersStay DEF AInv, Step, Rename, Begin, callVars
  <1>1. /\ call[c] \in PutCalls /\ file[c] = Mine(c) /\ file[c] \in Files /\ call[c].key \in Keys
        /\ Mine(c).length = call[c].length
    BY <1>0, TemporariesAreMine, MineIsAFile DEF Writing, PutCalls, AInv
  <1>2. AsDeclared(c) /\ info[c] = call[c].length
    BY <1>0 DEF AInv, WriterInv
  <1>3. CASE SetName(call[c].key, file[c]) /\ Goto(c, "syncdir")
    <2> PICK k : k = call[c].key
      OBVIOUS
    <2> PICK m : m = Mine(c)
      OBVIOUS
    <2>1. pc'[c] = "syncdir" /\ info' = info
      BY <1>0, <1>3 DEF Goto, TypeOK, Rename
    <2>2. SoFar(c)' = [kind |-> "ok", size |-> m.length] /\ Waiting(c)' = Waiting(c)
      BY <1>0, <1>1, <1>2, <2>1, AnswerThen
    <2>3. /\ Asked' = [Asked EXCEPT ![c] = Waiting(c)]
          /\ Learned' = [Learned EXCEPT ![c] = [kind |-> "ok", size |-> m.length]]
      BY <1>0, <2>2, OneCallerMoves
    <2>4. Asked' = Asked
      BY <2>3 DEF Asked
    <2>5. /\ Stored' = [Stored EXCEPT ![k] = m]
          /\ Kept' = [l \in Keys |-> Kept[l] \cup ({Stored'[l]} \ {Absent})]
      BY <1>1, <1>3, StoredChanges
    <2>6. Learned[c] = Told("pending")
      BY <1>0, AnswerAt
    <2>7. /\ Asked[c].op = "put" /\ Asked[c].key = k /\ Asked[c].object = m
          /\ ~Asked[c].fails /\ Asked[c].size \in {SizeUnknown, m.length}
      BY <1>0, <1>1, <1>2, AsksForSomething DEF PutCalls, AsDeclared
    <2> QED
      BY <2>3, <2>4, <2>5, <2>6, <2>7, SameVocabulary DEF Map!Put, Map!Keep, Map!Comes
  <1>4. CASE Abort(c, IF closed THEN "failed" ELSE "exists") /\ UNCHANGED << names, held >>
    <2>1. pc'[c] = "abort"
      BY <1>0, <1>4 DEF Abort, Goto, TypeOK
    <2> QED
      BY <1>0, <1>4, <2>1, GoesOn
  <1> QED
    BY <1>3, <1>4 DEF Rename

(* The end of a Put that has failed.                                       *)
LEMMA RemoveTempMaps ==
    ASSUME AInv, AInv', DecisionInv, NEW c \in Callers, RemoveTemp(c)
    PROVE  Map!Put(c) \/ Map!Reply(c)
  <1>0. /\ TypeOK /\ \A d \in Callers \ {c} : Same(d)
        /\ UNCHANGED << call, nth >> /\ pc[c] = "abort" /\ UNCHANGED << names, held >>
    BY OthersStay DEF AInv, Step, RemoveTemp, Begin, callVars
  <1>1. /\ reply[c] \in {"cancelled", "failed", "invalid", "exists"}
        /\ pc'[c] = "idle" /\ reply'[c] = reply[c]
    BY <1>0 DEF AInv, WriterInv, RemoveTemp, Return, Goto, TypeOK
  <1>2. CASE reply[c] # "invalid"
    BY <1>0, <1>1, <1>2, GivesUp
  <1>3. CASE reply[c] = "invalid"
    <2>1. /\ call[c] \in PutCalls /\ Mine(c).length = call[c].length
      BY <1>0, TemporariesAreMine, MineIsAFile DEF Writing, AInv
    <2>2. call[c].size \notin {SizeUnknown, call[c].length}
      BY <1>0, <1>3 DEF DecisionInv
    <2>3. SoFar(c)' = Told("invalid")
      BY <1>1, <1>3, AnswerThen, OutcomeThen
    <2>4. /\ Learned[c] = Told("pending")
          /\ Asked' \in {Asked, [Asked EXCEPT ![c] = NoCall]}
          /\ Learned' = [Learned EXCEPT ![c] = Told("invalid")]
          /\ Map!Stay
      BY <1>0, <2>3, Decides
    <2>5. Asked[c].op = "put" /\ Asked[c].size \notin {SizeUnknown, Asked[c].object.length}
      BY <1>0, <2>1, <2>2, AsksForSomething DEF PutCalls
    <2> QED
      BY <2>4, <2>5, SameVocabulary DEF Map!Put, Map!Comes
  <1> QED
    BY <1>2, <1>3

(* A look that finds nothing.                                              *)
LEMMA FindsNothing ==
    ASSUME AInv, AInv', UNCHANGED << names, held, call, nth >>, NEW c \in Callers,
           \A d \in Callers \ {c} : Same(d),
           pc[c] \notin {"idle", "syncdir", "read"}, call[c].op # "put",
           pc'[c] = "idle", reply'[c] = "notfound", names[call[c].key] \notin Files
    PROVE  Map!NotFound(c)
  <1>1. SoFar(c)' = Told("notfound")
    BY AnswerThen, OutcomeThen
  <1>2. /\ Learned[c] = Told("pending")
        /\ Asked' \in {Asked, [Asked EXCEPT ![c] = NoCall]}
        /\ Learned' = [Learned EXCEPT ![c] = Told("notfound")]
        /\ Map!Stay
    BY <1>1, Decides
  <1>3. /\ Asked[c].op \in {"get", "stat", "delete"}
        /\ Stored[Asked[c].key] = Absent
    BY AsksForSomething, StoredIsKept
  <1> QED
    BY <1>2, <1>3, SameVocabulary DEF Map!NotFound, Map!Comes

------------------------------------------------------------------------------
------------------------------------------------------------------------------
(* What every step of a call but the first has in common.                  *)
LEMMA StepFrame ==
    ASSUME AInv, NEW c \in Callers, Step(c), ~Begin(c)
    PROVE  /\ TypeOK /\ \A d \in Callers \ {c} : Same(d)
           /\ UNCHANGED << call, nth >>
           /\ pc[c] # "idle"
  BY OthersStay DEF AInv, callVars

(* A step that meets the closed root is a reply. *)
LEMMA ClosedMaps ==
    ASSUME AInv, AInv', NEW c \in Callers, Step(c), ~Begin(c), OnClosedRoot(c)
    PROVE  Map!Reply(c)
  <1>1. /\ TypeOK /\ \A d \in Callers \ {c} : Same(d)
        /\ pc[c] # "idle"
    BY StepFrame
  <1>2. /\ pc'[c] = "idle" /\ UNCHANGED << names, held >>
        /\ reply'[c] \in {"cancelled", "failed", "killed", "exists"}
    BY <1>1 DEF OnClosedRoot, Return, Goto, TypeOK, fsVars
  <1> QED
    BY <1>1, <1>2, GivesUp

(* Get: the open decides.                                                  *)
LEMMA OpenMaps ==
    ASSUME AInv, AInv', DecisionInv, NEW c \in Callers, Open(c)
    PROVE  Map!Reply(c) \/ Map!Find(c) \/ Map!NotFound(c)
  <1>0. /\ TypeOK /\ \A d \in Callers \ {c} : Same(d)
        /\ UNCHANGED << call, nth >> /\ pc[c] = "open" /\ Step(c) /\ ~Begin(c)
    BY StepFrame DEF Step, Open, Begin
  <1> PICK k : k = call[c].key
    OBVIOUS
  <1>1. call[c].op = "get" /\ k \in Keys /\ names[k] \in Files \cup {Absent}
    BY <1>0 DEF AInv, CallInv, GetPCs, DecisionInv
  <1>2. Opened(k) = names[k]
    BY <1>1, Found, Kinds, AssetStoreAssumption DEF AInv, Opened
  <1>3. CASE OnClosedRoot(c)
    BY <1>0, <1>3, ClosedMaps
  <1>4. CASE /\ Opened(k) \in Files
             /\ file' = [file EXCEPT ![c] = Opened(k)]
             /\ Goto(c, "read")
             /\ UNCHANGED << names, held >>
    <2>1. pc'[c] = "read" /\ file'[c] = names[k]
      BY <1>0, <1>2, <1>4 DEF Goto, TypeOK
    <2>2. SoFar(c)' = [kind |-> "read", object |-> names[k]]
      BY <2>1, AnswerThen
    <2>3. /\ Learned[c] = Told("pending")
          /\ Asked' \in {Asked, [Asked EXCEPT ![c] = NoCall]}
          /\ Learned' = [Learned EXCEPT ![c] = [kind |-> "read", object |-> names[k]]]
          /\ Map!Stay
      BY <1>0, <1>4, <2>2, Decides
    <2>4. /\ Asked[c].op = "get" /\ Stored[Asked[c].key] = names[k] /\ names[k] # Absent
      BY <1>0, <1>1, <1>2, <1>4, AsksForSomething, StoredIsKept, Kinds
    <2> QED
      BY <2>3, <2>4, SameVocabulary DEF Map!Find, Map!Comes
  <1>5. CASE /\ Opened(k) \notin Files
             /\ Return(c, "notfound")
             /\ UNCHANGED << names, held >>
    <2>1. pc'[c] = "idle" /\ reply'[c] = "notfound"
      BY <1>0, <1>5 DEF Goto, Return, TypeOK
    <2> QED
      BY <1>0, <1>1, <1>2, <1>5, <2>1, FindsNothing
  <1> QED
    BY <1>3, <1>4, <1>5 DEF Open, fsVars

(* A read goes on, or is the reply of an open object. *)
LEMMA ReadMaps ==
    ASSUME AInv, AInv', NEW c \in Callers, Read(c)
    PROVE  Map!Reply(c) \/ UNCHANGED Map!vars
  <1>0. /\ TypeOK /\ \A d \in Callers \ {c} : Same(d)
        /\ UNCHANGED << call, nth >> /\ pc[c] = "read"
    BY StepFrame DEF Step, Read, Begin
  <1>1. UNCHANGED << names, held, file, info >>
    BY DEF Read, Observed, fsVars
  <1>2. CASE Return(c, "cancelled")
    <2>1. pc'[c] = "idle" /\ reply'[c] = "cancelled"
      BY <1>0, <1>2 DEF Goto, Return, TypeOK
    <2> QED
      BY <1>0, <1>1, <2>1, GivesUp
  <1>3. CASE pc' = pc
    <2>1. Waiting(c)' = Waiting(c) /\ SoFar(c)' = SoFar(c)
      BY <1>0, <1>1, <1>3, AnswerAt, AnswerThen
    <2> QED
      BY <1>0, <1>1, <2>1, MapsToNothing
  <1>4. CASE Return(c, "read") /\ got' = got /\ Len(got[c]) >= Len(bytes[file[c]])
    <2>1. pc'[c] = "idle" /\ reply'[c] = "read"
      BY <1>0, <1>4 DEF Goto, Return, TypeOK
    <2>2. /\ file[c] \in Published \cap Files /\ got[c] \in Seq(Files)
          /\ \A n \in DOMAIN got[c] : got[c][n] = file[c]
          /\ Len(got[c]) <= file[c].length
      BY <1>0 DEF AInv, ReaderInv, TypeOK
    <2>3. Len(bytes[file[c]]) = file[c].length /\ file[c].length \in Nat
      BY <2>2, PublishedAreWhole, WholeIsWritten
    <2>4. Len(got[c]) = file[c].length
      BY <1>4, <2>2, <2>3
    <2>5. got'[c] = Whole(file[c])
      BY <1>4, <2>2, <2>4, WrittenOut
    <2>6. SoFar(c)' = SoFar(c)
      BY <1>0, <1>1, <2>1, <2>5, AnswerAt, AnswerThen, OutcomeThen
    <2> QED
      BY <1>0, <1>1, <2>1, <2>6, ReportsBack
  <1> QED
    BY <1>2, <1>3, <1>4 DEF Read

(* The looks of Stat, of Get and of Delete.                                *)
LEMMA LookMaps ==
    ASSUME AInv, AInv', NEW c \in Callers, Lstat(c) \/ Check(c) \/ Stat(c)
    PROVE  Map!Reply(c) \/ Map!NotFound(c) \/ Map!Find(c) \/ UNCHANGED Map!vars
  <1>0. /\ TypeOK /\ \A d \in Callers \ {c} : Same(d)
        /\ UNCHANGED << call, nth >> /\ pc[c] \in {"lstat", "check", "stat"}
        /\ Step(c) /\ ~Begin(c)
    BY StepFrame DEF Step, Lstat, Check, Stat, Begin
  <1> PICK k : k = call[c].key
    OBVIOUS
  <1>1. k \in Keys /\ call[c].op # "put" /\ (pc[c] = "stat" => call[c].op = "stat")
    BY <1>0 DEF AInv, CallInv, GetPCs, DeletePCs
  <1>2. At(names, k) = names[k]
    BY <1>1, Found DEF AInv
  <1>3. CASE OnClosedRoot(c)
    BY <1>0, <1>3, ClosedMaps
  <1>4. CASE (Goto(c, "open") \/ Goto(c, "remove")) /\ UNCHANGED << names, held >>
    <2>1. pc'[c] \in {"open", "remove"}
      BY <1>0, <1>4 DEF Goto, TypeOK
    <2> QED
      BY <1>0, <1>4, <2>1, GoesOn
  <1>5. CASE /\ At(names, k) \notin Files
             /\ Return(c, "notfound")
             /\ UNCHANGED << names, held >>
    <2>1. pc'[c] = "idle" /\ reply'[c] = "notfound"
      BY <1>0, <1>5 DEF Goto, Return, TypeOK
    <2> QED
      BY <1>0, <1>1, <1>2, <1>5, <2>1, FindsNothing
  <1>6. CASE /\ pc[c] = "stat"
             /\ At(names, k) \in Files
             /\ info' = [info EXCEPT ![c] = Len(bytes[At(names, k)])]
             /\ Return(c, "ok")
             /\ UNCHANGED << names, held >>
    <2>1. pc'[c] = "idle" /\ reply'[c] = "ok" /\ info'[c] = Len(bytes[names[k]])
      BY <1>0, <1>2, <1>6 DEF Goto, Return, TypeOK
    <2>2. info'[c] = names[k].length
      BY <1>1, <1>2, <1>6, <2>1, FoundIsPublished, PublishedAreWhole
    <2>3. SoFar(c)' = [kind |-> "ok", size |-> names[k].length]
      BY <2>1, <2>2, AnswerThen, OutcomeThen
    <2>4. /\ Learned[c] = Told("pending")
          /\ Asked' \in {Asked, [Asked EXCEPT ![c] = NoCall]}
          /\ Learned' = [Learned EXCEPT ![c] = [kind |-> "ok", size |-> names[k].length]]
          /\ Map!Stay
      BY <1>0, <1>6, <2>3, Decides
    <2>5. /\ Asked[c].op = "stat" /\ Stored[Asked[c].key] = names[k] /\ names[k] # Absent
      BY <1>0, <1>1, <1>2, <1>6, AsksForSomething, StoredIsKept, Kinds
    <2> QED
      BY <2>4, <2>5, SameVocabulary DEF Map!Find, Map!Comes
  <1> QED
    BY <1>3, <1>4, <1>5, <1>6 DEF Lstat, Check, Stat, fsVars

(* The removal is the map's delete, a miss, or the reply of a failure. *)
LEMMA RemoveMaps ==
    ASSUME AInv, AInv', DecisionInv, NEW c \in Callers, Remove(c)
    PROVE  Map!Reply(c) \/ Map!NotFound(c) \/ Map!Delete(c)
  <1>0. /\ TypeOK /\ \A d \in Callers \ {c} : Same(d)
        /\ UNCHANGED << call, nth >> /\ pc[c] = "remove" /\ Step(c) /\ ~Begin(c)
    BY StepFrame DEF Step, Remove, Begin
  <1> PICK k : k = call[c].key
    OBVIOUS
  <1>1. /\ call[c].op = "delete" /\ k \in Keys /\ names[k] \in Files \cup {Absent}
        /\ info[c] = SizeUnknown
    BY <1>0 DEF AInv, CallInv, DeletePCs, DecisionInv
  <1>2. At(names, k) = names[k]
    BY <1>1, Found DEF AInv
  <1>3. CASE OnClosedRoot(c)
    BY <1>0, <1>3, ClosedMaps
  <1>4. CASE Removable(k) /\ SetName(k, Absent) /\ Return(c, "ok") /\ info' = info
    <2>1. pc'[c] = "idle" /\ reply'[c] = "ok" /\ info'[c] = SizeUnknown
      BY <1>0, <1>1, <1>4 DEF Goto, Return, TypeOK
    <2>2. SoFar(c)' = [kind |-> "ok", size |-> SizeUnknown] /\ Waiting(c)' = NoCall
      BY <2>1, AnswerThen, OutcomeThen
    <2>3. /\ Asked' = [Asked EXCEPT ![c] = NoCall]
          /\ Learned' = [Learned EXCEPT ![c] = [kind |-> "ok", size |-> SizeUnknown]]
      BY <1>0, <2>2, OneCallerMoves
    <2>4. /\ Stored' = [Stored EXCEPT ![k] = Absent]
          /\ Kept' = [l \in Keys |-> Kept[l] \cup ({Stored'[l]} \ {Absent})]
      BY <1>1, <1>4, StoredChanges
    <2>5. Learned[c] = Told("pending")
      BY <1>0, AnswerAt
    <2>6. Asked[c].op = "delete" /\ Asked[c].key = k /\ Stored[k] # Absent
      BY <1>0, <1>1, <1>2, <1>4, AsksForSomething, StoredIsKept, Kinds DEF Removable
    <2> QED
      BY <2>3, <2>4, <2>5, <2>6, SameVocabulary DEF Map!Delete, Map!Keep, Map!Comes
  <1>5. CASE /\ Return(c, IF At(names, k) = Absent THEN "notfound" ELSE "failed")
             /\ UNCHANGED << names, held >>
    <2>1. pc'[c] = "idle" /\ reply'[c] = IF names[k] = Absent THEN "notfound" ELSE "failed"
      BY <1>0, <1>2, <1>5 DEF Goto, Return, TypeOK
    <2>2. CASE names[k] = Absent
      BY <1>0, <1>1, <1>5, <2>1, <2>2, FindsNothing, Kinds
    <2>3. CASE names[k] # Absent
      BY <1>0, <1>5, <2>1, <2>3, GivesUp
    <2> QED
      BY <2>2, <2>3
  <1> QED
    BY <1>3, <1>4, <1>5 DEF Remove, fsVars

------------------------------------------------------------------------------
(* The steps of the surroundings.                                          *)

(* A killed caller gets its reply. *)
LEMMA KillMaps ==
    ASSUME AInv, AInv', NEW c \in Callers, Kill(c)
    PROVE  Map!Reply(c)
  <1>1. /\ TypeOK /\ \A d \in Callers \ {c} : Same(d)
        /\ pc[c] # "idle"
    BY OthersStay DEF AInv, Kill
  <1>2. pc'[c] = "idle" /\ reply'[c] = "killed" /\ UNCHANGED << names, held >>
    BY <1>1 DEF Kill, Return, Goto, TypeOK
  <1> QED
    BY <1>1, <1>2, GivesUp

(* When no caller moves, the map sees none move. *)
LEMMA AllStay ==
    ASSUME \A d \in Callers : Same(d)
    PROVE  Asked' = Asked /\ Learned' = Learned
  <1>1. ASSUME NEW d \in Callers
        PROVE  Waiting(d)' = Waiting(d) /\ SoFar(d)' = SoFar(d)
    BY CallerStays
  <1>2. /\ Asked = [d \in Callers |-> Waiting(d)]
        /\ Learned = [d \in Callers |-> SoFar(d)]
        /\ Asked' = [d \in Callers |-> Waiting(d)']
        /\ Learned' = [d \in Callers |-> SoFar(d)']
    BY DEF Asked, Learned
  <1> QED
    BY <1>1, <1>2

(* What an operator places is the map's outside change. *)
LEMMA OperatorMaps ==
    ASSUME OnlyObjectsPlaced, AInv, AInv', OperatorPlaces
    PROVE  Map!Outside \/ UNCHANGED Map!vars
  <1>1. Asked' = Asked /\ Learned' = Learned
    BY SurroundingsStay, AllStay DEF AInv
  <1>2. PICK put \in Placed : put[2] = Directory \/ SetName(put[1], put[2])
    BY DEF OperatorPlaces
  <1> PICK k, e : k = put[1] /\ e = put[2]
    OBVIOUS
  <1>3. /\ k \in Keys /\ e \in Files \cup {Absent} /\ SetName(k, e)
        /\ << k, e >> \in Placed /\ << k, e >>[1] = k /\ << k, e >>[2] = e
    BY <1>2, AssetStoreAssumption DEF OnlyObjectsPlaced
  <1>4. /\ Stored' = [Stored EXCEPT ![k] = e]
        /\ Kept' = [l \in Keys |-> Kept[l] \cup ({Stored'[l]} \ {Absent})]
    BY <1>3, StoredChanges
  <1>5. Stored'[k] = e /\ Stored' = [Stored EXCEPT ![k] = Stored'[k]]
    BY <1>3, <1>4 DEF Stored
  <1>6. CASE e # Stored[k]
    <2>1. Stored' # Stored
      BY <1>5, <1>6
    <2>2. \E change \in Placed : Stored' = [Stored EXCEPT ![change[1]] = change[2]]
      BY <1>3, <1>4
    <2> QED
      BY <1>1, <1>4, <2>1, <2>2 DEF Map!Outside, Map!Keep
  <1>7. CASE e = Stored[k]
    <2>1. Stored' = Stored
      BY <1>4, <1>7 DEF Stored
    <2>2. \A l \in Keys : Kept[l] \cup ({Stored[l]} \ {Absent}) = Kept[l]
      BY StoredIsKept
    <2>3. Kept' = Kept
      BY <1>4, <2>1, <2>2 DEF Kept
    <2> QED
      BY <1>1, <2>1, <2>3 DEF Map!vars
  <1> QED
    BY <1>6, <1>7

(* A power cut is the map's stop. *)
LEMMA PowerCutMaps ==
    ASSUME FlatStore, AInv, AInv', PowerCut
    PROVE  Map!Stop
  <1> PICK after : after = [k \in Keys |-> At(disk, k)]
    OBVIOUS
  <1>1. /\ names' = after
        /\ held' = [k \in Keys |->
                       IF after[k] = names[k] THEN held[k] ELSE Append(held[k], after[k])]
        /\ reply' = [c \in Callers |-> IF pc[c] = "idle" THEN reply[c] ELSE "killed"]
        /\ pc' = [c \in Callers |-> "idle"]
        /\ UNCHANGED << file, got, info, callVars >>
    BY DEF PowerCut
  <1>2. ASSUME NEW k \in Keys
        PROVE  names'[k] \in WasHeld(k) /\ WasHeld(k)' = WasHeld(k)
    <2>1. after[k] = disk[k] /\ disk[k] \in WasHeld(k) /\ names'[k] = disk[k]
      BY <1>1 DEF At, InPlace, Directories, FlatStore, AInv, KeyInv
    <2>2. held[k] \in Seq(Entries) /\ disk[k] \in Entries
      BY DEF AInv, TypeOK
    <2>3. CASE held'[k] = held[k]
      BY <2>1, <2>3 DEF WasHeld
    <2>4. CASE held'[k] = Append(held[k], after[k])
      <3> PICK s, t, e : s = held[k] /\ t = held'[k] /\ e = after[k]
        OBVIOUS
      <3>1. /\ t \in Seq(Entries) /\ Len(t) = Len(s) + 1 /\ t[Len(t)] = e
            /\ \A i \in 1..Len(s) : t[i] = s[i]
        BY <2>1, <2>2, <2>4, Appended
      <3>2. DOMAIN t = DOMAIN s \cup {Len(t)} /\ DOMAIN s = 1..Len(s)
        BY <2>2, <3>1
      <3>3. {t[i] : i \in DOMAIN t} = {s[i] : i \in DOMAIN s} \cup {e}
        BY <3>1, <3>2
      <3> QED
        BY <2>1, <3>3 DEF WasHeld
    <2> QED
      BY <1>1, <2>3, <2>4
  <1>3. Kept' = Kept
    BY <1>2 DEF Kept, WasStored
  <1>4. /\ Stored' \in [Keys -> Files \cup {Absent}]
        /\ \A k \in Keys : Stored'[k] \in Kept[k] \cup {Absent}
    <2>1. Stored' = ObjectsIn(names')
      BY StoredIsThen
    <2>2. ASSUME NEW k \in Keys
          PROVE  Stored'[k] \in Kept[k] \cup {Absent}
      BY <1>2, <2>1, StoredIsKept DEF ObjectsIn
    <2>3. Stored' \in [Keys -> Files \cup {Absent}]
      BY <2>1 DEF ObjectsIn
    <2> QED
      BY <2>2, <2>3
  <1>5. Asked' = [c \in Callers |-> NoCall]
    BY <1>1 DEF Asked, Waiting
  <1>6. Learned' = [c \in Callers |-> IF Asked[c] = NoCall THEN Learned[c] ELSE Told("killed")]
    <2>1. ASSUME NEW c \in Callers
          PROVE  SoFar(c)' = IF Asked[c] = NoCall THEN Learned[c] ELSE Told("killed")
      <3>1. pc'[c] = "idle" /\ reply'[c] = IF pc[c] = "idle" THEN reply[c] ELSE "killed"
        BY <1>1
      <3>2. CASE pc[c] = "idle"
        <4>1. Same(c)
          BY <1>1, <3>1, <3>2 DEF Same, callVars
        <4> QED
          BY <3>2, <4>1, CallerStays, AnswerAt
      <3>3. CASE pc[c] # "idle"
        BY <3>1, <3>3, AnswerThen, OutcomeThen, AsksForSomething
      <3> QED
        BY <3>2, <3>3
    <2>2. Learned' = [c \in Callers |-> SoFar(c)']
      BY DEF Learned
    <2> QED
      BY <2>1, <2>2
  <1> QED
    BY <1>3, <1>4, <1>5, <1>6, SameVocabulary DEF Map!Stop

(* Initial states map to initial states. *)
LEMMA InitMaps == Init => Map!Init
  <1> SUFFICES ASSUME Init PROVE Map!Init
    OBVIOUS
  <1>1. AInv
    BY InitAInv
  <1>2. Stored = ObjectsIn(names) /\ Stored \in [Keys -> Files \cup {Absent}]
    BY <1>1, StoredIs, ObjectsType
  <1>3. ASSUME NEW k \in Keys
        PROVE  WasStored(k) = {Stored[k]} \ {Absent}
    <2>1. held[k] = << names[k] >>
      BY DEF Init
    <2>2. WasHeld(k) = {names[k]}
      BY <2>1 DEF WasHeld
    <2> QED
      BY <1>2, <2>2, Kinds DEF WasStored, ObjectsIn
  <1>4. Kept = [k \in Keys |-> {Stored[k]} \ {Absent}]
    BY <1>3 DEF Kept
  <1>5. ASSUME NEW c \in Callers
        PROVE  Waiting(c) = NoCall /\ SoFar(c) = Told("none")
    <2>1. pc[c] = "idle" /\ reply[c] = "none"
      BY DEF Init
    <2>2. Asked[c] = NoCall /\ Asked[c] = Waiting(c)
      BY <2>1, AnswerAt DEF Asked
    <2> QED
      BY <2>1, <2>2, AnswerAt, Outcomes
  <1>6. Asked = [c \in Callers |-> NoCall] /\ Learned = [c \in Callers |-> Told("none")]
    BY <1>5 DEF Asked, Learned
  <1> QED
    BY <1>2, <1>4, <1>6, SameVocabulary DEF Map!Init

------------------------------------------------------------------------------
(* Every step maps to a step of the map or to a stutter. *)
LEMMA StepMaps ==
    ASSUME FlatStore, OnlyObjectsPlaced, AInv, AInv', DecisionInv, [Next]_vars
    PROVE  [Map!Next]_(Map!vars)
  <1> DEFINE Maps == [Map!Next]_(Map!vars)
  <1>0. ASSUME NEW c \in Callers,
               \/ Map!Ask(c) \/ Map!Reject(c) \/ Map!Put(c) \/ Map!Find(c)
               \/ Map!Delete(c) \/ Map!NotFound(c) \/ Map!Reply(c)
               \/ UNCHANGED Map!vars
        PROVE  Maps
    BY <1>0 DEF Map!Next
  <1> HIDE DEF Maps
  <1>1. ASSUME NEW c \in Callers, Begin(c) PROVE Maps
    BY <1>0, <1>1, BeginMaps
  <1>2. ASSUME NEW c \in Callers, MkdirAll(c) \/ CreateTemp(c) PROVE Maps
    <2>1. /\ TypeOK /\ \A d \in Callers \ {c} : Same(d)
          /\ UNCHANGED << call, nth >> /\ pc[c] \in {"mkdir", "temp"}
          /\ Step(c) /\ ~Begin(c)
      BY <1>2, StepFrame DEF Step, MkdirAll, CreateTemp, Begin
    <2>2. ParentOf[call[c].key] = Root
      BY <2>1 DEF AInv, CallInv, PutPCs, PutCalls, FlatStore
    <2>3. InPlace(names, call[c].key) /\ pc[c] = "temp"
      BY <2>1, <2>2 DEF InPlace, Directories, AInv, CallInv
    <2>4. CASE OnClosedRoot(c)
      BY <1>0, <2>1, <2>4, ClosedMaps
    <2>5. CASE Goto(c, "copy") /\ UNCHANGED << names, held >>
      <3>1. pc'[c] = "copy"
        BY <2>1, <2>5 DEF Goto, TypeOK
      <3> QED
        BY <1>0, <2>1, <2>3, <2>5, <3>1, GoesOn
    <2> QED
      BY <1>2, <2>3, <2>4, <2>5 DEF MkdirAll, CreateTemp, fsVars
  <1>3. ASSUME NEW c \in Callers, CopyBuffer(c) \/ EndCopy(c) \/ Sync(c) PROVE Maps
    <2>1. /\ TypeOK /\ \A d \in Callers \ {c} : Same(d)
          /\ UNCHANGED << call, nth >> /\ pc[c] \in {"copy", "sync"}
      BY <1>3, StepFrame DEF Step, CopyBuffer, EndCopy, Sync, Begin
    <2>2. pc'[c] \in {"copy", "sync", "rename", "abort"} /\ UNCHANGED << names, held >>
      BY <1>3, <2>1 DEF CopyBuffer, EndCopy, Sync, Goto, Abort, TypeOK, fsVars
    <2> QED
      BY <1>0, <2>1, <2>2, GoesOn
  <1>4. ASSUME NEW c \in Callers, Rename(c) \/ RemoveTemp(c) PROVE Maps
    BY <1>0, <1>4, RenameMaps, RemoveTempMaps
  <1>5. ASSUME NEW c \in Callers, SyncDir(c) PROVE Maps
    <2>1. /\ TypeOK /\ \A d \in Callers \ {c} : Same(d)
          /\ UNCHANGED << call, nth >> /\ pc[c] = "syncdir"
      BY <1>5, StepFrame DEF Step, SyncDir, Begin
    <2>2. /\ pc'[c] = "idle" /\ reply'[c] = "ok" /\ info' = info
          /\ UNCHANGED << names, held >>
      BY <1>5, <2>1 DEF SyncDir, Return, Goto, TypeOK
    <2>3. SoFar(c)' = SoFar(c)
      BY <2>1, <2>2, AnswerAt, AnswerThen, OutcomeThen
    <2> QED
      BY <1>0, <2>1, <2>2, <2>3, ReportsBack
  <1>6. ASSUME NEW c \in Callers, Lstat(c) \/ Check(c) \/ Stat(c) PROVE Maps
    BY <1>0, <1>6, LookMaps
  <1>7. ASSUME NEW c \in Callers, Open(c) \/ Read(c) PROVE Maps
    BY <1>0, <1>7, OpenMaps, ReadMaps
  <1>8. ASSUME NEW c \in Callers, Remove(c) \/ Kill(c) PROVE Maps
    BY <1>0, <1>8, RemoveMaps, KillMaps
  <1>9. ASSUME NEW c \in Callers, Cancel(c) PROVE Maps
    <2>1. /\ Same(c) /\ \A d \in Callers \ {c} : Same(d)
          /\ UNCHANGED << names, held >>
      BY <1>9, OthersStay DEF Cancel, Same, fsVars, callVars, AInv
    <2> QED
      BY <1>0, <2>1, CallerStays, MapsToNothing
  <1>10. ASSUME OperatorPlaces PROVE Maps
    BY <1>10, OperatorMaps DEF Map!Next, Maps
  <1>11. ASSUME PowerCut PROVE Maps
    BY <1>11, PowerCutMaps DEF Map!Next, Maps
  <1>12. ASSUME Close \/ (\E k \in Keys : Writeback(k)) \/ UNCHANGED vars PROVE Maps
    <2>1. Asked' = Asked /\ Learned' = Learned
      BY <1>12, SurroundingsStay, AllStay DEF AInv
    <2>2. UNCHANGED << names, held >>
      BY <1>12 DEF Close, Writeback, vars
    <2> QED
      BY <2>1, <2>2, StoredStays DEF Map!vars, Maps
  <1>13. ASSUME NEW c \in Callers, Step(c) PROVE Maps
    BY <1>1, <1>2, <1>3, <1>4, <1>5, <1>6, <1>7, <1>8, <1>13 DEF Step
  <1>14. ASSUME NEW c \in Callers, Cancel(c) \/ Kill(c) PROVE Maps
    BY <1>8, <1>9, <1>14
  <1>15. Maps
    BY <1>10, <1>11, <1>12, <1>13, <1>14 DEF Next, AllReturned
  <1> QED
    BY <1>15 DEF Maps

(* In a store without prefixes, where nobody places a directory or a link, *)
(* every behaviour of the directory, its temporary files, its renames and  *)
(* its faults is one of the atomic map: a Put takes effect at its rename,  *)
(* a Delete at its removal and a Get at its open, and a call that fails    *)
(* has changed nothing (core/store.go:23-46).                              *)
THEOREM AssetMapImplemented ==
    ASSUME FlatStore, OnlyObjectsPlaced
    PROVE  Spec => ImplementsAssetMap
  <1>1. Init => DecisionInv
    BY DEF Init, DecisionInv, DeletePCs
  <1>2. AInv /\ DecisionInv /\ [Next]_vars => DecisionInv'
    BY StepDecisionInv
  <1>3. AInv /\ AInv' /\ DecisionInv /\ [Next]_vars => [Map!Next]_(Map!vars)
    BY StepMaps
  <1> QED
    BY <1>1, <1>2, <1>3, InitMaps, InvariantHolds, PTL
       DEF Spec, ImplementsAssetMap, Map!Spec
==============================================================================
