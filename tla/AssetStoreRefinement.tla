------------------------- MODULE AssetStoreRefinement ------------------------
(***************************************************************************)
(* localfs.Store implements core.AssetStore's map.  A Put takes effect at  *)
(* its rename, a Delete at its removal, Stat and a refusal at the look     *)
(* that found what it reports, and Get at its open: from then on it reads  *)
(* that object, whatever becomes of the key.                               *)
(***************************************************************************)
EXTENDS AssetStore

CONSTANT Garbled  \* bytes that are not an object anybody stored

StoredAt(k) ==
    LET entry == At(names, k)
    IN  IF entry \notin Files THEN Absent
        ELSE IF bytes[entry] = Whole(entry) THEN entry ELSE Garbled

WasStored(k) == WasHeld(k) \cap Files

Waiting(c) ==
    LET made == call[c]
    IN  IF pc[c] = "idle" THEN NoCall
        ELSE IF made.op # "put" THEN [op |-> made.op, key |-> made.key]
        ELSE [op |-> "put", key |-> made.key, object |-> Mine(c),
              size |-> made.size, fails |-> made.fails]

Told(what) == [kind |-> what]

(* What a call that has returned told its caller.                          *)
Outcome(c) ==
    CASE reply[c] = "ok"   -> [kind |-> "ok", size |-> info[c]]
      [] reply[c] = "read" ->
             [kind |-> "read",
              object |-> IF got[c] = Whole(file[c]) THEN file[c] ELSE Garbled]
      [] OTHER -> Told(reply[c])

(* A call is decided, if its process lives to say so, in the last stretch. *)
SoFar(c) ==
    CASE pc[c] = "idle"    -> Outcome(c)
      [] pc[c] = "syncdir" -> [kind |-> "ok", size |-> info[c]]
      [] pc[c] = "read"    -> [kind |-> "read", object |-> file[c]]
      [] OTHER             -> Told("pending")

Stored == [k \in Keys |-> StoredAt(k)]

Kept == [k \in Keys |-> WasStored(k)]

Asked == [c \in Callers |-> Waiting(c)]

Learned == [c \in Callers |-> SoFar(c)]

Map == INSTANCE AssetMap WITH
    objects <- Stored, kept <- Kept, asked <- Asked, answer <- Learned,
    Objects <- Files, Others <- Placed, NoObject <- Absent

(* Every behaviour of the directory, its temporary files and its renames   *)
(* is one of the map: readers see whole objects, a success was one change  *)
(* of one key, a failure none, an overwrite never shows as an absence, and *)
(* nothing comes back but what was there (core/store.go:23-46).            *)
ImplementsAssetMap == Map!Spec

(* Nobody places a directory or a symbolic link at a key.                  *)
OnlyObjectsPlaced == \A put \in Placed : put[2] \in Files \cup {Absent}

(* What the refinement needs besides AInv, in a store without prefixes: a  *)
(* call that has found an object still has one to open or to remove, or    *)
(* none; a Delete reports no size; and only a stream that is not as long   *)
(* as was declared is refused as invalid.                                  *)
DecisionInv ==
    \A c \in Callers :
        /\ pc[c] \in {"open", "remove"} => names[call[c].key] \in Files \cup {Absent}
        /\ pc[c] \in DeletePCs => info[c] = SizeUnknown
        /\ pc[c] = "abort" /\ reply[c] = "invalid" =>
               call[c].size \notin {SizeUnknown, call[c].length}
==============================================================================
