--------------------------- MODULE AssetStore_proofs -------------------------
(***************************************************************************)
(* What the objects of AssetStore are, whoever stores, reads and deletes   *)
(* them and whatever fails, for every directory, set of keys and number of *)
(* callers.                                                                *)
(***************************************************************************)
EXTENDS AssetStore, SequenceTheorems, TLAPS

------------------------------------------------------------------------------
(* The files of callers and of the operator.                               *)

(* The kinds of entry are told apart: a file is no directory, no link and not
   absent. *)
LEMMA Kinds ==
    /\ Absent \notin Files /\ Directory \notin Files /\ Link \notin Files
    /\ Files \subseteq Entries
    /\ {Absent, Directory, Link} \subseteq Entries
  BY AssetStoreAssumption DEF Entries

(* The temporary file of a Put is a file of its caller, its call and its
   length. *)
LEMMA MineIsAFile ==
    ASSUME TypeOK, NEW c \in Callers, call[c] \in PutCalls
    PROVE  /\ Mine(c) \in Files
           /\ Mine(c).by = c /\ Mine(c).nth = nth[c] /\ Mine(c).length = call[c].length
  BY DEF TypeOK, Mine, Files, Authors, PutCalls

(* The whole content of a file, by positions. *)
LEMMA WholeIsWritten ==
    ASSUME NEW f \in Files
    PROVE  /\ Whole(f) \in Seq(Files)
           /\ Len(Whole(f)) = f.length
           /\ f.length \in 0..MaxLength
           /\ \A n \in DOMAIN Whole(f) : Whole(f)[n] = f
           /\ DOMAIN Whole(f) = 1..f.length
  <1>1. f.length \in 0..MaxLength /\ f.length \in Nat
    BY AssetStoreAssumption DEF Files
  <1> DEFINE s == [n \in 1..f.length |-> f]
  <1>2. s \in [1..f.length -> Files]
    OBVIOUS
  <1>3. s \in Seq(Files) /\ Len(s) = f.length
    BY <1>1, <1>2, SeqDef, LenProperties
  <1> QED
    BY <1>1, <1>2, <1>3 DEF Whole

(* A sequence of one file only, as long as the file, is the whole of it.   *)
LEMMA WrittenOut ==
    ASSUME NEW f \in Files, NEW s \in Seq(Files),
           \A n \in DOMAIN s : s[n] = f, Len(s) = f.length
    PROVE  s = Whole(f)
  <1>1. DOMAIN s = 1..f.length
    OBVIOUS
  <1> QED
    BY <1>1, WholeIsWritten DEF Whole

(* Another entry at the end.                                               *)
LEMMA Appended ==
    ASSUME NEW S, NEW s \in Seq(S), NEW e \in S, NEW t, t = Append(s, e)
    PROVE  /\ t \in Seq(S)
           /\ t # << >>
           /\ Len(t) = Len(s) + 1
           /\ t[Len(t)] = e
           /\ \A i \in 1..Len(s) : t[i] = s[i]
  <1>1. /\ t \in Seq(S)
        /\ Len(t) = Len(s) + 1
        /\ t[Len(t)] = e
        /\ \A i \in 1..Len(s) : t[i] = s[i]
    OBVIOUS
  <1>2. t # << >>
    BY <1>1
  <1> QED
    BY <1>1, <1>2

(* What a change of one entry does to what the keys have held.             *)
LEMMA NameSet ==
    ASSUME TypeOK, NEW k \in Keys, NEW e \in Entries, SetName(k, e)
    PROVE  /\ names' \in [Keys -> Entries] /\ held' \in [Keys -> Seq(Entries)]
           /\ names'[k] = e
           /\ held'[k] # << >> /\ held'[k][Len(held'[k])] = e
           /\ WasHeld(k)' = WasHeld(k) \cup {e}
           /\ \A l \in Keys \ {k} :
                  names'[l] = names[l] /\ held'[l] = held[l] /\ WasHeld(l)' = WasHeld(l)
           /\ Published' \subseteq Published \cup {e} /\ Published \subseteq Published'
           /\ \A l \in Keys :
                  /\ Len(held'[l]) >= Len(held[l])
                  /\ \A i \in 1..Len(held[l]) : held'[l][i] = held[l][i]
  <1>1. /\ names' = [names EXCEPT ![k] = e] /\ names \in [Keys -> Entries]
        /\ held' = [held EXCEPT ![k] = Append(held[k], e)]
        /\ held \in [Keys -> Seq(Entries)] /\ held[k] \in Seq(Entries)
    BY DEF TypeOK, SetName
  <1>2. /\ held'[k] = Append(held[k], e)
        /\ \A l \in Keys \ {k} : held'[l] = held[l] /\ names'[l] = names[l]
        /\ names'[k] = e /\ names' \in [Keys -> Entries]
    BY <1>1
  <1>3. /\ held'[k] \in Seq(Entries) /\ held'[k] # << >> /\ held'[k][Len(held'[k])] = e
        /\ Len(held'[k]) = Len(held[k]) + 1
        /\ \A i \in 1..Len(held[k]) : held'[k][i] = held[k][i]
        /\ {held'[k][i] : i \in DOMAIN held'[k]} = {held[k][i] : i \in DOMAIN held[k]} \cup {e}
    <2>1. held'[k] = Append(held[k], e)
      BY <1>2
    <2>2. /\ held'[k] \in Seq(Entries) /\ held'[k] # << >> /\ held'[k][Len(held'[k])] = e
          /\ Len(held'[k]) = Len(held[k]) + 1
          /\ \A i \in 1..Len(held[k]) : held'[k][i] = held[k][i]
      BY <1>1, <2>1, Appended
    <2>3. DOMAIN held'[k] = DOMAIN held[k] \cup {Len(held'[k])} /\ DOMAIN held[k] = 1..Len(held[k])
      BY <1>1, <2>2
    <2>4. {held'[k][i] : i \in DOMAIN held'[k]} = {held[k][i] : i \in DOMAIN held[k]} \cup {e}
      BY <2>2, <2>3
    <2> QED
      BY <2>2, <2>4
  <1>4. held' \in [Keys -> Seq(Entries)]
    BY <1>1, <1>2, <1>3
  <1>5. WasHeld(k)' = WasHeld(k) \cup {e}
    BY <1>3 DEF WasHeld
  <1>9. \A l \in Keys \ {k} : WasHeld(l)' = WasHeld(l)
    BY <1>2 DEF WasHeld
  <1>6. \A l \in Keys : WasHeld(l) \subseteq WasHeld(l)' /\ WasHeld(l)' \subseteq WasHeld(l) \cup {e}
    BY <1>5, <1>9
  <1>7. Published' \subseteq Published \cup {e} /\ Published \subseteq Published'
    BY <1>6 DEF Published
  <1>8. \A l \in Keys :
            /\ Len(held'[l]) >= Len(held[l])
            /\ \A i \in 1..Len(held[l]) : held'[l][i] = held[l][i]
    <2> TAKE l \in Keys
    <2>1. CASE l = k
      BY <1>1, <1>3, <2>1
    <2>2. CASE l # k
      BY <1>1, <1>2, <2>2
    <2> QED
      BY <2>1, <2>2
  <1> QED
    BY <1>2, <1>3, <1>4, <1>5, <1>7, <1>8, <1>9

(* A file some key holds, or held, has been published. *)
LEMMA HeldIsPublished ==
    ASSUME NEW k \in Keys
    PROVE  WasHeld(k) \subseteq Published
  BY DEF Published

(* What is at a key has been held there.                                   *)
LEMMA NamesAreHeld ==
    ASSUME TypeOK, NEW k \in Keys, KeyInv(k)
    PROVE  names[k] \in WasHeld(k) /\ Len(held[k]) \in 1..Len(held[k])
  <1>1. held[k] \in Seq(Entries) /\ held[k] # << >>
    BY DEF TypeOK, KeyInv
  <1>2. Len(held[k]) \in 1..Len(held[k]) /\ DOMAIN held[k] = 1..Len(held[k])
    BY <1>1
  <1> QED
    BY <1>2 DEF KeyInv, WasHeld

------------------------------------------------------------------------------
(* What a step leaves alone.                                               *)

(* A caller that the step is none of.                                      *)
Same(c) ==
    /\ pc'[c] = pc[c] /\ call'[c] = call[c] /\ nth'[c] = nth[c] /\ began'[c] = began[c]
    /\ file'[c] = file[c] /\ got'[c] = got[c] /\ info'[c] = info[c] /\ reply'[c] = reply[c]

(* What was at a key, or flushed, does not cease to have been.             *)
Remembered ==
    /\ \A k \in Keys : Len(held'[k]) >= Len(held[k]) /\ WasHeld(k) \subseteq WasHeld(k)'
    /\ Published \subseteq Published'
    /\ synced \subseteq synced'

(* A caller whose call stays the same, or ends, keeps the invariant of its
   call. *)
LEMMA CallFrame ==
    ASSUME TypeOK, TypeOK', NEW c \in Callers, CallInv(c), Remembered,
           pc'[c] \in {pc[c], "idle"}, call'[c] = call[c], began'[c] = began[c]
    PROVE  CallInv(c)'
  <1>1. call[c] = NoCall \/ call[c].key \in Keys
    BY DEF TypeOK, AllCalls, PutCalls
  <1>2. call[c] # NoCall => began'[c] \in 1..Len(held'[call[c].key])
    BY <1>1 DEF TypeOK, CallInv, Remembered
  <1> QED
    BY <1>2 DEF CallInv, PutPCs, GetPCs, DeletePCs, Writing

(* A writer that does not move keeps its invariant while its file is left
   alone. *)
LEMMA WriterFrame ==
    ASSUME TypeOK, NEW c \in Callers, WriterInv(c), Remembered, Same(c),
           pc[c] = "syncdir" => call[c] \in PutCalls,
           pc[c] \in Writing => bytes'[Mine(c)] = bytes[Mine(c)] /\ Mine(c) \notin Published' \ Published
    PROVE  WriterInv(c)'
  <1>1. Mine(c)' = Mine(c)
    BY DEF Mine, Same
  <1>2. pc[c] \in Writing => Mine(c) \notin Published'
    BY DEF WriterInv
  <1>3. AsDeclared(c)' <=> AsDeclared(c)
    BY DEF AsDeclared, Same
  <1>4. Idle(c)' <=> Idle(c)
    BY DEF Idle, Same
  <1>5. pc[c] = "syncdir" => Mine(c) \in WasHeld(call[c].key)'
    <2>1. ASSUME pc[c] = "syncdir"
          PROVE  Mine(c) \in {held'[call[c].key][i] : i \in DOMAIN held'[call[c].key]}
      BY <2>1 DEF WriterInv, Remembered, PutCalls, WasHeld
    <2> QED
      BY <2>1 DEF WasHeld, Same
  <1>7. /\ pc'[c] \in Writing =>
              /\ (file[c] = Mine(c))'
              /\ (\A n \in DOMAIN bytes[Mine(c)] : bytes[Mine(c)][n] = Mine(c))'
              /\ (Len(bytes[Mine(c)]) <= call[c].length)'
              /\ (Mine(c) \notin Published)'
    <2> DEFINE m == Mine(c)
               Copied(file_, bytes_, length, published) ==
                   /\ file_ = m
                   /\ \A n \in DOMAIN bytes_ : bytes_[n] = m
                   /\ Len(bytes_) <= length
                   /\ m \notin published
    <2>1. pc[c] \in Writing => Copied(file[c], bytes[m], call[c].length, Published)
      BY DEF WriterInv
    <2>2. pc'[c] \in Writing => Copied(file'[c], bytes'[m], call'[c].length, Published')
      BY <1>2, <2>1 DEF Same
    <2> QED
      BY <1>1, <2>2
  <1>8. pc'[c] \in {"sync", "rename"} => (Len(bytes[Mine(c)]) = call[c].length /\ AsDeclared(c))'
    BY <1>1, <1>3 DEF WriterInv, Same, Writing
  <1>9. pc'[c] = "rename" => (Mine(c) \in synced)'
    BY <1>1 DEF WriterInv, Same, Remembered
  <1>10. pc'[c] \in {"rename", "syncdir"} => (info[c] = call[c].length)'
    BY DEF WriterInv, Same
  <1>11. pc'[c] = "syncdir" => (Mine(c) \in WasHeld(call[c].key))'
    BY <1>1, <1>5 DEF Same, WasHeld
  <1>12. (Idle(c) /\ call[c].op = "put" /\ reply[c] = "ok" => info[c] = call[c].length)'
    BY <1>4 DEF WriterInv, Same
  <1>13. pc'[c] = "abort" => reply'[c] \in {"cancelled", "failed", "invalid", "exists"}
    BY DEF WriterInv, Same
  <1> QED
    BY <1>7, <1>8, <1>9, <1>10, <1>11, <1>12, <1>13 DEF WriterInv

(* A reader that does not move keeps its invariant. *)
LEMMA ReaderFrame ==
    ASSUME NEW c \in Callers, ReaderInv(c), Remembered, Same(c)
    PROVE  ReaderInv(c)'
  BY DEF ReaderInv, Remembered, Same

(* A caller that has nothing open has nothing to prove of it.              *)
LEMMA NothingOpen ==
    ASSUME NEW c \in Callers, pc'[c] \in {"idle", "mkdir", "temp", "lstat", "open", "stat"} \cup DeletePCs,
           pc'[c] = "idle" => ~(call'[c] # NoCall /\ call'[c].op = "put" /\ reply'[c] = "ok"),
           pc'[c] \in {"lstat", "open"} => got'[c] = << >>
    PROVE  WriterInv(c)' /\ ReaderInv(c)'
  BY DEF WriterInv, ReaderInv, Writing, DeletePCs, Idle

(* A key whose name, past and disk entry stay keeps its invariant. *)
LEMMA KeyFrame ==
    ASSUME NEW k \in Keys, KeyInv(k),
           held'[k] = held[k], names'[k] = names[k], disk'[k] = disk[k]
    PROVE  KeyInv(k)'
  BY DEF KeyInv, WasHeld

(* The objects of a key, when what becomes of their callers is known.      *)
Answers(c) ==
    \/ nth'[c] > nth[c]
    \/ /\ nth'[c] = nth[c] /\ call'[c] = call[c]
       /\ \/ pc'[c] = pc[c] /\ reply'[c] = reply[c]
          \/ pc'[c] = "idle" /\ reply'[c] \in {"ok", "killed"}
          \/ pc[c] \notin {"idle", "syncdir"}

(* The number of a caller's call never falls, and the call changes only with
   it. *)
LEMMA AnswersType ==
    ASSUME TypeOK, TypeOK', NEW c \in Callers, Answers(c)
    PROVE  /\ nth[c] \in Nat /\ nth'[c] \in Nat /\ nth'[c] >= nth[c]
           /\ nth'[c] = nth[c] => call'[c] = call[c]
  BY AssetStoreAssumption DEF TypeOK, Answers

(* An object at a key remains one while its bytes and the calls' past remain. *)
LEMMA ObjectKept ==
    ASSUME TypeOK, TypeOK', NEW k \in Keys, NEW f \in Files, ObjectAt(f, k), Remembered,
           bytes'[f] = bytes[f], \A c \in Callers : Answers(c)
    PROVE  ObjectAt(f, k)'
  <1>1. bytes'[f] = Whole(f) /\ f \in synced'
    BY DEF ObjectAt, Remembered
  <1>2. ASSUME f.by \in Callers
        PROVE  /\ f.nth <= nth'[f.by]
               /\ f.nth = nth'[f.by] =>
                      /\ call'[f.by] \in PutCalls
                      /\ call'[f.by].key = k
                      /\ f = Mine(f.by)'
                      /\ AsDeclared(f.by)'
                      /\ \/ pc'[f.by] = "syncdir"
                         \/ pc'[f.by] = "idle" /\ reply'[f.by] \in {"ok", "killed"}
    <2> DEFINE c == f.by
    <2>1. /\ nth[c] \in Nat /\ nth'[c] \in Nat /\ nth'[c] >= nth[c]
          /\ nth'[c] = nth[c] => call'[c] = call[c]
      BY <1>2, AnswersType
    <2>2. f.nth \in Nat /\ f.nth <= nth[c]
      BY <1>2, AssetStoreAssumption DEF ObjectAt, Files
    <2>3. f.nth <= nth'[c]
      BY <2>1, <2>2
    <2>4. ASSUME f.nth = nth'[c]
          PROVE  /\ nth'[c] = nth[c] /\ call'[c] = call[c]
                 /\ call[c] \in PutCalls /\ call[c].key = k /\ f = Mine(c) /\ AsDeclared(c)
                 /\ pc[c] = "syncdir" \/ (pc[c] = "idle" /\ reply[c] \in {"ok", "killed"})
      <3>1. nth'[c] = nth[c] /\ f.nth = nth[c]
        BY <2>1, <2>2, <2>4
      <3>2. /\ call[c] \in PutCalls /\ call[c].key = k /\ f = Mine(c) /\ AsDeclared(c)
            /\ pc[c] = "syncdir" \/ (pc[c] = "idle" /\ reply[c] \in {"ok", "killed"})
        BY <1>2, <3>1 DEF ObjectAt
      <3> QED
        BY <2>1, <3>1, <3>2
    <2>5. ASSUME f.nth = nth'[c]
          PROVE  \/ pc'[c] = "syncdir"
                 \/ pc'[c] = "idle" /\ reply'[c] \in {"ok", "killed"}
      BY <1>2, <2>1, <2>4, <2>5 DEF Answers
    <2>6. ASSUME f.nth = nth'[c]
          PROVE  f = Mine(c)' /\ AsDeclared(c)'
      BY <2>4, <2>6 DEF Mine, AsDeclared
    <2> HIDE DEF c
    <2> QED
      BY <2>3, <2>4, <2>5, <2>6 DEF c
  <1> QED
    BY <1>1, <1>2 DEF ObjectAt

(* A key that nothing new is published at keeps the invariant of its objects. *)
LEMMA ObjectFrame ==
    ASSUME TypeOK, TypeOK', NEW k \in Keys, ObjectInv(k),
           WasHeld(k)' \cap Files \subseteq WasHeld(k), Remembered,
           \A f \in WasHeld(k) \cap Files : bytes'[f] = bytes[f],
           \A c \in Callers : Answers(c)
    PROVE  ObjectInv(k)'
  BY ObjectKept DEF ObjectInv

(* The files of a caller that has gone no way back.                        *)
LEMMA FileFrame ==
    ASSUME TypeOK, TypeOK', NEW f \in Files, FileInv(f), synced \subseteq synced',
           bytes'[f] = bytes[f] \/ (bytes'[f] = << >> /\ f \notin synced),
           f.by \in Callers =>
               /\ nth'[f.by] >= nth[f.by]
               /\ nth'[f.by] = nth[f.by] /\ pc'[f.by] \in {"mkdir", "temp"} =>
                      pc[f.by] \in {"mkdir", "temp"}
    PROVE  FileInv(f)'
  <1>1. f.nth \in Nat /\ (f.by \in Callers => nth[f.by] \in Nat /\ nth'[f.by] \in Nat)
    BY AssetStoreAssumption DEF TypeOK, Files
  <1>2. f.by = Operator => bytes'[f] = Whole(f) /\ f \in synced'
    BY DEF FileInv
  <1>3. ASSUME f.by \in Callers
        PROVE  /\ f.nth > nth'[f.by] => bytes'[f] = << >>
               /\ f.nth = nth'[f.by] /\ pc'[f.by] \in {"mkdir", "temp"} => bytes'[f] = << >>
    BY <1>1, <1>3 DEF FileInv
  <1> QED
    BY <1>2, <1>3 DEF FileInv

------------------------------------------------------------------------------
(* A directory of the tree is there for as long as a Put writes in it.     *)
LEMMA WritersAreInPlace ==
    NamesFormATree <=>
        /\ \A k \in Keys : names[k] # Absent => InPlace(names, k)
        /\ \A c \in Callers : pc[c] \in Writing => InPlace(names, call[c].key)
  <1> DEFINE Dirs == Directories(names)
             Dir(c) == ParentOf[call[c].key]
  <1>1. ASSUME \A temp \in Temporaries : temp[2] \in Dirs, NEW c \in Callers, pc[c] \in Writing
        PROVE  Dir(c) \in Dirs
    <2>1. << file[c], Dir(c) >> \in Temporaries
      BY <1>1 DEF Temporaries
    <2> HIDE DEF Dirs, Dir
    <2> QED
      BY <1>1, <2>1
  <1>2. ASSUME \A c \in Callers : pc[c] \in Writing => Dir(c) \in Dirs, NEW temp \in Temporaries
        PROVE  temp[2] \in Dirs
    <2>1. PICK c \in Callers : pc[c] \in Writing /\ temp = << file[c], Dir(c) >>
      BY <1>2 DEF Temporaries
    <2> HIDE DEF Dirs, Dir
    <2> QED
      BY <1>2, <2>1
  <1> QED
    BY <1>1, <1>2 DEF NamesFormATree, InPlace

(* The tree of names after a step: every name, and every writer, in place. *)
LEMMA WritersStayInPlace ==
    NamesFormATree' <=>
        /\ \A k \in Keys : names'[k] # Absent => InPlace(names', k)
        /\ \A c \in Callers : pc'[c] \in Writing => InPlace(names', call'[c].key)
  <1> DEFINE Dirs == Directories(names')
             Dir(c) == ParentOf[call'[c].key]
  <1>1. ASSUME \A temp \in Temporaries' : temp[2] \in Dirs, NEW c \in Callers, pc'[c] \in Writing
        PROVE  Dir(c) \in Dirs
    <2>1. << file'[c], Dir(c) >> \in Temporaries'
      BY <1>1 DEF Temporaries
    <2> HIDE DEF Dirs, Dir
    <2> QED
      BY <1>1, <2>1
  <1>2. ASSUME \A c \in Callers : pc'[c] \in Writing => Dir(c) \in Dirs, NEW temp \in Temporaries'
        PROVE  temp[2] \in Dirs
    <2>1. PICK c \in Callers : pc'[c] \in Writing /\ temp = << file'[c], Dir(c) >>
      BY <1>2 DEF Temporaries
    <2> HIDE DEF Dirs, Dir
    <2> QED
      BY <1>2, <2>1
  <1> QED
    BY <1>1, <1>2 DEF NamesFormATree, InPlace

(* What is at a key in the tree is what an lstat of it finds.              *)
LEMMA Found ==
    ASSUME NamesFormATree, NEW k \in Keys
    PROVE  At(names, k) = names[k]
  BY DEF NamesFormATree, At

(* The directory of a key is itself at the top.                            *)
LEMMA Parents ==
    ASSUME NEW k \in Keys, ParentOf[k] # Root
    PROVE  ParentOf[k] \in Keys /\ ParentOf[ParentOf[k]] = Root /\ ParentOf[k] # k
  BY AssetStoreAssumption

(* A change of an entry that is neither a directory with something in it   *)
(* nor below what is not one keeps the tree a tree.                        *)
LEMMA TreeKept ==
    ASSUME NamesFormATree, NEW k \in Keys, NEW e, TypeOK,
           names' = [names EXCEPT ![k] = e], pc' = pc \/ \A c \in Callers : pc'[c] \in Writing => pc[c] \in Writing,
           call' = call,
           e # Absent => InPlace(names, k),
           names[k] = Directory => e = Directory \/ IsEmpty(k)
    PROVE  NamesFormATree'
  <1>1. names \in [Keys -> Entries]
    BY DEF TypeOK
  <1>2. \A l \in Keys : InPlace(names, l) /\ ~InPlace(names', l) => ParentOf[l] = k /\ IsEmpty(k)
    BY <1>1 DEF InPlace, Directories
  <1>3. \A l \in Keys : names'[l] # Absent => InPlace(names', l)
    <2> SUFFICES ASSUME NEW l \in Keys, names'[l] # Absent, ~InPlace(names', l)
                 PROVE  FALSE
      OBVIOUS
    <2>1. InPlace(names, l)
      BY <1>1 DEF NamesFormATree
    <2>2. ParentOf[l] = k /\ IsEmpty(k)
      BY <1>2, <2>1
    <2>3. names[l] = Absent
      BY <2>2 DEF IsEmpty
    <2>4. l # k
      BY <2>2, Parents, AssetStoreAssumption
    <2> QED
      BY <1>1, <2>3, <2>4
  <1>4. \A c \in Callers : pc'[c] \in Writing => InPlace(names', call'[c].key)
    <2> SUFFICES ASSUME NEW c \in Callers, pc'[c] \in Writing, ~InPlace(names', call[c].key)
                 PROVE  FALSE
      OBVIOUS
    <2>1. pc[c] \in Writing
      OBVIOUS
    <2>2. InPlace(names, call[c].key)
      BY <2>1, WritersAreInPlace
    <2>3. << file[c], ParentOf[call[c].key] >> \in Temporaries
      BY <2>1 DEF Temporaries
    <2>4. ParentOf[call[c].key] = k /\ IsEmpty(k)
      BY <1>1, <2>2 DEF InPlace, Directories
    <2> QED
      BY <2>3, <2>4 DEF IsEmpty
  <1> QED
    BY <1>3, <1>4, WritersStayInPlace

------------------------------------------------------------------------------
(* The invariant.                                                          *)

(* The invariant holds initially. *)
LEMMA InitAInv == Init => AInv
  <1> SUFFICES ASSUME Init
               PROVE  AInv
    OBVIOUS
  <1> USE DEF Init
  <1>1. names \in [Keys -> Entries]
    BY AssetStoreAssumption
  <1>2. \A f \in Files : Whole(f) \in Seq(Files)
    BY WholeIsWritten
  <1>3. << >> \in Seq(Files)
    OBVIOUS
  <1>4. bytes \in [Files -> Seq(Files)]
    BY <1>2, <1>3
  <1>5. held \in [Keys -> Seq(Entries)]
    BY <1>1
  <1>6. TypeOK
    <2>1. \A c \in Callers : pc[c] = "idle" /\ "idle" \in PCs /\ "idle" \notin Writing
      BY DEF PCs, Writing
    <2>2. "none" \in Replies /\ SizeUnknown \in Sizes /\ NoFile \in Entries
      BY DEF Replies, Sizes, NoFile, Entries
    <2>3. /\ pc \in [Callers -> PCs] /\ reply \in [Callers -> Replies]
          /\ info \in [Callers -> Sizes] /\ file \in [Callers -> Entries]
          /\ got \in [Callers -> Seq(Files)]
      BY <1>3, <2>1, <2>2
    <2>4. /\ nth \in [Callers -> 0..MaxCalls] /\ began \in [Callers -> Nat]
          /\ placed \in 0..MaxPlaced /\ cuts \in 0..MaxCuts
      BY AssetStoreAssumption
    <2> QED
      BY <1>1, <1>4, <1>5, <2>1, <2>3, <2>4 DEF TypeOK
  <1>7. NamesFormATree
    BY AssetStoreAssumption, WritersAreInPlace DEF Writing, InPlace, Directories
  <1>8. \A c \in Callers : CallInv(c) /\ WriterInv(c) /\ ReaderInv(c)
    BY DEF CallInv, WriterInv, ReaderInv, PutPCs, GetPCs, DeletePCs, Writing, Idle
  <1>9. ASSUME NEW k \in Keys
        PROVE  KeyInv(k) /\ ObjectInv(k)
    <2>1. held[k] = << names[k] >>
      OBVIOUS
    <2>2. WasHeld(k) = {names[k]}
      BY <2>1 DEF WasHeld
    <2>3. KeyInv(k)
      BY <2>1, <2>2 DEF KeyInv
    <2>4. \A f \in WasHeld(k) \cap Files : f.by = Operator
      BY <2>2, AssetStoreAssumption
    <2> QED
      BY <2>3, <2>4, AssetStoreAssumption DEF ObjectInv, ObjectAt
  <1>10. \A f \in Files : FileInv(f)
    BY AssetStoreAssumption DEF FileInv
  <1> QED
    BY <1>6, <1>7, <1>8, <1>9, <1>10 DEF AInv

(* A step of a caller that leaves the file system alone.                   *)
LEMMA QuietStep ==
    ASSUME AInv, TypeOK', NEW c \in Callers, UNCHANGED << fsVars, callVars >>,
           pc[c] \notin {"idle", "syncdir"},
           \A d \in Callers \ {c} : Same(d),
           pc'[c] \in {"mkdir", "temp"} => pc[c] \in {"mkdir", "temp"},
           pc'[c] \in Writing => InPlace(names, call[c].key),
           CallInv(c)', WriterInv(c)', ReaderInv(c)'
    PROVE  AInv'
  <1> USE DEF AInv
  <1>1. /\ \A k \in Keys : WasHeld(k)' = WasHeld(k)
        /\ Published' = Published
    BY DEF fsVars, WasHeld, Published
  <1>2. Remembered
    BY <1>1 DEF Remembered, fsVars, TypeOK
  <1>3. \A d \in Callers \ {c} : CallInv(d)' /\ WriterInv(d)' /\ ReaderInv(d)'
    <2> TAKE d \in Callers \ {c}
    <2>1. Same(d)
      OBVIOUS
    <2>2. CallInv(d)'
      BY <1>2, <2>1, CallFrame DEF Same
    <2>3. WriterInv(d)'
      BY <1>1, <1>2, <2>1, WriterFrame DEF fsVars, CallInv, PutPCs
    <2>4. ReaderInv(d)'
      BY <1>2, <2>1, ReaderFrame
    <2> QED
      BY <2>2, <2>3, <2>4
  <1>4. \A d \in Callers : Answers(d)
    BY DEF Answers, Same, callVars
  <1>5. \A k \in Keys : KeyInv(k)' /\ ObjectInv(k)'
    BY <1>1, <1>2, <1>4, KeyFrame, ObjectFrame DEF fsVars
  <1>6. \A f \in Files : FileInv(f)'
    <2> TAKE f \in Files
    <2>1. f.by \in Callers =>
               /\ nth'[f.by] >= nth[f.by]
               /\ nth'[f.by] = nth[f.by] /\ pc'[f.by] \in {"mkdir", "temp"} =>
                      pc[f.by] \in {"mkdir", "temp"}
      <3>1. nth' = nth /\ \A d \in Callers : nth[d] \in Nat
        BY AssetStoreAssumption DEF TypeOK, callVars
      <3>2. \A d \in Callers : pc'[d] \in {"mkdir", "temp"} => pc[d] \in {"mkdir", "temp"}
        BY DEF Same
      <3> QED
        BY <3>1, <3>2
    <2> QED
      BY <2>1, FileFrame DEF fsVars
  <1>7. NamesFormATree'
    BY WritersAreInPlace, WritersStayInPlace DEF fsVars, callVars, Same
  <1> QED
    BY <1>3, <1>5, <1>6, <1>7

------------------------------------------------------------------------------
(* A caller learns something, or gives up.                                 *)
LEMMA QuietTypes ==
    ASSUME TypeOK, NEW c \in Callers, UNCHANGED << fsVars, callVars, boundVars >>,
           NEW label \in PCs, Goto(c, label),
           file' \in [Callers -> Entries], got' \in [Callers -> Seq(Files)],
           info' \in [Callers -> Sizes], reply' \in [Callers -> Replies],
           cancelled' \in [Callers -> BOOLEAN],
           \A d \in Callers \ {c} : file'[d] = file[d],
           label \in Writing /\ call[c].size # SizeUnknown =>
               Len(bytes[file'[c]]) <= call[c].size + 1
    PROVE  TypeOK' /\ pc'[c] = label /\ \A d \in Callers \ {c} : pc'[d] = pc[d]
  <1>1. /\ pc' \in [Callers -> PCs] /\ pc'[c] = label
        /\ \A d \in Callers \ {c} : pc'[d] = pc[d]
    BY DEF TypeOK, Goto
  <1>2. \A d \in Callers : pc'[d] \in Writing /\ call'[d].size # SizeUnknown =>
               Len(bytes'[file'[d]]) <= call'[d].size + 1
    <2> TAKE d \in Callers
    <2>1. CASE d = c
      BY <1>1, <2>1 DEF callVars, fsVars
    <2>2. CASE d # c
      BY <1>1, <2>2 DEF TypeOK, callVars, fsVars
    <2> QED
      BY <2>1, <2>2
  <1> QED
    BY <1>1, <1>2 DEF TypeOK, fsVars, callVars, boundVars

(* A call that returns without touching the file system keeps the invariant. *)
LEMMA Returns ==
    ASSUME AInv, NEW c \in Callers, UNCHANGED << fsVars, callVars, boundVars, file, got >>,
           pc[c] \notin {"idle", "syncdir"}, NEW why \in Replies, Return(c, why),
           why = "ok" => pc[c] \notin PutPCs,
           info' \in [Callers -> Sizes], \A d \in Callers \ {c} : info'[d] = info[d]
    PROVE  AInv'
  <1>1. /\ reply' \in [Callers -> Replies] /\ reply'[c] = why
        /\ \A d \in Callers \ {c} : reply'[d] = reply[d]
        /\ cancelled' \in [Callers -> BOOLEAN]
        /\ file' \in [Callers -> Entries] /\ got' \in [Callers -> Seq(Files)]
    BY DEF Return, AInv, TypeOK
  <1>2. "idle" \in PCs /\ "idle" \notin Writing /\ Goto(c, "idle")
    BY DEF Return, PCs, Writing
  <1>3. /\ TypeOK' /\ pc'[c] = "idle"
        /\ \A d \in Callers \ {c} : pc'[d] = pc[d]
    BY <1>1, <1>2, QuietTypes DEF AInv
  <1>4. \A d \in Callers \ {c} : Same(d)
    BY <1>1, <1>3 DEF Same, callVars
  <1>5. Remembered
    BY DEF Remembered, fsVars, AInv, TypeOK, WasHeld, Published
  <1>6. CallInv(c)'
    BY <1>3, <1>5, CallFrame DEF AInv, callVars
  <1>7. pc[c] \notin PutPCs => call[c].op # "put"
    BY <1>2 DEF AInv, TypeOK, CallInv, PCs, PutPCs, GetPCs, DeletePCs
  <1>8. WriterInv(c)' /\ ReaderInv(c)'
    BY <1>1, <1>3, <1>7, NothingOpen DEF callVars
  <1> QED
    BY <1>2, <1>3, <1>4, <1>6, <1>8, QuietStep DEF AInv

(* So does a Put that gives up and goes on to remove its temporary file. *)
LEMMA Aborts ==
    ASSUME AInv, NEW c \in Callers,
           UNCHANGED << fsVars, callVars, boundVars, file, got, info, cancelled >>,
           pc[c] \in Writing, NEW why \in {"cancelled", "failed", "invalid", "exists"},
           Abort(c, why)
    PROVE  AInv'
  <1>1. /\ reply' \in [Callers -> Replies]
        /\ reply'[c] = why /\ \A d \in Callers \ {c} : reply'[d] = reply[d]
    BY DEF Abort, AInv, TypeOK, Replies
  <1>2. "abort" \in PCs /\ "abort" \in Writing /\ Goto(c, "abort")
    BY DEF Abort, PCs, Writing
  <1>3. /\ TypeOK' /\ pc'[c] = "abort"
        /\ \A d \in Callers \ {c} : pc'[d] = pc[d]
    BY <1>1, <1>2, QuietTypes DEF AInv, TypeOK
  <1>4. \A d \in Callers \ {c} : Same(d)
    BY <1>1, <1>3 DEF Same, callVars
  <1>5. Mine(c)' = Mine(c) /\ Published' = Published
    BY DEF Mine, callVars, fsVars, Published, WasHeld
  <1>6. CallInv(c)'
    BY <1>3 DEF AInv, CallInv, PutPCs, GetPCs, DeletePCs, Writing, callVars, fsVars
  <1>7. WriterInv(c)' /\ ReaderInv(c)'
    <2>1. /\ file[c] = Mine(c)
          /\ \A n \in DOMAIN bytes[Mine(c)] : bytes[Mine(c)][n] = Mine(c)
          /\ Len(bytes[Mine(c)]) <= call[c].length
          /\ Mine(c) \notin Published
      BY DEF AInv, WriterInv
    <2> QED
      BY <1>1, <1>3, <1>5, <2>1 DEF WriterInv, ReaderInv, Writing, fsVars, callVars, Idle
  <1>8. InPlace(names, call[c].key)
    BY WritersAreInPlace DEF AInv
  <1>9. pc[c] \notin {"idle", "syncdir"}
    BY DEF Writing
  <1> QED
    BY <1>2, <1>3, <1>4, <1>6, <1>7, <1>8, <1>9, QuietStep

(* The same for a step from one system call to the next.                   *)
LEMMA Proceeds ==
    ASSUME AInv, NEW c \in Callers,
           UNCHANGED << fsVars, callVars, boundVars, got, info, reply, cancelled >>,
           NEW from, NEW label \in PCs, pc[c] = from, Goto(c, label),
           file' \in [Callers -> Entries], \A d \in Callers \ {c} : file'[d] = file[d],
           from \notin {"idle", "syncdir"}, 
           label \in Writing /\ call[c].size # SizeUnknown =>
               Len(bytes[file'[c]]) <= call[c].size + 1,
           label \in {"mkdir", "temp"} => from \in {"mkdir", "temp"},
           label \in Writing => InPlace(names, call[c].key),
           CallInv(c)', WriterInv(c)', ReaderInv(c)'
    PROVE  AInv'
  <1>1. /\ TypeOK' /\ pc'[c] = label
        /\ \A d \in Callers \ {c} : pc'[d] = pc[d]
    BY QuietTypes DEF AInv, TypeOK
  <1>2. \A d \in Callers \ {c} : Same(d)
    BY <1>1 DEF Same, callVars
  <1> QED
    BY <1>1, <1>2, QuietStep

------------------------------------------------------------------------------
(* The system calls that leave the file system alone.                      *)

(* So does a step that meets the closed root. *)
LEMMA ClosedRoot ==
    ASSUME AInv, NEW c \in Callers, OnClosedRoot(c), UNCHANGED << callVars, boundVars >>,
           pc[c] \notin {"idle", "syncdir"}
    PROVE  AInv'
  <1>1. "failed" \in Replies /\ info' = info
    BY DEF Replies, OnClosedRoot
  <1> QED
    BY <1>1, Returns DEF OnClosedRoot, AInv, TypeOK

(* The look at the key before a Put keeps the invariant. *)
LEMMA LstatKeeps == ASSUME AInv, NEW c \in Callers, Lstat(c) PROVE AInv'
  <1> USE DEF Lstat
  <1>0. pc[c] \notin {"idle", "syncdir"}
    OBVIOUS
  <1>1. CASE OnClosedRoot(c)
    BY <1>0, <1>1, ClosedRoot
  <1>2. CASE /\ Goto(c, "open")
             /\ UNCHANGED << fsVars, file, got, info, reply, cancelled >>
    <2>1. "open" \in PCs /\ pc'[c] = "open"
      BY <1>2 DEF PCs, Goto, AInv, TypeOK
    <2>2. CallInv(c)'
      BY <1>2, <2>1 DEF AInv, CallInv, PutPCs, GetPCs, DeletePCs, Writing, callVars, fsVars
    <2>3. WriterInv(c)' /\ ReaderInv(c)'
      BY <1>2, <2>1, NothingOpen DEF AInv, ReaderInv
    <2> QED
      BY <1>2, <2>1, <2>2, <2>3, Proceeds DEF Writing, AInv, TypeOK
  <1>3. CASE /\ Return(c, "notfound")
             /\ UNCHANGED << fsVars, file, got, info >>
    <2>1. "notfound" \in Replies /\ info' \in [Callers -> Sizes]
      BY <1>3 DEF Replies, AInv, TypeOK
    <2> QED
      BY <1>0, <1>3, <2>1, Returns
  <1> QED
    BY <1>1, <1>2, <1>3

(* So does the check of the entry found there. *)
LEMMA CheckKeeps == ASSUME AInv, NEW c \in Callers, Check(c) PROVE AInv'
  <1> USE DEF Check
  <1>0. pc[c] \notin {"idle", "syncdir"}
    OBVIOUS
  <1>1. CASE OnClosedRoot(c)
    BY <1>0, <1>1, ClosedRoot
  <1>2. CASE /\ Goto(c, "remove")
             /\ UNCHANGED << fsVars, file, got, info, reply, cancelled >>
    <2>1. "remove" \in PCs /\ pc'[c] = "remove"
      BY <1>2 DEF PCs, Goto, AInv, TypeOK
    <2>2. CallInv(c)'
      BY <1>2, <2>1 DEF AInv, CallInv, PutPCs, GetPCs, DeletePCs, Writing, callVars, fsVars
    <2>3. WriterInv(c)' /\ ReaderInv(c)'
      BY <2>1, NothingOpen DEF DeletePCs
    <2> QED
      BY <1>2, <2>1, <2>2, <2>3, Proceeds DEF Writing, AInv, TypeOK
  <1>3. CASE /\ Return(c, "notfound")
             /\ UNCHANGED << fsVars, file, got, info >>
    <2>1. "notfound" \in Replies /\ info' \in [Callers -> Sizes]
      BY <1>3 DEF Replies, AInv, TypeOK
    <2> QED
      BY <1>0, <1>3, <2>1, Returns
  <1> QED
    BY <1>1, <1>2, <1>3

(* An object that an lstat or an open has found was published.             *)
LEMMA FoundIsPublished ==
    ASSUME AInv, NEW k \in Keys
    PROVE  /\ At(names, k) \in Files => At(names, k) \in Published
           /\ Opened(k) \in Files => Opened(k) \in Published
  <1>1. \A l \in Keys : At(names, l) \in Files => At(names, l) \in Published
    BY NamesAreHeld, Found, HeldIsPublished DEF AInv
  <1> QED
    BY <1>1, AssetStoreAssumption DEF Opened

(* A published file is on the disk and has all its bytes. *)
LEMMA PublishedAreWhole ==
    ASSUME AInv, NEW f \in Published \cap Files
    PROVE  bytes[f] = Whole(f) /\ Len(bytes[f]) = f.length /\ f.length \in Sizes /\ f \in synced
  <1>1. bytes[f] = Whole(f) /\ f \in synced
    BY DEF AInv, ObjectInv, ObjectAt, Published
  <1> QED
    BY <1>1, WholeIsWritten DEF Sizes

(* Stat keeps the invariant. *)
LEMMA StatKeeps == ASSUME AInv, NEW c \in Callers, Stat(c) PROVE AInv'
  <1> USE DEF Stat
  <1>0. pc[c] \notin {"idle", "syncdir"} /\ pc[c] \notin PutPCs /\ call[c].key \in Keys
    BY DEF AInv, CallInv, PutPCs, Writing
  <1>1. CASE OnClosedRoot(c)
    BY <1>0, <1>1, ClosedRoot
  <1>2. CASE /\ At(names, call[c].key) \in Files
             /\ info' = [info EXCEPT ![c] = Len(bytes[At(names, call[c].key)])]
             /\ Return(c, "ok")
             /\ UNCHANGED << fsVars, file, got >>
    <2>1. "ok" \in Replies
      BY DEF Replies
    <2>2. Len(bytes[At(names, call[c].key)]) \in Sizes
      BY <1>0, <1>2, FoundIsPublished, PublishedAreWhole
    <2>3. info' \in [Callers -> Sizes] /\ \A d \in Callers \ {c} : info'[d] = info[d]
      BY <1>2, <2>2 DEF AInv, TypeOK
    <2> QED
      BY <1>0, <1>2, <2>1, <2>3, Returns
  <1>3. CASE /\ Return(c, "notfound")
             /\ UNCHANGED << fsVars, file, got, info >>
    <2>1. "notfound" \in Replies /\ info' \in [Callers -> Sizes]
      BY <1>3 DEF Replies, AInv, TypeOK
    <2> QED
      BY <1>0, <1>3, <2>1, Returns
  <1> QED
    BY <1>1, <1>2, <1>3

(* Opening an object keeps the invariant. *)
LEMMA OpenKeeps == ASSUME AInv, NEW c \in Callers, Open(c) PROVE AInv'
  <1> USE DEF Open
  <1>0. pc[c] \notin {"idle", "syncdir"} /\ call[c].key \in Keys
    BY DEF AInv, CallInv, GetPCs
  <1>1. CASE OnClosedRoot(c)
    BY <1>0, <1>1, ClosedRoot
  <1>2. CASE /\ Opened(call[c].key) \in Files
             /\ file' = [file EXCEPT ![c] = Opened(call[c].key)]
             /\ Goto(c, "read")
             /\ UNCHANGED << fsVars, got, info, reply, cancelled >>
    <2>1. "read" \in PCs /\ pc'[c] = "read" /\ "read" \notin Writing \cup {"mkdir", "temp"}
      BY <1>2 DEF PCs, Goto, AInv, TypeOK, Writing
    <2>2. CallInv(c)'
      BY <1>2, <2>1 DEF AInv, CallInv, PutPCs, GetPCs, DeletePCs, Writing, callVars, fsVars
    <2>3. WriterInv(c)'
      BY <2>1 DEF WriterInv, Writing, Idle
    <2>4. file' \in [Callers -> Entries] /\ file'[c] = Opened(call[c].key)
          /\ \A d \in Callers \ {c} : file'[d] = file[d]
      BY <1>2, Kinds DEF AInv, TypeOK
    <2>5. got'[c] = << >>
      BY <1>2 DEF AInv, ReaderInv
    <2>6. ReaderInv(c)'
      <3>1. Published' = Published
        BY <1>2 DEF fsVars, Published, WasHeld
      <3>2. file'[c] \in Published \cap Files /\ file'[c].length \in Nat
        BY <1>0, <1>2, <2>4, FoundIsPublished, WholeIsWritten
      <3> QED
        BY <2>1, <2>5, <3>1, <3>2 DEF ReaderInv
    <2> QED
      BY <1>0, <1>2, <2>1, <2>2, <2>3, <2>4, <2>6, Proceeds
  <1>3. CASE /\ Return(c, "notfound")
             /\ UNCHANGED << fsVars, file, got, info >>
    <2>1. "notfound" \in Replies /\ info' \in [Callers -> Sizes]
      BY <1>3 DEF Replies, AInv, TypeOK
    <2> QED
      BY <1>0, <1>3, <2>1, Returns
  <1> QED
    BY <1>1, <1>2, <1>3

------------------------------------------------------------------------------
(* Reading it does. *)
LEMMA ReadKeeps == ASSUME AInv, NEW c \in Callers, Read(c) PROVE AInv'
  <1> DEFINE there == bytes[file[c]]
  <1>0. /\ pc[c] \notin {"idle", "syncdir"} /\ pc[c] \notin PutPCs /\ pc[c] = "read"
        /\ UNCHANGED << fsVars, callVars, boundVars, file, info >>
    BY DEF Read, Observed, PutPCs, Writing
  <1>1. /\ file[c] \in Files /\ file[c] \in Published /\ there = Whole(file[c])
        /\ \A n \in DOMAIN got[c] : got[c][n] = file[c]
        /\ Len(got[c]) <= file[c].length
        /\ got[c] \in Seq(Files)
    BY <1>0, PublishedAreWhole DEF AInv, ReaderInv, TypeOK
  <1>2. ASSUME NEW why \in {"cancelled", "read"}, Return(c, why), UNCHANGED got
        PROVE  AInv'
    <2>1. why \in Replies /\ why # "ok" /\ info' \in [Callers -> Sizes]
      BY <1>0 DEF Replies, AInv, TypeOK
    <2> QED
      BY <1>0, <1>2, <2>1, Returns
  <1>3. ASSUME /\ Len(got[c]) < Len(there)
               /\ got' = [got EXCEPT ![c] = Append(got[c], there[Len(got[c]) + 1])]
               /\ UNCHANGED << pc, reply, cancelled >>
        PROVE  AInv'
    <2>1. file[c].length \in Nat /\ Len(there) = file[c].length
      BY <1>1, WholeIsWritten
    <2>2. there[Len(got[c]) + 1] = file[c]
      BY <1>1, <1>3, <2>1 DEF Whole
    <2>3. got'[c] = Append(got[c], file[c])
      BY <1>3, <2>2 DEF AInv, TypeOK
    <2>4. /\ got'[c] \in Seq(Files) /\ Len(got'[c]) <= file[c].length
          /\ \A n \in DOMAIN got'[c] : got'[c][n] = file[c]
      <3>1. got'[c] \in Seq(Files) /\ Len(got'[c]) = Len(got[c]) + 1
        BY <1>1, <2>3
      <3>2. \A n \in 1..Len(got'[c]) : got'[c][n] = file[c]
        BY <1>1, <2>3, <3>1
      <3> QED
        BY <1>1, <1>3, <2>1, <3>1, <3>2
    <2>5. got' \in [Callers -> Seq(Files)] /\ \A d \in Callers \ {c} : got'[d] = got[d]
      BY <1>3, <2>3, <2>4 DEF AInv, TypeOK
    <2>6. TypeOK'
      BY <1>0, <1>3, <2>5 DEF AInv, TypeOK, fsVars, callVars, boundVars
    <2>7. \A d \in Callers \ {c} : Same(d)
      BY <1>0, <1>3, <2>5 DEF Same, callVars
    <2>8. CallInv(c)'
      BY <1>0, <1>3 DEF AInv, CallInv, callVars, fsVars, GetPCs, PutPCs, DeletePCs, Writing
    <2>9. Published' = Published
      BY <1>0 DEF fsVars, Published, WasHeld
    <2>10. ReaderInv(c)'
      BY <1>0, <1>1, <1>3, <2>4, <2>9 DEF ReaderInv
    <2>11. WriterInv(c)'
      BY <1>0, <1>3 DEF WriterInv, PutPCs, Writing, Idle
    <2> QED
      BY <1>0, <1>3, <2>6, <2>7, <2>8, <2>10, <2>11, QuietStep DEF PutPCs
  <1> QED
    BY <1>2, <1>3 DEF Read

(* The end of the copy keeps the invariant: the file has the length that was
   asked for. *)
LEMMA EndCopyKeeps == ASSUME AInv, NEW c \in Callers, EndCopy(c) PROVE AInv'
  <1> DEFINE broken == call[c].fails /\ ~IsCut(c)
             length == Len(bytes[file[c]])
  <1>0. /\ pc[c] = "copy" /\ pc[c] \in Writing
        /\ UNCHANGED << fsVars, file, got, info, callVars, boundVars >>
    BY DEF EndCopy, Writing
  <1>1. ASSUME NEW why \in {"failed", "invalid"}, Abort(c, why)
        PROVE  AInv'
    <2>1. cancelled' = cancelled
      BY <1>1 DEF Abort
    <2> QED
      BY <1>0, <1>1, <2>1, Aborts
  <1>2. ASSUME ~broken, call[c].size \in {SizeUnknown, length}, IsAtEnd(c), Goto(c, "sync"),
               UNCHANGED << reply, cancelled >>
        PROVE  AInv'
    <2>1. "sync" \in PCs /\ "sync" \in Writing /\ pc'[c] = "sync"
      BY <1>2 DEF PCs, Writing, Goto, AInv, TypeOK
    <2>2. /\ call[c] \in PutCalls /\ file[c] = Mine(c) /\ file[c] \in Files
          /\ length \in Nat /\ call[c].length \in Nat
      <3>1. call[c] \in PutCalls /\ file[c] = Mine(c)
        BY <1>0 DEF AInv, CallInv, WriterInv, PutPCs, Writing
      <3>2. file[c] \in Files
        BY <3>1, MineIsAFile DEF AInv
      <3>3. bytes[file[c]] \in Seq(Files)
        BY <3>2 DEF AInv, TypeOK
      <3>4. call[c].length \in Nat
        BY <3>1, AssetStoreAssumption DEF PutCalls
      <3> QED
        BY <3>1, <3>2, <3>3, <3>4
    <2>3. length = call[c].length /\ AsDeclared(c)
      <3>1. ~IsCut(c)
        BY <1>2, <2>2 DEF IsCut
      <3> QED
        BY <1>2, <2>2, <3>1 DEF IsAtEnd, AsDeclared
    <2>4. /\ Mine(c)' = Mine(c) /\ Published' = Published
          /\ AsDeclared(c)' <=> AsDeclared(c)
      BY <1>0 DEF Mine, callVars, fsVars, Published, WasHeld, AsDeclared
    <2>5. CallInv(c)'
      BY <1>0, <2>1, <2>2 DEF AInv, CallInv, PutPCs, GetPCs, DeletePCs, callVars, fsVars, Writing
    <2>6. WriterInv(c)'
      <3>1. /\ file[c] = Mine(c)
            /\ \A n \in DOMAIN bytes[Mine(c)] : bytes[Mine(c)][n] = Mine(c)
            /\ Len(bytes[Mine(c)]) <= call[c].length
            /\ Mine(c) \notin Published
        BY <1>0 DEF AInv, WriterInv
      <3> QED
        BY <1>0, <2>1, <2>2, <2>3, <2>4, <3>1 DEF WriterInv, fsVars, callVars, Idle
    <2>7. ReaderInv(c)'
      BY <2>1 DEF ReaderInv
    <2>8. /\ call[c].size # SizeUnknown => Len(bytes[file[c]]) <= call[c].size + 1
          /\ InPlace(names, call[c].key)
      BY <1>0, WritersAreInPlace DEF AInv, TypeOK
    <2> QED
      BY <1>0, <1>2, <2>1, <2>5, <2>6, <2>7, <2>8, Proceeds DEF AInv, TypeOK
  <1> QED
    BY <1>1, <1>2 DEF EndCopy

(* A new temporary file, which no other call has, keeps the invariant. *)
LEMMA CreateTempKeeps == ASSUME AInv, NEW c \in Callers, CreateTemp(c) PROVE AInv'
  <1> DEFINE key == call[c].key
  <1>0. /\ pc[c] = "temp" /\ UNCHANGED << callVars, boundVars >>
        /\ pc[c] \notin {"idle", "syncdir"}
    BY DEF CreateTemp
  <1>1. CASE OnClosedRoot(c)
    BY <1>0, <1>1, ClosedRoot
  <1>2. ASSUME InPlace(names, key), file' = [file EXCEPT ![c] = Mine(c)], Goto(c, "copy"),
               UNCHANGED << fsVars, got, info, reply, cancelled >>
        PROVE  AInv'
    <2>1. "copy" \in PCs /\ "copy" \in Writing /\ pc'[c] = "copy"
      BY <1>2 DEF PCs, Writing, Goto, AInv, TypeOK
    <2>2. call[c] \in PutCalls /\ Mine(c) \in Files /\ Mine(c).by = c /\ Mine(c).nth = nth[c]
      BY <1>0, MineIsAFile DEF AInv, CallInv, PutPCs
    <2>3. bytes[Mine(c)] = << >>
      BY <1>0, <2>2 DEF AInv, FileInv
    <2>4. Mine(c) \notin Published
      BY <1>0, <2>2 DEF AInv, ObjectInv, ObjectAt, Published
    <2>5. file' \in [Callers -> Entries] /\ file'[c] = Mine(c)
          /\ \A d \in Callers \ {c} : file'[d] = file[d]
      BY <1>2, <2>2, Kinds DEF AInv, TypeOK
    <2>6. Mine(c)' = Mine(c) /\ Published' = Published
      BY <1>0, <1>2 DEF Mine, callVars, fsVars, Published, WasHeld
    <2>7. call[c].length \in Nat /\ call[c].size \in Nat \cup {SizeUnknown}
      BY <2>2, AssetStoreAssumption DEF PutCalls, Sizes
    <2>8. CallInv(c)'
      BY <1>0, <1>2, <2>1, <2>2 DEF AInv, CallInv, PutPCs, GetPCs, DeletePCs, callVars, fsVars, Writing
    <2>9. WriterInv(c)'
      BY <1>0, <1>2, <2>1, <2>3, <2>4, <2>5, <2>6, <2>7 DEF WriterInv, fsVars, callVars, Idle
    <2>10. ReaderInv(c)'
      BY <2>1 DEF ReaderInv
    <2>11. call[c].size # SizeUnknown => Len(bytes[file'[c]]) <= call[c].size + 1
      BY <2>3, <2>5, <2>7
    <2> QED
      BY <1>0, <1>2, <2>1, <2>5, <2>8, <2>9, <2>10, <2>11, Proceeds
  <1>3. ASSUME NEW why \in {"notfound", "exists"}, Return(c, why), UNCHANGED << fsVars, file, got, info >>
        PROVE  AInv'
    <2>1. why \in Replies /\ why # "ok" /\ info' \in [Callers -> Sizes]
      BY <1>3 DEF Replies, AInv, TypeOK
    <2> QED
      BY <1>0, <1>3, <2>1, Returns
  <1> QED
    BY <1>1, <1>2, <1>3 DEF CreateTemp

------------------------------------------------------------------------------
------------------------------------------------------------------------------
(* The steps that change an entry of the directory to what no caller wrote. *)
LEMMA EntrySet ==
    ASSUME AInv, TypeOK', NamesFormATree',
           NEW k \in Keys, NEW e \in Entries, e \in Files => e.by = Operator, SetName(k, e),
           UNCHANGED << bytes, synced, callVars >>,
           \A l \in Keys : disk'[l] = disk[l] \/ (disk'[l] = Absent /\ names[l] = Absent),
           \A c \in Callers :
               \/ Same(c)
               \/ /\ CallInv(c)' /\ WriterInv(c)' /\ ReaderInv(c)'
                  /\ pc[c] \notin {"idle", "syncdir"}
                  /\ pc'[c] \in {"mkdir", "temp"} => pc[c] \in {"mkdir", "temp"}
    PROVE  AInv'
  <1> USE DEF AInv
  <1>1. /\ names'[k] = e
        /\ held'[k] # << >> /\ held'[k][Len(held'[k])] = e
        /\ WasHeld(k)' = WasHeld(k) \cup {e}
        /\ \A l \in Keys \ {k} :
               names'[l] = names[l] /\ held'[l] = held[l] /\ WasHeld(l)' = WasHeld(l)
        /\ Published' \subseteq Published \cup {e} /\ Published \subseteq Published'
        /\ \A l \in Keys : Len(held'[l]) >= Len(held[l])
    BY NameSet
  <1>2. Remembered
    BY <1>1 DEF Remembered
  <1>3. ASSUME NEW d \in Callers
        PROVE  CallInv(d)' /\ WriterInv(d)' /\ ReaderInv(d)'
    <2>1. SUFFICES ASSUME Same(d)
                   PROVE  CallInv(d)' /\ WriterInv(d)' /\ ReaderInv(d)'
      OBVIOUS
    <2>2. pc[d] \in Writing => Mine(d) \in Files /\ Mine(d).by = d
      BY MineIsAFile DEF CallInv, PutPCs
    <2>3. pc[d] \in Writing => Mine(d) # e
      BY <2>2, AssetStoreAssumption
    <2>4. CallInv(d)'
      BY <1>2, <2>1, CallFrame DEF Same
    <2>5. WriterInv(d)'
      BY <1>1, <1>2, <2>1, <2>3, WriterFrame DEF CallInv, PutPCs
    <2>6. ReaderInv(d)'
      BY <1>2, <2>1, ReaderFrame
    <2> QED
      BY <2>4, <2>5, <2>6
  <1>4. \A d \in Callers : Answers(d)
    BY DEF Answers, Same, callVars
  <1>5. ASSUME NEW l \in Keys
        PROVE  KeyInv(l)'
    <2>1. names[l] \in WasHeld(l) /\ disk[l] \in WasHeld(l)
      BY NamesAreHeld DEF KeyInv
    <2>2. disk'[l] \in WasHeld(l)'
      BY <1>1, <2>1
    <2>3. held'[l] # << >> /\ held'[l][Len(held'[l])] = names'[l]
      BY <1>1 DEF KeyInv
    <2> QED
      BY <2>2, <2>3 DEF KeyInv
  <1>6. ASSUME NEW l \in Keys
        PROVE  ObjectInv(l)'
    <2>1. CASE l # k \/ e \in WasHeld(k) \/ e \notin Files
      <3>1. WasHeld(l)' \cap Files \subseteq WasHeld(l)
        BY <1>1, <2>1
      <3> QED
        BY <1>2, <1>4, <3>1, ObjectFrame
    <2>2. CASE l = k /\ e \in Files
      <3>1. bytes'[e] = Whole(e) /\ e \in synced' /\ e.by \notin Callers
        BY <2>2, AssetStoreAssumption DEF FileInv
      <3>2. \A f \in WasHeld(k) \cap Files : ObjectAt(f, k)'
        BY <1>2, <1>4, ObjectKept DEF ObjectInv
      <3>3. ObjectAt(e, k)'
        BY <3>1 DEF ObjectAt
      <3> QED
        BY <1>1, <2>2, <3>2, <3>3 DEF ObjectInv
    <2> QED
      BY <2>1, <2>2
  <1>7. ASSUME NEW f \in Files
        PROVE  FileInv(f)'
    <2>1. nth' = nth /\ (f.by \in Callers => nth[f.by] \in Nat)
      BY AssetStoreAssumption DEF TypeOK, callVars
    <2>2. \A d \in Callers : pc'[d] \in {"mkdir", "temp"} => pc[d] \in {"mkdir", "temp"}
      BY DEF Same
    <2> QED
      BY <2>1, <2>2, FileFrame
  <1> QED
    BY <1>3, <1>5, <1>6, <1>7

(* The operator's and a Put's mkdir.                                       *)
LEMMA DirectoryMade ==
    ASSUME AInv, NEW k \in Keys, names[k] = Absent, MakeDirectory(k)
    PROVE  /\ disk' \in [Keys -> Entries]
           /\ \A l \in Keys : disk'[l] = disk[l] \/ (disk'[l] = Absent /\ names[l] = Absent)
  <1>1. disk' = [l \in Keys |-> IF ParentOf[l] = k THEN Absent ELSE disk[l]]
    BY DEF MakeDirectory
  <1>2. \A l \in Keys : ParentOf[l] = k => names[l] = Absent
    BY Kinds, AssetStoreAssumption DEF AInv, NamesFormATree, InPlace, Directories
  <1> QED
    BY <1>1, <1>2, Kinds DEF AInv, TypeOK

------------------------------------------------------------------------------
(* Making the directories on the way to the key keeps the names a tree. *)
LEMMA MkdirAllKeeps == ASSUME AInv, NEW c \in Callers, MkdirAll(c) PROVE AInv'
  <1> DEFINE dir == ParentOf[call[c].key]
  <1>0. /\ pc[c] = "mkdir" /\ pc[c] \notin {"idle", "syncdir"}
        /\ UNCHANGED << callVars, boundVars >>
    BY DEF MkdirAll
  <1>1. call[c] \in PutCalls /\ dir \in Keys /\ ParentOf[dir] = Root
    BY <1>0, Parents DEF AInv, CallInv, PutPCs, PutCalls
  <1>2. ASSUME Goto(c, "temp")
        PROVE  /\ "temp" \in PCs /\ "temp" \notin Writing /\ pc'[c] = "temp"
               /\ \A d \in Callers \ {c} : pc'[d] = pc[d]
               /\ pc' \in [Callers -> PCs]
               /\ \A d \in Callers : pc'[d] \in Writing => pc[d] \in Writing
               /\ CallInv(c) /\ Remembered => CallInv(c)'
               /\ WriterInv(c)' /\ ReaderInv(c)'
    <2>1. "temp" \in PCs /\ "temp" \notin Writing \cup GetPCs \cup DeletePCs
      BY DEF PCs, Writing, GetPCs, DeletePCs
    <2>2. pc'[c] = "temp" /\ pc' \in [Callers -> PCs] /\ \A d \in Callers \ {c} : pc'[d] = pc[d]
      BY <1>2, <2>1 DEF Goto, AInv, TypeOK
    <2>3. WriterInv(c)' /\ ReaderInv(c)'
      BY <2>2, NothingOpen
    <2>4. ASSUME Remembered, CallInv(c)
          PROVE  CallInv(c)'
      <3>1. began[c] \in Nat /\ Len(held[call[c].key]) <= Len(held'[call[c].key]) /\ call[c].key \in Keys
        BY <1>1, <2>4 DEF Remembered, AInv, TypeOK, PutCalls
      <3>2. call[c] # NoCall => began[c] \in 1..Len(held'[call[c].key])
        BY <2>4, <3>1 DEF CallInv, AInv, TypeOK
      <3> QED
        BY <1>0, <1>1, <2>1, <2>2, <3>2 DEF CallInv, callVars
    <2> QED
      BY <2>1, <2>2, <2>3, <2>4
  <1>3. CASE OnClosedRoot(c)
    BY <1>0, <1>3, ClosedRoot
  <1>4. ASSUME names[dir] = Absent, MakeDirectory(dir), Goto(c, "temp"),
               UNCHANGED << bytes, synced, orphans, closed, file, got, info, reply, cancelled >>
        PROVE  AInv'
    <2>1. SetName(dir, Directory) /\ Directory \in Entries /\ Directory \notin Files
      BY <1>4, Kinds DEF MakeDirectory
    <2>2. /\ names' \in [Keys -> Entries] /\ held' \in [Keys -> Seq(Entries)]
          /\ disk' \in [Keys -> Entries]
          /\ \A l \in Keys : disk'[l] = disk[l] \/ (disk'[l] = Absent /\ names[l] = Absent)
      BY <1>1, <1>4, <2>1, NameSet, DirectoryMade DEF AInv
    <2>3. TypeOK'
      BY <1>0, <1>2, <1>4, <2>2 DEF AInv, TypeOK, callVars, boundVars
    <2>4. NamesFormATree'
      <3>1. names' = [names EXCEPT ![dir] = Directory] /\ call' = call
        BY <1>0, <2>1 DEF SetName, callVars
      <3>2. InPlace(names, dir)
        BY <1>1 DEF InPlace, Directories
      <3>3. names[dir] # Directory
        BY <1>4, AssetStoreAssumption
      <3> QED
        BY <1>1, <1>2, <1>4, <3>1, <3>2, <3>3, TreeKept DEF AInv
    <2>5. Remembered
      BY <1>1, <1>4, <2>1, NameSet DEF Remembered, AInv
    <2>6. \A d \in Callers \ {c} : Same(d)
      BY <1>0, <1>2, <1>4 DEF Same, callVars
    <2>7. UNCHANGED << bytes, synced, callVars >>
      BY <1>0, <1>4
    <2>8. CallInv(c)' /\ WriterInv(c)' /\ ReaderInv(c)'
      BY <1>2, <1>4, <2>5 DEF AInv
    <2> HIDE DEF dir
    <2>9. \A d \in Callers :
              \/ Same(d)
              \/ /\ CallInv(d)' /\ WriterInv(d)' /\ ReaderInv(d)'
                 /\ pc[d] \notin {"idle", "syncdir"}
                 /\ pc'[d] \in {"mkdir", "temp"} => pc[d] \in {"mkdir", "temp"}
      BY <1>0, <2>6, <2>8
    <2> QED
      BY <1>1, <2>1, <2>2, <2>3, <2>4, <2>7, <2>9, EntrySet
  <1>5. ASSUME Goto(c, "temp"), UNCHANGED << fsVars, file, got, info, reply, cancelled >>
        PROVE  AInv'
    <2>1. Remembered
      BY <1>5 DEF Remembered, fsVars, AInv, TypeOK, WasHeld, Published
    <2> QED
      BY <1>0, <1>2, <1>5, <2>1, Proceeds DEF AInv, TypeOK
  <1>6. ASSUME Return(c, "exists"), UNCHANGED << fsVars, file, got, info >>
        PROVE  AInv'
    <2>1. "exists" \in Replies /\ info' \in [Callers -> Sizes]
      BY <1>6 DEF Replies, AInv, TypeOK
    <2> QED
      BY <1>0, <1>6, <2>1, Returns
  <1> QED
    BY <1>3, <1>4, <1>5, <1>6 DEF MkdirAll

(* The removal of a name, of a file or an empty directory, keeps the
   invariant. *)
LEMMA RemoveKeeps == ASSUME AInv, NEW c \in Callers, Remove(c) PROVE AInv'
  <1> DEFINE key == call[c].key
  <1>0. /\ pc[c] = "remove" /\ pc[c] \notin {"idle", "syncdir"}
        /\ UNCHANGED << callVars, boundVars >>
        /\ call[c] \in [op: {"delete"}, key: Keys]
    BY DEF Remove, AInv, CallInv, DeletePCs
  <1>1. CASE OnClosedRoot(c)
    BY <1>0, <1>1, ClosedRoot
  <1>2. ASSUME Removable(key), file' = [file EXCEPT ![c] = names[key]], SetName(key, Absent),
               Return(c, "ok"), UNCHANGED << disk, bytes, synced, orphans, closed, got, info >>
        PROVE  AInv'
    <2>1. "idle" \in PCs /\ "ok" \in Replies /\ "idle" \notin Writing \cup PutPCs \cup GetPCs \cup DeletePCs
      BY DEF PCs, Replies, Writing, PutPCs, GetPCs, DeletePCs
    <2>2. /\ pc' \in [Callers -> PCs] /\ pc'[c] = "idle" /\ \A d \in Callers \ {c} : pc'[d] = pc[d]
          /\ reply' \in [Callers -> Replies] /\ \A d \in Callers \ {c} : reply'[d] = reply[d]
          /\ cancelled' \in [Callers -> BOOLEAN]
      BY <1>2, <2>1 DEF Return, Goto, AInv, TypeOK
    <2>3. names[key] \in Entries /\ key \in Keys /\ Absent \in Entries /\ Absent \notin Files
      BY <1>0, Kinds DEF AInv, TypeOK
    <2>4. names' \in [Keys -> Entries] /\ held' \in [Keys -> Seq(Entries)]
      BY <1>2, <2>3, NameSet DEF AInv
    <2>5. file' \in [Callers -> Entries] /\ \A d \in Callers \ {c} : file'[d] = file[d]
      BY <1>2, <2>3 DEF AInv, TypeOK
    <2>6. \A d \in Callers : pc'[d] \in Writing => pc[d] \in Writing /\ file'[d] = file[d]
      BY <2>1, <2>2, <2>5
    <2>7. TypeOK'
      BY <1>0, <1>2, <2>2, <2>4, <2>5, <2>6 DEF AInv, TypeOK, callVars, boundVars
    <2>8. NamesFormATree'
      <3>1. names' = [names EXCEPT ![key] = Absent] /\ call' = call
        BY <1>0, <1>2 DEF SetName, callVars
      <3>2. names[key] = Directory => IsEmpty(key)
        BY <1>2, <2>3, Found DEF Removable, AInv
      <3> QED
        BY <2>3, <2>6, <3>1, <3>2, TreeKept DEF AInv
    <2>9. Remembered
      BY <1>2, <2>3, NameSet DEF Remembered, AInv
    <2>10. \A d \in Callers \ {c} : Same(d)
      BY <1>0, <1>2, <2>2, <2>5 DEF Same, callVars
    <2>11. CallInv(c)'
      BY <1>0, <2>2, <2>7, <2>9, CallFrame DEF AInv, callVars
    <2>12. WriterInv(c)' /\ ReaderInv(c)'
      BY <1>0, <2>2, NothingOpen DEF callVars
    <2>13. UNCHANGED << bytes, synced, callVars >> /\ disk' = disk
      BY <1>0, <1>2
    <2>14. \A d \in Callers :
              \/ Same(d)
              \/ /\ CallInv(d)' /\ WriterInv(d)' /\ ReaderInv(d)'
                 /\ pc[d] \notin {"idle", "syncdir"}
                 /\ pc'[d] \in {"mkdir", "temp"} => pc[d] \in {"mkdir", "temp"}
      BY <1>0, <2>2, <2>10, <2>11, <2>12
    <2> HIDE DEF key
    <2> QED
      BY <1>2, <2>3, <2>7, <2>8, <2>13, <2>14, EntrySet
  <1>3. ASSUME NEW why \in {"notfound", "failed"}, Return(c, why), UNCHANGED << fsVars, file, got, info >>
        PROVE  AInv'
    <2>1. why \in Replies /\ why # "ok" /\ info' \in [Callers -> Sizes]
      BY <1>3 DEF Replies, AInv, TypeOK
    <2> QED
      BY <1>0, <1>3, <2>1, Returns
  <1> QED
    BY <1>1, <1>2, <1>3 DEF Remove

(* What an operator places in a free place keeps the invariant. *)
LEMMA OperatorPlacesKeeps == ASSUME AInv, OperatorPlaces PROVE AInv'
  <1> PICK put \in Placed :
          /\ InPlace(names, put[1])
          /\ names[put[1]] # put[2]
          /\ names[put[1]] = Directory => put[2] = Absent /\ IsEmpty(put[1])
          /\ \/ /\ put[2] = Directory
                /\ names[put[1]] = Absent
                /\ MakeDirectory(put[1])
             \/ /\ put[2] # Directory
                /\ SetName(put[1], put[2])
                /\ disk' = disk
    BY DEF OperatorPlaces
  <1> DEFINE k == put[1]
             e == put[2]
  <1>1. k \in Keys /\ e \in Entries /\ (e \in Files => e.by = Operator)
    BY AssetStoreAssumption
  <1>2. /\ placed' \in 0..MaxPlaced
        /\ UNCHANGED << bytes, synced, orphans, closed, pc, file, got, info, reply, cancelled,
                        callVars, cuts >>
    BY AssetStoreAssumption DEF OperatorPlaces, AInv, TypeOK
  <1>3. /\ SetName(k, e)
        /\ disk' \in [Keys -> Entries]
        /\ \A l \in Keys : disk'[l] = disk[l] \/ (disk'[l] = Absent /\ names[l] = Absent)
    <2>1. CASE e = Directory /\ names[k] = Absent /\ MakeDirectory(k)
      BY <1>1, <2>1, DirectoryMade DEF MakeDirectory
    <2>2. CASE SetName(k, e) /\ disk' = disk
      BY <2>2 DEF AInv, TypeOK
    <2> QED
      BY <2>1, <2>2
  <1>4. names' \in [Keys -> Entries] /\ held' \in [Keys -> Seq(Entries)]
    BY <1>1, <1>3, NameSet DEF AInv
  <1>5. TypeOK'
    BY <1>2, <1>3, <1>4 DEF AInv, TypeOK, callVars
  <1>6. NamesFormATree'
    <2>1. names' = [names EXCEPT ![k] = e] /\ call' = call /\ pc' = pc
      BY <1>2, <1>3 DEF SetName, callVars
    <2> QED
      BY <1>1, <2>1, TreeKept DEF AInv
  <1>7. \A d \in Callers : Same(d)
    BY <1>2 DEF Same, callVars
  <1> HIDE DEF k, e
  <1> QED
    BY <1>1, <1>2, <1>3, <1>5, <1>6, <1>7, EntrySet

------------------------------------------------------------------------------
------------------------------------------------------------------------------
(* The steps that leave every entry of the directory as it is.             *)
LEMMA EntriesStay ==
    ASSUME AInv, TypeOK', UNCHANGED << names, held >>, synced \subseteq synced',
           \A k \in Keys : disk'[k] \in {disk[k], names[k]},
           \A f \in Files :
               \/ bytes'[f] = bytes[f]
               \/ /\ f \notin Published /\ f.by \in Callers
                  /\ f.nth = nth[f.by] /\ nth'[f.by] = nth[f.by]
                  /\ pc'[f.by] \notin {"mkdir", "temp"},
           \A d \in Callers :
               \/ /\ Same(d)
                  /\ pc[d] \in Writing => bytes'[Mine(d)] = bytes[Mine(d)]
               \/ /\ CallInv(d)' /\ WriterInv(d)' /\ ReaderInv(d)'
                  /\ Answers(d)
                  /\ pc'[d] \in Writing => pc[d] \in Writing /\ call'[d] = call[d]
                  /\ pc'[d] \in {"mkdir", "temp"} /\ nth'[d] = nth[d] => pc[d] \in {"mkdir", "temp"}
    PROVE  AInv'
  <1> USE DEF AInv
  <1>1. /\ \A k \in Keys : WasHeld(k)' = WasHeld(k)
        /\ Published' = Published
    BY DEF WasHeld, Published
  <1>2. Remembered
    BY <1>1 DEF Remembered, TypeOK
  <1>3. ASSUME NEW d \in Callers
        PROVE  CallInv(d)' /\ WriterInv(d)' /\ ReaderInv(d)'
    <2>1. SUFFICES ASSUME Same(d), pc[d] \in Writing => bytes'[Mine(d)] = bytes[Mine(d)]
                   PROVE  CallInv(d)' /\ WriterInv(d)' /\ ReaderInv(d)'
      OBVIOUS
    <2>2. CallInv(d)'
      BY <1>2, <2>1, CallFrame DEF Same
    <2>3. WriterInv(d)'
      BY <1>1, <1>2, <2>1, WriterFrame DEF CallInv, PutPCs
    <2>4. ReaderInv(d)'
      BY <1>2, <2>1, ReaderFrame
    <2> QED
      BY <2>2, <2>3, <2>4
  <1>4. \A d \in Callers : Answers(d)
    BY DEF Answers, Same
  <1>5. ASSUME NEW k \in Keys
        PROVE  KeyInv(k)' /\ ObjectInv(k)'
    <2>1. names[k] \in WasHeld(k) /\ disk[k] \in WasHeld(k)
      BY NamesAreHeld DEF KeyInv
    <2>2. disk'[k] \in WasHeld(k)'
      BY <1>1, <2>1
    <2>3. KeyInv(k)'
      BY <2>2 DEF KeyInv
    <2>4. \A f \in WasHeld(k) \cap Files : bytes'[f] = bytes[f]
      BY HeldIsPublished
    <2> QED
      BY <1>1, <1>2, <1>4, <2>3, <2>4, ObjectFrame
  <1>6. ASSUME NEW f \in Files
        PROVE  FileInv(f)'
    <2>1. ASSUME f.by \in Callers
          PROVE  /\ nth'[f.by] \in Nat /\ nth[f.by] \in Nat /\ nth'[f.by] >= nth[f.by]
                 /\ nth'[f.by] = nth[f.by] /\ pc'[f.by] \in {"mkdir", "temp"} =>
                        pc[f.by] \in {"mkdir", "temp"}
      <3>1. /\ nth'[f.by] \in Nat /\ nth[f.by] \in Nat /\ nth'[f.by] >= nth[f.by]
        BY <1>4, <2>1, AnswersType
      <3> QED
        BY <2>1, <3>1 DEF Same
    <2>2. CASE bytes'[f] = bytes[f]
      BY <2>1, <2>2, FileFrame
    <2>3. CASE /\ f.by \in Callers
               /\ f.nth = nth[f.by] /\ nth'[f.by] = nth[f.by]
               /\ pc'[f.by] \notin {"mkdir", "temp"}
      BY <2>1, <2>3, AssetStoreAssumption DEF FileInv
    <2> QED
      BY <2>2, <2>3
  <1>7. NamesFormATree'
    <2>1. \A d \in Callers : pc'[d] \in Writing => pc[d] \in Writing /\ call'[d] = call[d]
      BY DEF Same
    <2> QED
      BY <2>1, WritersAreInPlace, WritersStayInPlace
  <1> QED
    BY <1>3, <1>5, <1>6, <1>7

(* Writing one more buffer to the temporary file keeps the invariant. *)
LEMMA CopyBufferKeeps == ASSUME AInv, NEW c \in Callers, CopyBuffer(c) PROVE AInv'
  <1>0. /\ pc[c] = "copy" /\ pc[c] \in Writing
        /\ UNCHANGED << names, disk, synced, orphans, closed, held, file, got, info,
                        callVars, boundVars >>
    BY DEF CopyBuffer, Writing
  <1>1. ASSUME NEW why \in {"cancelled", "failed"}, Abort(c, why), UNCHANGED bytes
        PROVE  AInv'
    <2>1. cancelled' = cancelled
      BY <1>1 DEF Abort
    <2>2. UNCHANGED fsVars
      BY <1>0, <1>1 DEF fsVars
    <2> QED
      BY <1>0, <1>1, <2>1, <2>2, Aborts
  <1>2. ASSUME ~IsAtEnd(c), bytes' = [bytes EXCEPT ![file[c]] = Append(bytes[file[c]], Mine(c))],
               UNCHANGED << pc, reply, cancelled >>
        PROVE  AInv'
    <2> DEFINE m == Mine(c)
               old == bytes[m]
               new == bytes'[m]
    <2>1. /\ call[c] \in PutCalls /\ file[c] = m /\ m \in Files /\ m.by = c /\ m.nth = nth[c]
          /\ old \in Seq(Files) /\ call[c].length \in Nat
          /\ call[c].size \in Nat \cup {SizeUnknown} /\ bytes \in [Files -> Seq(Files)]
      <3>1. call[c] \in PutCalls /\ file[c] = m
        BY <1>0 DEF AInv, CallInv, WriterInv, PutPCs
      <3>2. m \in Files /\ m.by = c /\ m.nth = nth[c]
        BY <3>1, MineIsAFile DEF AInv
      <3>3. bytes \in [Files -> Seq(Files)]
        BY DEF AInv, TypeOK
      <3>4. call[c].length \in Nat /\ call[c].size \in Nat \cup {SizeUnknown}
        BY <3>1, AssetStoreAssumption DEF PutCalls, Sizes
      <3> HIDE DEF m
      <3> QED
        BY <3>1, <3>2, <3>3, <3>4
    <2>2. /\ \A n \in DOMAIN old : old[n] = m
          /\ Len(old) <= call[c].length
          /\ m \notin Published
      BY <1>0 DEF AInv, WriterInv
    <2>3. /\ Len(old) # call[c].length
          /\ call[c].size # SizeUnknown =>
                 Len(old) <= call[c].size + 1 /\ Len(old) # call[c].size + 1
      BY <1>0, <1>2, <2>1 DEF IsAtEnd, IsCut, AInv, TypeOK
    <2> HIDE DEF m
    <2>4. /\ new = Append(old, m) /\ \A f \in Files \ {m} : bytes'[f] = bytes[f]
      BY <1>2, <2>1 DEF m
    <2> HIDE DEF new
    <2>5. new \in Seq(Files) /\ Len(new) = Len(old) + 1
      BY <2>1, <2>4
    <2>6. \A n \in DOMAIN new : new[n] = m
      BY <2>1, <2>2, <2>4, <2>5
    <2> HIDE DEF old
    <2>7. Len(old) \in Nat
      BY <2>1 DEF old
    <2>8. bytes' \in [Files -> Seq(Files)]
      BY <1>2, <2>1, <2>4, <2>5 DEF m, new
    <2>9. \A d \in Callers \ {c} : pc[d] \in Writing => file[d] = Mine(d) /\ Mine(d) \in Files \ {m}
      <3> TAKE d \in Callers \ {c}
      <3>1. pc[d] \in Writing => file[d] = Mine(d) /\ Mine(d) \in Files /\ Mine(d).by = d
        BY MineIsAFile DEF AInv, CallInv, WriterInv, PutPCs
      <3> QED
        BY <2>1, <3>1
    <2>10. TypeOK'
      <3>1. \A d \in Callers : pc'[d] \in Writing /\ call'[d].size # SizeUnknown =>
                Len(bytes'[file'[d]]) <= call'[d].size + 1
        <4> TAKE d \in Callers
        <4>1. CASE d = c
          BY <1>0, <1>2, <2>1, <2>3, <2>5, <2>7, <4>1 DEF callVars, m, new
        <4>2. CASE d # c
          BY <1>0, <1>2, <2>4, <2>9, <4>2 DEF callVars, AInv, TypeOK
        <4> QED
          BY <4>1, <4>2
      <3> QED
        BY <1>0, <1>2, <2>8, <3>1 DEF AInv, TypeOK, callVars, boundVars
    <2>11. \A d \in Callers : Same(d)
      BY <1>0, <1>2 DEF Same, callVars
    <2>12. CallInv(c)' /\ ReaderInv(c)'
      <3>1. Remembered
        BY <1>0 DEF Remembered, AInv, TypeOK, WasHeld, Published
      <3> QED
        BY <1>0, <2>10, <2>11, <3>1, CallFrame, ReaderFrame DEF AInv, Same
    <2>13. WriterInv(c)'
      <3>1. Mine(c)' = m /\ Published' = Published
        BY <1>0 DEF m, Mine, callVars, Published, WasHeld
      <3>2. Len(new) <= call[c].length
        BY <2>1, <2>2, <2>3, <2>5, <2>7
      <3> QED
        BY <1>0, <1>2, <2>1, <2>2, <2>6, <3>1, <3>2 DEF WriterInv, Idle, callVars, new
    <2>14. \A f \in Files :
               \/ bytes'[f] = bytes[f]
               \/ /\ f \notin Published /\ f.by \in Callers
                  /\ f.nth = nth[f.by] /\ nth'[f.by] = nth[f.by]
                  /\ pc'[f.by] \notin {"mkdir", "temp"}
      BY <1>0, <1>2, <2>1, <2>2, <2>4 DEF callVars
    <2>15. Answers(c)
      BY <1>0, <2>11 DEF Answers, Same
    <2>16. \A d \in Callers :
               \/ /\ Same(d)
                  /\ pc[d] \in Writing => bytes'[Mine(d)] = bytes[Mine(d)]
               \/ /\ CallInv(d)' /\ WriterInv(d)' /\ ReaderInv(d)'
                  /\ Answers(d)
                  /\ pc'[d] \in Writing => pc[d] \in Writing /\ call'[d] = call[d]
                  /\ pc'[d] \in {"mkdir", "temp"} /\ nth'[d] = nth[d] => pc[d] \in {"mkdir", "temp"}
      BY <1>0, <1>2, <2>4, <2>9, <2>11, <2>12, <2>13, <2>15 DEF callVars
    <2> QED
      BY <1>0, <2>10, <2>14, <2>16, EntriesStay
  <1> QED
    BY <1>1, <1>2 DEF CopyBuffer

------------------------------------------------------------------------------
(* A call ends without a word about its object, or in its success.         *)
LEMMA CallEnds ==
    ASSUME AInv, NEW c \in Callers, NEW why \in Replies, Return(c, why), pc[c] # "idle",
           UNCHANGED << names, bytes, synced, held, file, got, info, callVars, boundVars >>,
           closed' \in BOOLEAN, orphans' \subseteq Files \X (Keys \cup {Root}),
           disk' \in [Keys -> Entries], \A k \in Keys : disk'[k] \in {disk[k], names[k]},
           pc[c] = "syncdir" => why \in {"ok", "killed"},
           pc[c] # "syncdir" => why # "ok"
    PROVE  AInv'
  <1>1. "idle" \in PCs /\ "idle" \notin Writing \cup PutPCs \cup GetPCs \cup DeletePCs
    BY DEF PCs, Writing, PutPCs, GetPCs, DeletePCs
  <1>2. /\ pc' \in [Callers -> PCs] /\ pc'[c] = "idle" /\ \A d \in Callers \ {c} : pc'[d] = pc[d]
        /\ reply' \in [Callers -> Replies] /\ reply'[c] = why
        /\ \A d \in Callers \ {c} : reply'[d] = reply[d]
        /\ cancelled' \in [Callers -> BOOLEAN]
    BY <1>1 DEF Return, Goto, AInv, TypeOK
  <1>3. \A d \in Callers : pc'[d] \in Writing => pc[d] \in Writing
    BY <1>1, <1>2
  <1>4. TypeOK'
    BY <1>2, <1>3 DEF AInv, TypeOK, callVars, boundVars
  <1>5. \A d \in Callers \ {c} : Same(d)
    BY <1>2 DEF Same, callVars
  <1>6. Remembered
    BY DEF Remembered, AInv, TypeOK, WasHeld, Published
  <1>7. CallInv(c)'
    BY <1>2, <1>4, <1>6, CallFrame DEF AInv, callVars
  <1>8. WriterInv(c)' /\ ReaderInv(c)'
    <2>1. ReaderInv(c)'
      BY <1>2 DEF ReaderInv
    <2>2. pc[c] = "syncdir" => info[c] = call[c].length
      BY DEF AInv, WriterInv
    <2>3. WriterInv(c)'
      BY <1>1, <1>2, <2>2 DEF WriterInv, Idle, callVars
    <2> QED
      BY <2>1, <2>3
  <1>9. Answers(c)
    BY <1>2 DEF Answers, callVars
  <1>10. \A d \in Callers :
             \/ /\ Same(d)
                /\ pc[d] \in Writing => bytes'[Mine(d)] = bytes[Mine(d)]
             \/ /\ CallInv(d)' /\ WriterInv(d)' /\ ReaderInv(d)'
                /\ Answers(d)
                /\ pc'[d] \in Writing => pc[d] \in Writing /\ call'[d] = call[d]
                /\ pc'[d] \in {"mkdir", "temp"} /\ nth'[d] = nth[d] => pc[d] \in {"mkdir", "temp"}
    BY <1>1, <1>2, <1>5, <1>7, <1>8, <1>9
  <1> QED
    BY <1>4, <1>10, EntriesStay

(* A writer's temporary file lies in the directory of its key. *)
LEMMA TemporariesAreFiles ==
    ASSUME AInv, NEW c \in Callers, pc[c] \in Writing
    PROVE  << file[c], ParentOf[call[c].key] >> \in Files \X (Keys \cup {Root})
  <1>1. call[c] \in PutCalls /\ file[c] = Mine(c)
    BY DEF AInv, CallInv, WriterInv, PutPCs
  <1>2. file[c] \in Files /\ call[c].key \in Keys
    BY <1>1, MineIsAFile DEF AInv, PutCalls
  <1> QED
    BY <1>2, AssetStoreAssumption

(* A killed caller leaves the invariant. *)
LEMMA KillKeeps == ASSUME AInv, NEW c \in Callers, Kill(c) PROVE AInv'
  <1>1. "killed" \in Replies /\ closed' \in BOOLEAN /\ disk' \in [Keys -> Entries] /\ disk' = disk
    BY DEF Kill, Replies, AInv, TypeOK
  <1>2. orphans' \subseteq Files \X (Keys \cup {Root})
    BY TemporariesAreFiles DEF Kill, AInv, TypeOK
  <1> QED
    BY <1>1, <1>2, CallEnds DEF Kill

(* Removing the temporary file keeps the invariant. *)
LEMMA RemoveTempKeeps == ASSUME AInv, NEW c \in Callers, RemoveTemp(c) PROVE AInv'
  <1>0. pc[c] = "abort" /\ pc[c] \in Writing
    BY DEF RemoveTemp, Writing
  <1>1. /\ reply[c] \in Replies /\ closed' \in BOOLEAN
        /\ disk' \in [Keys -> Entries] /\ disk' = disk
    BY DEF RemoveTemp, AInv, TypeOK
  <1>2. orphans' \subseteq Files \X (Keys \cup {Root})
    BY <1>0, TemporariesAreFiles DEF RemoveTemp, AInv, TypeOK
  <1>3. reply[c] # "ok"
    BY <1>0 DEF AInv, WriterInv
  <1> QED
    BY <1>0, <1>1, <1>2, <1>3, CallEnds DEF RemoveTemp

(* Syncing the directory after the rename keeps the invariant. *)
LEMMA SyncDirKeeps == ASSUME AInv, NEW c \in Callers, SyncDir(c) PROVE AInv'
  <1>1. /\ "ok" \in Replies /\ closed' \in BOOLEAN
        /\ orphans' \subseteq Files \X (Keys \cup {Root})
    BY DEF SyncDir, Replies, AInv, TypeOK
  <1>2. disk' \in [Keys -> Entries] /\ \A k \in Keys : disk'[k] \in {disk[k], names[k]}
    <2> DEFINE dir == ParentOf[call[c].key]
    <2>1. disk' = disk \/ disk' = [k \in Keys |-> IF ParentOf[k] = dir THEN names[k] ELSE disk[k]]
      BY DEF SyncDir
    <2> HIDE DEF dir
    <2> QED
      BY <2>1 DEF AInv, TypeOK
  <1> QED
    BY <1>1, <1>2, CallEnds DEF SyncDir

(* The rename, which publishes a whole and synced file, keeps the invariant. *)
LEMMA RenameKeeps == ASSUME AInv, NEW c \in Callers, Rename(c) PROVE AInv'
  <1> PICK key : key = call[c].key
    OBVIOUS
  <1> PICK m : m = Mine(c)
    OBVIOUS
  <1>0. /\ pc[c] = "rename" /\ pc[c] \in Writing
        /\ UNCHANGED << disk, bytes, synced, orphans, closed, file, got, info,
                        callVars, boundVars >>
    BY DEF Rename, Writing
  <1>1. ASSUME NEW why \in {"failed", "exists"}, Abort(c, why), UNCHANGED << names, held >>
        PROVE  AInv'
    <2>1. cancelled' = cancelled
      BY <1>1 DEF Abort
    <2>2. UNCHANGED fsVars
      BY <1>0, <1>1 DEF fsVars
    <2> QED
      BY <1>0, <1>1, <2>1, <2>2, Aborts
  <1>2. ASSUME names[key] # Directory, SetName(key, file[c]), Goto(c, "syncdir"),
               UNCHANGED << reply, cancelled >>
        PROVE  AInv'
    <2>1. /\ "syncdir" \in PCs /\ "syncdir" \in PutPCs
          /\ "syncdir" \notin Writing \cup GetPCs \cup DeletePCs
      BY DEF PCs, Writing, PutPCs, GetPCs, DeletePCs
    <2>2. pc'[c] = "syncdir" /\ pc' \in [Callers -> PCs] /\ \A d \in Callers \ {c} : pc'[d] = pc[d]
      BY <1>2, <2>1 DEF Goto, AInv, TypeOK
    <2>3. /\ call[c] \in PutCalls /\ key \in Keys /\ file[c] = m /\ m \in Files
          /\ m.by = c /\ m.nth = nth[c] /\ m.length = call[c].length /\ m \in Entries
      <3>1. call[c] \in PutCalls /\ file[c] = m
        BY <1>0 DEF AInv, CallInv, WriterInv, PutPCs
      <3> QED
        BY <3>1, MineIsAFile, Kinds DEF AInv, PutCalls
    <2>4. /\ Len(bytes[m]) = m.length /\ AsDeclared(c) /\ m \in synced /\ m \notin Published
          /\ info[c] = call[c].length /\ \A n \in DOMAIN bytes[m] : bytes[m][n] = m
      BY <1>0, <2>3 DEF AInv, WriterInv
    <2>5. bytes[m] = Whole(m)
      BY <2>3, <2>4, WrittenOut DEF AInv, TypeOK
    <2>6. Mine(c)' = m /\ (AsDeclared(c)' <=> AsDeclared(c))
      BY <1>0 DEF Mine, AsDeclared, callVars
    <2>7. /\ names' \in [Keys -> Entries] /\ held' \in [Keys -> Seq(Entries)]
          /\ names'[key] = m
          /\ held'[key] # << >> /\ held'[key][Len(held'[key])] = m
          /\ WasHeld(key)' = WasHeld(key) \cup {m}
          /\ \A l \in Keys \ {key} :
                 names'[l] = names[l] /\ held'[l] = held[l] /\ WasHeld(l)' = WasHeld(l)
          /\ Published' \subseteq Published \cup {m} /\ Published \subseteq Published'
          /\ \A l \in Keys : Len(held'[l]) >= Len(held[l])
      BY <1>2, <2>3, NameSet DEF AInv
    <2>8. Remembered
      BY <1>0, <2>7 DEF Remembered
    <2>9. \A d \in Callers : pc'[d] \in Writing => pc[d] \in Writing
      BY <1>0, <2>2
    <2>10. TypeOK'
      BY <1>0, <1>2, <2>2, <2>7, <2>9 DEF AInv, TypeOK, callVars, boundVars
    <2>11. NamesFormATree'
      <3>1. names' = [names EXCEPT ![key] = m] /\ call' = call
        BY <1>0, <1>2, <2>3 DEF SetName, callVars
      <3>2. InPlace(names, key)
        BY <1>0, WritersAreInPlace DEF AInv
      <3> QED
        BY <1>2, <2>3, <2>9, <3>1, <3>2, TreeKept DEF AInv
    <2>12. \A d \in Callers : Answers(d)
      BY <1>0, <1>2, <2>2 DEF Answers, callVars
    <2>13. ASSUME NEW d \in Callers \ {c}
           PROVE  CallInv(d)' /\ WriterInv(d)' /\ ReaderInv(d)'
      <3>1. Same(d)
        BY <1>0, <1>2, <2>2 DEF Same, callVars
      <3>2. pc[d] \in Writing => Mine(d) # m
        BY <2>3, MineIsAFile DEF AInv, CallInv, PutPCs
      <3>3. CallInv(d)'
        BY <2>8, <2>10, <3>1, CallFrame DEF AInv, Same
      <3>4. WriterInv(d)'
        BY <1>0, <2>7, <2>8, <3>1, <3>2, WriterFrame DEF AInv, CallInv, PutPCs
      <3>5. ReaderInv(d)'
        BY <2>8, <3>1, ReaderFrame DEF AInv
      <3> QED
        BY <3>3, <3>4, <3>5
    <2>14. CallInv(c)' /\ WriterInv(c)' /\ ReaderInv(c)'
      <3>1. call'[c] = call[c] /\ began'[c] = began[c] /\ info'[c] = info[c]
        BY <1>0 DEF callVars
      <3>2. call[c] # NoCall => began[c] \in 1..Len(held'[key])
        BY <2>3, <2>7, <2>10 DEF AInv, CallInv, TypeOK
      <3>3. CallInv(c)'
        BY <2>1, <2>2, <2>3, <3>1, <3>2 DEF CallInv
      <3>4. ReaderInv(c)'
        BY <2>2 DEF ReaderInv
      <3>5. m \in {held'[key][i] : i \in DOMAIN held'[key]}
        BY <2>7 DEF WasHeld
      <3>6. WriterInv(c)'
        BY <2>1, <2>2, <2>4, <2>6, <3>1, <3>5 DEF WriterInv, Idle, WasHeld
      <3> QED
        BY <3>3, <3>4, <3>6
    <2>15. ASSUME NEW l \in Keys
           PROVE  KeyInv(l)'
      <3>1. disk'[l] \in WasHeld(l)'
        BY <1>0, <2>7 DEF AInv, KeyInv
      <3>2. held'[l] # << >> /\ held'[l][Len(held'[l])] = names'[l]
        BY <2>7 DEF AInv, KeyInv
      <3> QED
        BY <3>1, <3>2 DEF KeyInv
    <2>16. ObjectInv(key)'
      <3>1. \A f \in WasHeld(key) \cap Files : ObjectAt(f, key)'
        BY <1>0, <2>3, <2>8, <2>10, <2>12, ObjectKept DEF AInv, ObjectInv
      <3>2. ObjectAt(m, key)'
        BY <1>0, <2>2, <2>3, <2>4, <2>5, <2>6, AssetStoreAssumption DEF ObjectAt, callVars, AInv, TypeOK
      <3> QED
        BY <2>7, <3>1, <3>2 DEF ObjectInv
    <2>17. \A l \in Keys \ {key} : ObjectInv(l)'
      BY <1>0, <2>7, <2>8, <2>10, <2>12, ObjectFrame DEF AInv
    <2>18. ASSUME NEW f \in Files
           PROVE  FileInv(f)'
      <3>1. /\ nth' = nth /\ (f.by \in Callers => nth[f.by] \in Nat)
            /\ bytes' = bytes /\ synced' = synced
        BY <1>0, AssetStoreAssumption DEF AInv, TypeOK, callVars
      <3>2. \A d \in Callers : pc'[d] \in {"mkdir", "temp"} => pc[d] \in {"mkdir", "temp"}
        BY <2>2
      <3> QED
        BY <2>10, <3>1, <3>2, FileFrame DEF AInv
    <2> QED
      BY <2>10, <2>11, <2>13, <2>14, <2>15, <2>16, <2>17, <2>18 DEF AInv
  <1> QED
    BY <1>1, <1>2 DEF Rename

(* Syncing the temporary file keeps the invariant. *)
LEMMA SyncKeeps == ASSUME AInv, NEW c \in Callers, Sync(c) PROVE AInv'
  <1>0. /\ pc[c] = "sync" /\ pc[c] \in Writing
        /\ UNCHANGED << names, disk, bytes, orphans, closed, held, file, got, callVars, boundVars >>
    BY DEF Sync, Writing
  <1>1. ASSUME Abort(c, "failed"), UNCHANGED << info, synced >>
        PROVE  AInv'
    <2>1. cancelled' = cancelled
      BY <1>1 DEF Abort
    <2>2. UNCHANGED fsVars
      BY <1>0, <1>1 DEF fsVars
    <2> QED
      BY <1>0, <1>1, <2>1, <2>2, Aborts
  <1>2. ASSUME info' = [info EXCEPT ![c] = Len(bytes[file[c]])], synced' = synced \cup {file[c]},
               Goto(c, "rename"), UNCHANGED << reply, cancelled >>
        PROVE  AInv'
    <2>1. "rename" \in PCs /\ "rename" \in Writing \cap PutPCs /\ "rename" \notin GetPCs \cup DeletePCs
      BY DEF PCs, Writing, PutPCs, GetPCs, DeletePCs
    <2>2. pc'[c] = "rename" /\ pc' \in [Callers -> PCs] /\ \A d \in Callers \ {c} : pc'[d] = pc[d]
      BY <1>2, <2>1 DEF Goto, AInv, TypeOK
    <2>3. call[c] \in PutCalls /\ file[c] = Mine(c) /\ Mine(c) \in Files /\ call[c].length \in Sizes
      <3>1. call[c] \in PutCalls /\ file[c] = Mine(c)
        BY <1>0 DEF AInv, CallInv, WriterInv, PutPCs
      <3> QED
        BY <3>1, MineIsAFile DEF AInv, PutCalls, Sizes
    <2>4. Len(bytes[Mine(c)]) = call[c].length /\ AsDeclared(c)
      BY <1>0 DEF AInv, WriterInv
    <2>5. info' \in [Callers -> Sizes] /\ info'[c] = call[c].length
          /\ \A d \in Callers \ {c} : info'[d] = info[d]
      BY <1>2, <2>3, <2>4 DEF AInv, TypeOK
    <2>6. synced' \subseteq Files /\ synced \subseteq synced' /\ Mine(c) \in synced'
      BY <1>2, <2>3 DEF AInv, TypeOK
    <2>7. \A d \in Callers : pc'[d] \in Writing => pc[d] \in Writing
      BY <1>0, <2>2
    <2>8. TypeOK'
      BY <1>0, <1>2, <2>2, <2>5, <2>6, <2>7 DEF AInv, TypeOK, callVars, boundVars
    <2>9. \A d \in Callers \ {c} : Same(d)
      BY <1>0, <1>2, <2>2, <2>5 DEF Same, callVars
    <2>10. CallInv(c)'
      BY <1>0, <2>1, <2>2, <2>3 DEF AInv, CallInv, callVars
    <2>11. ReaderInv(c)'
      BY <2>2 DEF ReaderInv
    <2>12. WriterInv(c)'
      <3>1. /\ Mine(c)' = Mine(c) /\ Published' = Published
            /\ AsDeclared(c)' <=> AsDeclared(c)
        BY <1>0 DEF Mine, callVars, Published, WasHeld, AsDeclared
      <3>2. /\ \A n \in DOMAIN bytes[Mine(c)] : bytes[Mine(c)][n] = Mine(c)
            /\ Len(bytes[Mine(c)]) <= call[c].length
            /\ Mine(c) \notin Published
        BY <1>0 DEF AInv, WriterInv
      <3> QED
        BY <1>0, <2>2, <2>3, <2>4, <2>5, <2>6, <3>1, <3>2 DEF WriterInv, Idle, callVars
    <2>13. Answers(c)
      BY <1>0 DEF Answers, callVars
    <2>14. \A d \in Callers :
               \/ /\ Same(d)
                  /\ pc[d] \in Writing => bytes'[Mine(d)] = bytes[Mine(d)]
               \/ /\ CallInv(d)' /\ WriterInv(d)' /\ ReaderInv(d)'
                  /\ Answers(d)
                  /\ pc'[d] \in Writing => pc[d] \in Writing /\ call'[d] = call[d]
                  /\ pc'[d] \in {"mkdir", "temp"} /\ nth'[d] = nth[d] => pc[d] \in {"mkdir", "temp"}
      BY <1>0, <2>2, <2>7, <2>9, <2>10, <2>11, <2>12, <2>13 DEF callVars
    <2> QED
      BY <1>0, <2>6, <2>8, <2>14, EntriesStay
  <1> QED
    BY <1>1, <1>2 DEF Sync

(* Cancellation, Close, writeback and stuttering keep the invariant. *)
LEMMA QuietSurroundings ==
    ASSUME AInv
    PROVE  /\ \A c \in Callers : Cancel(c) => AInv'
           /\ Close => AInv'
           /\ \A k \in Keys : Writeback(k) => AInv'
           /\ UNCHANGED vars => AInv'
  <1>1. ASSUME \/ \E c \in Callers : Cancel(c)
               \/ Close
               \/ \E k \in Keys : Writeback(k)
               \/ UNCHANGED vars
        PROVE  AInv'
    <2>1. /\ UNCHANGED << names, held, bytes, synced, pc, file, got, info, reply, callVars, orphans,
                          boundVars >>
          /\ cancelled' \in [Callers -> BOOLEAN] /\ closed' \in BOOLEAN
      BY <1>1 DEF Cancel, Close, Writeback, vars, fsVars, callVars, boundVars, AInv, TypeOK
    <2>2. disk' \in [Keys -> Entries] /\ \A k \in Keys : disk'[k] \in {disk[k], names[k]}
      BY <1>1 DEF Cancel, Close, Writeback, vars, fsVars, AInv, TypeOK
    <2>3. TypeOK'
      BY <2>1, <2>2 DEF AInv, TypeOK, callVars, boundVars
    <2>4. \A d \in Callers : Same(d) /\ Mine(d)' = Mine(d)
      BY <2>1 DEF Same, callVars, Mine
    <2>5. \A d \in Callers : Same(d) /\ (pc[d] \in Writing => bytes'[Mine(d)] = bytes[Mine(d)])
      BY <2>1, <2>4
    <2> QED
      BY <2>1, <2>2, <2>3, <2>5, EntriesStay
  <1> QED
    BY <1>1

------------------------------------------------------------------------------
(* The first system call of a call is one of its own method.               *)
LEMMA FirstSteps ==
    ASSUME NEW made \in AllCalls
    PROVE  /\ FirstStep(made) \in {"mkdir", "temp", "lstat", "stat", "check"}
           /\ FirstStep(made) \in {"mkdir", "temp"} => made.op = "put"
           /\ FirstStep(made) = "mkdir" => ParentOf[made.key] # Root
           /\ FirstStep(made) = "lstat" => made.op = "get"
           /\ FirstStep(made) = "stat" => made.op = "stat"
           /\ FirstStep(made) = "check" => made.op = "delete"
  <1>1. CASE made.op = "put"
    BY <1>1 DEF FirstStep
  <1>2. CASE made.op = "get"
    BY <1>2 DEF FirstStep
  <1>3. CASE made.op = "stat"
    BY <1>3 DEF FirstStep
  <1>4. CASE made.op = "delete"
    BY <1>4 DEF FirstStep
  <1> QED
    BY <1>1, <1>2, <1>3, <1>4 DEF AllCalls, PutCalls

(* A call that begins, or is refused at once, keeps the invariant. *)
LEMMA BeginKeeps == ASSUME AInv, NEW c \in Callers, Begin(c) PROVE AInv'
  <1> PICK made \in CallsOf[c] :
          /\ call' = [call EXCEPT ![c] = made]
          /\ began' = [began EXCEPT ![c] = Len(held[made.key])]
          /\ \/ /\ Goto(c, FirstStep(made))
                /\ reply' = [reply EXCEPT ![c] = "none"]
             \/ /\ c \in MayCancel
                /\ reply' = [reply EXCEPT ![c] = "cancelled"]
                /\ pc' = pc
    BY DEF Begin
  <1>0. /\ pc[c] = "idle" /\ nth[c] < MaxCalls
        /\ nth' = [nth EXCEPT ![c] = nth[c] + 1]
        /\ file' = [file EXCEPT ![c] = NoFile]
        /\ got' = [got EXCEPT ![c] = << >>]
        /\ info' = [info EXCEPT ![c] = SizeUnknown]
        /\ UNCHANGED << names, disk, bytes, synced, orphans, closed, held, cancelled, boundVars >>
    BY DEF Begin
  <1>1. made \in AllCalls /\ made # NoCall /\ made.key \in Keys
    BY AssetStoreAssumption DEF AllCalls, PutCalls, NoCall
  <1>2. /\ made.op = "put" => made \in PutCalls
        /\ made.op # "put" => made \in [op: {"get", "stat", "delete"}, key: Keys]
    BY <1>1 DEF AllCalls, PutCalls
  <1>3. /\ FirstStep(made) \in {"mkdir", "temp", "lstat", "stat", "check"}
        /\ FirstStep(made) \in {"mkdir", "temp"} => made.op = "put"
        /\ FirstStep(made) = "mkdir" => ParentOf[made.key] # Root
        /\ FirstStep(made) = "lstat" => made.op = "get"
        /\ FirstStep(made) = "stat" => made.op = "stat"
        /\ FirstStep(made) = "check" => made.op = "delete"
    BY FirstSteps, AssetStoreAssumption
  <1>4. /\ nth[c] \in Nat /\ nth'[c] = nth[c] + 1 /\ nth' \in [Callers -> 0..MaxCalls]
        /\ \A d \in Callers \ {c} : nth'[d] = nth[d]
    BY <1>0, AssetStoreAssumption DEF AInv, TypeOK
  <1>5. /\ call' \in [Callers -> AllCalls \cup {NoCall}] /\ call'[c] = made
        /\ \A d \in Callers \ {c} : call'[d] = call[d]
    BY <1>1 DEF AInv, TypeOK
  <1>6. Len(held[made.key]) \in Nat /\ Len(held[made.key]) \in 1..Len(held[made.key])
    BY <1>1, NamesAreHeld DEF AInv
  <1>7. /\ began' \in [Callers -> Nat] /\ began'[c] = Len(held[made.key])
        /\ \A d \in Callers \ {c} : began'[d] = began[d]
    BY <1>6 DEF AInv, TypeOK
  <1>8. /\ file' \in [Callers -> Entries] /\ info' \in [Callers -> Sizes]
        /\ got' \in [Callers -> Seq(Files)] /\ got'[c] = << >>
        /\ \A d \in Callers \ {c} : file'[d] = file[d] /\ info'[d] = info[d] /\ got'[d] = got[d]
    <2>1. NoFile \in Entries /\ SizeUnknown \in Sizes /\ << >> \in Seq(Files)
      BY DEF NoFile, Entries, Sizes
    <2> QED
      BY <1>0, <2>1 DEF AInv, TypeOK
  <1>9. /\ reply' \in [Callers -> Replies] /\ reply'[c] # "ok"
        /\ \A d \in Callers \ {c} : reply'[d] = reply[d]
    <2>1. {"none", "cancelled"} \subseteq Replies
      BY DEF Replies
    <2> QED
      BY <2>1 DEF AInv, TypeOK
  <1>10. /\ pc' \in [Callers -> PCs] /\ pc'[c] \in {FirstStep(made), "idle"}
         /\ \A d \in Callers \ {c} : pc'[d] = pc[d]
    <2>1. {"mkdir", "temp", "lstat", "stat", "check", "idle"} \subseteq PCs
      BY DEF PCs
    <2>2. CASE Goto(c, FirstStep(made))
      BY <1>3, <2>1, <2>2 DEF Goto, AInv, TypeOK
    <2>3. CASE pc' = pc
      BY <1>0, <2>3 DEF AInv, TypeOK
    <2> QED
      BY <2>2, <2>3
  <1>11. pc'[c] \in {"mkdir", "temp", "lstat", "stat", "check", "idle"} /\ pc'[c] \notin Writing
    BY <1>3, <1>10 DEF Writing
  <1>12. TypeOK'
    <2>1. \A d \in Callers : pc'[d] \in Writing /\ call'[d].size # SizeUnknown =>
                Len(bytes'[file'[d]]) <= call'[d].size + 1
      BY <1>0, <1>5, <1>8, <1>10, <1>11 DEF AInv, TypeOK
    <2> QED
      BY <1>0, <1>4, <1>5, <1>7, <1>8, <1>9, <1>10, <2>1 DEF AInv, TypeOK, boundVars
  <1>13. \A d \in Callers \ {c} : Same(d) /\ Mine(d)' = Mine(d)
    BY <1>4, <1>5, <1>7, <1>8, <1>9, <1>10 DEF Same, Mine
  <1>14. CallInv(c)'
    <2>1. made.op = "put" => made \in PutCalls
      BY <1>2
    <2>2. /\ made.op = "get" => made \in [op: {"get"}, key: Keys]
          /\ made.op = "stat" => made \in [op: {"stat"}, key: Keys]
          /\ made.op = "delete" => made \in [op: {"delete"}, key: Keys]
      BY <1>2
    <2>3. began'[c] \in 1..Len(held'[made.key])
      BY <1>0, <1>6, <1>7
    <2> QED
      BY <1>3, <1>5, <1>10, <2>1, <2>2, <2>3 DEF CallInv, PutPCs, GetPCs, DeletePCs, Writing
  <1>15. WriterInv(c)' /\ ReaderInv(c)'
    BY <1>8, <1>9, <1>11, NothingOpen DEF DeletePCs
  <1>16. Answers(c)
    BY <1>4 DEF Answers
  <1>17. \A d \in Callers :
             \/ /\ Same(d)
                /\ pc[d] \in Writing => bytes'[Mine(d)] = bytes[Mine(d)]
             \/ /\ CallInv(d)' /\ WriterInv(d)' /\ ReaderInv(d)'
                /\ Answers(d)
                /\ pc'[d] \in Writing => pc[d] \in Writing /\ call'[d] = call[d]
                /\ pc'[d] \in {"mkdir", "temp"} /\ nth'[d] = nth[d] => pc[d] \in {"mkdir", "temp"}
    BY <1>0, <1>4, <1>11, <1>13, <1>14, <1>15, <1>16
  <1> QED
    BY <1>0, <1>12, <1>17, EntriesStay

------------------------------------------------------------------------------
(* A power cut leaves whole objects, and nobody in the middle of a call.   *)
LEMMA PowerCutKeeps == ASSUME AInv, PowerCut PROVE AInv'
  <1> USE DEF AInv
  <1> PICK after : after = [k \in Keys |-> At(disk, k)]
    OBVIOUS
  <1>1. /\ cuts' = cuts + 1 /\ cuts < MaxCuts
        /\ names' = after /\ disk' = after
        /\ held' = [k \in Keys |->
                        IF after[k] = names[k] THEN held[k] ELSE Append(held[k], after[k])]
        /\ closed' = FALSE
        /\ reply' = [c \in Callers |-> IF pc[c] = "idle" THEN reply[c] ELSE "killed"]
        /\ pc' = [c \in Callers |-> "idle"]
        /\ cancelled' = [c \in Callers |-> FALSE]
        /\ UNCHANGED << synced, file, got, info, callVars, placed >>
    BY DEF PowerCut
  <1>2. PICK kept \in {Files, synced} : bytes' = [f \in Files |-> IF f \in kept THEN bytes[f] ELSE << >>]
    BY DEF PowerCut
  <1>3. \A f \in Files : bytes'[f] = bytes[f] \/ (bytes'[f] = << >> /\ f \notin synced)
    BY <1>2 DEF TypeOK
  <1>4. after \in [Keys -> Entries]
    <2>1. \A k \in Keys : At(disk, k) \in Entries
      BY Kinds DEF At, TypeOK
    <2> QED
      BY <2>1
  <1>5. bytes' \in [Files -> Seq(Files)]
    <2>1. << >> \in Seq(Files)
      OBVIOUS
    <2> QED
      BY <1>2, <2>1 DEF TypeOK
  <1>6. ASSUME NEW k \in Keys
        PROVE  /\ held'[k] \in Seq(Entries) /\ held'[k] # << >>
               /\ held'[k][Len(held'[k])] = after[k]
               /\ Len(held'[k]) >= Len(held[k])
               /\ \A i \in 1..Len(held[k]) : held'[k][i] = held[k][i]
               /\ WasHeld(k)' = WasHeld(k) \cup {after[k]}
    <2>1. held[k] \in Seq(Entries) /\ held[k] # << >> /\ held[k][Len(held[k])] = names[k]
          /\ Len(held[k]) \in 1..Len(held[k])
      BY NamesAreHeld DEF TypeOK, KeyInv
    <2>2. CASE after[k] = names[k]
      <3>1. held'[k] = held[k]
        BY <1>1, <2>2
      <3> QED
        BY <2>1, <2>2, <3>1, NamesAreHeld DEF WasHeld
    <2>3. CASE after[k] # names[k]
      <3>1. held'[k] = Append(held[k], after[k]) /\ after[k] \in Entries
        BY <1>1, <1>4, <2>3
      <3>2. /\ held'[k] \in Seq(Entries) /\ held'[k] # << >> /\ held'[k][Len(held'[k])] = after[k]
            /\ Len(held'[k]) = Len(held[k]) + 1
            /\ \A i \in 1..Len(held[k]) : held'[k][i] = held[k][i]
        BY <2>1, <3>1, Appended
      <3>3. DOMAIN held'[k] = DOMAIN held[k] \cup {Len(held'[k])} /\ DOMAIN held[k] = 1..Len(held[k])
        BY <2>1, <3>2
      <3>4. {held'[k][i] : i \in DOMAIN held'[k]} = {held[k][i] : i \in DOMAIN held[k]} \cup {after[k]}
        BY <3>2, <3>3
      <3> QED
        BY <2>1, <3>2, <3>4 DEF WasHeld
    <2> QED
      BY <2>2, <2>3
  <1>7. ASSUME NEW k \in Keys
        PROVE  WasHeld(k)' \cap Files \subseteq WasHeld(k)
    <2>1. after[k] \in {disk[k], Absent}
      BY DEF At
    <2>2. disk[k] \in WasHeld(k)
      BY DEF KeyInv
    <2> QED
      BY <1>6, <2>1, <2>2, Kinds
  <1>8. Remembered
    BY <1>1, <1>6 DEF Remembered, Published
  <1>9. /\ pc' \in [Callers -> PCs] /\ reply' \in [Callers -> Replies]
        /\ cancelled' \in [Callers -> BOOLEAN]
        /\ \A d \in Callers : pc'[d] = "idle" /\ pc'[d] \notin Writing
        /\ \A d \in Callers : reply'[d] = "ok" => pc[d] = "idle" /\ reply[d] = "ok"
    <2>1. "idle" \in PCs /\ "idle" \notin Writing /\ "killed" \in Replies
      BY DEF PCs, Writing, Replies
    <2> QED
      BY <1>1, <2>1 DEF TypeOK
  <1>10. orphans' \subseteq Files \X (Keys \cup {Root})
    <2>1. Temporaries \subseteq Files \X (Keys \cup {Root})
      BY TemporariesAreFiles DEF Temporaries
    <2> QED
      BY <2>1 DEF PowerCut, TypeOK
  <1>11. TypeOK'
    <2>1. held' \in [Keys -> Seq(Entries)] /\ cuts' \in 0..MaxCuts
      BY <1>1, <1>6, AssetStoreAssumption DEF TypeOK
    <2> QED
      BY <1>1, <1>4, <1>5, <1>9, <1>10, <2>1 DEF TypeOK, callVars
  <1>12. NamesFormATree'
    <2>1. ASSUME NEW k \in Keys, after[k] # Absent
          PROVE  InPlace(after, k)
      <3>1. InPlace(disk, k)
        BY <2>1 DEF At
      <3>2. CASE ParentOf[k] = Root
        BY <3>2 DEF InPlace, Directories
      <3>3. CASE ParentOf[k] # Root
        <4>1. ParentOf[k] \in Keys /\ ParentOf[ParentOf[k]] = Root
          BY <3>3, Parents
        <4>2. disk[ParentOf[k]] = Directory
          BY <3>1, <3>3 DEF InPlace, Directories
        <4>3. after[ParentOf[k]] = Directory
          BY <4>1, <4>2 DEF At, InPlace, Directories
        <4> QED
          BY <4>1, <4>3 DEF InPlace, Directories
      <3> QED
        BY <3>2, <3>3
    <2> QED
      BY <1>1, <1>9, <2>1, WritersStayInPlace
  <1>13. \A d \in Callers : Answers(d)
    BY <1>1, <1>9 DEF Answers, callVars
  <1>14. ASSUME NEW d \in Callers
         PROVE  CallInv(d)' /\ WriterInv(d)' /\ ReaderInv(d)'
    <2>1. CallInv(d)'
      BY <1>1, <1>8, <1>9, <1>11, CallFrame DEF callVars
    <2>2. ReaderInv(d)'
      BY <1>9 DEF ReaderInv
    <2>3. Idle(d) /\ call[d].op = "put" /\ reply[d] = "ok" => info[d] = call[d].length
      BY DEF WriterInv
    <2>4. WriterInv(d)'
      BY <1>1, <1>9, <2>3 DEF WriterInv, Idle, callVars
    <2> QED
      BY <2>1, <2>2, <2>4
  <1>15. ASSUME NEW k \in Keys
         PROVE  KeyInv(k)' /\ ObjectInv(k)'
    <2>1. KeyInv(k)'
      BY <1>1, <1>6 DEF KeyInv
    <2>2. \A f \in WasHeld(k) \cap Files : bytes'[f] = bytes[f]
      BY <1>3 DEF ObjectInv, ObjectAt
    <2>3. ObjectInv(k)'
      BY <1>7, <1>8, <1>11, <1>13, <2>2, ObjectFrame
    <2> QED
      BY <2>1, <2>3
  <1>16. ASSUME NEW f \in Files
         PROVE  FileInv(f)'
    <2>1. nth' = nth /\ synced' = synced /\ (f.by \in Callers => nth[f.by] \in Nat /\ pc'[f.by] = "idle")
      BY <1>1, <1>9, AssetStoreAssumption DEF TypeOK, callVars
    <2> QED
      BY <1>3, <1>11, <2>1, FileFrame
  <1> QED
    BY <1>11, <1>12, <1>14, <1>15, <1>16
------------------------------------------------------------------------------
(* The invariant is inductive. *)
LEMMA StepAInv == AInv /\ [Next]_vars => AInv'
  <1> SUFFICES ASSUME AInv, [Next]_vars
               PROVE  AInv'
    OBVIOUS
  <1>1. ASSUME NEW c \in Callers, Step(c)
        PROVE  AInv'
    BY <1>1, BeginKeeps, MkdirAllKeeps, CreateTempKeeps, CopyBufferKeeps, EndCopyKeeps,
       SyncKeeps, RenameKeeps, SyncDirKeeps, RemoveTempKeeps, LstatKeeps, OpenKeeps,
       ReadKeeps, StatKeeps, CheckKeeps, RemoveKeeps DEF Step
  <1>2. \A c \in Callers : Cancel(c) \/ Kill(c) => AInv'
    BY KillKeeps, QuietSurroundings
  <1>3. Close \/ (\E k \in Keys : Writeback(k)) \/ AllReturned \/ UNCHANGED vars => AInv'
    BY QuietSurroundings DEF AllReturned
  <1>4. PowerCut \/ OperatorPlaces => AInv'
    BY PowerCutKeeps, OperatorPlacesKeeps
  <1> QED
    BY <1>1, <1>2, <1>3, <1>4 DEF Next

(* The inductive invariant holds in every state of the store; the theorems *)
(* below are read from it.                                                 *)
LEMMA InvariantHolds == Spec => []AInv
  BY InitAInv, StepAInv, PTL DEF Spec

(* Every variable keeps its type, and a Put writes at most one buffer past *)
(* the size it was told (store.go:135-137).                                *)
THEOREM TypeCorrect == Spec => []TypeOK
  <1>1. AInv => TypeOK
    BY DEF AInv
  <1> QED
    BY <1>1, InvariantHolds, PTL

(* No Delete, of a caller or the operator's, takes a directory from under  *)
(* a Put that is writing in it (root.go:236).                              *)
THEOREM TreeStaysATree == Spec => []NamesFormATree
  <1>1. AInv => NamesFormATree
    BY DEF AInv
  <1> QED
    BY <1>1, InvariantHolds, PTL

(* However many Puts race for a key, and wherever processes die or the     *)
(* power goes, what is at a key is one whole stream, as it was declared    *)
(* (root.go:293-297, doc.go:111-117).                                      *)
THEOREM ObjectsAreWhole == Spec => []PublishedObjectsAreWhole
  <1>1. ASSUME AInv, NEW k \in Keys, names[k] \in Files
        PROVE  bytes[names[k]] = Whole(names[k])
    BY <1>1, NamesAreHeld DEF AInv, ObjectInv, ObjectAt
  <1>2. ASSUME AInv, NEW c \in Callers, call[c] # NoCall, call[c].op = "put",
               Mine(c) \in WasHeld(call[c].key)
        PROVE  call[c].size \in {SizeUnknown, call[c].length} /\ ~call[c].fails
    <2>1. call[c] \in PutCalls
      BY <1>2 DEF AInv, TypeOK, AllCalls
    <2>2. Mine(c) \in Files /\ Mine(c).by = c /\ Mine(c).nth = nth[c] /\ call[c].key \in Keys
      BY <1>2, <2>1, MineIsAFile DEF AInv, PutCalls
    <2> QED
      BY <1>2, <2>2 DEF AInv, ObjectInv, ObjectAt, AsDeclared
  <1>3. AInv => PublishedObjectsAreWhole
    BY <1>1, <1>2 DEF PublishedObjectsAreWhole
  <1> QED
    BY <1>3, InvariantHolds, PTL

(* The reference a Put returns is that of what it wrote, whatever others   *)
(* have put at the key by then (store.go:143-147).                         *)
THEOREM PutsReturnTheirOwnRefs == Spec => []PutReturnsItsOwnRef
  <1>1. AInv => PutReturnsItsOwnRef
    BY DEF AInv, WriterInv, PutReturnsItsOwnRef, Idle
  <1> QED
    BY <1>1, InvariantHolds, PTL

(* A Put that reports an error was never seen at its key (store.go:149).   *)
THEOREM FailedPutsAreNeverSeen == Spec => []FailedPutsLeaveTheKeyAlone
  <1>1. ASSUME AInv, NEW c \in Callers, Idle(c), call[c].op = "put",
               reply[c] \notin {"ok", "killed"}
        PROVE  Mine(c) \notin WasHeld(call[c].key)
    <2>1. call[c] \in PutCalls
      BY <1>1 DEF AInv, TypeOK, AllCalls, Idle
    <2>2. Mine(c) \in Files /\ Mine(c).by = c /\ Mine(c).nth = nth[c] /\ call[c].key \in Keys
      BY <1>1, <2>1, MineIsAFile DEF AInv, PutCalls
    <2> QED
      BY <1>1, <2>2 DEF AInv, ObjectInv, ObjectAt, Idle
  <1>2. AInv => FailedPutsLeaveTheKeyAlone
    BY <1>1 DEF FailedPutsLeaveTheKeyAlone
  <1> QED
    BY <1>2, InvariantHolds, PTL

------------------------------------------------------------------------------
------------------------------------------------------------------------------
(* Whose step it is.                                                       *)

(* A step of one caller is nothing to the others, and a call that has      *)
(* returned stays as it is until the next one.                             *)
LEMMA OthersStay ==
    ASSUME TypeOK, NEW c \in Callers, Step(c) \/ Cancel(c) \/ Kill(c)
    PROVE  /\ \A d \in Callers \ {c} : Same(d)
           /\ pc[c] = "idle" => Begin(c)
           /\ ~Begin(c) => UNCHANGED callVars
           /\ UNCHANGED boundVars
           /\ closed' = closed
  <1> USE DEF TypeOK, Same, callVars, boundVars, fsVars, Goto, Return, Abort, OnClosedRoot, Observed
  <1>1. CASE Begin(c)
    BY <1>1 DEF Begin
  <1>2. CASE MkdirAll(c)
    BY <1>2 DEF MkdirAll
  <1>3. CASE CreateTemp(c) \/ CopyBuffer(c) \/ EndCopy(c)
    BY <1>3 DEF CreateTemp, CopyBuffer, EndCopy
  <1>4. CASE Sync(c) \/ Rename(c) \/ SyncDir(c) \/ RemoveTemp(c)
    BY <1>4 DEF Sync, Rename, SyncDir, RemoveTemp
  <1>5. CASE Lstat(c) \/ Open(c) \/ Read(c)
    BY <1>5 DEF Lstat, Open, Read
  <1>6. CASE Stat(c) \/ Check(c) \/ Remove(c)
    BY <1>6 DEF Stat, Check, Remove
  <1>7. CASE Cancel(c) \/ Kill(c)
    BY <1>7 DEF Cancel, Kill
  <1> QED
    BY <1>1, <1>2, <1>3, <1>4, <1>5, <1>6, <1>7 DEF Step

(* A call that begins has the next number of its caller. *)
LEMMA CallsCount ==
    ASSUME TypeOK, NEW c \in Callers, Begin(c)
    PROVE  nth[c] \in Nat /\ nth'[c] = nth[c] + 1 /\ orphans' = orphans
  BY AssetStoreAssumption DEF TypeOK, Begin

(* What the surroundings leave of the calls.                               *)
LEMMA SurroundingsStay ==
    ASSUME TypeOK,
           \/ Close \/ OperatorPlaces
           \/ \E k \in Keys : Writeback(k)
           \/ UNCHANGED vars
    PROVE  /\ \A d \in Callers : Same(d)
           /\ UNCHANGED << orphans, callVars, file, reply, pc, cuts, bytes, synced >>
           /\ "close" \notin Faults => closed' = closed
  <1>1. /\ UNCHANGED << orphans, callVars, pc, file, got, info, reply, cuts, bytes, synced >>
        /\ "close" \notin Faults => closed' = closed
    BY DEF Close, OperatorPlaces, Writeback, vars, boundVars, callVars
  <1> QED
    BY <1>1 DEF Same, callVars

------------------------------------------------------------------------------
(* Temporary files.                                                        *)

(* A writer's file is its own temporary file, and is not published. *)
LEMMA TemporariesAreMine ==
    ASSUME AInv, NEW c \in Callers, pc[c] \in Writing
    PROVE  /\ call[c] \in PutCalls /\ file[c] = Mine(c) /\ file[c] \in Files
           /\ file[c].by = c /\ file[c].nth = nth[c] /\ nth[c] \in Nat
           /\ file[c] \notin Published
  <1>1. call[c] \in PutCalls /\ file[c] = Mine(c) /\ file[c] \notin Published
    BY DEF AInv, CallInv, WriterInv, PutPCs
  <1>2. nth[c] \in Nat
    BY AssetStoreAssumption DEF AInv, TypeOK
  <1> QED
    BY <1>1, <1>2, MineIsAFile DEF AInv

(* While no Close comes between, a file is left behind only by a killed Put. *)
LEMMA StepOrphanInv ==
    ASSUME "close" \notin Faults, AInv, OrphanInv, [Next]_vars
    PROVE  OrphanInv'
  <1>0. TypeOK
    BY DEF AInv
  <1> DEFINE Dead(temp) == LET c == temp[1].by
                           IN  /\ c \in Callers
                               /\ temp[1].nth <= nth[c]
                               /\ temp[1].nth = nth[c] => pc[c] = "idle" /\ reply[c] = "killed"
             DeadNext(temp) == LET c == temp[1].by
                               IN  /\ c \in Callers
                                   /\ temp[1].nth <= nth'[c]
                                   /\ temp[1].nth = nth'[c] => pc'[c] = "idle" /\ reply'[c] = "killed"
  <1>a. /\ ~closed /\ \A temp \in orphans : Dead(temp)
        /\ \A temp \in orphans : temp[1].nth \in Nat
    BY <1>0, AssetStoreAssumption DEF OrphanInv, TypeOK, Files
  <1>b. SUFFICES ~closed' /\ \A temp \in orphans' : DeadNext(temp)
    BY DEF OrphanInv
  <1>1. ASSUME NEW c \in Callers, Step(c) \/ Cancel(c) \/ Kill(c)
        PROVE  ~closed' /\ \A temp \in orphans' : DeadNext(temp)
    <2>1. /\ \A d \in Callers \ {c} : Same(d)
          /\ pc[c] = "idle" => Begin(c)
          /\ ~Begin(c) => UNCHANGED callVars
          /\ closed' = closed
      BY <1>0, <1>1, OthersStay
    <2>2. CASE Begin(c)
      <3>1. nth[c] \in Nat /\ nth'[c] = nth[c] + 1 /\ orphans' = orphans
        BY <1>0, <2>2, CallsCount
      <3>2. ASSUME NEW temp \in orphans
            PROVE  DeadNext(temp)
        <4>1. CASE temp[1].by = c
          BY <1>a, <3>1, <4>1
        <4>2. CASE temp[1].by # c
          BY <1>a, <2>1, <4>2 DEF Same
        <4> QED
          BY <4>1, <4>2
      <3> QED
        BY <1>a, <2>1, <3>1, <3>2
    <2>3. CASE ~Begin(c)
      <3>1. pc[c] # "idle" /\ nth' = nth
        BY <2>1, <2>3 DEF callVars
      <3>2. \A temp \in orphans : DeadNext(temp)
        BY <1>a, <2>1, <3>1 DEF Same
      <3>3. CASE orphans' \subseteq orphans
        BY <1>a, <2>1, <3>2, <3>3
      <3>4. CASE Kill(c)
        <4>1. /\ pc'[c] = "idle" /\ reply'[c] = "killed"
              /\ orphans' = IF pc[c] \in Writing
                            THEN orphans \cup {<< file[c], ParentOf[call[c].key] >>} ELSE orphans
          BY <1>0, <3>4 DEF Kill, Return, Goto, TypeOK
        <4>2. pc[c] \in Writing => file[c].by = c /\ file[c].nth = nth[c]
          BY TemporariesAreMine
        <4>3. nth[c] \in Nat
          BY <1>0, AssetStoreAssumption DEF TypeOK
        <4>4. ASSUME pc[c] \in Writing
              PROVE  DeadNext(<< file[c], ParentOf[call[c].key] >>)
          BY <3>1, <4>1, <4>2, <4>3, <4>4
        <4> QED
          BY <1>a, <2>1, <3>2, <4>1, <4>4
      <3>5. CASE Step(c) \/ Cancel(c)
        <4>1. orphans' = orphans
          BY <1>a, <2>3, <3>5
             DEF Step, Cancel, MkdirAll, CreateTemp, CopyBuffer, EndCopy, Sync, Rename, SyncDir,
                 RemoveTemp, Lstat, Open, Read, Stat, Check, Remove, OnClosedRoot, Observed, fsVars
        <4> QED
          BY <3>3, <4>1
      <3> QED
        BY <1>1, <3>4, <3>5
    <2> QED
      BY <2>2, <2>3
  <1>2. ASSUME \/ Close \/ OperatorPlaces
               \/ \E k \in Keys : Writeback(k)
               \/ UNCHANGED vars
        PROVE  ~closed' /\ \A temp \in orphans' : DeadNext(temp)
    <2>1. UNCHANGED << orphans, callVars, reply, pc, closed >>
      BY <1>0, <1>2, SurroundingsStay
    <2> QED
      BY <1>a, <2>1 DEF callVars
  <1>3. ASSUME PowerCut
        PROVE  ~closed' /\ \A temp \in orphans' : DeadNext(temp)
    <2>1. /\ closed' = FALSE /\ orphans' \subseteq orphans \cup Temporaries
          /\ nth' = nth
          /\ reply' = [c \in Callers |-> IF pc[c] = "idle" THEN reply[c] ELSE "killed"]
          /\ pc' = [c \in Callers |-> "idle"]
      BY <1>3 DEF PowerCut, callVars
    <2>2. \A temp \in orphans : DeadNext(temp)
      BY <1>a, <2>1
    <2>3. ASSUME NEW c \in Callers, pc[c] \in Writing
          PROVE  DeadNext(<< file[c], ParentOf[call[c].key] >>)
      <3>1. file[c].by = c /\ file[c].nth = nth[c] /\ nth[c] \in Nat /\ pc[c] # "idle"
        BY <2>3, TemporariesAreMine DEF Writing
      <3> QED
        BY <2>1, <3>1
    <2>4. \A temp \in Temporaries : DeadNext(temp)
      BY <2>3 DEF Temporaries
    <2> QED
      BY <2>1, <2>2, <2>4
  <1> QED
    BY <1>1, <1>2, <1>3 DEF Next, AllReturned

(* What is left in the directory when nobody writes is what killed         *)
(* processes left: every other way out of a Put removes its temporary      *)
(* file, so long as nobody closes the store under it (store.go:149-152).   *)
THEOREM KilledPutsLeaveFilesAlone ==
    ASSUME "close" \notin Faults
    PROVE  Spec => []OnlyKilledPutsLeaveFiles
  <1>1. Init => OrphanInv
    BY DEF Init, OrphanInv
  <1>2. AInv /\ OrphanInv /\ [Next]_vars => OrphanInv'
    BY StepOrphanInv
  <1>3. OrphanInv => OnlyKilledPutsLeaveFiles
    BY DEF OrphanInv, OnlyKilledPutsLeaveFiles
  <1> QED
    BY <1>1, <1>2, <1>3, InvariantHolds, PTL DEF Spec

------------------------------------------------------------------------------
------------------------------------------------------------------------------
(* Deletes.                                                                *)

(* A caller changes one entry at most.                                     *)
LEMMA CallersSetNames ==
    ASSUME AInv, NEW c \in Callers, Step(c) \/ Cancel(c) \/ Kill(c)
    PROVE  held' = held \/ \E k \in Keys : \E e \in Entries : SetName(k, e)
  <1>1. CASE MkdirAll(c)
    <2>1. pc[c] = "mkdir" => ParentOf[call[c].key] \in Keys
      BY Parents DEF AInv, CallInv, PutPCs, PutCalls
    <2> QED
      BY <1>1, <2>1, Kinds DEF MkdirAll, MakeDirectory, OnClosedRoot, fsVars
  <1>2. CASE Rename(c)
    <2>1. pc[c] = "rename" => file[c] \in Entries /\ call[c].key \in Keys
      BY TemporariesAreMine, Kinds DEF Writing, PutCalls
    <2> QED
      BY <1>2, <2>1 DEF Rename
  <1>3. CASE Remove(c)
    <2>1. pc[c] = "remove" => call[c].key \in Keys
      BY DEF AInv, CallInv, DeletePCs
    <2> QED
      BY <1>3, <2>1, Kinds DEF Remove, OnClosedRoot, fsVars
  <1>4. CASE ~MkdirAll(c) /\ ~Rename(c) /\ ~Remove(c)
    BY <1>4
       DEF Step, Cancel, Kill, Begin, CreateTemp, CopyBuffer, EndCopy, Sync, SyncDir, RemoveTemp,
           Lstat, Open, Read, Stat, Check, OnClosedRoot, Observed, fsVars
  <1> QED
    BY <1>1, <1>2, <1>3, <1>4

(* No step of a caller takes back what is published. *)
LEMMA PublishedGrows ==
    ASSUME AInv, NEW c \in Callers, Step(c) \/ Cancel(c) \/ Kill(c)
    PROVE  Published \subseteq Published'
  <1>1. held' = held \/ \E k \in Keys : \E e \in Entries : SetName(k, e)
    BY CallersSetNames
  <1>2. CASE held' = held
    BY <1>2 DEF Published, WasHeld
  <1>3. CASE \E k \in Keys : \E e \in Entries : SetName(k, e)
    BY <1>3, NameSet DEF AInv
  <1> QED
    BY <1>1, <1>2, <1>3

(* A step of a caller that neither publishes nor removes.                  *)
LEMMA NamesStay ==
    ASSUME FlatStore, AInv, NEW c \in Callers, Step(c) \/ Cancel(c) \/ Kill(c),
           ~Rename(c), ~Remove(c)
    PROVE  names' = names
  <1>1. CASE MkdirAll(c)
    <2>1. pc[c] = "mkdir" => ParentOf[call[c].key] # Root /\ call[c].key \in Keys
      BY DEF AInv, CallInv, PutPCs, PutCalls
    <2> QED
      BY <1>1, <2>1 DEF MkdirAll, FlatStore
  <1>2. CASE ~MkdirAll(c)
    BY <1>2
       DEF Step, Cancel, Kill, Begin, CreateTemp, CopyBuffer, EndCopy, Sync, SyncDir, RemoveTemp,
           Lstat, Open, Read, Stat, Check, OnClosedRoot, Observed, fsVars
  <1> QED
    BY <1>1, <1>2

(* A step that is not the removal finishes no Delete; one that comes to the
   removal has seen a file. *)
LEMMA NobodyRemoves ==
    ASSUME AInv, NEW c \in Callers, Step(c) \/ Cancel(c) \/ Kill(c), ~Remove(c)
    PROVE  /\ ~Removed(c)'
           /\ pc'[c] = "remove" => call'[c] = call[c] /\
                  (pc[c] = "remove" \/ names[call[c].key] \in Files)
  <1> USE DEF AInv, TypeOK, Goto, Return, Abort, OnClosedRoot, Removed, Idle, callVars
  <1>1. CASE Begin(c)
    <2>1. PICK made \in CallsOf[c] :
              \/ Goto(c, FirstStep(made)) /\ reply' = [reply EXCEPT ![c] = "none"]
              \/ pc' = pc /\ reply' = [reply EXCEPT ![c] = "cancelled"]
      BY <1>1 DEF Begin
    <2>2. FirstStep(made) # "remove"
      BY FirstSteps, AssetStoreAssumption
    <2>3. pc[c] = "idle" /\ reply'[c] # "ok"
      BY <1>1, <2>1 DEF Begin
    <2>4. pc'[c] # "remove"
      BY <2>1, <2>2, <2>3
    <2> QED
      BY <2>3, <2>4
  <1>2. CASE MkdirAll(c) \/ CreateTemp(c)
    BY <1>2 DEF MkdirAll, CreateTemp
  <1>3. CASE CopyBuffer(c) \/ EndCopy(c) \/ Sync(c) \/ Rename(c)
    BY <1>3 DEF CopyBuffer, EndCopy, Sync, Rename
  <1>4. CASE SyncDir(c)
    <2>1. call[c] \in PutCalls /\ pc'[c] = "idle" /\ call' = call
      BY <1>4 DEF SyncDir, CallInv, PutPCs
    <2> QED
      BY <2>1 DEF PutCalls
  <1>5. CASE RemoveTemp(c)
    BY <1>5 DEF RemoveTemp, WriterInv
  <1>6. CASE Lstat(c) \/ Open(c) \/ Read(c)
    BY <1>6 DEF Lstat, Open, Read, Observed
  <1>7. CASE Stat(c)
    <2>1. call[c].op = "stat" /\ pc'[c] = "idle" /\ call' = call
      BY <1>7 DEF Stat, CallInv
    <2> QED
      BY <2>1
  <1>8. CASE Check(c)
    <2>1. call[c].key \in Keys
      BY <1>8 DEF Check, CallInv, DeletePCs
    <2>2. At(names, call[c].key) = names[call[c].key]
      BY <2>1, Found
    <2> QED
      BY <1>8, <2>2 DEF Check
  <1>9. CASE Cancel(c) \/ Kill(c)
    BY <1>9 DEF Cancel, Kill
  <1> QED
    BY <1>1, <1>2, <1>3, <1>4, <1>5, <1>6, <1>7, <1>8, <1>9 DEF Step

------------------------------------------------------------------------------
(* DeleteInv, of one key and of one caller.                                *)
LEMMA StepDeleteInv ==
    ASSUME FlatStore, OperatorOnlyRemoves, AInv, DeleteInv, [Next]_vars
    PROVE  DeleteInv'
  <1> SUFFICES ASSUME cuts' = 0
               PROVE  /\ \A k, l \in Keys : names'[k] \in Files /\ names'[k] = names'[l] => k = l
                      /\ \A c \in Callers :
                             /\ pc'[c] = "remove" => names'[call'[c].key] \in Files \cup {Absent}
                             /\ Removed(c)' =>
                                    /\ file'[c] \in Files \cap Published'
                                    /\ \A k \in Keys : names'[k] # file'[c]
                                    /\ \A d \in Callers \ {c} : Removed(d)' => file'[d] # file'[c]
    BY DEF DeleteInv
  <1>0. TypeOK /\ Absent \notin Files /\ names \in [Keys -> Entries]
    BY Kinds DEF AInv, TypeOK
  <1>1. ASSUME NEW c \in Callers, Step(c) \/ Cancel(c) \/ Kill(c)
        PROVE  DeleteInv'
    <2>1. /\ \A d \in Callers \ {c} : Same(d) /\ (Removed(d)' <=> Removed(d))
          /\ UNCHANGED cuts
          /\ Published \subseteq Published'
          /\ pc[c] # "idle" => call'[c] = call[c]
      <3>1. /\ \A d \in Callers \ {c} : Same(d)
            /\ UNCHANGED boundVars
            /\ pc[c] # "idle" => call'[c] = call[c]
        <4>1. Begin(c) => pc[c] = "idle"
          BY DEF Begin
        <4> QED
          BY <1>0, <1>1, <4>1, OthersStay DEF callVars
      <3> QED
        BY <1>1, <3>1, PublishedGrows DEF Same, Removed, Idle, boundVars
    <2>2. /\ \A k, l \in Keys : names[k] \in Files /\ names[k] = names[l] => k = l
          /\ \A d \in Callers :
                 /\ pc[d] = "remove" => names[call[d].key] \in Files \cup {Absent}
                 /\ Removed(d) =>
                        /\ file[d] \in Files \cap Published
                        /\ \A k \in Keys : names[k] # file[d]
                        /\ \A e \in Callers \ {d} : Removed(e) => file[e] # file[d]
      BY <2>1 DEF DeleteInv
    <2>3. \A d \in Callers : pc[d] = "remove" => call[d].key \in Keys
      BY DEF AInv, CallInv, DeletePCs
    <2>4. CASE names' = names /\ ~Remove(c)
      <3>1. /\ ~Removed(c)'
            /\ pc'[c] = "remove" => names'[call'[c].key] \in Files \cup {Absent}
        BY <1>1, <2>2, <2>4, NobodyRemoves
      <3> QED
        BY <2>1, <2>2, <2>4, <3>1 DEF DeleteInv, Same
    <2>5. CASE Rename(c) /\ names' # names
      <3> PICK key : key = call[c].key
        OBVIOUS
      <3> PICK m : m = file[c]
        OBVIOUS
      <3>1. /\ key \in Keys /\ m \in Files /\ m \notin Published
            /\ names' = [names EXCEPT ![key] = m] /\ pc' = [pc EXCEPT ![c] = "syncdir"]
        <4>1. pc[c] \in Writing
          BY <2>5 DEF Rename, Writing
        <4> QED
          BY <2>5, <4>1, TemporariesAreMine DEF Rename, SetName, Goto, PutCalls
      <3>2. ~Removed(c)' /\ pc'[c] # "remove" /\ ~Remove(c)
        BY <1>0, <2>5, <3>1 DEF Removed, Idle, TypeOK, Rename, Remove
      <3>3. \A k \in Keys : names[k] # m
        BY <3>1, NamesAreHeld, HeldIsPublished DEF AInv
      <3>4. names'[key] = m /\ \A k \in Keys \ {key} : names'[k] = names[k]
        BY <1>0, <3>1
      <3>5. \A k, l \in Keys : names'[k] \in Files /\ names'[k] = names'[l] => k = l
        BY <2>2, <3>3, <3>4
      <3>6. \A d \in Callers \ {c} :
                /\ pc'[d] = "remove" => names'[call'[d].key] \in Files \cup {Absent}
                /\ Removed(d)' =>
                       /\ file'[d] \in Files \cap Published'
                       /\ \A k \in Keys : names'[k] # file'[d]
                       /\ \A e \in Callers \ {d} : Removed(e)' => file'[e] # file'[d]
        BY <2>1, <2>2, <2>3, <3>1, <3>2, <3>4 DEF Same
      <3> QED
        BY <3>2, <3>5, <3>6 DEF DeleteInv
    <2>6. CASE Remove(c)
      <3> PICK key : key = call[c].key
        OBVIOUS
      <3>1. pc[c] = "remove" /\ key \in Keys
        BY <2>3, <2>6 DEF Remove
      <3>2. CASE names' = names /\ pc'[c] = "idle" /\ reply'[c] # "ok"
        BY <2>1, <2>2, <3>2 DEF DeleteInv, Same, Removed
      <3>3. CASE /\ Removable(key)
                 /\ file' = [file EXCEPT ![c] = names[key]]
                 /\ SetName(key, Absent)
                 /\ pc' = [pc EXCEPT ![c] = "idle"]
        <4>1. names[key] \in Files
          <5>1. names[key] # Absent
            BY <3>1, <3>3, Found DEF Removable, AInv
          <5> QED
            BY <2>2, <3>1, <5>1
        <4>2. /\ names'[key] = Absent /\ \A k \in Keys \ {key} : names'[k] = names[k]
              /\ file'[c] = names[key] /\ pc'[c] = "idle"
          BY <1>0, <3>1, <3>3 DEF SetName, TypeOK
        <4>3. names[key] \in Published
          BY <3>1, NamesAreHeld, HeldIsPublished DEF AInv
        <4>4. \A k, l \in Keys : names'[k] \in Files /\ names'[k] = names'[l] => k = l
          BY <1>0, <2>2, <4>2
        <4>5. \A k \in Keys : names'[k] # file'[c]
          BY <1>0, <2>2, <3>1, <4>1, <4>2
        <4>6. \A d \in Callers \ {c} :
                  /\ pc'[d] = "remove" => names'[call'[d].key] \in Files \cup {Absent}
                  /\ Removed(d)' =>
                         /\ file'[d] \in Files \cap Published'
                         /\ \A k \in Keys : names'[k] # file'[d]
                         /\ file'[d] # file'[c]
                         /\ \A e \in Callers \ {c, d} : Removed(e)' => file'[e] # file'[d]
          BY <1>0, <2>1, <2>2, <2>3, <3>1, <4>2 DEF Same
        <4> QED
          BY <2>1, <4>1, <4>2, <4>3, <4>4, <4>5, <4>6 DEF DeleteInv
      <3> QED
        BY <1>0, <2>6, <3>2, <3>3 DEF Remove, OnClosedRoot, Return, Goto, fsVars, TypeOK
    <2> QED
      BY <1>1, <2>4, <2>5, <2>6, NamesStay DEF Rename
  <1>2. ASSUME \/ Close \/ OperatorPlaces
               \/ \E k \in Keys : Writeback(k)
               \/ UNCHANGED vars
        PROVE  DeleteInv'
    <2>1. /\ \A d \in Callers : Same(d) /\ (Removed(d)' <=> Removed(d))
          /\ UNCHANGED << callVars, file, reply, pc, cuts >>
      BY <1>0, <1>2, SurroundingsStay DEF Same, Removed, Idle
    <2>2. \A k \in Keys : names'[k] \in {names[k], Absent}
      <3>1. CASE OperatorPlaces
        BY <1>0, <3>1 DEF OperatorPlaces, OperatorOnlyRemoves, SetName, MakeDirectory
      <3>2. CASE Close \/ (\E k \in Keys : Writeback(k)) \/ UNCHANGED vars
        BY <3>2 DEF Close, Writeback, vars
      <3> QED
        BY <1>2, <3>1, <3>2
    <2>3. Published \subseteq Published'
      <3>1. CASE OperatorPlaces
        <4>1. PICK put \in Placed : SetName(put[1], put[2])
          BY <3>1 DEF OperatorPlaces, MakeDirectory
        <4>2. put[1] \in Keys /\ put[2] \in Entries
          BY AssetStoreAssumption
        <4> QED
          BY <1>0, <4>1, <4>2, NameSet
      <3>2. CASE Close \/ (\E k \in Keys : Writeback(k)) \/ UNCHANGED vars
        BY <3>2 DEF Close, Writeback, vars, Published, WasHeld
      <3> QED
        BY <1>2, <3>1, <3>2
    <2>4. \A d \in Callers : pc[d] = "remove" => call[d].key \in Keys
      BY DEF AInv, CallInv, DeletePCs
    <2> QED
      BY <1>0, <2>1, <2>2, <2>3, <2>4 DEF DeleteInv, callVars
  <1>3. ~PowerCut
    BY <1>0 DEF PowerCut, TypeOK
  <1> QED
    BY <1>1, <1>2, <1>3 DEF Next, AllReturned, DeleteInv

(* One Delete of an object succeeds, however many race for it with each    *)
(* other and with the Puts of others, and what it removes is an object     *)
(* (doc.go:127).                                                           *)
THEOREM OneDeletePerObject ==
    ASSUME FlatStore, OperatorOnlyRemoves
    PROVE  Spec => []DeletesTakeDistinctObjects
  <1>1. Init => DeleteInv
    BY AssetStoreAssumption DEF Init, DeleteInv, OperatorOnlyRemoves, Removed, Idle
  <1>2. AInv /\ DeleteInv /\ [Next]_vars => DeleteInv'
    BY StepDeleteInv
  <1>3. DeleteInv => DeletesTakeDistinctObjects
    BY DEF DeleteInv, DeletesTakeDistinctObjects
  <1> QED
    BY <1>1, <1>2, <1>3, InvariantHolds, PTL DEF Spec

------------------------------------------------------------------------------
------------------------------------------------------------------------------
(* Durability.                                                             *)

(* What a key has held is only added to.                                   *)
LEMMA HeldGrows ==
    ASSUME AInv, [Next]_vars, NEW k \in Keys
    PROVE  /\ Len(held'[k]) >= Len(held[k])
           /\ \A i \in 1..Len(held[k]) : held'[k][i] = held[k][i]
  <1>0. TypeOK /\ held[k] \in Seq(Entries)
    BY DEF AInv, TypeOK
  <1>1. CASE held' = held
    BY <1>0, <1>1
  <1>2. CASE \E l \in Keys : \E e \in Entries : SetName(l, e)
    BY <1>0, <1>2, NameSet
  <1>3. CASE PowerCut
    <2> PICK after : after = [l \in Keys |-> At(disk, l)]
      OBVIOUS
    <2>1. held' = [l \in Keys |->
                      IF after[l] = names[l] THEN held[l] ELSE Append(held[l], after[l])]
      BY <1>3 DEF PowerCut
    <2>2. after[k] \in Entries
      BY Kinds DEF At, AInv, TypeOK
    <2>3. held'[k] = held[k] \/ held'[k] = Append(held[k], after[k])
      BY <2>1
    <2> QED
      BY <1>0, <2>2, <2>3, Appended
  <1>4. ASSUME NEW c \in Callers, Step(c) \/ Cancel(c) \/ Kill(c)
        PROVE  held' = held \/ \E l \in Keys : \E e \in Entries : SetName(l, e)
    BY <1>4, CallersSetNames
  <1>5. CASE OperatorPlaces
    <2>1. PICK put \in Placed : SetName(put[1], put[2])
      BY <1>5 DEF OperatorPlaces, MakeDirectory
    <2> QED
      BY <1>2, <2>1, AssetStoreAssumption
  <1>6. CASE Close \/ (\E l \in Keys : Writeback(l)) \/ UNCHANGED vars
    BY <1>1, <1>6 DEF Close, Writeback, vars
  <1> QED
    BY <1>1, <1>2, <1>3, <1>4, <1>5, <1>6 DEF Next, AllReturned

Acknowledged(c) == Idle(c) /\ call[c].op = "put" /\ reply[c] = "ok"

(* A step that is not the sync of the directory acknowledges no Put. *)
LEMMA NobodyAcknowledges ==
    ASSUME AInv, NEW c \in Callers, Step(c) \/ Cancel(c) \/ Kill(c), ~SyncDir(c)
    PROVE  ~Acknowledged(c)'
  <1> USE DEF AInv, TypeOK, Goto, Return, Abort, OnClosedRoot, Acknowledged, Idle, callVars
  <1>1. CASE Begin(c)
    BY <1>1 DEF Begin
  <1>2. CASE MkdirAll(c) \/ CreateTemp(c)
    BY <1>2 DEF MkdirAll, CreateTemp
  <1>3. CASE CopyBuffer(c) \/ EndCopy(c) \/ Sync(c) \/ Rename(c)
    BY <1>3 DEF CopyBuffer, EndCopy, Sync, Rename
  <1>4. CASE RemoveTemp(c)
    BY <1>4 DEF RemoveTemp, WriterInv
  <1>5. CASE Lstat(c) \/ Open(c) \/ Read(c) \/ Check(c)
    BY <1>5 DEF Lstat, Open, Read, Observed, Check
  <1>6. CASE Stat(c)
    <2>1. call[c].op = "stat" /\ call' = call
      BY <1>6 DEF Stat, CallInv
    <2> QED
      BY <2>1
  <1>7. CASE Remove(c)
    <2>1. call[c].op = "delete" /\ call' = call
      BY <1>7 DEF Remove, CallInv, DeletePCs
    <2> QED
      BY <2>1
  <1>8. CASE Cancel(c) \/ Kill(c)
    BY <1>8 DEF Cancel, Kill
  <1> QED
    BY <1>1, <1>2, <1>3, <1>4, <1>5, <1>6, <1>7, <1>8 DEF Step

(* In a flat store what is on disk at a key comes from the key alone.      *)
LEMMA DiskFollows ==
    ASSUME FlatStore, AInv, [Next]_vars, NEW k \in Keys
    PROVE  disk'[k] \in {disk[k], names'[k]}
  <1>0. disk \in [Keys -> Entries] /\ \A l \in Keys : ParentOf[k] # l
    BY AssetStoreAssumption DEF AInv, TypeOK, FlatStore
  <1>1. ASSUME NEW l \in Keys, MakeDirectory(l)
        PROVE  disk'[k] = disk[k]
    BY <1>0, <1>1 DEF MakeDirectory
  <1>2. CASE PowerCut
    BY <1>2 DEF PowerCut, At, InPlace, Directories, FlatStore
  <1>3. CASE OperatorPlaces
    <2>1. PICK put \in Placed : MakeDirectory(put[1]) \/ disk' = disk
      BY <1>3 DEF OperatorPlaces
    <2> QED
      BY <1>1, <2>1, AssetStoreAssumption
  <1>4. ASSUME NEW c \in Callers, Step(c) \/ Cancel(c) \/ Kill(c)
        PROVE  disk'[k] \in {disk[k], names'[k]}
    <2>1. CASE MkdirAll(c)
      <3>1. pc[c] = "mkdir" => ParentOf[call[c].key] \in Keys
        BY Parents DEF AInv, CallInv, PutPCs, PutCalls
      <3> QED
        BY <1>1, <2>1, <3>1 DEF MkdirAll, OnClosedRoot, fsVars
    <2>2. CASE SyncDir(c)
      BY <2>2 DEF SyncDir
    <2>3. CASE ~MkdirAll(c) /\ ~SyncDir(c)
      BY <1>4, <2>3
         DEF Step, Cancel, Kill, Begin, CreateTemp, CopyBuffer, EndCopy, Sync, Rename, RemoveTemp,
             Lstat, Open, Read, Stat, Check, Remove, OnClosedRoot, Observed, fsVars
    <2> QED
      BY <2>1, <2>2, <2>3
  <1>5. CASE Close \/ (\E l \in Keys : Writeback(l)) \/ UNCHANGED vars
    BY <1>0, <1>5 DEF Close, Writeback, vars
  <1> QED
    BY <1>2, <1>3, <1>4, <1>5 DEF Next, AllReturned

(* In a flat store, without failing syncs and without Close, an acknowledged
   Put stays durable. *)
LEMMA StepDurableInv ==
    ASSUME FlatStore, Faults \cap {"syncdir", "close"} = {},
           AInv, AInv', DurableInv, [Next]_vars
    PROVE  DurableInv'
  <1>0. TypeOK
    BY DEF AInv
  <1>1. ~closed'
    <2>1. ~closed
      BY DEF DurableInv
    <2>2. ASSUME NEW c \in Callers, Step(c) \/ Cancel(c) \/ Kill(c)
          PROVE  closed' = closed
      BY <1>0, <2>2, OthersStay
    <2>3. CASE \/ Close \/ OperatorPlaces
               \/ \E k \in Keys : Writeback(k)
               \/ UNCHANGED vars
      BY <1>0, <2>1, <2>3, SurroundingsStay
    <2>4. CASE PowerCut
      BY <2>4 DEF PowerCut
    <2> QED
      BY <2>1, <2>2, <2>3, <2>4 DEF Next, AllReturned
  <1>2. SUFFICES ASSUME NEW c \in Callers, Acknowledged(c)'
                 PROVE  LET k == call'[c].key
                        IN  \E i \in DOMAIN held'[k] :
                                /\ held'[k][i] = Mine(c)'
                                /\ \E j \in i..Len(held'[k]) : held'[k][j] = At(disk', k)
    BY <1>1 DEF DurableInv, AcknowledgedPutsAreDurable, Acknowledged, Idle
  <1>3. \/ SyncDir(c)
        \/ Acknowledged(c) /\ call'[c] = call[c] /\ Mine(c)' = Mine(c)
    <2>1. CASE Step(c) \/ Cancel(c) \/ Kill(c)
      BY <1>2, <2>1, NobodyAcknowledges
    <2>2. ASSUME NEW d \in Callers \ {c}, Step(d) \/ Cancel(d) \/ Kill(d)
          PROVE  Acknowledged(c) /\ call'[c] = call[c] /\ Mine(c)' = Mine(c)
      BY <1>0, <1>2, <2>2, OthersStay DEF Same, Acknowledged, Idle, Mine
    <2>3. CASE \/ Close \/ OperatorPlaces
               \/ \E k \in Keys : Writeback(k)
               \/ UNCHANGED vars
      BY <1>0, <1>2, <2>3, SurroundingsStay DEF Same, Acknowledged, Idle, Mine
    <2>4. CASE PowerCut
      BY <1>2, <2>4 DEF PowerCut, Acknowledged, Idle, Mine, callVars
    <2> QED
      BY <2>1, <2>2, <2>3, <2>4 DEF Next, AllReturned
  <1> PICK k : k = call[c].key
    OBVIOUS
  <1> PICK m : m = Mine(c)
    OBVIOUS
  <1>4. call'[c] = call[c] /\ Mine(c)' = m /\ k \in Keys
    <2>1. SyncDir(c) => call'[c] = call[c] /\ Mine(c)' = Mine(c) /\ call[c] \in PutCalls
      BY DEF SyncDir, callVars, Mine, AInv, CallInv, PutPCs
    <2>2. Acknowledged(c) => call[c] \in PutCalls
      BY <1>0 DEF Acknowledged, Idle, TypeOK, AllCalls
    <2> QED
      BY <1>3, <2>1, <2>2 DEF PutCalls
  <1>5. /\ held[k] \in Seq(Entries) /\ held'[k] \in Seq(Entries)
        /\ Len(held'[k]) >= Len(held[k])
        /\ \A i \in 1..Len(held[k]) : held'[k][i] = held[k][i]
        /\ held'[k][Len(held'[k])] = names'[k] /\ held'[k] # << >>
    BY <1>4, HeldGrows DEF AInv, TypeOK, KeyInv
  <1>6. At(disk', k) = disk'[k] /\ At(disk, k) = disk[k]
    BY <1>4 DEF At, InPlace, Directories, FlatStore
  <1>7. disk'[k] \in {disk[k], names'[k]}
    BY <1>4, DiskFollows
  <1>8. CASE Acknowledged(c)
    <2>1. PICK i \in DOMAIN held[k] :
              held[k][i] = m /\ \E j \in i..Len(held[k]) : held[k][j] = disk[k]
      BY <1>4, <1>6, <1>8 DEF DurableInv, AcknowledgedPutsAreDurable, Acknowledged
    <2>2. PICK j \in i..Len(held[k]) : held[k][j] = disk[k]
      BY <2>1
    <2>3. /\ i \in 1..Len(held[k]) /\ i \in 1..Len(held'[k]) /\ i \in DOMAIN held'[k]
          /\ j \in 1..Len(held[k]) /\ j \in i..Len(held'[k])
          /\ Len(held'[k]) \in i..Len(held'[k])
      BY <1>5
    <2>4. held'[k][i] = m /\ held'[k][j] = disk[k]
      BY <1>5, <2>1, <2>2, <2>3
    <2>5. \E l \in i..Len(held'[k]) : held'[k][l] = disk'[k]
      BY <1>5, <1>7, <2>3, <2>4
    <2> QED
      BY <1>4, <1>6, <2>3, <2>4, <2>5
  <1>9. CASE SyncDir(c)
    <2>1. m \in WasHeld(k)
      BY <1>9 DEF AInv, WriterInv, SyncDir
    <2>2. PICK i \in DOMAIN held[k] : held[k][i] = m
      BY <2>1 DEF WasHeld
    <2>3. disk'[k] = names[k] /\ names' = names
      BY <1>4, <1>9 DEF SyncDir, DurableInv, InPlace, Directories, FlatStore
    <2>4. /\ i \in 1..Len(held[k]) /\ i \in DOMAIN held'[k] /\ Len(held'[k]) \in i..Len(held'[k])
      BY <1>5
    <2>5. held'[k][i] = m /\ held'[k][Len(held'[k])] = disk'[k]
      BY <1>5, <2>2, <2>3, <2>4
    <2> QED
      BY <1>4, <1>6, <2>4, <2>5
  <1> QED
    BY <1>3, <1>8, <1>9

(* In a store without prefixes an acknowledged Put survives a power cut,   *)
(* unless the directory could not be flushed or the store was closed under *)
(* it: what the cut leaves is its object, or what came after it            *)
(* (doc.go:231-246).                                                       *)
THEOREM AcknowledgedPutsSurvive ==
    ASSUME FlatStore, Faults \cap {"syncdir", "close"} = {}
    PROVE  Spec => []AcknowledgedPutsAreDurable
  <1>1. Init => DurableInv
    BY DEF Init, DurableInv, AcknowledgedPutsAreDurable, Idle
  <1>2. AInv /\ AInv' /\ DurableInv /\ [Next]_vars => DurableInv'
    BY StepDurableInv
  <1>3. DurableInv => AcknowledgedPutsAreDurable
    BY DEF DurableInv
  <1> QED
    BY <1>1, <1>2, <1>3, InvariantHolds, PTL DEF Spec

------------------------------------------------------------------------------
------------------------------------------------------------------------------
(* One instant of a call.                                                  *)

(* Where an operator places no links, none appears but by a power cut. *)
LEMMA NoNewLinks ==
    ASSUME NoLinksPlaced, AInv, [Next]_vars, ~PowerCut, NEW k \in Keys, names[k] # Link
    PROVE  names'[k] # Link
  <1>0. names \in [Keys -> Entries]
    BY DEF AInv, TypeOK
  <1>1. ASSUME NEW l \in Keys, NEW e, SetName(l, e), e # Link
        PROVE  names'[k] # Link
    BY <1>0, <1>1 DEF SetName
  <1>2. CASE OperatorPlaces
    <2>1. PICK put \in Placed : MakeDirectory(put[1]) \/ SetName(put[1], put[2])
      BY <1>2 DEF OperatorPlaces
    <2>2. put[1] \in Keys /\ put[2] # Link
      BY AssetStoreAssumption DEF NoLinksPlaced
    <2> QED
      BY <1>1, <2>1, <2>2, AssetStoreAssumption DEF MakeDirectory
  <1>3. ASSUME NEW c \in Callers, Step(c) \/ Cancel(c) \/ Kill(c)
        PROVE  names'[k] # Link
    <2>1. CASE MkdirAll(c)
      <3>1. pc[c] = "mkdir" => ParentOf[call[c].key] \in Keys
        BY Parents DEF AInv, CallInv, PutPCs, PutCalls
      <3> QED
        BY <1>1, <2>1, <3>1, AssetStoreAssumption DEF MkdirAll, MakeDirectory, OnClosedRoot, fsVars
    <2>2. CASE Rename(c)
      <3>1. pc[c] = "rename" => call[c].key \in Keys /\ file[c] # Link
        BY TemporariesAreMine, Kinds DEF Writing, PutCalls
      <3> QED
        BY <1>1, <2>2, <3>1 DEF Rename
    <2>3. CASE Remove(c)
      <3>1. pc[c] = "remove" => call[c].key \in Keys
        BY DEF AInv, CallInv, DeletePCs
      <3> QED
        BY <1>1, <2>3, <3>1, AssetStoreAssumption DEF Remove, OnClosedRoot, fsVars
    <2>4. CASE ~MkdirAll(c) /\ ~Rename(c) /\ ~Remove(c)
      BY <1>3, <2>4
         DEF Step, Cancel, Kill, Begin, CreateTemp, CopyBuffer, EndCopy, Sync, SyncDir, RemoveTemp,
             Lstat, Open, Read, Stat, Check, OnClosedRoot, Observed, fsVars
    <2> QED
      BY <2>1, <2>2, <2>3, <2>4
  <1>4. CASE Close \/ (\E l \in Keys : Writeback(l)) \/ UNCHANGED vars
    BY <1>4 DEF Close, Writeback, vars
  <1> QED
    BY <1>2, <1>3, <1>4 DEF Next, AllReturned

(* How a call comes to have a file open, or to be about to open one.       *)
LEMMA NobodyOpens ==
    ASSUME AInv, NEW c \in Callers, Step(c) \/ Cancel(c) \/ Kill(c),
           pc'[c] \in {"open", "read"}
    PROVE  \/ Lstat(c)
           \/ Open(c)
           \/ /\ pc'[c] = pc[c] /\ UNCHANGED << names, held, callVars, file >>
  <1> USE DEF AInv, TypeOK, Goto, Return, Abort, OnClosedRoot, Observed, fsVars
  <1>1. CASE Begin(c)
    <2>1. PICK made \in CallsOf[c] : Goto(c, FirstStep(made)) \/ pc' = pc
      BY <1>1 DEF Begin
    <2>2. FirstStep(made) \notin {"open", "read"}
      BY FirstSteps, AssetStoreAssumption
    <2>3. pc[c] = "idle"
      BY <1>1 DEF Begin
    <2> QED
      BY <2>1, <2>2, <2>3
  <1>2. CASE MkdirAll(c) \/ CreateTemp(c)
    BY <1>2 DEF MkdirAll, CreateTemp
  <1>3. CASE CopyBuffer(c) \/ EndCopy(c) \/ Sync(c) \/ Rename(c)
    BY <1>3 DEF CopyBuffer, EndCopy, Sync, Rename
  <1>4. CASE SyncDir(c) \/ RemoveTemp(c) \/ Kill(c)
    BY <1>4 DEF SyncDir, RemoveTemp, Kill
  <1>5. CASE Read(c)
    BY <1>5 DEF Read
  <1>6. CASE Stat(c) \/ Check(c) \/ Remove(c)
    BY <1>6 DEF Stat, Check, Remove
  <1>7. CASE Cancel(c)
    BY <1>7 DEF Cancel
  <1> QED
    BY <1>1, <1>2, <1>3, <1>4, <1>5, <1>6, <1>7 DEF Step

(* Where no links are placed, each step keeps it that an object open for
   reading is one its key held since the call began. *)
LEMMA StepRInv ==
    ASSUME NoLinksPlaced, AInv, AInv', RInv, [Next]_vars
    PROVE  RInv'
  <1>0. TypeOK
    BY DEF AInv
  <1>1. SUFFICES ASSUME NEW c \in Callers, pc'[c] \in {"open", "read"}
                 PROVE  InstantInv(c)'
    BY DEF RInv, InstantInv
  <1>2. ~PowerCut
    BY <1>1 DEF PowerCut
  <1>3. CASE pc'[c] = pc[c] /\ call'[c] = call[c] /\ began'[c] = began[c] /\ file'[c] = file[c]
    <2> PICK k : k = call[c].key
      OBVIOUS
    <2>1. k \in Keys /\ call'[c].key = k
      BY <1>1, <1>3 DEF AInv, CallInv, GetPCs
    <2>2. pc'[c] = "open" => names'[k] # Link
      BY <1>2, <1>3, <2>1, NoNewLinks DEF RInv, InstantInv
    <2>3. ASSUME pc'[c] = "read"
          PROVE  \E i \in began[c]..Len(held'[k]) : held'[k][i] = file[c]
      <3>1. PICK i \in began[c]..Len(held[k]) : held[k][i] = file[c]
        BY <1>3, <2>3 DEF RInv, InstantInv
      <3>2. /\ began[c] \in 1..Len(held[k])
            /\ held[k] \in Seq(Entries) /\ held'[k] \in Seq(Entries)
        BY <1>1, <1>3, <2>1 DEF AInv, TypeOK, CallInv, GetPCs, NoCall
      <3>3. /\ Len(held'[k]) >= Len(held[k])
            /\ \A n \in 1..Len(held[k]) : held'[k][n] = held[k][n]
        BY <2>1, HeldGrows
      <3> QED
        BY <3>1, <3>2, <3>3
    <2> QED
      BY <1>3, <2>1, <2>2, <2>3 DEF InstantInv
  <1>4. CASE Lstat(c)
    <2>1. call[c].key \in Keys
      BY <1>4 DEF Lstat, AInv, CallInv, GetPCs
    <2>2. At(names, call[c].key) = names[call[c].key]
      BY <2>1, Found DEF AInv
    <2> QED
      BY <1>0, <1>1, <1>4, <2>2, Kinds
         DEF Lstat, InstantInv, TypeOK, OnClosedRoot, Return, Goto, fsVars, callVars
  <1>5. CASE Open(c)
    <2> PICK k : k = call[c].key
      OBVIOUS
    <2>1. k \in Keys /\ names[k] # Link /\ call[c] # NoCall
      BY <1>5 DEF Open, AInv, CallInv, GetPCs, RInv, InstantInv, NoCall
    <2>2. Opened(k) = names[k]
      BY <2>1, Found DEF AInv, Opened
    <2>3. /\ file'[c] = names[k] /\ pc'[c] = "read"
          /\ UNCHANGED << names, held, call, began >>
      BY <1>0, <1>1, <1>5, <2>2 DEF Open, TypeOK, OnClosedRoot, Return, Goto, fsVars, callVars
    <2>4. began[c] \in 1..Len(held[k]) /\ held[k][Len(held[k])] = names[k] /\ held[k] \in Seq(Entries)
      BY <1>0, <2>1 DEF AInv, CallInv, KeyInv, TypeOK
    <2>5. Len(held[k]) \in began[c]..Len(held[k])
      BY <2>4
    <2> QED
      BY <2>3, <2>4, <2>5 DEF InstantInv
  <1>6. CASE Step(c) \/ Cancel(c) \/ Kill(c)
    BY <1>1, <1>3, <1>4, <1>5, <1>6, NobodyOpens DEF callVars
  <1>7. ASSUME NEW d \in Callers \ {c}, Step(d) \/ Cancel(d) \/ Kill(d)
        PROVE  Same(c)
    BY <1>0, <1>7, OthersStay
  <1>8. CASE \/ Close \/ OperatorPlaces
             \/ \E k \in Keys : Writeback(k)
             \/ UNCHANGED vars
    BY <1>0, <1>3, <1>8, SurroundingsStay DEF Same
  <1> QED
    BY <1>2, <1>3, <1>6, <1>7, <1>8 DEF Next, AllReturned, Same

(* The latest entry of a key is one of those since the call began.         *)
LEMMA NowIsDuring ==
    ASSUME AInv, AInv', [Next]_vars, NEW c \in Callers, call[c] # NoCall
    PROVE  /\ call[c].key \in Keys
           /\ names'[call[c].key] \in During(c)
           /\ \A i \in began[c]..Len(held[call[c].key]) : held[call[c].key][i] \in During(c)
           /\ names[call[c].key] \in During(c)
  <1> PICK k : k = call[c].key
    OBVIOUS
  <1>1. k \in Keys
    BY DEF AInv, TypeOK, AllCalls, PutCalls
  <1>2. /\ held[k] \in Seq(Entries) /\ held'[k] \in Seq(Entries)
        /\ began[c] \in 1..Len(held[k])
        /\ held[k][Len(held[k])] = names[k] /\ held'[k][Len(held'[k])] = names'[k]
    BY <1>1 DEF AInv, TypeOK, CallInv, KeyInv
  <1>3. /\ Len(held'[k]) >= Len(held[k])
        /\ \A n \in 1..Len(held[k]) : held'[k][n] = held[k][n]
    BY <1>1, HeldGrows
  <1>4. During(c) = {held'[k][i] : i \in began[c]..Len(held'[k])}
    BY DEF During
  <1>5. \A i \in began[c]..Len(held[k]) : held[k][i] \in During(c)
    BY <1>2, <1>3, <1>4
  <1>6. Len(held[k]) \in began[c]..Len(held[k]) /\ Len(held'[k]) \in began[c]..Len(held'[k])
    BY <1>2, <1>3
  <1> QED
    BY <1>1, <1>2, <1>4, <1>5, <1>6

(* How a call of Get, Stat or Delete comes to its answer.                  *)
LEMMA Answered ==
    ASSUME AInv, NEW c \in Callers, Step(c) \/ Cancel(c) \/ Kill(c), Ends(c)
    PROVE  /\ call[c] # NoCall
           /\ reply'[c] = "read" => Read(c) /\ got'[c] = got[c] /\ Len(got[c]) >= Len(bytes[file[c]])
           /\ call[c].op = "stat" /\ reply'[c] = "ok" =>
                  /\ At(names, call[c].key) \in Files
                  /\ info'[c] = Len(bytes[At(names, call[c].key)])
           /\ call[c].op # "put" /\ reply'[c] = "notfound" =>
                  \/ At(names, call[c].key) \notin Files
                  \/ pc[c] = "open" /\ Opened(call[c].key) \notin Files
  <1> USE DEF AInv, TypeOK, Goto, Return, Abort, OnClosedRoot, Ends
  <1>0. call[c] # NoCall
    <2>1. pc[c] \in PutPCs \cup GetPCs \cup DeletePCs \cup {"stat"}
      BY DEF PCs, PutPCs, GetPCs, DeletePCs
    <2>2. /\ call[c] \in PutCalls => call[c].op = "put"
          /\ call[c] \in [op: {"get"}, key: Keys] => call[c].op = "get"
          /\ call[c] \in [op: {"stat"}, key: Keys] => call[c].op = "stat"
          /\ call[c] \in [op: {"delete"}, key: Keys] => call[c].op = "delete"
      BY DEF PutCalls
    <2>3. call[c].op \in {"put", "get", "stat", "delete"}
      BY <2>1, <2>2 DEF CallInv
    <2> QED
      BY <2>3 DEF NoCall
  <1>1. CASE Begin(c)
    BY <1>1 DEF Begin
  <1>2. CASE MkdirAll(c) \/ CreateTemp(c)
    BY <1>0, <1>2 DEF MkdirAll, CreateTemp, CallInv, PutPCs, PutCalls
  <1>3. CASE CopyBuffer(c) \/ EndCopy(c) \/ Sync(c) \/ Rename(c)
    BY <1>3 DEF CopyBuffer, EndCopy, Sync, Rename
  <1>4. CASE SyncDir(c)
    BY <1>0, <1>4 DEF SyncDir, CallInv, PutPCs, PutCalls
  <1>5. CASE RemoveTemp(c)
    BY <1>0, <1>5 DEF RemoveTemp, CallInv, PutPCs, PutCalls, Writing, WriterInv
  <1>6. CASE Lstat(c) \/ Check(c)
    BY <1>0, <1>6 DEF Lstat, Check, CallInv, GetPCs, DeletePCs
  <1>7. CASE Open(c)
    BY <1>0, <1>7 DEF Open, CallInv, GetPCs
  <1>8. CASE Read(c)
    BY <1>0, <1>8 DEF Read, CallInv, GetPCs
  <1>9. CASE Stat(c)
    BY <1>0, <1>9 DEF Stat
  <1>10. CASE Remove(c)
    BY <1>0, <1>10, Kinds DEF Remove, CallInv, DeletePCs, Removable
  <1>11. CASE Cancel(c) \/ Kill(c)
    BY <1>0, <1>11 DEF Cancel, Kill
  <1> QED
    BY <1>1, <1>2, <1>3, <1>4, <1>5, <1>6, <1>7, <1>8, <1>9, <1>10, <1>11 DEF Step

(* RepliesAreOfOneInstant, of one step and of one caller.                  *)
LEMMA AnswersAreOfOneInstant ==
    ASSUME AInv, AInv', RInv, [Next]_vars, NEW c \in Callers, Ends(c)
    PROVE  /\ reply'[c] = "read" => \E f \in During(c) \cap Files : got'[c] = Whole(f)
           /\ call[c].op = "stat" /\ reply'[c] = "ok" =>
                  \E f \in During(c) \cap Files : info'[c] = f.length
           /\ call[c].op # "put" /\ reply'[c] = "notfound" => ~(During(c) \subseteq Files)
  <1>0. TypeOK
    BY DEF AInv
  <1>1. CASE PowerCut
    BY <1>1 DEF PowerCut, Ends
  <1>2. CASE Step(c) \/ Cancel(c) \/ Kill(c)
    <2> PICK k : k = call[c].key
      OBVIOUS
    <2>1. /\ k \in Keys /\ names[k] \in During(c) /\ names'[k] \in During(c)
          /\ \A i \in began[c]..Len(held[k]) : held[k][i] \in During(c)
      BY <1>2, Answered, NowIsDuring
    <2>2. At(names, k) = names[k]
      BY <2>1, Found DEF AInv
    <2>3. ASSUME reply'[c] = "read"
          PROVE  file[c] \in During(c) \cap Files /\ got'[c] = Whole(file[c])
      <3>1. Read(c) /\ got'[c] = got[c] /\ Len(got[c]) >= Len(bytes[file[c]]) /\ pc[c] = "read"
        BY <1>2, <2>3, Answered DEF Read
      <3>2. /\ file[c] \in Published \cap Files /\ got[c] \in Seq(Files)
            /\ \A n \in DOMAIN got[c] : got[c][n] = file[c]
            /\ Len(got[c]) <= file[c].length
        BY <3>1 DEF AInv, ReaderInv, TypeOK
      <3>3. Len(bytes[file[c]]) = file[c].length /\ file[c].length \in Nat
        BY <3>2, PublishedAreWhole, WholeIsWritten
      <3>4. Len(got[c]) = file[c].length
        BY <3>1, <3>2, <3>3
      <3>5. got[c] = Whole(file[c])
        BY <3>2, <3>4, WrittenOut
      <3>6. file[c] \in During(c)
        BY <2>1, <3>1 DEF RInv, InstantInv
      <3> QED
        BY <3>1, <3>2, <3>5, <3>6
    <2>4. ASSUME call[c].op = "stat", reply'[c] = "ok"
          PROVE  names[k] \in During(c) \cap Files /\ info'[c] = names[k].length
      <3>1. names[k] \in Files /\ info'[c] = Len(bytes[names[k]])
        BY <1>2, <2>2, <2>4, Answered
      <3>2. names[k] \in Published
        BY <2>1, <2>2, <3>1, FoundIsPublished
      <3> QED
        BY <2>1, <3>1, <3>2, PublishedAreWhole
    <2>5. ASSUME call[c].op # "put", reply'[c] = "notfound"
          PROVE  names[k] \notin Files
      <3>1. pc[c] = "open" => Opened(k) = names[k]
        BY <2>2 DEF RInv, InstantInv, Opened
      <3> QED
        BY <1>2, <2>2, <2>5, <3>1, Answered
    <2> QED
      BY <2>1, <2>3, <2>4, <2>5
  <1>3. ASSUME NEW d \in Callers \ {c}, Step(d) \/ Cancel(d) \/ Kill(d)
        PROVE  FALSE
    BY <1>0, <1>3, OthersStay DEF Same, Ends
  <1>4. CASE \/ Close \/ OperatorPlaces
             \/ \E k \in Keys : Writeback(k)
             \/ UNCHANGED vars
    BY <1>0, <1>4, SurroundingsStay DEF Same, Ends
  <1> QED
    BY <1>1, <1>2, <1>3, <1>4 DEF Next, AllReturned

(* Where nobody places a symbolic link, every answer of Get, Stat and      *)
(* Delete was true of one instant of the call, and a stream that is read   *)
(* to its end is one object, however the key is replaced meanwhile         *)
(* (store.go:120, doc.go:110).                                             *)
THEOREM AnswersHoldAtOneInstant ==
    ASSUME NoLinksPlaced
    PROVE  Spec => RepliesAreOfOneInstant
  <1>1. Init => RInv
    BY DEF Init, RInv, InstantInv
  <1>2. AInv /\ AInv' /\ RInv /\ [Next]_vars => RInv'
    BY StepRInv
  <1> DEFINE Sound == \A c \in Callers : Ends(c) =>
        /\ reply'[c] = "read" => \E f \in During(c) \cap Files : got'[c] = Whole(f)
        /\ call[c].op = "stat" /\ reply'[c] = "ok" =>
               \E f \in During(c) \cap Files : info'[c] = f.length
        /\ call[c].op # "put" /\ reply'[c] = "notfound" => ~(During(c) \subseteq Files)
  <1>3. AInv /\ AInv' /\ RInv /\ [Next]_vars => [Sound]_vars
    BY AnswersAreOfOneInstant
  <1>4. [][Sound]_vars => RepliesAreOfOneInstant
    BY PTL DEF RepliesAreOfOneInstant
  <1> HIDE DEF Sound
  <1> QED
    BY <1>1, <1>2, <1>3, <1>4, InvariantHolds, PTL DEF Spec
==============================================================================
