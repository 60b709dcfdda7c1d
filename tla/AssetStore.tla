------------------------------ MODULE AssetStore -----------------------------
(***************************************************************************)
(* localfs.Store: Put, Get, Stat and Delete of the objects of a directory, *)
(* by any number of callers, with the operator at a shell beside them.     *)
(* The store keeps no state of its own: one system call is one step, and   *)
(* the state is the file system's.                                         *)
(*                                                                         *)
(* A file is told apart by the call that wrote it, the length of that      *)
(* call's stream included, and its bytes by the file they were meant for,  *)
(* so a mixture of two objects shows.                                      *)
(***************************************************************************)
EXTENDS Integers, Sequences

CONSTANTS
    Keys,         \* asset keys, the directories they lie in included
    ParentOf,     \* the key whose directory a key lies in, or Root
    Root,         \* the store's directory
    Callers,      \* callers of the four methods
    Operator,     \* whoever else changes the directory
    CallsOf,      \* the calls each caller may make
    InitialNames, \* what the directory may hold at the start
    Placed,       \* <<key, entry>>: what the operator may put at a key
    LinkTarget,   \* the key a symbolic link points at
    SizeUnknown,  \* core.SizeUnknown
    Absent, Directory, Link,
    MaxCalls,     \* bound: calls per caller
    MaxPlaced,    \* bound: the operator's changes
    MaxCuts,      \* bound: power cuts
    MaxLength,    \* bound: the length of a stream, in io.Copy buffers
    MayCancel,    \* the callers whose context may be done
    Faults        \* which of AllFaults may happen

(* write, sync, syncdir: that system call fails.  kill: a caller's process *)
(* dies.  close: somebody calls Store.Close while calls are under way.     *)
AllFaults == {"write", "sync", "syncdir", "kill", "close"}

Authors == Callers \cup {Operator}

Files == [by: Authors, nth: 0..MaxCalls, length: 0..MaxLength]

Entries == Files \cup {Absent, Directory, Link}

Sizes == 0..MaxLength \cup {SizeUnknown}

(* fails: the stream ends in an error of the caller's own reader.          *)
PutCalls == [op: {"put"}, key: Keys, size: Sizes, length: 0..MaxLength, fails: BOOLEAN]

AllCalls == PutCalls \cup [op: {"get", "stat", "delete"}, key: Keys]

NoCall == [op |-> "none"]

NoFile == Absent

ASSUME AssetStoreAssumption ==
    /\ ParentOf \in [Keys -> Keys \cup {Root}]
    /\ Root \notin Keys
    /\ \A k \in Keys : ParentOf[k] # Root => ParentOf[ParentOf[k]] = Root
    /\ Operator \notin Callers
    /\ CallsOf \in [Callers -> SUBSET AllCalls]
    /\ InitialNames \subseteq [Keys -> Entries]
    /\ Placed \subseteq Keys \X Entries
    /\ \A k \in Keys : \A tree \in InitialNames :
           /\ tree[k] # Absent /\ ParentOf[k] # Root => tree[ParentOf[k]] = Directory
           /\ tree[k] \in Files => tree[k].by = Operator
    /\ \A put \in Placed : put[2] \in Files => put[2].by = Operator
    /\ LinkTarget \in Keys
    /\ \A k \in Keys : ParentOf[k] # Root =>   \* a link is never on the way to a key
           /\ \A tree \in InitialNames : tree[ParentOf[k]] # Link
           /\ << ParentOf[k], Link >> \notin Placed
    /\ SizeUnknown \notin Nat
    /\ Absent \notin Files /\ Directory \notin Files /\ Link \notin Files
    /\ Absent # Directory /\ Absent # Link /\ Directory # Link
    /\ {MaxCalls, MaxPlaced, MaxCuts, MaxLength} \subseteq Nat
    /\ MayCancel \subseteq Callers
    /\ Faults \subseteq AllFaults

VARIABLES
    names,      \* the directory tree: what is at each key
    disk,       \* the part of it a power cut would leave
    bytes,      \* what has been written to each file
    synced,     \* the files whose bytes a power cut would leave
    orphans,    \* <<file, directory>>: temporary files nobody will remove
    closed,     \* whether the Store has been closed
    pc,         \* per caller, the system call its method makes next
    call,       \* per caller, the arguments of its call
    nth,        \* per caller, how many calls it has made
    cancelled,  \* per caller, whether the call's context is done
    file,       \* per caller, the file it has open, or has unlinked
    got,        \* per caller, what it has read from its reader
    info,       \* per caller, the size Put and Stat report
    reply,      \* per caller, how its call ends
    held,       \* observed: what each key has held, the latest last
    began,      \* observed: where in held a caller's call began
    placed,     \* how many changes the operator has made
    cuts        \* how many power cuts there have been

fsVars == << names, disk, bytes, synced, orphans, closed, held >>
callVars == << call, nth, began >>
boundVars == << placed, cuts >>
vars == << names, disk, bytes, synced, orphans, closed, pc, call, nth, cancelled,
           file, got, info, reply, held, began, placed, cuts >>

Replies == {"none", "ok", "read", "exists", "notfound", "invalid", "cancelled",
            "failed", "killed"}

(* The points of a Put at which its temporary file is in the directory.    *)
Writing == {"copy", "sync", "rename", "abort"}

PCs == {"idle", "mkdir", "temp", "syncdir", "stat", "lstat", "open", "read",
        "check", "remove"} \cup Writing

Whole(f) == [n \in 1..f.length |-> f]

------------------------------------------------------------------------------
(***************************************************************************)
(* The file system.                                                        *)
(***************************************************************************)

Directories(tree) == {Root} \cup {k \in Keys : tree[k] = Directory}

(* The directory a key lies in is there.                                   *)
InPlace(tree, k) == ParentOf[k] \in Directories(tree)

(* What an lstat of a key finds.                                           *)
At(tree, k) == IF InPlace(tree, k) THEN tree[k] ELSE Absent

(* What an open of a key finds, which follows a link at the key.           *)
Opened(k) == IF At(names, k) = Link THEN At(names, LinkTarget) ELSE At(names, k)

Temporaries ==
    {<< file[c], ParentOf[call[c].key] >> : c \in {d \in Callers : pc[d] \in Writing}}

IsEmpty(dir) ==
    /\ \A k \in Keys : ParentOf[k] = dir => names[k] = Absent
    /\ \A temp \in Temporaries \cup orphans : temp[2] # dir

SetName(k, entry) ==
    /\ names' = [names EXCEPT ![k] = entry]
    /\ held' = [held EXCEPT ![k] = Append(@, entry)]

(* A directory that has just been made has nothing in it, on disk either.   *)
MakeDirectory(dir) ==
    /\ SetName(dir, Directory)
    /\ disk' = [k \in Keys |-> IF ParentOf[k] = dir THEN Absent ELSE disk[k]]

Init ==
    /\ names \in InitialNames
    /\ disk = names
    /\ bytes = [f \in Files |-> IF f.by = Operator THEN Whole(f) ELSE << >>]
    /\ synced = {f \in Files : f.by = Operator}
    /\ orphans = {}
    /\ closed = FALSE
    /\ pc = [c \in Callers |-> "idle"]
    /\ call = [c \in Callers |-> NoCall]
    /\ nth = [c \in Callers |-> 0]
    /\ cancelled = [c \in Callers |-> FALSE]
    /\ file = [c \in Callers |-> NoFile]
    /\ got = [c \in Callers |-> << >>]
    /\ info = [c \in Callers |-> SizeUnknown]
    /\ reply = [c \in Callers |-> "none"]
    /\ held = [k \in Keys |-> << names[k] >>]
    /\ began = [c \in Callers |-> 1]
    /\ placed = 0
    /\ cuts = 0

Goto(c, label) == pc' = [pc EXCEPT ![c] = label]

Return(c, why) ==
    /\ Goto(c, "idle")
    /\ reply' = [reply EXCEPT ![c] = why]
    /\ cancelled' = [cancelled EXCEPT ![c] = FALSE]

(* What a Put that has failed still does: remove its temporary file.       *)
Abort(c, why) ==
    /\ Goto(c, "abort")
    /\ reply' = [reply EXCEPT ![c] = why]
    /\ UNCHANGED cancelled

(***************************************************************************)
(* Begins a call: a context that is done already ends it there and then.   *)
(***************************************************************************)
FirstStep(c) ==
    CASE c.op = "put"    -> IF ParentOf[c.key] = Root THEN "temp" ELSE "mkdir"
      [] c.op = "get"    -> "lstat"
      [] c.op = "stat"   -> "stat"
      [] c.op = "delete" -> "check"

Begin(c) ==
    /\ pc[c] = "idle"
    /\ nth[c] < MaxCalls
    /\ \E made \in CallsOf[c] :
        /\ call' = [call EXCEPT ![c] = made]
        /\ began' = [began EXCEPT ![c] = Len(held[made.key])]
        /\ \/ /\ Goto(c, FirstStep(made))
              /\ reply' = [reply EXCEPT ![c] = "none"]
           \/ /\ c \in MayCancel
              /\ reply' = [reply EXCEPT ![c] = "cancelled"]
              /\ pc' = pc
    /\ nth' = [nth EXCEPT ![c] = @ + 1]
    /\ file' = [file EXCEPT ![c] = NoFile]
    /\ got' = [got EXCEPT ![c] = << >>]
    /\ info' = [info EXCEPT ![c] = SizeUnknown]
    /\ UNCHANGED << names, disk, bytes, synced, orphans, closed, held, cancelled, boundVars >>

Cancel(c) ==
    /\ c \in MayCancel
    /\ pc[c] # "idle"
    /\ ~cancelled[c]
    /\ cancelled' = [cancelled EXCEPT ![c] = TRUE]
    /\ UNCHANGED << fsVars, pc, file, got, info, reply, callVars, boundVars >>

(* A method of os.Root on a root that has been closed.                     *)
OnClosedRoot(c) == closed /\ Return(c, "failed") /\ UNCHANGED << fsVars, file, got, info >>

(* A call that has learned something and leaves the directory as it is.    *)
Observed(c) == UNCHANGED << fsVars, callVars, boundVars >>

(***************************************************************************)
(* Put.                                                                    *)
(***************************************************************************)
Mine(c) == [by |-> c, nth |-> nth[c], length |-> call[c].length]

MkdirAll(c) ==
    LET dir == ParentOf[call[c].key]
    IN  /\ pc[c] = "mkdir"
        /\ \/ OnClosedRoot(c)
           \/ /\ ~closed
              /\ names[dir] = Absent
              /\ MakeDirectory(dir)
              /\ Goto(c, "temp")
              /\ UNCHANGED << bytes, synced, orphans, closed, file, got, info,
                              reply, cancelled >>
           \/ /\ ~closed
              /\ names[dir] = Directory
              /\ Goto(c, "temp")
              /\ UNCHANGED << fsVars, file, got, info, reply, cancelled >>
           \/ /\ ~closed
              /\ names[dir] \notin {Absent, Directory}
              /\ Return(c, "exists")
              /\ UNCHANGED << fsVars, file, got, info >>
        /\ UNCHANGED << callVars, boundVars >>

(* Slip: an object that is there already is truncated and written in place. *)
CreateTempInPlace(c) ==
    LET old == At(names, call[c].key)
        new == IF old \in Files THEN old ELSE Mine(c)
    IN  /\ pc[c] = "temp"
        /\ ~closed
        /\ InPlace(names, call[c].key)
        /\ file' = [file EXCEPT ![c] = new]
        /\ bytes' = [bytes EXCEPT ![new] = << >>]
        /\ Goto(c, "copy")
        /\ UNCHANGED << names, disk, synced, orphans, closed, held, got, info, reply,
                        cancelled, callVars, boundVars >>

(* createTemp: a new file in the key's own directory.                      *)
CreateTemp(c) ==
    LET key == call[c].key
    IN  /\ pc[c] = "temp"
        /\ \/ OnClosedRoot(c)
           \/ /\ ~closed
              /\ InPlace(names, key)
              /\ file' = [file EXCEPT ![c] = Mine(c)]
              /\ Goto(c, "copy")
              /\ UNCHANGED << fsVars, got, info, reply, cancelled >>
           \/ /\ ~closed
              /\ ~InPlace(names, key)
              /\ Return(c, IF names[ParentOf[key]] = Absent THEN "notfound" ELSE "exists")
              /\ UNCHANGED << fsVars, file, got, info >>
        /\ UNCHANGED << callVars, boundVars >>

(* One turn of io.Copy: the context, then the reader, then the file.  The  *)
(* stream is cut one past the declared size.                               *)
NeverCut(c) == FALSE \* slip: no io.LimitReader

IsCut(c) == call[c].size # SizeUnknown /\ Len(bytes[file[c]]) = call[c].size + 1

IsAtEnd(c) == Len(bytes[file[c]]) = call[c].length \/ IsCut(c)

CopyBuffer(c) ==
    /\ pc[c] = "copy"
    /\ \/ /\ cancelled[c]
          /\ Abort(c, "cancelled")
          /\ UNCHANGED bytes
       \/ /\ ~cancelled[c]
          /\ ~IsAtEnd(c)
          /\ bytes' = [bytes EXCEPT ![file[c]] = Append(@, Mine(c))]
          /\ UNCHANGED << pc, reply, cancelled >>
       \/ /\ ~cancelled[c]
          /\ ~IsAtEnd(c)
          /\ "write" \in Faults
          /\ Abort(c, "failed")
          /\ UNCHANGED bytes
    /\ UNCHANGED << names, disk, synced, orphans, closed, held, file, got, info,
                    callVars, boundVars >>

(* The stream has ended: in the reader's own error, at a length that is    *)
(* not the declared one, or as it should.                                  *)
EndCopy(c) ==
    LET broken == call[c].fails /\ ~IsCut(c)
        length == Len(bytes[file[c]])
    IN  /\ pc[c] = "copy"
        /\ ~cancelled[c]
        /\ IsAtEnd(c)
        /\ \/ broken /\ Abort(c, "failed")
           \/ /\ ~broken
              /\ call[c].size \notin {SizeUnknown, length}
              /\ Abort(c, "invalid")
           \/ /\ ~broken
              /\ call[c].size \in {SizeUnknown, length}
              /\ Goto(c, "sync")
              /\ UNCHANGED << reply, cancelled >>
        /\ UNCHANGED << fsVars, file, got, info, callVars, boundVars >>

(* Slip: the bytes are left to the kernel.                                 *)
NoSync(c) ==
    /\ pc[c] = "sync"
    /\ info' = [info EXCEPT ![c] = Len(bytes[file[c]])]
    /\ Goto(c, "rename")
    /\ UNCHANGED << fsVars, file, got, reply, cancelled, callVars, boundVars >>

(* commit, up to the rename: fstat, fsync, close.                          *)
Sync(c) ==
    /\ pc[c] = "sync"
    /\ \/ /\ info' = [info EXCEPT ![c] = Len(bytes[file[c]])]
          /\ synced' = synced \cup {file[c]}
          /\ Goto(c, "rename")
          /\ UNCHANGED << reply, cancelled >>
       \/ /\ "sync" \in Faults
          /\ Abort(c, "failed")
          /\ UNCHANGED << info, synced >>
    /\ UNCHANGED << names, disk, bytes, orphans, closed, held, file, got, callVars, boundVars >>

(* Slip: an object that is in the way is removed first, as on a system     *)
(* whose rename replaces nothing.                                          *)
RenameAfterRemove(c) ==
    LET key == call[c].key
    IN  /\ pc[c] = "rename"
        /\ ~closed
        /\ names[key] # Directory
        /\ IF names[key] # Absent
           THEN SetName(key, Absent) /\ UNCHANGED pc
           ELSE SetName(key, file[c]) /\ Goto(c, "syncdir")
        /\ UNCHANGED << disk, bytes, synced, orphans, closed, file, got, info, reply,
                        cancelled, callVars, boundVars >>

(* The rename over the key, which replaces anything but a directory.       *)
Rename(c) ==
    LET key == call[c].key
    IN  /\ pc[c] = "rename"
        /\ \/ /\ ~closed
              /\ names[key] # Directory
              /\ SetName(key, file[c])
              /\ Goto(c, "syncdir")
              /\ UNCHANGED << reply, cancelled >>
           \/ /\ closed \/ names[key] = Directory
              /\ Abort(c, IF closed THEN "failed" ELSE "exists")
              /\ UNCHANGED << names, held >>
        /\ UNCHANGED << disk, bytes, synced, orphans, closed, file, got, info,
                        callVars, boundVars >>

(* Slip: no flush of the directory.                                        *)
NoSyncDir(c) ==
    /\ pc[c] = "syncdir"
    /\ Return(c, "ok")
    /\ UNCHANGED << fsVars, file, got, info, callVars, boundVars >>

(* Slip: the size comes from a stat of the key, once it is published.      *)
SyncDirThenStat(c) ==
    LET now == At(names, call[c].key)
    IN  /\ pc[c] = "syncdir"
        /\ info' = [info EXCEPT ![c] = IF now \in Files THEN Len(bytes[now]) ELSE SizeUnknown]
        /\ Return(c, "ok")
        /\ UNCHANGED << fsVars, file, got, callVars, boundVars >>

(* Slip: the context is asked once more when the object is published.      *)
SyncDirOrCancelled(c) ==
    /\ pc[c] = "syncdir"
    /\ Return(c, IF cancelled[c] THEN "cancelled" ELSE "ok")
    /\ UNCHANGED << fsVars, file, got, info, callVars, boundVars >>

(* Slip: a directory that cannot be flushed fails the Put.                 *)
SyncDirOrFail(c) ==
    /\ pc[c] = "syncdir"
    /\ Return(c, IF closed \/ "syncdir" \in Faults THEN "failed" ELSE "ok")
    /\ UNCHANGED << fsVars, file, got, info, callVars, boundVars >>

(* syncDir flushes the key's own directory, best effort: its failure, that *)
(* of a closed root included, does not fail the Put.                       *)
SyncDir(c) ==
    LET dir == ParentOf[call[c].key]
    IN  /\ pc[c] = "syncdir"
        /\ \/ /\ ~closed
              /\ InPlace(names, call[c].key)
              /\ disk' = [k \in Keys |-> IF ParentOf[k] = dir THEN names[k] ELSE disk[k]]
           \/ /\ closed \/ ~InPlace(names, call[c].key) \/ "syncdir" \in Faults
              /\ disk' = disk
        /\ Return(c, "ok")
        /\ UNCHANGED << names, bytes, synced, orphans, closed, held, file, got, info,
                        callVars, boundVars >>

(* Slip: a Put that fails after its copy leaves its file where it is.      *)
LeaveTemp(c) ==
    /\ pc[c] = "abort"
    /\ Return(c, reply[c])
    /\ orphans' = orphans \cup {<< file[c], ParentOf[call[c].key] >>}
    /\ UNCHANGED << names, disk, bytes, synced, closed, held, file, got, info,
                    callVars, boundVars >>

(* abort: removes the temporary file, errors ignored.                      *)
RemoveTemp(c) ==
    /\ pc[c] = "abort"
    /\ Return(c, reply[c])
    /\ orphans' = IF closed
                  THEN orphans \cup {<< file[c], ParentOf[call[c].key] >>} ELSE orphans
    /\ UNCHANGED << names, disk, bytes, synced, closed, held, file, got, info,
                    callVars, boundVars >>

(***************************************************************************)
(* Get, Stat and Delete.                                                   *)
(***************************************************************************)

(* Get's first look: anything but a regular file is not found.             *)
Lstat(c) ==
    LET found == At(names, call[c].key)
    IN  /\ pc[c] = "lstat"
        /\ \/ OnClosedRoot(c)
           \/ /\ ~closed
              /\ found \in Files
              /\ Goto(c, "open")
              /\ UNCHANGED << fsVars, file, got, info, reply, cancelled >>
           \/ /\ ~closed
              /\ found \notin Files
              /\ Return(c, "notfound")
              /\ UNCHANGED << fsVars, file, got, info >>
        /\ UNCHANGED << callVars, boundVars >>

(* The open, and the second look, which is at what the open returned.      *)
Open(c) ==
    LET found == Opened(call[c].key)
    IN  /\ pc[c] = "open"
        /\ \/ OnClosedRoot(c)
           \/ /\ ~closed
              /\ found \in Files
              /\ file' = [file EXCEPT ![c] = found]
              /\ Goto(c, "read")
              /\ UNCHANGED << fsVars, got, info, reply, cancelled >>
           \/ /\ ~closed
              /\ found \notin Files
              /\ Return(c, "notfound")
              /\ UNCHANGED << fsVars, file, got, info >>
        /\ UNCHANGED << callVars, boundVars >>

(* One Read of the open file, on a Store that may have been closed.        *)
Read(c) ==
    LET there == bytes[file[c]]
    IN  /\ pc[c] = "read"
        /\ \/ /\ cancelled[c]
              /\ Return(c, "cancelled")
              /\ UNCHANGED got
           \/ /\ ~cancelled[c]
              /\ Len(got[c]) < Len(there)
              /\ got' = [got EXCEPT ![c] = Append(@, there[Len(@) + 1])]
              /\ UNCHANGED << pc, reply, cancelled >>
           \/ /\ ~cancelled[c]
              /\ Len(got[c]) >= Len(there)
              /\ Return(c, "read")
              /\ UNCHANGED got
        /\ UNCHANGED << file, info >>
        /\ Observed(c)

Stat(c) ==
    LET found == At(names, call[c].key)
    IN  /\ pc[c] = "stat"
        /\ \/ OnClosedRoot(c)
           \/ /\ ~closed
              /\ found \in Files
              /\ info' = [info EXCEPT ![c] = Len(bytes[found])]
              /\ Return(c, "ok")
              /\ UNCHANGED << fsVars, file, got >>
           \/ /\ ~closed
              /\ found \notin Files
              /\ Return(c, "notfound")
              /\ UNCHANGED << fsVars, file, got, info >>
        /\ UNCHANGED << callVars, boundVars >>

(* Delete's look at the entry.                                             *)
Check(c) ==
    LET found == At(names, call[c].key)
    IN  /\ pc[c] = "check"
        /\ \/ OnClosedRoot(c)
           \/ /\ ~closed
              /\ found \in Files
              /\ Goto(c, "remove")
              /\ UNCHANGED << fsVars, file, got, info, reply, cancelled >>
           \/ /\ ~closed
              /\ found \notin Files
              /\ Return(c, "notfound")
              /\ UNCHANGED << fsVars, file, got, info >>
        /\ UNCHANGED << callVars, boundVars >>

RemovableBlindly(k) == At(names, k) # Absent \* slip: a recursive removal

(* What os.Root.Remove takes: anything but a directory with entries.       *)
Removable(k) == At(names, k) # Absent /\ (At(names, k) = Directory => IsEmpty(k))

(* Slip: somebody else having removed the object is as good as removing it. *)
RemoveIfThere(c) ==
    LET key == call[c].key
    IN  /\ pc[c] = "remove"
        /\ ~closed
        /\ file' = [file EXCEPT ![c] = names[key]]
        /\ IF Removable(key) THEN SetName(key, Absent) ELSE UNCHANGED << names, held >>
        /\ Return(c, "ok")
        /\ UNCHANGED << disk, bytes, synced, orphans, closed, got, info,
                        callVars, boundVars >>

(* Delete's removal, of whatever is at the key by now.  A directory that   *)
(* is not empty is refused, in an error that is nobody's sentinel.         *)
Remove(c) ==
    LET key == call[c].key
    IN  /\ pc[c] = "remove"
        /\ \/ OnClosedRoot(c)
           \/ /\ ~closed
              /\ Removable(key)
              /\ file' = [file EXCEPT ![c] = names[key]]
              /\ SetName(key, Absent)
              /\ Return(c, "ok")
              /\ UNCHANGED << disk, bytes, synced, orphans, closed, got, info >>
           \/ /\ ~closed
              /\ ~Removable(key)
              /\ Return(c, IF At(names, key) = Absent THEN "notfound" ELSE "failed")
              /\ UNCHANGED << fsVars, file, got, info >>
        /\ UNCHANGED << callVars, boundVars >>

(***************************************************************************)
(* The surroundings.                                                       *)
(***************************************************************************)

(* A process dies, and its callers' temporary files stay.                  *)
Kill(c) ==
    /\ "kill" \in Faults
    /\ pc[c] # "idle"
    /\ Return(c, "killed")
    /\ orphans' = IF pc[c] \in Writing
                  THEN orphans \cup {<< file[c], ParentOf[call[c].key] >>} ELSE orphans
    /\ UNCHANGED << names, disk, bytes, synced, closed, held, file, got, info,
                    callVars, boundVars >>

(* Store.Close.                                                            *)
Close ==
    /\ "close" \in Faults
    /\ ~closed
    /\ closed' = TRUE
    /\ UNCHANGED << names, disk, bytes, synced, orphans, held, pc, file, got, info, reply,
                    cancelled, callVars, boundVars >>

(* The kernel writes an entry back when it likes.                          *)
Writeback(k) ==
    /\ cuts < MaxCuts
    /\ disk[k] # names[k]
    /\ disk' = [disk EXCEPT ![k] = names[k]]
    /\ UNCHANGED << names, bytes, synced, orphans, closed, held, pc, file, got, info,
                    reply, cancelled, callVars, boundVars >>

(* The power goes and comes back: what was on disk is there, a file nobody *)
(* flushed may be empty, a temporary file may stay or not, and the store   *)
(* is opened again.                                                        *)
PowerCut ==
    LET after == [k \in Keys |-> At(disk, k)]
    IN  /\ cuts < MaxCuts
        /\ cuts' = cuts + 1
        /\ names' = after
        /\ disk' = after
        /\ held' = [k \in Keys |->
                        IF after[k] = names[k] THEN held[k] ELSE Append(held[k], after[k])]
        /\ \E kept \in {Files, synced} :
               bytes' = [f \in Files |-> IF f \in kept THEN bytes[f] ELSE << >>]
        /\ \E left \in SUBSET (orphans \cup Temporaries) :
               orphans' = {temp \in left : temp[2] \in Directories(after)}
        /\ closed' = FALSE
        /\ reply' = [c \in Callers |-> IF pc[c] = "idle" THEN reply[c] ELSE "killed"]
        /\ pc' = [c \in Callers |-> "idle"]
        /\ cancelled' = [c \in Callers |-> FALSE]
        /\ UNCHANGED << synced, file, got, info, callVars, placed >>

(* The operator at a shell: mkdir, rm, rmdir, or a mv over a name.         *)
OperatorPlaces ==
    /\ placed < MaxPlaced
    /\ placed' = placed + 1
    /\ \E put \in Placed :
        LET k == put[1]
            entry == put[2]
        IN  /\ InPlace(names, k)
            /\ names[k] # entry
            /\ names[k] = Directory => entry = Absent /\ IsEmpty(k)
            /\ \/ /\ entry = Directory
                  /\ names[k] = Absent
                  /\ MakeDirectory(k)
               \/ /\ entry # Directory
                  /\ SetName(k, entry)
                  /\ disk' = disk
    /\ UNCHANGED << bytes, synced, orphans, closed, pc, file, got, info, reply, cancelled,
                    callVars, cuts >>

AllReturned == (\A c \in Callers : pc[c] = "idle") /\ UNCHANGED vars

Step(c) ==
    \/ Begin(c) \/ MkdirAll(c) \/ CreateTemp(c) \/ CopyBuffer(c) \/ EndCopy(c)
    \/ Sync(c) \/ Rename(c) \/ SyncDir(c) \/ RemoveTemp(c)
    \/ Lstat(c) \/ Open(c) \/ Read(c) \/ Stat(c) \/ Check(c) \/ Remove(c)

Next ==
    \/ \E c \in Callers : Step(c) \/ Cancel(c) \/ Kill(c)
    \/ Close
    \/ \E k \in Keys : Writeback(k)
    \/ PowerCut
    \/ OperatorPlaces
    \/ AllReturned

Spec == Init /\ [][Next]_vars

------------------------------------------------------------------------------
(***************************************************************************)
(* Properties.                                                             *)
(***************************************************************************)

(* Every variable has its type, and no Put writes more than one buffer     *)
(* past the size it was told, however long its stream is (store.go:206).   *)
TypeOK ==
    /\ names \in [Keys -> Entries]
    /\ disk \in [Keys -> Entries]
    /\ bytes \in [Files -> Seq(Files)]
    /\ \A c \in Callers :
           pc[c] \in Writing /\ call[c].size # SizeUnknown =>
               Len(bytes[file[c]]) <= call[c].size + 1
    /\ synced \subseteq Files
    /\ orphans \subseteq Files \X (Keys \cup {Root})
    /\ closed \in BOOLEAN
    /\ pc \in [Callers -> PCs]
    /\ call \in [Callers -> AllCalls \cup {NoCall}]
    /\ nth \in [Callers -> 0..MaxCalls]
    /\ cancelled \in [Callers -> BOOLEAN]
    /\ file \in [Callers -> Entries]
    /\ got \in [Callers -> Seq(Files)]
    /\ info \in [Callers -> Sizes]
    /\ reply \in [Callers -> Replies]
    /\ held \in [Keys -> Seq(Entries)]
    /\ began \in [Callers -> Nat]
    /\ placed \in 0..MaxPlaced
    /\ cuts \in 0..MaxCuts

Idle(c) == pc[c] = "idle" /\ call[c] # NoCall

WasHeld(k) == {held[k][i] : i \in DOMAIN held[k]}

Removed(c) == Idle(c) /\ call[c].op = "delete" /\ reply[c] = "ok"

Ends(c) == pc[c] # "idle" /\ pc'[c] = "idle"

(* What the key of a call has held since the call began.                   *)
During(c) ==
    LET k == call[c].key
    IN  {held'[k][i] : i \in began[c]..Len(held'[k])}

(* Whatever Get, Stat and Delete answer was true of one instant of the     *)
(* call: a stream that is read to its end is one object the key held, byte *)
(* for byte and never a mixture, and "not found" means that at some moment *)
(* there was no object (store.go:120, doc.go:110).                         *)
RepliesAreOfOneInstant ==
    [][\A c \in Callers : Ends(c) =>
        /\ reply'[c] = "read" => \E f \in During(c) \cap Files : got'[c] = Whole(f)
        /\ call[c].op = "stat" /\ reply'[c] = "ok" =>
               \E f \in During(c) \cap Files : info'[c] = f.length
        /\ call[c].op # "put" /\ reply'[c] = "notfound" => ~(During(c) \subseteq Files)]_vars

(* An object at a key is the whole stream of the Put that wrote it, after  *)
(* a power cut too, and the stream was the one that had been declared.     *)
PublishedObjectsAreWhole ==
    /\ \A k \in Keys : names[k] \in Files => bytes[names[k]] = Whole(names[k])
    /\ \A c \in Callers :
           /\ call[c] # NoCall
           /\ call[c].op = "put"
           /\ Mine(c) \in WasHeld(call[c].key)
           => call[c].size \in {SizeUnknown, call[c].length} /\ ~call[c].fails

(* The size Put returns is that of the bytes it wrote itself, however many *)
(* others have published at the key since (root.go:299).                   *)
PutReturnsItsOwnRef ==
    \A c \in Callers :
        Idle(c) /\ call[c].op = "put" /\ reply[c] = "ok" => info[c] = call[c].length

(* A Put that reports an error never shows at its key, in the past or now; *)
(* one whose process was killed may.                                       *)
FailedPutsLeaveTheKeyAlone ==
    \A c \in Callers :
        /\ Idle(c)
        /\ call[c].op = "put"
        /\ reply[c] \notin {"ok", "killed"}
        => Mine(c) \notin WasHeld(call[c].key)

(* A temporary file nobody will remove is that of a killed process         *)
(* (store.go:149).                                                         *)
OnlyKilledPutsLeaveFiles ==
    \A temp \in orphans :
        LET c == temp[1].by
        IN  nth[c] = temp[1].nth => reply[c] = "killed"

(* A Delete that reports success has removed an object, and no two Deletes *)
(* the same one (doc.go:127), unless a power cut brings it back: a removal *)
(* is flushed by nobody.                                                   *)
DeletesTakeDistinctObjects ==
    cuts = 0 => \A c \in Callers :
        Removed(c) =>
            /\ file[c] \in Files
            /\ \A d \in Callers \ {c} : Removed(d) => file[d] # file[c]

(* What a power cut would leave of the key of an acknowledged Put is its   *)
(* object, or what the key has held since (doc.go:231).                    *)
AcknowledgedPutsAreDurable ==
    \A c \in Callers :
        Idle(c) /\ call[c].op = "put" /\ reply[c] = "ok" =>
            LET k == call[c].key
            IN  \E i \in DOMAIN held[k] :
                    /\ held[k][i] = Mine(c)
                    /\ \E j \in i..Len(held[k]) : held[k][j] = At(disk, k)

(* Nothing is ever below what is not a directory, temporary files under    *)
(* way included: no Delete takes the directory a Put is writing in.        *)
NamesFormATree ==
    /\ \A k \in Keys : names[k] # Absent => InPlace(names, k)
    /\ \A temp \in Temporaries : temp[2] \in Directories(names)

------------------------------------------------------------------------------
(***************************************************************************)
(* The inductive invariants that the proofs rest on.                       *)
(***************************************************************************)

PutPCs == {"mkdir", "temp", "syncdir"} \cup Writing

GetPCs == {"lstat", "open", "read"}

DeletePCs == {"check", "remove"}

(* Every file that has ever been at a key.                                 *)
Published == UNION {WasHeld(k) : k \in Keys}

(* The stream of a Put was the one that had been declared.                 *)
AsDeclared(c) == call[c].size \in {SizeUnknown, call[c].length} /\ ~call[c].fails

(* A call makes the system calls of its own method, and a Put has the      *)
(* directory of its key made only when there is one to make.               *)
CallInv(c) ==
    /\ pc[c] \in PutPCs => call[c] \in PutCalls
    /\ pc[c] \in GetPCs => call[c] \in [op: {"get"}, key: Keys]
    /\ pc[c] = "stat" => call[c] \in [op: {"stat"}, key: Keys]
    /\ pc[c] \in DeletePCs => call[c] \in [op: {"delete"}, key: Keys]
    /\ pc[c] = "mkdir" => ParentOf[call[c].key] # Root
    /\ call[c] # NoCall => began[c] \in 1..Len(held[call[c].key])

(* The temporary file of a Put is its own, holds nothing but its own       *)
(* stream, and has never been at a key; once the copy is approved it is    *)
(* whole, and once it is flushed it survives a power cut.                  *)
WriterInv(c) ==
    /\ pc[c] \in Writing =>
           /\ file[c] = Mine(c)
           /\ \A n \in DOMAIN bytes[Mine(c)] : bytes[Mine(c)][n] = Mine(c)
           /\ Len(bytes[Mine(c)]) <= call[c].length
           /\ Mine(c) \notin Published
    /\ pc[c] \in {"sync", "rename"} => Len(bytes[Mine(c)]) = call[c].length /\ AsDeclared(c)
    /\ pc[c] = "rename" => Mine(c) \in synced
    /\ pc[c] \in {"rename", "syncdir"} => info[c] = call[c].length
    /\ pc[c] = "abort" => reply[c] \in {"cancelled", "failed", "invalid", "exists"}
    /\ pc[c] = "syncdir" => Mine(c) \in WasHeld(call[c].key)
    /\ Idle(c) /\ call[c].op = "put" /\ reply[c] = "ok" => info[c] = call[c].length

(* What a reader has open was once at a key, and what it has read so far   *)
(* is a part of it.                                                        *)
ReaderInv(c) ==
    /\ pc[c] \in {"lstat", "open"} => got[c] = << >>
    /\ pc[c] = "read" =>
           /\ file[c] \in Published \cap Files
           /\ \A n \in DOMAIN got[c] : got[c][n] = file[c]
           /\ Len(got[c]) <= file[c].length

(* The last thing a key held is there now, and what is on disk was there   *)
(* once.                                                                   *)
KeyInv(k) ==
    /\ held[k] # << >>
    /\ held[k][Len(held[k])] = names[k]
    /\ disk[k] \in WasHeld(k)

(* A file that was ever at a key is whole and flushed, and when it is that *)
(* of its caller's latest call, that call is past its rename.              *)
ObjectAt(f, k) ==
    /\ bytes[f] = Whole(f)
    /\ f \in synced
    /\ f.by \in Callers =>
           /\ f.nth <= nth[f.by]
           /\ f.nth = nth[f.by] =>
                  /\ call[f.by] \in PutCalls
                  /\ call[f.by].key = k
                  /\ f = Mine(f.by)
                  /\ AsDeclared(f.by)
                  /\ \/ pc[f.by] = "syncdir"
                     \/ pc[f.by] = "idle" /\ reply[f.by] \in {"ok", "killed"}

ObjectInv(k) == \A f \in WasHeld(k) \cap Files : ObjectAt(f, k)

(* The operator's files are whole, and the file of a call that is yet to   *)
(* come, or to create it, is empty.                                        *)
FileInv(f) ==
    /\ f.by = Operator => bytes[f] = Whole(f) /\ f \in synced
    /\ f.by \in Callers =>
           /\ f.nth > nth[f.by] => bytes[f] = << >>
           /\ f.nth = nth[f.by] /\ pc[f.by] \in {"mkdir", "temp"} => bytes[f] = << >>

AInv ==
    /\ TypeOK
    /\ NamesFormATree
    /\ \A c \in Callers : CallInv(c) /\ WriterInv(c) /\ ReaderInv(c)
    /\ \A k \in Keys : KeyInv(k) /\ ObjectInv(k)
    /\ \A f \in Files : FileInv(f)

(* Nobody places a symbolic link, so what is opened is what was looked at. *)
NoLinksPlaced == \A put \in Placed : put[2] # Link

(* What a reader has open was at its key since its call began.             *)
InstantInv(c) ==
    /\ pc[c] = "open" => names[call[c].key] # Link
    /\ pc[c] = "read" =>
           \E i \in began[c]..Len(held[call[c].key]) : held[call[c].key][i] = file[c]

RInv == \A c \in Callers : InstantInv(c)

(* A temporary file nobody will remove is that of a call that was killed.  *)
OrphanInv ==
    /\ ~closed
    /\ \A temp \in orphans :
           LET c == temp[1].by
           IN  /\ c \in Callers
               /\ temp[1].nth <= nth[c]
               /\ temp[1].nth = nth[c] => pc[c] = "idle" /\ reply[c] = "killed"

(* No key lies in the directory of another.                                *)
FlatStore == \A k \in Keys : ParentOf[k] = Root

(* The operator only removes, and found every object under a single name.  *)
OperatorOnlyRemoves ==
    /\ \A put \in Placed : put[2] = Absent
    /\ \A tree \in InitialNames : \A k, l \in Keys :
           tree[k] \in Files /\ tree[k] = tree[l] => k = l

(* An object that is removed was at one key and is at none any more.       *)
DeleteInv ==
    cuts = 0 =>
        /\ \A k, l \in Keys : names[k] \in Files /\ names[k] = names[l] => k = l
        /\ \A c \in Callers :
               /\ pc[c] = "remove" => names[call[c].key] \in Files \cup {Absent}
               /\ Removed(c) =>
                      /\ file[c] \in Files \cap Published
                      /\ \A k \in Keys : names[k] # file[c]
                      /\ \A d \in Callers \ {c} : Removed(d) => file[d] # file[c]

(* A directory that is flushed keeps what it has, or what came after it.   *)
DurableInv == ~closed /\ AcknowledgedPutsAreDurable

==============================================================================
