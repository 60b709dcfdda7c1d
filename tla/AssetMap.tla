------------------------------- MODULE AssetMap ------------------------------
(***************************************************************************)
(* What core.AssetStore promises its callers: a map from keys to objects,  *)
(* in which each call that is not abandoned takes effect, or is refused,   *)
(* in a single instant between its invocation and its return.  There is no *)
(* directory, no file that is half written and no rename here.             *)
(***************************************************************************)
EXTENDS Naturals

CONSTANTS
    Callers,
    Keys,
    Objects,      \* what may be stored: [by, nth, length]
    Others,       \* <<key, object>>: what somebody else may leave at a key
    SizeUnknown,  \* core.SizeUnknown
    NoObject

VARIABLES
    objects,  \* the object at each key
    kept,     \* the objects each key has had, which may come back
    asked,    \* the call each caller is waiting for
    answer    \* what that call came to, or the last one when none is waited for

vars == << objects, kept, asked, answer >>

NoCall == [op |-> "none"]

Told(what) == [kind |-> what]

Sized(size) == [kind |-> "ok", size |-> size]

Stream(object) == [kind |-> "read", object |-> object]

(* How a call ends when its context is done, the stream or the store       *)
(* fails, or something that is not an object is in the way: the caller     *)
(* learns nothing about the object.                                        *)
GivenUp == {"cancelled", "failed", "killed", "exists"}

Init ==
    /\ objects \in [Keys -> Objects \cup {NoObject}]
    /\ kept = [k \in Keys |-> {objects[k]} \ {NoObject}]
    /\ asked = [c \in Callers |-> NoCall]
    /\ answer = [c \in Callers |-> Told("none")]

Keep == kept' = [k \in Keys |-> kept[k] \cup ({objects'[k]} \ {NoObject})]

Stay == UNCHANGED << objects, kept >>

Ask(c) ==
    /\ asked[c] = NoCall
    /\ asked'[c] # NoCall
    /\ asked' = [asked EXCEPT ![c] = asked'[c]]
    /\ asked'[c].op \in {"put", "get", "stat", "delete"}
    /\ asked'[c].key \in Keys
    /\ answer' = [answer EXCEPT ![c] = Told("pending")]
    /\ Stay

(* A context that is done before the call has begun.                       *)
Reject(c) ==
    /\ asked[c] = NoCall
    /\ answer' = [answer EXCEPT ![c] = Told("cancelled")]
    /\ UNCHANGED << objects, kept, asked >>

Comes(c, result) ==
    /\ answer[c] = Told("pending")
    /\ answer' = [answer EXCEPT ![c] = result]
    /\ asked' \in {asked, [asked EXCEPT ![c] = NoCall]}   \* now, or in a while

(* Put overwrites whatever is at its key, with the whole stream, which is  *)
(* one that ended well and is as long as was declared.                     *)
Put(c) ==
    LET put == asked[c]
    IN  /\ put.op = "put"
        /\ \/ /\ ~put.fails
              /\ put.size \in {SizeUnknown, put.object.length}
              /\ objects' = [objects EXCEPT ![put.key] = put.object]
              /\ Keep
              /\ Comes(c, Sized(put.object.length))
           \/ /\ put.size \notin {SizeUnknown, put.object.length}
              /\ Stay
              /\ Comes(c, Told("invalid"))

Find(c) ==
    LET object == objects[asked[c].key]
    IN  /\ asked[c].op \in {"get", "stat"}
        /\ object # NoObject
        /\ Comes(c, IF asked[c].op = "get" THEN Stream(object) ELSE Sized(object.length))
        /\ Stay

Delete(c) ==
    LET key == asked[c].key
    IN  /\ asked[c].op = "delete"
        /\ objects[key] # NoObject
        /\ objects' = [objects EXCEPT ![key] = NoObject]
        /\ Keep
        /\ Comes(c, Sized(SizeUnknown))

NotFound(c) ==
    /\ asked[c].op \in {"get", "stat", "delete"}
    /\ objects[asked[c].key] = NoObject
    /\ Comes(c, Told("notfound"))
    /\ Stay

Reply(c) ==
    /\ asked[c] # NoCall
    /\ asked' = [asked EXCEPT ![c] = NoCall]
    /\ \/ answer[c] # Told("pending") /\ answer' = answer
       \/ \E why \in GivenUp : answer' = [answer EXCEPT ![c] = Told(why)]
    /\ Stay

(* Somebody else puts an object of his own at a key, or takes one away, as *)
(* he may.  Nothing else changes a key that no caller changes: while a Put *)
(* overwrites an object there is always one.                               *)
Outside ==
    /\ UNCHANGED << asked, answer >>
    /\ \E change \in Others :
        objects' = [objects EXCEPT ![change[1]] = change[2]]
    /\ objects' # objects
    /\ Keep

(* The store stops under all its callers, and is afterwards one with an    *)
(* earlier object, or none, at some keys.                                  *)
Stop ==
    /\ asked' = [c \in Callers |-> NoCall]
    /\ answer' = [c \in Callers |->
                     IF asked[c] = NoCall THEN answer[c] ELSE Told("killed")]
    /\ objects' \in [Keys -> Objects \cup {NoObject}]
    /\ \A k \in Keys : objects'[k] \in kept[k] \cup {NoObject}
    /\ UNCHANGED kept

Next ==
    \/ \E c \in Callers :
           Ask(c) \/ Reject(c) \/ Put(c) \/ Find(c) \/ Delete(c) \/ NotFound(c) \/ Reply(c)
    \/ Outside
    \/ Stop

Spec == Init /\ [][Next]_vars
==============================================================================
