---------------------------- MODULE ContentStore -----------------------------
(***************************************************************************)
(* What core.ContentRepository promises its callers about Put and Delete:  *)
(* each call that is not abandoned takes effect, or is refused, in a       *)
(* single instant between its invocation and its return, and what it is    *)
(* told is the truth about its document at that instant.  There is no      *)
(* branch, no commit and no retry here.                                    *)
(***************************************************************************)
EXTENDS Documents

CONSTANTS
    Writers,  \* the callers
    Paths,    \* the paths documents are stored at
    Nothing,  \* what is stored at a free path
    Other     \* something that is not a document, such as a directory

VARIABLES
    docs,   \* what is stored at each path
    asked,  \* the call each caller is waiting for
    answer  \* what that call came to, or the last one when none is waited for

vars == << docs, asked, answer >>

NoCall == [op |-> "none"]

Stores == [Paths -> Blobs \cup {Nothing, Other}]

(* A call ends in one of these when its context is done, git fails or the  *)
(* retry is exhausted: the caller learns nothing about its document.       *)
GivenUp == {"cancelled", "failed", "exhausted"}

Init ==
    /\ docs \in Stores
    /\ asked = [w \in Writers |-> NoCall]
    /\ answer = [w \in Writers |-> "none"]

Ask(w) ==
    /\ asked[w] = NoCall
    /\ \E c \in CallsOn(Paths) : asked' = [asked EXCEPT ![w] = c]
    /\ answer' = [answer EXCEPT ![w] = "pending"]
    /\ UNCHANGED docs

(* Content that breaks core's own rules is refused before anything else.   *)
Reject(w) ==
    /\ asked[w] = NoCall
    /\ answer' = [answer EXCEPT ![w] = "invalid"]
    /\ UNCHANGED << docs, asked >>

IsCreate(c) == c.op = "put" /\ c.rev = NoRevision

IsUpdate(c) == c.op = "put" /\ c.rev # NoRevision

(* The refusals that are true of what is stored.                           *)
Refuses(c, stored) ==
    {why \in {"exists", "notfound", "conflict", "invalid"} :
        CASE why = "exists"   -> IsCreate(c) /\ stored # Nothing
          [] why = "notfound" -> ~IsCreate(c) /\ stored \notin Blobs
          [] why = "conflict" -> /\ stored \in Blobs
                                 /\ ~IsCreate(c)
                                 /\ c.rev \notin {stored, NoRevision}
          [] why = "invalid"  -> c.op = "put" /\ c.text \in Unwritable}

(* What a call that is not refused leaves at its path.                     *)
Result(c, stored) ==
    CASE c.op = "delete" -> Nothing
      [] IsCreate(c)     -> Format(c.text)
      [] IsUpdate(c)     -> SerializeInto(stored, c.text)

(* No other document changes.  A directory comes and goes with what is in  *)
(* it, and is not a document.                                              *)
OnlyDocumentAt(path) ==
    \A p \in Paths \ {path} :
        IF docs[p] \in Blobs THEN docs'[p] = docs[p] ELSE docs'[p] \notin Blobs

Decide(w) ==
    LET c      == asked[w]
        stored == docs[c.path]
    IN  /\ answer[w] = "pending"
        /\ \/ /\ answer' \in {[answer EXCEPT ![w] = why] : why \in Refuses(c, stored)}
              /\ docs' = docs
           \/ /\ Refuses(c, stored) = {}
              /\ answer' = [answer EXCEPT ![w] = "ok"]
              /\ docs' \in Stores
              /\ docs'[c.path] = Result(c, stored)
              /\ OnlyDocumentAt(c.path)
        /\ UNCHANGED asked

Reply(w) ==
    /\ asked[w] # NoCall
    /\ asked' = [asked EXCEPT ![w] = NoCall]
    /\ \/ answer[w] # "pending" /\ answer' = answer
       \/ \E why \in GivenUp : answer' = [answer EXCEPT ![w] = why]
    /\ UNCHANGED docs

(* Other writers of the repository are bound by nothing said here.         *)
Outside ==
    /\ docs' \in Stores
    /\ UNCHANGED << asked, answer >>

Next ==
    \/ \E w \in Writers : Ask(w) \/ Reject(w) \/ Decide(w) \/ Reply(w)
    \/ Outside

Spec == Init /\ [][Next]_vars
==============================================================================
