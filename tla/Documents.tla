------------------------------ MODULE Documents ------------------------------
(***************************************************************************)
(* What a stored Markdown document is to the content repository: a text    *)
(* (the front matter and the body a caller edits) written in a shape (the  *)
(* delimiters, line endings and byte-order mark that markdown.Layout       *)
(* records).  The two together are the stored bytes, and the revision git  *)
(* reports is the hash of those bytes, so a document is its own revision:  *)
(* the same text in the same shape has the same revision again.            *)
(***************************************************************************)

CONSTANTS
    Texts,       \* what callers ask to store, told apart by identity only
    Invalid,     \* the texts Content.Validate refuses
    Unwritable,  \* the texts the serializer cannot write in any shape
    Shapes,      \* the layouts a well-formed document may be stored in
    Canonical,   \* the layout markdown.Format gives to a document with none
    Damaged,     \* bytes that markdown.Parse refuses
    NoRevision   \* core.Revision's zero value

(* A document's bytes, which are also its revision. *)
Blobs == [shape: Shapes \cup {Damaged}, text: Texts]

Revisions == Blobs \cup {NoRevision}

ASSUME DocumentsAssumption ==
    /\ Invalid \subseteq Texts
    /\ Unwritable \subseteq Texts
    /\ Canonical \in Shapes
    /\ Damaged \notin Shapes
    /\ NoRevision \notin Blobs

(* markdown.Format: the canonical shape, for a document that has none yet. *)
Format(text) == [shape |-> Canonical, text |-> text]

(* A serializer that forgets the shape of the document it replaces. *)
SerializeCanonically(stored, text) == Format(text)

(* serializeInto: the shape of the stored document survives the edit, and  *)
(* bytes that do not parse have no shape to preserve.                      *)
SerializeInto(stored, text) ==
    IF stored.shape = Damaged THEN Format(text)
                              ELSE [stored EXCEPT !.text = text]

(***************************************************************************)
(* The calls of core.ContentRepository that write.  A Put with the zero    *)
(* revision creates and any other Put updates.                             *)
(***************************************************************************)
PutCalls(Paths) ==
    [op: {"put"}, path: Paths, text: Texts, rev: Revisions]

DeleteCalls(Paths) == [op: {"delete"}, path: Paths, rev: Revisions]

CallsOn(Paths) == PutCalls(Paths) \cup DeleteCalls(Paths)
==============================================================================
