----------------------------- MODULE MCGitReads ------------------------------
(* Instances of GitReads for TLC.                                          *)
EXTENDS GitReads

CONSTANTS t1, t2

(* Two documents, an image, a directory, and names that only git accepts,  *)
(* or core accepts only below another, or not as an operand.               *)
Names == {"posts", "a.md", "b.md", "c:d.md", "-e.md", "p.png", "[backslash].md"}

APost == << "posts", "a.md" >>
BelowAPost == << "posts", "a.md", "b.md" >>
ColonPost == << "posts", "c:d.md" >>
Image == << "posts", "p.png" >>
Backslash == << "posts", "[backslash].md" >>
A == << "a.md" >>

RepositoryPaths == {APost, BelowAPost, ColonPost, Image, Backslash, A}
Nested == {<< q, p >> \in RepositoryPaths \X RepositoryPaths : IsStrictPrefix(p, q)}

OnlyRoot == {Root}
RootOrPosts == {Root, << "posts" >>}
AskedPaths == {A, APost, BelowAPost, << "-e.md" >>}
OnePath == {APost}
NoCollections == {}
ListedCollections == {Root, << "posts" >>, A}

Stored(shape, text) == [shape |-> shape, text |-> text]

Place(p, entry) == [path |-> p, entry |-> entry]

One == Stored("canonical", t1)
Two == Stored("canonical", t2)

(* What nobody touches: the other document, an image, and names that      *)
(* core refuses.                                                           *)
WithOthers ==
    [EmptyTree EXCEPT ![A] = Two, ![ColonPost] = One, ![Image] = One, ![Backslash] = One]
InitialTree == {WithOthers}

(* a.md of posts is a document, of three kinds, in some commits, and a     *)
(* directory, a submodule or nothing in others.                            *)
ReadEdits ==
    {Place(APost, e) : e \in {One, Two, Stored("damaged", t1), Absent, Gitlink}}
        \cup {Place(BelowAPost, One)}

TwoVersions == {Place(APost, One), Place(APost, Two)}
BesideEdits == {Place(APost, Two), Place(APost, Absent)}

(* A revision of the other path, and one that was never stored.            *)
MadeUp == {One, NoRevision}
==============================================================================
