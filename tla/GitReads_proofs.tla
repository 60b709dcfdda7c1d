--------------------------- MODULE GitReads_proofs ---------------------------
(***************************************************************************)
(* Proofs that what the read methods of git.Repository answer is the       *)
(* branch's: every history, listing and revision is of one instant of its  *)
(* call, though each is put together from several git commands and the     *)
(* branch moves between them.                                              *)
(*                                                                         *)
(* The inductive invariant says of the graph that commits are made on      *)
(* earlier ones and the branch moves to descendants; of what a caller has  *)
(* been told, that it was at that path in the history of the branch; and   *)
(* of a call under way, that what git log printed for it is the log of one *)
(* instant of the call.  The rest is about git log: that what it prints of *)
(* a history without merges is every commit that changed the document,     *)
(* that with merges it still begins with the document as it is, and that   *)
(* a graph which only grows does not change what it said of old commits.   *)
(***************************************************************************)
EXTENDS GitReads, SequenceTheorems, FiniteSetTheorems, WellFoundedInduction, TLAPS

------------------------------------------------------------------------------
(***************************************************************************)
(* Numbers: the least of a set, and functions defined from the smaller to  *)
(* the greater.  Where TLA+ would take induction, the proofs take the least*)
(* counterexample.                                                         *)
(***************************************************************************)

(* A nonempty set of natural numbers has a least element. *)
LEMMA LeastNumber ==
    ASSUME NEW S, S \subseteq Nat, S # {}
    PROVE  \E m \in S : \A n \in S : m <= n
  <1>1. PICK m \in S : \A n \in S : <<n, m>> \notin OpToRel(<, Nat)
    BY NatLessThanWellFounded, WFMin
  <1>2. ASSUME NEW n \in S
        PROVE  m <= n
    <2>1. <<n, m>> \notin {pair \in Nat \X Nat : pair[1] < pair[2]}
      BY <1>1 DEF OpToRel
    <2>2. ~(n < m) /\ m \in Nat /\ n \in Nat
      BY <2>1
    <2> QED
      BY <2>2
  <1> QED
    BY <1>2

IsRecursion(G, n, V) ==
    /\ V # {}
    /\ \A c \in 1..n : \A f \in [1..n -> V] : G[c][f] \in V
    /\ \A c \in 1..n : \A f, g \in [1..n -> V] :
           (\A i \in 1..(c - 1) : f[i] = g[i]) => G[c][f] = G[c][g]

IsSolution(f, G, n) == \A c \in 1..n : f[c] = G[c][f]

(* An equation that gives a value at c from the values below c has a solution
   on 1..n. *)
LEMMA RecursionOnNumbers ==
    ASSUME NEW n \in Nat, NEW V, NEW G, IsRecursion(G, n, V)
    PROVE  \E f \in [1..n -> V] : IsSolution(f, G, n)
  <1> USE DEF IsRecursion, IsSolution
  <1> DEFINE Fits(f, m) == \A c \in 1..m : f[c] = G[c][f]
             Bad == {m \in 0..n : ~\E f \in [1..n -> V] : Fits(f, m)}
  <1>1. ASSUME Bad # {}
        PROVE  FALSE
    <2>1. PICK m \in Bad : \A k \in Bad : m <= k
      <3> HIDE DEF Fits
      <3>1. Bad \subseteq Nat
        OBVIOUS
      <3> HIDE DEF Bad
      <3> QED
        BY <1>1, <3>1, LeastNumber
    <2>2. m # 0
      <3>1. PICK v : v \in V
        OBVIOUS
      <3>2. [i \in 1..n |-> v] \in [1..n -> V] /\ Fits([i \in 1..n |-> v], 0)
        BY <3>1
      <3> QED
        BY <2>1, <3>2
    <2>3. m \in 1..n /\ m - 1 \in 0..n /\ m - 1 \notin Bad
      <3> HIDE DEF Fits
      <3>1. m \in 0..n /\ ~(m <= m - 1)
        BY <2>1
      <3>2. m - 1 \notin Bad
        BY <2>1, <3>1
      <3> QED
        BY <3>1, <3>2, <2>2
    <2>4. PICK f \in [1..n -> V] : Fits(f, m - 1)
      BY <2>3
    <2> DEFINE h == [f EXCEPT ![m] = G[m][f]]
    <2>5. h \in [1..n -> V]
      BY <2>3
    <2>6. \A i \in 1..n : h[i] = IF i = m THEN G[m][f] ELSE f[i]
      OBVIOUS
    <2> HIDE DEF h
    <2>7. ASSUME NEW c \in 1..m
          PROVE  h[c] = G[c][h]
      <3>1. c \in 1..n /\ \A i \in 1..(c - 1) : f[i] = h[i]
        BY <2>3, <2>6
      <3>2. G[c][f] = G[c][h]
        BY <3>1, <2>5
      <3>3. CASE c = m
        BY <3>2, <3>3, <2>6, <3>1
      <3>4. CASE c # m
        <4>1. c \in 1..(m - 1)
          BY <3>4, <2>3
        <4> QED
          BY <4>1, <3>4, <3>1, <3>2, <2>6, <2>4
      <3> QED
        BY <3>3, <3>4
    <2>8. Fits(h, m)
      BY <2>7
    <2> QED
      BY <2>1, <2>5, <2>8
  <1>2. n \notin Bad
    BY <1>1
  <1> QED
    BY <1>2

------------------------------------------------------------------------------
(***************************************************************************)
(* The ancestors of a commit.                                              *)
(***************************************************************************)

(* AncestorsIn is a solution of its own recursive equation. *)
LEMMA AncestorsEquation ==
    ASSUME NEW g, IsGraph(g)
    PROVE  AncestorsIn(g) =
             [c \in DOMAIN g |->
                {c} \cup UNION {AncestorsIn(g)[g[c].parents[k]] : k \in DOMAIN g[c].parents}]
  <1> DEFINE n == Len(g)
             V == SUBSET (1..n)
             Body(f, c) == {c} \cup UNION {f[g[c].parents[k]] : k \in DOMAIN g[c].parents}
             G == [c \in 1..n |-> [f \in [1..n -> V] |-> Body(f, c)]]
  <1>1. n \in Nat /\ DOMAIN g = 1..n
    BY DEF IsGraph
  <1>2. ASSUME NEW c \in 1..n, NEW f \in [1..n -> V]
        PROVE  G[c][f] = Body(f, c) /\ Body(f, c) \in V
    <2>1. ASSUME NEW k \in DOMAIN g[c].parents
          PROVE  g[c].parents[k] \in 1..n
      <3>1. g[c].parents[k] \in 1..(c - 1)
        BY <1>1 DEF IsGraph
      <3> QED
        BY <1>1, <3>1
    <2>2. \A k \in DOMAIN g[c].parents : f[g[c].parents[k]] \subseteq 1..n
      BY <2>1
    <2> QED
      BY <2>2
  <1>3. ASSUME NEW c \in 1..n, NEW f \in [1..n -> V], NEW h \in [1..n -> V],
               \A i \in 1..(c - 1) : f[i] = h[i]
        PROVE  Body(f, c) = Body(h, c)
    <2>1. \A k \in DOMAIN g[c].parents : f[g[c].parents[k]] = h[g[c].parents[k]]
      BY <1>1, <1>3 DEF IsGraph
    <2> QED
      BY <2>1
  <1>4. \E f \in [1..n -> V] : \A c \in 1..n : f[c] = G[c][f]
    <2>1. V # {}
      OBVIOUS
    <2>2. \A c \in 1..n : \A f \in [1..n -> V] : G[c][f] \in V
      BY <1>2
    <2>3. \A c \in 1..n : \A f, h \in [1..n -> V] :
            (\A i \in 1..(c - 1) : f[i] = h[i]) => G[c][f] = G[c][h]
      <3> HIDE DEF V, Body, G
      <3> QED
        BY <1>2, <1>3
    <2>4. n \in Nat
      BY <1>1
    <2> HIDE DEF V, G, n, Body
    <2>5. IsRecursion(G, n, V)
      BY <2>1, <2>2, <2>3 DEF IsRecursion
    <2> QED
      BY <2>4, <2>5, RecursionOnNumbers DEF IsSolution
  <1>5. PICK f \in [1..n -> V] : \A c \in 1..n : f[c] = Body(f, c)
    <2> HIDE DEF V, Body, G
    <2> QED
      BY <1>2, <1>4
  <1>6. f = [c \in DOMAIN g |-> Body(f, c)]
    BY <1>1, <1>5
  <1>7. AncestorsIn(g) = CHOOSE of : of = [c \in DOMAIN g |-> Body(of, c)]
    BY DEF AncestorsIn
  <1>8. AncestorsIn(g) = [c \in DOMAIN g |-> Body(AncestorsIn(g), c)]
    <2> HIDE DEF Body
    <2> QED
      BY <1>6, <1>7
  <1> QED
    BY <1>8

(* A commit of a graph has a tree and a sequence of parents. *)
LEMMA CommitTyped ==
    ASSUME NEW g, IsGraph(g), NEW c \in DOMAIN g
    PROVE  g[c].tree \in Trees /\ g[c].parents \in Seq(Nat)
  <1> DEFINE R == [tree: Trees, parents: Seq(Nat)]
  <1>1. g[c] \in R
    <2>1. g \in Seq(R)
      BY DEF IsGraph
    <2> HIDE DEF R
    <2>2. c \in 1..Len(g)
      BY <2>1
    <2> QED
      BY <2>1, <2>2, ElementOfSeq
  <1> QED
    BY <1>1

(* The ancestors of a commit are itself and those of its parents. *)
LEMMA AncestorsOf ==
    ASSUME NEW g, IsGraph(g), NEW c \in DOMAIN g
    PROVE  AncestorsIn(g)[c] =
             {c} \cup UNION {AncestorsIn(g)[g[c].parents[k]] : k \in DOMAIN g[c].parents}
  BY AncestorsEquation

(* The parents of a commit are commits of smaller numbers. *)
LEMMA ParentsBelow ==
    ASSUME NEW g, IsGraph(g), NEW c \in DOMAIN g, NEW k \in DOMAIN g[c].parents
    PROVE  /\ g[c].parents[k] \in DOMAIN g
           /\ g[c].parents[k] \in Nat
           /\ g[c].parents[k] < c
           /\ c \in Nat
  <1>1. g[c].parents[k] \in 1..(c - 1) /\ DOMAIN g = 1..Len(g) /\ Len(g) \in Nat
    BY DEF IsGraph
  <1> QED
    BY <1>1

(* Ancestors are commits, and no younger than the commit. *)
LEMMA AncestorsBelow ==
    ASSUME NEW g, IsGraph(g)
    PROVE  \A c \in DOMAIN g : AncestorsIn(g)[c] \subseteq {d \in DOMAIN g : d <= c}
  <1> DEFINE A == AncestorsIn(g)
             P(c) == A[c] \subseteq {d \in DOMAIN g : d <= c}
             Bad == {c \in DOMAIN g : ~P(c)}
  <1>1. ASSUME Bad # {}
        PROVE  FALSE
    <2>1. DOMAIN g \subseteq Nat
      BY DEF IsGraph
    <2>2. PICK c \in Bad : \A d \in Bad : c <= d
      <3> HIDE DEF P
      <3>1. Bad \subseteq Nat
        BY <2>1
      <3> HIDE DEF Bad
      <3> QED
        BY <1>1, <3>1, LeastNumber
    <2>3. ASSUME NEW k \in DOMAIN g[c].parents
          PROVE  A[g[c].parents[k]] \subseteq {d \in DOMAIN g : d <= c}
      <3> DEFINE p == g[c].parents[k]
      <3>1. p \in DOMAIN g /\ p \in Nat /\ p < c /\ c \in Nat
        BY ParentsBelow
      <3> HIDE DEF p
      <3>2. p \notin Bad
        <4> HIDE DEF P
        <4> QED
          BY <3>1, <2>2
      <3>3. A[p] \subseteq {d \in DOMAIN g : d <= p}
        BY <3>1, <3>2
      <3>4. A[p] \subseteq {d \in DOMAIN g : d <= c}
        <4> HIDE DEF A
        <4> QED
          BY <3>1, <3>3, <2>1
      <3> QED
        BY <3>4 DEF p
    <2>4. A[c] = {c} \cup UNION {A[g[c].parents[k]] : k \in DOMAIN g[c].parents}
      BY AncestorsOf
    <2>5. c \in {d \in DOMAIN g : d <= c}
      BY <2>1
    <2>6. P(c)
      <3> HIDE DEF A
      <3> QED
        BY <2>3, <2>4, <2>5
    <2> QED
      BY <2>6
  <1> QED
    BY <1>1

(* What a parent descends from, the commit descends from. *)
LEMMA AncestorsOfParents ==
    ASSUME NEW g, IsGraph(g), NEW c \in DOMAIN g, NEW k \in DOMAIN g[c].parents
    PROVE  AncestorsIn(g)[g[c].parents[k]] \subseteq AncestorsIn(g)[c]
  BY AncestorsOf

(* Ancestry is transitive. *)
LEMMA AncestorsOfAncestors ==
    ASSUME NEW g, IsGraph(g)
    PROVE  \A c \in DOMAIN g : \A d \in AncestorsIn(g)[c] :
               AncestorsIn(g)[d] \subseteq AncestorsIn(g)[c]
  <1> DEFINE A == AncestorsIn(g)
             P(c) == \A d \in A[c] : A[d] \subseteq A[c]
             Bad == {c \in DOMAIN g : ~P(c)}
  <1>1. ASSUME Bad # {}
        PROVE  FALSE
    <2>1. DOMAIN g \subseteq Nat
      BY DEF IsGraph
    <2>2. PICK c \in Bad : \A d \in Bad : c <= d
      <3> HIDE DEF P
      <3>1. Bad \subseteq Nat
        BY <2>1
      <3> HIDE DEF Bad
      <3> QED
        BY <1>1, <3>1, LeastNumber
    <2>3. ASSUME NEW k \in DOMAIN g[c].parents, NEW d \in A[g[c].parents[k]]
          PROVE  A[d] \subseteq A[c]
      <3> DEFINE p == g[c].parents[k]
      <3>1. p \in DOMAIN g /\ p \in Nat /\ p < c /\ c \in Nat
        BY ParentsBelow
      <3>2. A[p] \subseteq A[c]
        BY AncestorsOfParents
      <3>3. d \in A[p]
        BY <2>3
      <3> HIDE DEF p
      <3>4. p \notin Bad
        <4> HIDE DEF P
        <4> QED
          BY <3>1, <2>2
      <3>5. A[d] \subseteq A[p]
        BY <3>1, <3>3, <3>4
      <3> QED
        BY <3>2, <3>5
    <2>4. A[c] = {c} \cup UNION {A[g[c].parents[k]] : k \in DOMAIN g[c].parents}
      BY AncestorsOf
    <2>5. P(c)
      <3> HIDE DEF A
      <3>1. ASSUME NEW d \in A[c], d # c
            PROVE  A[d] \subseteq A[c]
        <4>1. PICK k \in DOMAIN g[c].parents : d \in A[g[c].parents[k]]
          BY <3>1, <2>4
        <4> QED
          BY <4>1, <2>3
      <3> QED
        BY <3>1
    <2> QED
      BY <2>5
  <1> QED
    BY <1>1

(* A commit's ancestors are the same in every graph that extends its own. *)
LEMMA AncestorsStay ==
    ASSUME NEW g, NEW h, IsGraph(g), IsGraph(h),
           DOMAIN g \subseteq DOMAIN h, \A c \in DOMAIN g : h[c] = g[c]
    PROVE  \A c \in DOMAIN g : AncestorsIn(h)[c] = AncestorsIn(g)[c]
  <1> DEFINE A == AncestorsIn(g)
             B == AncestorsIn(h)
             Bad == {c \in DOMAIN g : B[c] # A[c]}
  <1>1. ASSUME Bad # {}
        PROVE  FALSE
    <2>1. Bad \subseteq Nat
      BY DEF IsGraph
    <2>2. PICK c \in Bad : \A d \in Bad : c <= d
      <3> HIDE DEF Bad
      <3> QED
        BY <1>1, <2>1, LeastNumber
    <2>3. ASSUME NEW k \in DOMAIN g[c].parents
          PROVE  B[g[c].parents[k]] = A[g[c].parents[k]]
      <3> DEFINE p == g[c].parents[k]
      <3>1. p \in DOMAIN g /\ p \in Nat /\ p < c /\ c \in Nat
        BY ParentsBelow
      <3>2. p \notin Bad
        BY <3>1, <2>2
      <3> QED
        BY <3>1, <3>2
    <2>4. A[c] = {c} \cup UNION {A[g[c].parents[k]] : k \in DOMAIN g[c].parents}
      BY AncestorsOf
    <2>5. B[c] = {c} \cup UNION {B[g[c].parents[k]] : k \in DOMAIN g[c].parents}
      <3>1. c \in DOMAIN h /\ h[c] = g[c]
        OBVIOUS
      <3>2. B[c] = {c} \cup UNION {B[h[c].parents[k]] : k \in DOMAIN h[c].parents}
        BY <3>1, AncestorsOf
      <3> QED
        BY <3>1, <3>2
    <2>6. B[c] = A[c]
      <3> HIDE DEF A, B
      <3> QED
        BY <2>3, <2>4, <2>5
    <2> QED
      BY <2>6
  <1> QED
    BY <1>1

------------------------------------------------------------------------------
(***************************************************************************)
(* What git log prints, commit by commit.                                  *)
(***************************************************************************)

(* What "git log" prints up to c, given what it prints up to the parents.  *)
ChangedBy(f, g, c, path) ==
    LET parents == g[c].parents
        same == Same(g, c, path)
    IN  IF parents = << >>
        THEN IF Part(g[c].tree, path) = Part(EmptyTree, path) THEN {} ELSE {c}
        ELSE IF same # {}
        THEN f[parents[CHOOSE k \in same : \A j \in same : k <= j]]
        ELSE {c} \cup UNION {f[parents[k]] : k \in DOMAIN parents}

(* The first parent of the same entry, the one git log follows, exists when
   any does. *)
LEMMA FirstSame ==
    ASSUME NEW g, IsGraph(g), NEW c \in DOMAIN g, NEW path, Same(g, c, path) # {}
    PROVE  (CHOOSE k \in Same(g, c, path) : \A j \in Same(g, c, path) : k <= j)
             \in Same(g, c, path)
  <1>1. Same(g, c, path) \subseteq Nat
    <2>1. g[c].parents \in Seq(Nat)
      BY CommitTyped
    <2>2. DOMAIN g[c].parents \subseteq Nat
      BY <2>1
    <2> QED
      BY <2>2 DEF Same
  <1>2. \E k \in Same(g, c, path) : \A j \in Same(g, c, path) : k <= j
    BY <1>1, LeastNumber
  <1> QED
    BY <1>2

(* ChangedUpTo is a solution of its own recursive equation. *)
LEMMA ChangedEquation ==
    ASSUME NEW g, IsGraph(g), NEW path
    PROVE  ChangedUpTo(g, path) =
             [c \in DOMAIN g |-> ChangedBy(ChangedUpTo(g, path), g, c, path)]
  <1> DEFINE n == Len(g)
             V == SUBSET (1..n)
             Body(f, c) == ChangedBy(f, g, c, path)
             G == [c \in 1..n |-> [f \in [1..n -> V] |-> Body(f, c)]]
  <1>1. n \in Nat /\ DOMAIN g = 1..n
    BY DEF IsGraph
  <1>2. ASSUME NEW c \in 1..n, NEW f \in [1..n -> V]
        PROVE  Body(f, c) \in V
    <2>1. c \in DOMAIN g
      BY <1>1
    <2>2. \A k \in DOMAIN g[c].parents : f[g[c].parents[k]] \in V
      <3>1. ASSUME NEW k \in DOMAIN g[c].parents
            PROVE  g[c].parents[k] \in 1..n
        BY <1>1, <2>1, ParentsBelow
      <3> QED
        BY <3>1
    <2>3. CASE Same(g, c, path) # {}
      <3>1. (CHOOSE k \in Same(g, c, path) : \A j \in Same(g, c, path) : k <= j)
              \in DOMAIN g[c].parents
        BY <2>1, <2>3, FirstSame DEF Same
      <3>2. {} \in V /\ {c} \in V
        OBVIOUS
      <3> HIDE DEF V
      <3> QED
        BY <2>2, <2>3, <3>1, <3>2 DEF ChangedBy
    <2>4. CASE Same(g, c, path) = {}
      <3>1. {c} \cup UNION {f[g[c].parents[k]] : k \in DOMAIN g[c].parents} \in V
        BY <2>2
      <3>2. {} \in V /\ {c} \in V
        OBVIOUS
      <3> HIDE DEF V
      <3> QED
        BY <2>4, <3>1, <3>2 DEF ChangedBy
    <2> QED
      BY <2>3, <2>4
  <1>3. ASSUME NEW c \in 1..n, NEW f \in [1..n -> V], NEW h \in [1..n -> V],
               \A i \in 1..(c - 1) : f[i] = h[i]
        PROVE  Body(f, c) = Body(h, c)
    <2>1. c \in DOMAIN g
      BY <1>1
    <2>2. \A k \in DOMAIN g[c].parents : f[g[c].parents[k]] = h[g[c].parents[k]]
      BY <2>1, <1>3 DEF IsGraph
    <2>3. CASE Same(g, c, path) # {}
      <3>1. (CHOOSE k \in Same(g, c, path) : \A j \in Same(g, c, path) : k <= j)
              \in DOMAIN g[c].parents
        BY <2>1, <2>3, FirstSame DEF Same
      <3> HIDE DEF V
      <3> QED
        BY <2>2, <2>3, <3>1 DEF ChangedBy
    <2>4. CASE Same(g, c, path) = {}
      <3>1. {f[g[c].parents[k]] : k \in DOMAIN g[c].parents}
              = {h[g[c].parents[k]] : k \in DOMAIN g[c].parents}
        BY <2>2
      <3> HIDE DEF V
      <3> QED
        BY <2>4, <3>1 DEF ChangedBy
    <2> QED
      BY <2>3, <2>4
  <1>4. ASSUME NEW c \in 1..n, NEW f \in [1..n -> V]
        PROVE  G[c][f] = Body(f, c)
    OBVIOUS
  <1>5. \E f \in [1..n -> V] : IsSolution(f, G, n)
    <2>1. V # {}
      OBVIOUS
    <2>2. n \in Nat
      BY <1>1
    <2> HIDE DEF V, Body, G, n
    <2>3. IsRecursion(G, n, V)
      BY <2>1, <1>2, <1>3, <1>4 DEF IsRecursion
    <2> QED
      BY <2>2, <2>3, RecursionOnNumbers
  <1>6. PICK f \in [1..n -> V] : \A c \in 1..n : f[c] = Body(f, c)
    <2> HIDE DEF V, Body, G, n
    <2> QED
      BY <1>4, <1>5 DEF IsSolution
  <1>7. f = [c \in DOMAIN g |-> Body(f, c)]
    <2> HIDE DEF V, Body
    <2> QED
      BY <1>1, <1>6
  <1>8. ChangedUpTo(g, path) = CHOOSE from : from = [c \in DOMAIN g |-> Body(from, c)]
    BY DEF ChangedUpTo, ChangedBy
  <1>9. ChangedUpTo(g, path) = [c \in DOMAIN g |-> Body(ChangedUpTo(g, path), c)]
    <2> HIDE DEF Body
    <2> QED
      BY <1>7, <1>8
  <1> QED
    BY <1>9

(* What the simplified walk prints from a commit: nothing new where a parent
   has the same entry (it follows the first such), the commit and all its
   parents' where none has. *)
LEMMA ChangedOf ==
    ASSUME NEW g, IsGraph(g), NEW c \in DOMAIN g, NEW path
    PROVE  LET C == ChangedUpTo(g, path)
               parents == g[c].parents
           IN  /\ parents = << >> => C[c] = IF Prints(g, c, path) THEN {c} ELSE {}
               /\ parents # << >> /\ Same(g, c, path) # {} =>
                      \E k \in Same(g, c, path) : C[c] = C[parents[k]]
               /\ parents # << >> /\ Same(g, c, path) = {} =>
                      C[c] = {c} \cup UNION {C[parents[k]] : k \in DOMAIN parents}
  <1> DEFINE C == ChangedUpTo(g, path)
  <1>1. C[c] = ChangedBy(C, g, c, path)
    BY ChangedEquation
  <1> HIDE DEF C
  <1>2. g[c].parents = << >> => C[c] = IF Prints(g, c, path) THEN {c} ELSE {}
    <2>1. g[c].parents = << >> => Same(g, c, path) = {}
      BY DEF Same
    <2> QED
      BY <1>1, <2>1 DEF ChangedBy, Prints
  <1>3. g[c].parents # << >> /\ Same(g, c, path) # {} =>
           \E k \in Same(g, c, path) : C[c] = C[g[c].parents[k]]
    BY <1>1, FirstSame DEF ChangedBy
  <1>4. g[c].parents # << >> /\ Same(g, c, path) = {} =>
           C[c] = {c} \cup UNION {C[g[c].parents[k]] : k \in DOMAIN g[c].parents}
    BY <1>1 DEF ChangedBy
  <1> QED
    BY <1>2, <1>3, <1>4 DEF C

(* The simplified walk prints ancestors only, and only those that change the
   path. *)
LEMMA ChangedArePrinted ==
    ASSUME NEW g, IsGraph(g), NEW path
    PROVE  \A c \in DOMAIN g :
             ChangedUpTo(g, path)[c] \subseteq {d \in AncestorsIn(g)[c] : Prints(g, d, path)}
  <1> DEFINE A == AncestorsIn(g)
             C == ChangedUpTo(g, path)
             P(c) == C[c] \subseteq {d \in A[c] : Prints(g, d, path)}
             Bad == {c \in DOMAIN g : ~P(c)}
  <1>1. ASSUME Bad # {}
        PROVE  FALSE
    <2>1. PICK c \in Bad : \A d \in Bad : c <= d
      <3> HIDE DEF P
      <3>1. Bad \subseteq Nat
        BY DEF IsGraph
      <3> HIDE DEF Bad
      <3> QED
        BY <1>1, <3>1, LeastNumber
    <2> DEFINE parents == g[c].parents
    <2>2. ASSUME NEW k \in DOMAIN parents
          PROVE  C[parents[k]] \subseteq {d \in A[c] : Prints(g, d, path)}
      <3>1. parents[k] \in DOMAIN g /\ parents[k] \in Nat /\ parents[k] < c /\ c \in Nat
        BY ParentsBelow
      <3>2. parents[k] \notin Bad
        <4> HIDE DEF P, parents
        <4> QED
          BY <3>1, <2>1
      <3>3. A[parents[k]] \subseteq A[c]
        BY AncestorsOfParents
      <3> HIDE DEF parents, A, C
      <3> QED
        BY <3>1, <3>2, <3>3
    <2>3. c \in A[c]
      BY AncestorsOf
    <2>4. CASE parents = << >>
      <3>1. C[c] = IF Prints(g, c, path) THEN {c} ELSE {}
        BY <2>4, ChangedOf
      <3> HIDE DEF A, C, parents
      <3> QED
        BY <2>3, <3>1
    <2>5. CASE parents # << >> /\ Same(g, c, path) # {}
      <3>1. PICK k \in Same(g, c, path) : C[c] = C[parents[k]]
        BY <2>5, ChangedOf
      <3>2. k \in DOMAIN parents
        BY DEF Same
      <3> HIDE DEF A, C, parents
      <3> QED
        BY <2>2, <3>1, <3>2
    <2>6. CASE parents # << >> /\ Same(g, c, path) = {}
      <3>1. C[c] = {c} \cup UNION {C[parents[k]] : k \in DOMAIN parents}
        BY <2>6, ChangedOf
      <3>2. Prints(g, c, path)
        BY <2>6 DEF Prints
      <3> HIDE DEF A, C, parents
      <3> QED
        BY <2>2, <2>3, <3>1, <3>2
    <2> QED
      BY <2>4, <2>5, <2>6
  <1> QED
    BY <1>1

(* Where no ancestor is a merge, the simplified walk leaves out none that
   changes the path. *)
LEMMA ChangedOfLinear ==
    ASSUME NEW g, IsGraph(g), NEW path
    PROVE  \A c \in DOMAIN g :
             (\A d \in AncestorsIn(g)[c] : Len(g[d].parents) < 2)
               => {d \in AncestorsIn(g)[c] : Prints(g, d, path)} \subseteq ChangedUpTo(g, path)[c]
  <1> DEFINE A == AncestorsIn(g)
             C == ChangedUpTo(g, path)
             Linear(c) == \A d \in A[c] : Len(g[d].parents) < 2
             P(c) == Linear(c) => {d \in A[c] : Prints(g, d, path)} \subseteq C[c]
             Bad == {c \in DOMAIN g : ~P(c)}
  <1>1. ASSUME Bad # {}
        PROVE  FALSE
    <2>1. PICK c \in Bad : \A d \in Bad : c <= d
      <3> HIDE DEF P
      <3>1. Bad \subseteq Nat
        BY DEF IsGraph
      <3> HIDE DEF Bad
      <3> QED
        BY <1>1, <3>1, LeastNumber
    <2> DEFINE parents == g[c].parents
    <2>2. ASSUME NEW k \in DOMAIN parents
          PROVE  {d \in A[parents[k]] : Prints(g, d, path)} \subseteq C[parents[k]]
      <3>1. parents[k] \in DOMAIN g /\ parents[k] \in Nat /\ parents[k] < c /\ c \in Nat
        BY ParentsBelow
      <3>2. P(parents[k])
        <4> HIDE DEF P, parents
        <4> QED
          BY <3>1, <2>1
      <3>3. A[parents[k]] \subseteq A[c]
        BY AncestorsOfParents
      <3>4. Linear(c)
        BY <2>1
      <3>5. Linear(parents[k])
        <4> HIDE DEF A, parents
        <4> QED
          BY <3>3, <3>4
      <3> QED
        BY <3>2, <3>5
    <2>3. A[c] = {c} \cup UNION {A[parents[k]] : k \in DOMAIN parents}
      BY AncestorsOf
    <2>4. Len(parents) < 2 /\ parents \in Seq(Nat)
      BY <2>1, <2>3, CommitTyped
    <2>5. CASE parents = << >>
      <3>1. C[c] = IF Prints(g, c, path) THEN {c} ELSE {}
        BY <2>5, ChangedOf
      <3>2. A[c] = {c}
        <4> HIDE DEF A
        <4> QED
          BY <2>3, <2>5
      <3>3. P(c)
        <4> HIDE DEF A, C
        <4> QED
          BY <3>1, <3>2
      <3> QED
        BY <3>3
    <2>6. CASE parents # << >>
      <3>1. DOMAIN parents = {1}
        BY <2>4, <2>6
      <3>2. A[c] = {c} \cup A[parents[1]]
        <4> HIDE DEF A, parents
        <4> QED
          BY <2>3, <3>1
      <3>3. {d \in A[parents[1]] : Prints(g, d, path)} \subseteq C[parents[1]]
        BY <2>2, <3>1
      <3>4. CASE Same(g, c, path) # {}
        <4>1. PICK k \in Same(g, c, path) : C[c] = C[parents[k]]
          BY <2>6, <3>4, ChangedOf
        <4>2. k = 1
          BY <3>1 DEF Same
        <4>3. ~Prints(g, c, path)
          BY <3>4 DEF Prints
        <4>4. P(c)
          <5> HIDE DEF A, C, parents
          <5> QED
            BY <3>2, <3>3, <4>1, <4>2, <4>3
        <4> QED
          BY <4>4
      <3>5. CASE Same(g, c, path) = {}
        <4>1. C[c] = {c} \cup UNION {C[parents[k]] : k \in DOMAIN parents}
          BY <2>6, <3>5, ChangedOf
        <4>2. P(c)
          <5> HIDE DEF A, C, parents
          <5> QED
            BY <3>1, <3>2, <3>3, <4>1
        <4> QED
          BY <4>2
      <3> QED
        BY <3>4, <3>5
    <2> QED
      BY <2>5, <2>6
  <1> QED
    BY <1>1

(* Trees that agree on the part below a path agree on the entry at the path. *)
LEMMA PartsDiffer ==
    ASSUME NEW path \in Paths, NEW tree, NEW other, Part(tree, path) = Part(other, path)
    PROVE  tree[path] = other[path]
  <1>1. path \in Seq(Segments)
    BY GitReadsAssumption
  <1>2. Matches(path, path)
    BY <1>1 DEF Matches, IsPrefix
  <1>3. Part(tree, path)[path] = tree[path] /\ Part(other, path)[path] = other[path]
    BY <1>2 DEF Part
  <1> QED
    BY <1>3

(* The commit that brought something to the path is one that log prints.   *)
LEMMA Introduced ==
    ASSUME NEW g, IsGraph(g), NEW path \in Paths, NEW c \in DOMAIN g, NEW rev \in Blobs,
           NEW e \in AncestorsIn(g)[c], g[e].tree[path] = rev
    PROVE  \E d \in AncestorsIn(g)[c] : Prints(g, d, path) /\ g[d].tree[path] = rev
  <1> DEFINE A == AncestorsIn(g)
             Having == {d \in A[c] : g[d].tree[path] = rev}
  <1>1. A[c] \subseteq DOMAIN g /\ DOMAIN g \subseteq Nat
    <2>1. DOMAIN g \subseteq Nat
      BY DEF IsGraph
    <2>2. A[c] \subseteq {d \in DOMAIN g : d <= c}
      BY AncestorsBelow
    <2> HIDE DEF A
    <2> QED
      BY <2>1, <2>2
  <1>2. PICK d \in Having : \A b \in Having : d <= b
    <2>1. Having \subseteq Nat /\ Having # {}
      BY <1>1
    <2> HIDE DEF Having
    <2> QED
      BY <2>1, LeastNumber
  <1>3. d \in DOMAIN g /\ d \in A[c] /\ d \in Nat
    BY <1>1, <1>2
  <1>4. ASSUME NEW k \in DOMAIN g[d].parents
        PROVE  Part(g[g[d].parents[k]].tree, path) # Part(g[d].tree, path)
    <2> DEFINE p == g[d].parents[k]
    <2>1. p \in DOMAIN g /\ p \in Nat /\ p < d
      BY <1>3, ParentsBelow
    <2>2. p \in A[c]
      <3>1. p \in A[p] /\ A[p] \subseteq A[d] /\ A[d] \subseteq A[c]
        BY <1>3, <2>1, AncestorsOf, AncestorsOfParents, AncestorsOfAncestors
      <3> QED
        BY <3>1
    <2> HIDE DEF p
    <2>3. g[p].tree[path] # rev
      BY <1>2, <1>3, <2>1, <2>2
    <2> QED
      BY <1>2, <2>3, PartsDiffer DEF p
  <1>5. Same(g, d, path) = {}
    BY <1>4 DEF Same
  <1>6. Part(g[d].tree, path) # Part(EmptyTree, path)
    <2>1. EmptyTree[path] = Absent /\ Absent # rev
      BY GitTreesAssumption DEF EmptyTree
    <2> QED
      BY <1>2, <2>1, PartsDiffer
  <1> QED
    BY <1>2, <1>5, <1>6 DEF Prints

(* However the history is simplified, the newest commit that log prints is *)
(* the one that left the document as it is.                                *)
LEMMA ChangedBeginsAtTip ==
    ASSUME NEW g, IsGraph(g), NEW path \in Paths
    PROVE  \A c \in DOMAIN g :
             g[c].tree[path] \in Blobs =>
               \E m \in ChangedUpTo(g, path)[c] :
                   /\ \A d \in ChangedUpTo(g, path)[c] : d <= m
                   /\ g[m].tree[path] = g[c].tree[path]
  <1> DEFINE A == AncestorsIn(g)
             C == ChangedUpTo(g, path)
             P(c) == g[c].tree[path] \in Blobs =>
                       \E m \in C[c] : /\ \A d \in C[c] : d <= m
                                       /\ g[m].tree[path] = g[c].tree[path]
             Bad == {c \in DOMAIN g : ~P(c)}
  <1>1. ASSUME Bad # {}
        PROVE  FALSE
    <2>1. PICK c \in Bad : \A d \in Bad : c <= d
      <3> HIDE DEF P
      <3>1. Bad \subseteq Nat
        BY DEF IsGraph
      <3> HIDE DEF Bad
      <3> QED
        BY <1>1, <3>1, LeastNumber
    <2> DEFINE parents == g[c].parents
    <2>2. c \in DOMAIN g /\ c \in Nat /\ g[c].tree[path] \in Blobs
      BY <2>1 DEF IsGraph
    <2>3. CASE parents = << >>
      <3>1. C[c] = IF Prints(g, c, path) THEN {c} ELSE {}
        BY <2>3, ChangedOf
      <3>2. Part(g[c].tree, path) # Part(EmptyTree, path)
        <4>1. EmptyTree[path] = Absent /\ Absent \notin Blobs
          BY GitTreesAssumption DEF EmptyTree
        <4> QED
          BY <2>2, <4>1, PartsDiffer
      <3>3. Prints(g, c, path)
        BY <2>3, <3>2 DEF Prints, Same
      <3>4. C[c] = {c}
        BY <3>1, <3>3
      <3>5. P(c)
        <4> HIDE DEF C
        <4> QED
          BY <2>2, <3>4
      <3> QED
        BY <3>5
    <2>4. CASE parents # << >> /\ Same(g, c, path) # {}
      <3>1. PICK k \in Same(g, c, path) : C[c] = C[parents[k]]
        BY <2>4, ChangedOf
      <3>2. k \in DOMAIN parents /\ Part(g[parents[k]].tree, path) = Part(g[c].tree, path)
        BY DEF Same
      <3>3. parents[k] \in DOMAIN g /\ parents[k] \in Nat /\ parents[k] < c
        BY <3>2, ParentsBelow
      <3>4. g[parents[k]].tree[path] = g[c].tree[path]
        BY <3>2, PartsDiffer
      <3>5. P(parents[k])
        <4> HIDE DEF P, parents
        <4> QED
          BY <2>1, <2>2, <3>3
      <3>6. P(c)
        <4> HIDE DEF C, parents
        <4> QED
          BY <3>1, <3>4, <3>5
      <3> QED
        BY <3>6
    <2>5. CASE parents # << >> /\ Same(g, c, path) = {}
      <3>1. C[c] = {c} \cup UNION {C[parents[k]] : k \in DOMAIN parents}
        BY <2>5, ChangedOf
      <3>2. ASSUME NEW k \in DOMAIN parents, NEW d \in C[parents[k]]
            PROVE  d <= c
        <4>1. parents[k] \in DOMAIN g /\ parents[k] \in Nat /\ parents[k] < c
          BY ParentsBelow
        <4>2. d \in A[parents[k]]
          BY <4>1, ChangedArePrinted
        <4>3. d \in DOMAIN g /\ d <= parents[k]
          BY <4>1, <4>2, AncestorsBelow
        <4>4. d \in Nat
          BY <4>3 DEF IsGraph
        <4> HIDE DEF parents
        <4> QED
          BY <2>2, <4>1, <4>3, <4>4
      <3>3. c \in C[c] /\ \A d \in C[c] : d <= c
        <4> HIDE DEF C, parents
        <4> QED
          BY <2>2, <3>1, <3>2
      <3>4. P(c)
        BY <3>3
      <3> QED
        BY <3>4
    <2> QED
      BY <2>3, <2>4, <2>5
  <1> QED
    BY <1>1

------------------------------------------------------------------------------
(***************************************************************************)
(* The order in which git log prints it.                                   *)
(***************************************************************************)

(* A set of numbers up to N is finite. *)
LEMMA FiniteRange ==
    ASSUME NEW N \in Nat, NEW S, S \subseteq 1..N
    PROVE  IsFiniteSet(S) /\ Cardinality(S) \in Nat
  <1>1. IsFiniteSet(1..N)
    BY FS_Interval
  <1>2. IsFiniteSet(S)
    BY <1>1, FS_Subset
  <1> QED
    BY <1>2, FS_CardinalityType

IsDescending(s) == \A i, j \in DOMAIN s : i < j => s[i] > s[j]

(* A nonempty set of numbers up to n has a greatest element. *)
LEMMA GreatestNumber ==
    ASSUME NEW n \in Nat, NEW S, S \subseteq 1..n, S # {}
    PROVE  \E m \in S : \A x \in S : x <= m
  <1> DEFINE T == {n - x : x \in S}
  <1>1. T \subseteq Nat /\ T # {}
    <2>1. ASSUME NEW x \in S
          PROVE  n - x \in Nat
      <3>1. x \in 1..n
        OBVIOUS
      <3> QED
        BY <3>1
    <2> QED
      BY <2>1
  <1>2. PICK t \in T : \A u \in T : t <= u
    <2> HIDE DEF T
    <2> QED
      BY <1>1, LeastNumber
  <1>3. PICK m \in S : t = n - m
    BY <1>2
  <1>4. ASSUME NEW x \in S
        PROVE  x <= m
    <2>1. n - m <= n - x
      BY <1>2, <1>3
    <2>2. x \in 1..n /\ m \in 1..n
      OBVIOUS
    <2> QED
      BY <2>1, <2>2
  <1> QED
    BY <1>4

HasDescending(S) == \E s \in [1..Cardinality(S) -> S] : IsDescending(s)

(* Every set of numbers up to N has its listing from the greatest down. *)
LEMMA DescendingOrder ==
    ASSUME NEW N \in Nat
    PROVE  \A S \in SUBSET (1..N) : HasDescending(S)
  <1> DEFINE Bad == {n \in Nat : \E S \in SUBSET (1..N) : Cardinality(S) = n /\ ~HasDescending(S)}
  <1>1. \A S \in SUBSET (1..N) : IsFiniteSet(S) /\ Cardinality(S) \in Nat
    BY FiniteRange
  <1>2. ASSUME Bad # {}
        PROVE  FALSE
    <2>1. PICK n \in Bad : \A b \in Bad : n <= b
      <3>1. Bad \subseteq Nat
        OBVIOUS
      <3> HIDE DEF Bad
      <3> QED
        BY <1>2, <3>1, LeastNumber
    <2>2. PICK S \in SUBSET (1..N) : Cardinality(S) = n /\ ~HasDescending(S)
      BY <2>1
    <2>3. CASE S = {}
      <3>1. Cardinality(S) = 0
        BY <2>3, FS_EmptySet
      <3>2. << >> \in [1..Cardinality(S) -> S] /\ IsDescending(<< >>)
        BY <3>1 DEF IsDescending
      <3> QED
        BY <2>2, <3>2 DEF HasDescending
    <2>4. CASE S # {}
      <3>1. PICK m \in S : \A x \in S : x <= m
        BY <2>4, GreatestNumber
      <3> DEFINE T == S \ {m}
      <3>2. IsFiniteSet(S) /\ n \in Nat
        BY <1>1, <2>1
      <3>3. Cardinality(T) = n - 1 /\ T \in SUBSET (1..N) /\ Cardinality(T) \in Nat
        <4>1. Cardinality(T) = n - 1
          BY <2>2, <3>2, FS_RemoveElement
        <4>2. T \in SUBSET (1..N)
          OBVIOUS
        <4> HIDE DEF T
        <4> QED
          BY <1>1, <4>1, <4>2
      <3>4. HasDescending(T)
        <4> HIDE DEF T
        <4>1. ~(n <= n - 1)
          BY <3>2
        <4>2. Cardinality(T) \notin Bad
          BY <2>1, <3>3, <4>1
        <4> QED
          BY <3>3, <4>2
      <3>5. PICK t \in [1..(n - 1) -> T] : IsDescending(t)
        BY <3>3, <3>4 DEF HasDescending
      <3> DEFINE s == [i \in 1..n |-> IF i = 1 THEN m ELSE t[i - 1]]
      <3>6. ASSUME NEW i \in 1..n, i # 1
            PROVE  i - 1 \in 1..(n - 1) /\ s[i] = t[i - 1] /\ s[i] \in T
        <4>1. i - 1 \in 1..(n - 1)
          BY <3>2, <3>6
        <4> QED
          BY <4>1, <3>6
      <3>7. s \in [1..n -> S]
        BY <3>6
      <3>8. ASSUME NEW i \in 1..n, NEW j \in 1..n, i < j
            PROVE  s[i] > s[j]
        <4>1. j # 1 /\ s[j] = t[j - 1] /\ s[j] \in T /\ j - 1 \in 1..(n - 1)
          BY <3>2, <3>6, <3>8
        <4>2. CASE i = 1
          <5>1. s[i] = m
            BY <4>2
          <5>2. s[j] <= m /\ s[j] # m /\ s[j] \in 1..N /\ m \in 1..N
            BY <3>1, <4>1
          <5> HIDE DEF s
          <5> QED
            BY <5>1, <5>2
        <4>3. CASE i # 1
          <5>1. s[i] = t[i - 1] /\ i - 1 \in 1..(n - 1)
            BY <3>6, <4>3
          <5>2. i - 1 < j - 1
            BY <3>8
          <5> HIDE DEF s
          <5> QED
            BY <3>5, <4>1, <5>1, <5>2 DEF IsDescending
        <4> QED
          BY <4>2, <4>3
      <3>9. IsDescending(s)
        BY <3>8 DEF IsDescending
      <3> HIDE DEF s
      <3> QED
        BY <2>2, <3>7, <3>9 DEF HasDescending
    <2> QED
      BY <2>3, <2>4
  <1>3. ASSUME NEW S \in SUBSET (1..N)
        PROVE  HasDescending(S)
    <2>1. Cardinality(S) \in Nat
      BY <1>1
    <2>2. Cardinality(S) \notin Bad
      BY <1>2
    <2> QED
      BY <2>1, <2>2
  <1> QED
    BY <1>3

(* NewestFirst lists its set: exactly its elements, from the greatest down. *)
LEMMA NewestFirstLists ==
    ASSUME NEW N \in Nat, NEW S, S \subseteq 1..N
    PROVE  /\ NewestFirst(S) \in [1..Cardinality(S) -> S]
           /\ NewestFirst(S) \in Seq(S)
           /\ Cardinality(S) \in Nat
           /\ IsDescending(NewestFirst(S))
           /\ \A x \in S : \E i \in DOMAIN NewestFirst(S) : NewestFirst(S)[i] = x
  <1> DEFINE all == NewestFirst(S)
  <1>1. IsFiniteSet(S) /\ Cardinality(S) \in Nat
    BY FiniteRange
  <1>2. \E s \in [1..Cardinality(S) -> S] : \A i, j \in DOMAIN s : i < j => s[i] > s[j]
    BY DescendingOrder DEF HasDescending, IsDescending
  <1>3. all \in [1..Cardinality(S) -> S] /\ \A i, j \in DOMAIN all : i < j => all[i] > all[j]
    BY <1>2 DEF NewestFirst
  <1> HIDE DEF all
  <1>4. ASSUME NEW i \in 1..Cardinality(S), NEW j \in 1..Cardinality(S), all[i] = all[j]
        PROVE  i = j
    <2>1. all[i] \in Nat
      <3>1. all[i] \in S
        BY <1>3
      <3>2. all[i] \in 1..N
        BY <3>1
      <3> QED
        BY <3>2
    <2>2. ~(all[i] > all[j]) /\ ~(all[j] > all[i])
      BY <1>4, <2>1
    <2>3. ~(i < j) /\ ~(j < i)
      BY <1>3, <2>2
    <2> QED
      BY <1>1, <2>3
  <1>5. all \in Injection(1..Cardinality(S), S)
    BY <1>3, <1>4 DEF Injection, IsInjective
  <1>6. Cardinality(1..Cardinality(S)) = Cardinality(S)
    BY <1>1, FS_Interval
  <1>7. all \in Surjection(1..Cardinality(S), S)
    BY <1>1, <1>5, <1>6, FS_Injection
  <1>8. \A x \in S : \E i \in DOMAIN all : all[i] = x
    BY <1>3, <1>7 DEF Surjection
  <1>9. all \in Seq(S)
    BY <1>1, <1>3
  <1> QED
    BY <1>1, <1>3, <1>8, <1>9 DEF all, IsDescending

------------------------------------------------------------------------------
(***************************************************************************)
(* What a history makes of it.                                             *)
(***************************************************************************)

Selects(u, entries) ==
    /\ u[0] = << >>
    /\ \A k \in 1..Len(entries) :
           u[k] = IF entries[k] \in Blobs THEN Append(u[k - 1], entries[k]) ELSE u[k - 1]

(* BlobsOf, a fold, is the last of the sequences that add one entry at a
   time: the form the proofs below walk along. *)
LEMMA BlobsOfSelects ==
    ASSUME NEW X, NEW entries \in Seq(X)
    PROVE  \E u \in [0..Len(entries) -> Seq(Blobs)] :
               Selects(u, entries) /\ BlobsOf(entries) = u[Len(entries)]
  <1> DEFINE n == Len(entries)
             V == Seq(Blobs)
             Body(f, c) == IF c = 1 THEN << >>
                           ELSE IF entries[c - 1] \in Blobs
                           THEN Append(f[c - 1], entries[c - 1])
                           ELSE f[c - 1]
             G == [c \in 1..(n + 1) |-> [f \in [1..(n + 1) -> V] |-> Body(f, c)]]
  <1>1. n \in Nat /\ n + 1 \in Nat
    OBVIOUS
  <1>2. ASSUME NEW c \in 1..(n + 1), c # 1
        PROVE  c - 1 \in 1..n /\ c - 1 \in 1..(n + 1)
    BY <1>1, <1>2
  <1>3. ASSUME NEW c \in 1..(n + 1), NEW f \in [1..(n + 1) -> V]
        PROVE  Body(f, c) \in V
    <2>1. << >> \in V
      OBVIOUS
    <2>2. CASE c = 1
      BY <2>1, <2>2
    <2>3. CASE c # 1
      <3>1. f[c - 1] \in V
        BY <1>2, <2>3
      <3>2. entries[c - 1] \in Blobs => Append(f[c - 1], entries[c - 1]) \in V
        BY <3>1
      <3> HIDE DEF V
      <3> QED
        BY <2>3, <3>1, <3>2
    <2> QED
      BY <2>2, <2>3
  <1>4. ASSUME NEW c \in 1..(n + 1), NEW f \in [1..(n + 1) -> V], NEW h \in [1..(n + 1) -> V],
               \A i \in 1..(c - 1) : f[i] = h[i]
        PROVE  Body(f, c) = Body(h, c)
    <2>1. CASE c # 1
      <3>1. c - 1 \in 1..(c - 1)
        BY <1>2, <2>1
      <3>2. f[c - 1] = h[c - 1]
        BY <1>4, <3>1
      <3> QED
        BY <3>2
    <2> QED
      BY <2>1
  <1>5. ASSUME NEW c \in 1..(n + 1), NEW f \in [1..(n + 1) -> V]
        PROVE  G[c][f] = Body(f, c)
    OBVIOUS
  <1>6. << >> \in V /\ V # {}
    <2>1. << >> \in Seq(Blobs)
      OBVIOUS
    <2> QED
      BY <2>1
  <1>7. PICK f \in [1..(n + 1) -> V] : \A c \in 1..(n + 1) : f[c] = Body(f, c)
    <2> HIDE DEF V, Body, G, n
    <2>1. IsRecursion(G, n + 1, V)
      BY <1>3, <1>4, <1>5, <1>6 DEF IsRecursion
    <2>2. PICK f \in [1..(n + 1) -> V] : IsSolution(f, G, n + 1)
      BY <1>1, <2>1, RecursionOnNumbers
    <2> QED
      BY <1>5, <2>2 DEF IsSolution
  <1> DEFINE Step(u, k) == IF k = 0 THEN << >>
                           ELSE IF entries[k] \in Blobs THEN Append(u[k - 1], entries[k])
                           ELSE u[k - 1]
             v == [k \in 0..n |-> f[k + 1]]
  <1>8. v \in [0..n -> V]
    <2> HIDE DEF V, n
    <2>1. \A k \in 0..n : k + 1 \in 1..(n + 1)
      BY <1>1
    <2> QED
      BY <2>1
  <1>9. ASSUME NEW k \in 0..n
        PROVE  v[k] = Step(v, k)
    <2> HIDE DEF V, n
    <2>1. k + 1 \in 1..(n + 1) /\ (k # 0 => k - 1 \in 0..n /\ (k - 1) + 1 = k)
          /\ (k + 1 = 1 <=> k = 0) /\ (k + 1) - 1 = k
      BY <1>1
    <2>2. v[k] = Body(f, k + 1)
      BY <1>7, <2>1
    <2>3. k # 0 => v[k - 1] = f[k]
      BY <2>1
    <2> HIDE DEF v
    <2> QED
      BY <2>1, <2>2, <2>3
  <1>10. v = [k \in 0..n |-> Step(v, k)]
    <2> HIDE DEF Step, V, n
    <2> QED
      BY <1>8, <1>9
  <1> HIDE DEF v
  <1> DEFINE u == CHOOSE w : w = [k \in 0..n |-> Step(w, k)]
  <1>11. BlobsOf(entries) = u[n]
    BY DEF BlobsOf
  <1>12. u = [k \in 0..n |-> Step(u, k)]
    <2> HIDE DEF Step, n
    <2> QED
      BY <1>10
  <1> HIDE DEF u
  <1>13. ASSUME NEW k \in 0..n
         PROVE  u[k] = Step(u, k)
    <2> HIDE DEF Step, n
    <2> QED
      BY <1>12
  <1>14. \A k \in 0..n : u[k] \in V
    <2> DEFINE Bad == {k \in 0..n : u[k] \notin V}
    <2>1. ASSUME Bad # {}
          PROVE  FALSE
      <3>1. PICK k \in Bad : \A b \in Bad : k <= b
        <4>1. Bad \subseteq Nat
          BY <1>1
        <4> HIDE DEF Bad
        <4> QED
          BY <2>1, <4>1, LeastNumber
      <3> HIDE DEF n, V
      <3>2. CASE k = 0
        <4>1. u[k] = << >>
          BY <3>1, <3>2, <1>13
        <4> QED
          BY <3>1, <4>1, <1>6
      <3>3. CASE k # 0
        <4>1. k - 1 \in 0..n /\ ~(k <= k - 1)
          BY <3>3, <1>1
        <4>2. u[k - 1] \in V
          BY <3>1, <4>1
        <4>3. entries[k] \in Blobs => Append(u[k - 1], entries[k]) \in V
          BY <4>2 DEF V
        <4> QED
          BY <3>1, <3>3, <1>13, <4>2, <4>3
      <3> QED
        BY <3>2, <3>3
    <2> QED
      BY <2>1
  <1>15. u \in [0..n -> V]
    <2> HIDE DEF Step, V, n
    <2> QED
      BY <1>12, <1>14
  <1>16. Selects(u, entries)
    <2>1. u[0] = << >>
      BY <1>1, <1>13
    <2>2. ASSUME NEW k \in 1..n
          PROVE  u[k] = IF entries[k] \in Blobs THEN Append(u[k - 1], entries[k]) ELSE u[k - 1]
      <3>1. k \in 0..n /\ k # 0
        BY <1>1
      <3> QED
        BY <3>1, <1>13
    <2> QED
      BY <2>1, <2>2 DEF Selects
  <1> QED
    BY <1>11, <1>15, <1>16

(* An element with k of the set at or above it is the k-th newest. *)
LEMMA NthNewestIs ==
    ASSUME NEW N \in Nat, NEW T, T \subseteq 1..N, NEW x \in T, NEW k,
           Cardinality({d \in T : d >= x}) = k
    PROVE  NthNewest(T, k) = x
  <1> DEFINE Up(y) == {d \in T : d >= y}
             y == NthNewest(T, k)
  <1>1. y \in T /\ Cardinality(Up(y)) = k
    BY DEF NthNewest
  <1>2. ASSUME NEW a \in T, NEW b \in T, a < b, Cardinality(Up(a)) = Cardinality(Up(b))
        PROVE  FALSE
    <2>1. a \in 1..N /\ b \in 1..N
      OBVIOUS
    <2>2. IsFiniteSet(Up(a))
      BY FiniteRange
    <2>3. Up(b) \subseteq Up(a)
      <3>1. ASSUME NEW d \in T, d >= b
            PROVE  d >= a
        <4>1. d \in 1..N
          OBVIOUS
        <4> QED
          BY <4>1, <2>1, <3>1, <1>2
      <3> QED
        BY <3>1
    <2>4. a \in Up(a) /\ a \notin Up(b)
      BY <2>1, <1>2
    <2> HIDE DEF Up
    <2>5. Up(a) = Up(b)
      BY <1>2, <2>2, <2>3, FS_Subset
    <2> QED
      BY <2>4, <2>5
  <1>3. ~(x < y) /\ ~(y < x)
    <2> HIDE DEF y
    <2> QED
      BY <1>1, <1>2
  <1>4. x \in 1..N /\ y \in 1..N
    BY <1>1
  <1> HIDE DEF y
  <1>5. y = x
    BY <1>3, <1>4
  <1> QED
    BY <1>5 DEF y

(* The commits among the first m of a log that have a blob at the path.    *)
WithBlob(printed, entries, m) == {printed[i] : i \in {j \in 1..m : entries[j] \in Blobs}}

(* What the first m commits of a log contribute to a history.              *)
Contributes(u, printed, entries, m) ==
    /\ u[m] \in Seq(Blobs)
    /\ Len(u[m]) = Cardinality(WithBlob(printed, entries, m))
    /\ \A k \in 1..Len(u[m]) : \E i \in 1..m :
           /\ entries[i] \in Blobs
           /\ u[m][k] = entries[i]
           /\ Cardinality({d \in WithBlob(printed, entries, m) : d >= printed[i]}) = k
    /\ \A i \in 1..m : entries[i] \in Blobs => \E k \in 1..Len(u[m]) : u[m][k] = entries[i]
    /\ m > 0 /\ entries[1] \in Blobs => u[m] # << >> /\ u[m][1] = entries[1]

(* Before the first entry nothing has been selected. *)
LEMMA FirstContributes ==
    ASSUME NEW u, NEW printed, NEW entries, Selects(u, entries)
    PROVE  Contributes(u, printed, entries, 0)
  <1>1. u[0] = << >>
    BY DEF Selects
  <1>2. WithBlob(printed, entries, 0) = {}
    BY DEF WithBlob
  <1>3. Cardinality(WithBlob(printed, entries, 0)) = 0
    BY <1>2, FS_EmptySet
  <1> QED
    BY <1>1, <1>3 DEF Contributes

(* One more entry of the log adds its blob, if it has one, below what is
   already there. *)
LEMMA NextContributes ==
    ASSUME NEW N \in Nat, NEW printed \in Seq(1..N), IsDescending(printed),
           NEW X, NEW entries \in Seq(X), Len(entries) = Len(printed),
           NEW u, Selects(u, entries),
           NEW m \in 1..Len(entries), Contributes(u, printed, entries, m - 1)
    PROVE  Contributes(u, printed, entries, m)
  <1> DEFINE S == WithBlob(printed, entries, m - 1)
             T == WithBlob(printed, entries, m)
  <1>1. m \in Nat /\ m - 1 \in Nat /\ \A i \in 1..m : i = m \/ i \in 1..(m - 1)
    OBVIOUS
  <1>2. \A i \in 1..m : i \in DOMAIN printed /\ printed[i] \in 1..N
    BY <1>1
  <1>3. u[m] = IF entries[m] \in Blobs THEN Append(u[m - 1], entries[m]) ELSE u[m - 1]
    BY DEF Selects
  <1>4. CASE entries[m] \notin Blobs
    <2>1. {j \in 1..m : entries[j] \in Blobs} = {j \in 1..(m - 1) : entries[j] \in Blobs}
      BY <1>1, <1>4
    <2>2. T = S
      BY <2>1 DEF WithBlob
    <2>3. m # 1 \/ entries[1] \notin Blobs
      BY <1>4
    <2>4. \A i \in 1..(m - 1) : i \in 1..m
      BY <1>1
    <2>5. m > 0 /\ entries[1] \in Blobs => m - 1 > 0
      BY <1>1, <2>3
    <2>6. u[m] = u[m - 1]
      BY <1>3, <1>4
    <2>7. \A i \in 1..m : entries[i] \in Blobs => i \in 1..(m - 1)
      BY <1>1, <1>4
    <2> HIDE DEF S, T
    <2> QED
      BY <2>2, <2>4, <2>5, <2>6, <2>7 DEF Contributes, S, T
  <1>5. CASE entries[m] \in Blobs
    <2>1. {j \in 1..m : entries[j] \in Blobs} = {j \in 1..(m - 1) : entries[j] \in Blobs} \cup {m}
      BY <1>1, <1>5
    <2>2. T = S \cup {printed[m]}
      BY <2>1 DEF WithBlob
    <2>3. ASSUME NEW i \in 1..(m - 1)
          PROVE  printed[i] > printed[m] /\ i \in 1..m
      <3>1. i \in 1..m /\ m \in 1..m /\ i < m
        BY <1>1
      <3>2. i \in DOMAIN printed /\ m \in DOMAIN printed
        BY <1>2, <3>1
      <3> QED
        BY <3>1, <3>2 DEF IsDescending
    <2>4. ASSUME NEW d \in S
          PROVE  d > printed[m]
      BY <2>3 DEF WithBlob
    <2>5. S \subseteq 1..N /\ T \subseteq 1..N /\ printed[m] \in 1..N
      BY <1>1, <1>2, <2>2, <2>3 DEF WithBlob
    <2>6. printed[m] \notin S
      BY <2>4, <2>5
    <2>7. IsFiniteSet(S) /\ Cardinality(S) \in Nat /\ Cardinality(T) = Cardinality(S) + 1
      <3> HIDE DEF S, T
      <3>1. IsFiniteSet(S) /\ Cardinality(S) \in Nat
        BY <2>5, FiniteRange
      <3> QED
        BY <3>1, <2>2, <2>6, FS_AddElement
    <2>8. u[m] = Append(u[m - 1], entries[m]) /\ u[m - 1] \in Seq(Blobs)
          /\ Len(u[m - 1]) = Cardinality(S)
      BY <1>3, <1>5 DEF Contributes
    <2>9. /\ u[m] \in Seq(Blobs)
          /\ Len(u[m]) = Cardinality(S) + 1
          /\ u[m][Cardinality(S) + 1] = entries[m]
          /\ \A k \in 1..Cardinality(S) : u[m][k] = u[m - 1][k]
      <3> HIDE DEF S
      <3> QED
        BY <1>5, <2>7, <2>8
    <2>10. ASSUME NEW k \in 1..Len(u[m])
           PROVE  \E i \in 1..m : /\ entries[i] \in Blobs
                                  /\ u[m][k] = entries[i]
                                  /\ Cardinality({d \in T : d >= printed[i]}) = k
      <3>1. CASE k = Cardinality(S) + 1
        <4>1. {d \in T : d >= printed[m]} = T
          <5> HIDE DEF S, T
          <5> QED
            BY <2>2, <2>4, <2>5
        <4>2. Cardinality({d \in T : d >= printed[m]}) = k
          BY <2>7, <3>1, <4>1
        <4>3. m \in 1..m /\ u[m][k] = entries[m]
          BY <1>1, <2>9, <3>1
        <4> HIDE DEF T
        <4> QED
          BY <1>5, <4>2, <4>3
      <3>2. CASE k # Cardinality(S) + 1
        <4>1. k \in 1..Cardinality(S)
          <5> HIDE DEF S
          <5> QED
            BY <2>7, <2>9, <3>2
        <4>2. PICK i \in 1..(m - 1) : /\ entries[i] \in Blobs
                                      /\ u[m - 1][k] = entries[i]
                                      /\ Cardinality({d \in S : d >= printed[i]}) = k
          BY <2>8, <4>1 DEF Contributes
        <4>3. {d \in T : d >= printed[i]} = {d \in S : d >= printed[i]}
          <5>1. printed[i] > printed[m] /\ printed[i] \in 1..N /\ printed[m] \in 1..N
            BY <1>2, <2>3
          <5>2. ~(printed[m] >= printed[i])
            BY <5>1
          <5> HIDE DEF S, T
          <5> QED
            BY <2>2, <5>2
        <4> QED
          BY <2>3, <2>9, <4>1, <4>2, <4>3
      <3> QED
        BY <3>1, <3>2
    <2>11. ASSUME NEW i \in 1..m, entries[i] \in Blobs
           PROVE  \E k \in 1..Len(u[m]) : u[m][k] = entries[i]
      <3>1. CASE i = m
        <4>1. Cardinality(S) + 1 \in 1..Len(u[m])
          BY <2>7, <2>9
        <4> QED
          BY <2>9, <3>1, <4>1
      <3>2. CASE i # m
        <4>1. PICK k \in 1..Len(u[m - 1]) : u[m - 1][k] = entries[i]
          BY <1>1, <2>11, <3>2 DEF Contributes
        <4>2. k \in 1..Cardinality(S) /\ k \in 1..Len(u[m])
          BY <2>7, <2>8, <2>9
        <4> QED
          BY <2>9, <4>1, <4>2
      <3> QED
        BY <3>1, <3>2
    <2>12. ASSUME entries[1] \in Blobs
           PROVE  u[m] # << >> /\ u[m][1] = entries[1]
      <3>1. u[m] # << >>
        BY <2>7, <2>9
      <3>2. CASE m = 1
        <4>1. Cardinality(S) = 0
          <5>1. S = {}
            BY <3>2 DEF WithBlob
          <5> QED
            BY <5>1, FS_EmptySet
        <4> QED
          BY <2>9, <3>1, <3>2, <4>1
      <3>3. CASE m # 1
        <4>1. u[m - 1] # << >> /\ u[m - 1][1] = entries[1]
          BY <1>1, <2>12, <3>3 DEF Contributes
        <4>2. 1 \in 1..Cardinality(S)
          BY <2>7, <2>8, <4>1
        <4> QED
          BY <2>9, <3>1, <4>1, <4>2
      <3> QED
        BY <3>2, <3>3
    <2> HIDE DEF S
    <2> QED
      BY <2>7, <2>9, <2>10, <2>11, <2>12 DEF Contributes
  <1> QED
    BY <1>4, <1>5

(* What reading the blobs of a log gives.                                  *)
ListsBlobs(revs, printed, entries, T) ==
    /\ revs \in Seq(Blobs)
    /\ Len(revs) = Cardinality(T)
    /\ \A k \in DOMAIN revs : \E i \in DOMAIN printed :
           /\ entries[i] \in Blobs
           /\ revs[k] = entries[i]
           /\ NthNewest(T, k) = printed[i]
    /\ \A i \in DOMAIN entries : entries[i] \in Blobs => entries[i] \in ToSet(revs)
    /\ entries # << >> /\ entries[1] \in Blobs => revs # << >> /\ revs[1] = entries[1]

(* A history lists the commits of the log that have a blob at the path.    *)
LEMMA HistoryOfLog ==
    ASSUME NEW N \in Nat, NEW printed \in Seq(1..N), IsDescending(printed),
           NEW X, NEW entries \in Seq(X), Len(entries) = Len(printed),
           NEW T, T = WithBlob(printed, entries, Len(entries))
    PROVE  ListsBlobs(BlobsOf(entries), printed, entries, T)
  <1> DEFINE n == Len(entries)
             revs == BlobsOf(entries)
  <1>1. PICK u \in [0..n -> Seq(Blobs)] : Selects(u, entries) /\ revs = u[n]
    BY BlobsOfSelects
  <1>2. n \in Nat
    OBVIOUS
  <1> DEFINE Bad == {m \in 0..n : ~Contributes(u, printed, entries, m)}
  <1>3. ASSUME Bad # {}
        PROVE  FALSE
    <2>1. PICK m \in Bad : \A b \in Bad : m <= b
      <3>1. Bad \subseteq Nat
        BY <1>2
      <3> HIDE DEF Bad
      <3> QED
        BY <1>3, <3>1, LeastNumber
    <2>2. m # 0
      BY <1>1, <2>1, FirstContributes
    <2>3. m \in 1..n /\ m - 1 \in 0..n /\ ~(m <= m - 1)
      BY <1>2, <2>1, <2>2
    <2>4. Contributes(u, printed, entries, m - 1)
      BY <2>1, <2>3
    <2>5. Contributes(u, printed, entries, m)
      BY <1>1, <2>3, <2>4, NextContributes
    <2> QED
      BY <2>1, <2>5
  <1>4. Contributes(u, printed, entries, n)
    BY <1>2, <1>3
  <1>5. T \subseteq 1..N
    BY DEF WithBlob
  <1>6. revs \in Seq(Blobs) /\ Len(revs) = Cardinality(T) /\ DOMAIN revs = 1..Len(revs)
    <2> HIDE DEF revs
    <2> QED
      BY <1>1, <1>4 DEF Contributes
  <1>7. ASSUME NEW k \in DOMAIN revs
        PROVE  \E i \in DOMAIN printed :
                  entries[i] \in Blobs /\ revs[k] = entries[i] /\ NthNewest(T, k) = printed[i]
    <2> HIDE DEF revs
    <2>1. PICK i \in 1..n : /\ entries[i] \in Blobs
                            /\ revs[k] = entries[i]
                            /\ Cardinality({d \in T : d >= printed[i]}) = k
      BY <1>1, <1>4, <1>6 DEF Contributes
    <2>2. printed[i] \in T /\ i \in DOMAIN printed
      BY <2>1 DEF WithBlob
    <2>3. NthNewest(T, k) = printed[i]
      BY <1>5, <2>1, <2>2, NthNewestIs
    <2> QED
      BY <2>1, <2>2, <2>3
  <1>8. ASSUME NEW i \in DOMAIN entries, entries[i] \in Blobs
        PROVE  entries[i] \in ToSet(revs)
    <2> HIDE DEF revs
    <2>1. i \in 1..n
      OBVIOUS
    <2> QED
      BY <1>1, <1>4, <1>6, <1>8, <2>1 DEF Contributes, ToSet
  <1>9. ASSUME entries # << >>, entries[1] \in Blobs
        PROVE  revs # << >> /\ revs[1] = entries[1]
    <2>1. n > 0
      BY <1>9
    <2> HIDE DEF revs
    <2> QED
      BY <1>1, <1>4, <1>9, <2>1 DEF Contributes
  <1> HIDE DEF revs
  <1> QED
    BY <1>6, <1>7, <1>8, <1>9 DEF revs, ListsBlobs

------------------------------------------------------------------------------
(***************************************************************************)
(* The branch, its tip and one git log.                                    *)
(***************************************************************************)

(* The tip is the last of the tips the branch had, or unborn when it had
   none. *)
LEMMA TipTyped ==
    ASSUME GraphInv
    PROVE  /\ Tip \in DOMAIN commits \cup {Unborn}
           /\ Tip = Unborn <=> tips = << >>
           /\ Unborn \notin DOMAIN commits
           /\ Len(tips) \in Nat
           /\ DOMAIN tips = 1..Len(tips)
           /\ Tip # Unborn => Tip = tips[Len(tips)] /\ Len(tips) \in DOMAIN tips
  <1>1. tips \in Seq(DOMAIN commits) /\ Unborn \notin DOMAIN commits
    BY DEF GraphInv, IsGraph, Unborn
  <1>2. tips # << >> => Len(tips) \in 1..Len(tips) /\ tips[Len(tips)] \in DOMAIN commits
    BY <1>1
  <1> QED
    BY <1>1, <1>2 DEF Tip, Last

(* An entry is read from the commit's tree for the paths of the model, and is
   absent elsewhere. *)
LEMMA EntryIn ==
    ASSUME GraphInv, NEW c \in DOMAIN commits, NEW path
    PROVE  /\ path \in Paths => EntryAt(c, path) = commits[c].tree[path]
           /\ path \notin Paths => EntryAt(c, path) = Absent
           /\ EntryAt(c, path) \in Blobs => path \in Paths
           /\ EntryAt(c, path) \in Entries
  <1>1. c # Unborn /\ commits[c].tree \in Trees
    BY TipTyped, CommitTyped DEF GraphInv
  <1> QED
    BY <1>1, GitTreesAssumption DEF EntryAt, TreeOf, Trees, Entries

(* What the lemmas on graphs say, of the graph of the state. *)
LEMMA AncestorsAre ==
    ASSUME GraphInv, NEW c \in DOMAIN commits
    PROVE  /\ Ancestors(c) = AncestorsIn(commits)[c]
           /\ Ancestors(c) \subseteq DOMAIN commits
           /\ c \in Ancestors(c)
           /\ \A d \in Ancestors(c) : d <= c /\ Ancestors(d) \subseteq Ancestors(c)
  <1>1. \A d \in DOMAIN commits : Ancestors(d) = AncestorsIn(commits)[d]
    BY TipTyped DEF Ancestors
  <1>2. IsGraph(commits)
    BY DEF GraphInv
  <1>3. AncestorsIn(commits)[c] \subseteq {d \in DOMAIN commits : d <= c}
    BY <1>2, AncestorsBelow
  <1>4. c \in AncestorsIn(commits)[c]
    BY <1>2, AncestorsOf
  <1>5. \A d \in AncestorsIn(commits)[c] : AncestorsIn(commits)[d] \subseteq AncestorsIn(commits)[c]
    BY <1>2, AncestorsOfAncestors
  <1> QED
    BY <1>1, <1>3, <1>4, <1>5

Capped(all, limit) ==
    IF limit > 0 /\ limit < Len(all) THEN SubSeq(all, 1, limit) ELSE all

(* Capping keeps the order and the first entry, and a limit of zero keeps
   everything. *)
LEMMA CappedIs ==
    ASSUME NEW S, NEW all \in Seq(S), IsDescending(all), NEW limit \in Nat
    PROVE  /\ Capped(all, limit) \in Seq(S)
           /\ IsDescending(Capped(all, limit))
           /\ Capped(all, limit) = << >> <=> all = << >>
           /\ all # << >> => Capped(all, limit)[1] = all[1]
           /\ limit = 0 => Capped(all, limit) = all
  <1>1. CASE limit > 0 /\ limit < Len(all)
    <2>1. Capped(all, limit) = SubSeq(all, 1, limit)
      BY <1>1 DEF Capped
    <2>2. /\ SubSeq(all, 1, limit) \in Seq(S)
          /\ Len(SubSeq(all, 1, limit)) = limit
          /\ \A i \in 1..limit : SubSeq(all, 1, limit)[i] = all[i] /\ i \in DOMAIN all
      BY <1>1
    <2> HIDE DEF IsDescending
    <2>3. IsDescending(SubSeq(all, 1, limit))
      <3>1. DOMAIN SubSeq(all, 1, limit) = 1..limit
        BY <2>2
      <3> QED
        BY <3>1, <2>2 DEF IsDescending
    <2>4. SubSeq(all, 1, limit) # << >> /\ 1 \in 1..limit /\ all # << >>
      BY <1>1, <2>2
    <2> QED
      BY <1>1, <2>1, <2>2, <2>3, <2>4
  <1>2. CASE ~(limit > 0 /\ limit < Len(all))
    BY <1>2 DEF Capped
  <1> QED
    BY <1>1, <1>2

(* What git log answers at the tip: a log of the path, or nothing when the
   path has no blob there; on a linear history an empty unlimited log means
   no version ever existed. *)
LEMMA LogPrints ==
    ASSUME GraphInv, Tip # Unborn, NEW path, NEW limit \in Nat,
           NEW found, found = GitLog(path, limit)
    PROVE  /\ found # << >> => IsLogOf(found, Tip, path, limit)
           /\ found = << >> => EntryAt(Tip, path) \notin Blobs
           /\ found = << >> /\ limit = 0 /\ IsLinear(Tip) =>
                  \A rev \in Blobs : ~WasAt(Tip, path, rev)
  <1> DEFINE A == AncestorsIn(commits)[Tip]
             S == ChangedUpTo(commits, path)[Tip]
             all == NewestFirst(S)
  <1>1. Tip \in DOMAIN commits /\ IsGraph(commits)
    BY TipTyped DEF GraphInv
  <1>2. Ancestors(Tip) = A /\ A \subseteq DOMAIN commits
    BY <1>1, AncestorsAre
  <1>3. S \subseteq {d \in A : Prints(commits, d, path)}
    BY <1>1, ChangedArePrinted
  <1>4. Len(commits) \in Nat /\ DOMAIN commits = 1..Len(commits)
    BY <1>1 DEF IsGraph
  <1>5. /\ all \in Seq(S)
        /\ IsDescending(all)
        /\ \A x \in S : \E i \in DOMAIN all : all[i] = x
    <2>1. S \subseteq 1..Len(commits)
      <3> HIDE DEF S, A
      <3> QED
        BY <1>2, <1>3, <1>4
    <2> HIDE DEF S
    <2> QED
      BY <1>4, <2>1, NewestFirstLists
  <1>6. found = Capped(all, limit)
    BY DEF GitLog, Changed, Capped
  <1> HIDE DEF all
  <1>7. /\ found \in Seq(S)
        /\ IsDescending(found)
        /\ found = << >> <=> all = << >>
        /\ all # << >> => found[1] = all[1]
        /\ limit = 0 => found = all
    <2> HIDE DEF S
    <2>1. all \in Seq(S) /\ IsDescending(all)
      BY <1>5
    <2>2. /\ Capped(all, limit) \in Seq(S)
          /\ IsDescending(Capped(all, limit))
          /\ Capped(all, limit) = << >> <=> all = << >>
          /\ all # << >> => Capped(all, limit)[1] = all[1]
          /\ limit = 0 => Capped(all, limit) = all
      BY <2>1, CappedIs
    <2> QED
      BY <1>6, <2>2
  <1>8. found = << >> => S = {}
    <2> HIDE DEF S
    <2>1. all = << >> => DOMAIN all = {}
      OBVIOUS
    <2> QED
      BY <1>5, <1>7, <2>1
  <1>9. ASSUME EntryAt(Tip, path) \in Blobs
        PROVE  found # << >> /\ EntryAt(found[1], path) = EntryAt(Tip, path)
    <2>1. path \in Paths /\ commits[Tip].tree[path] = EntryAt(Tip, path)
      BY <1>1, <1>9, EntryIn
    <2>2. PICK m \in S : (\A d \in S : d <= m) /\ commits[m].tree[path] = EntryAt(Tip, path)
      BY <1>1, <1>9, <2>1, ChangedBeginsAtTip
    <2> HIDE DEF S, A
    <2>3. found # << >>
      BY <1>8, <2>2
    <2>4. PICK i \in DOMAIN all : all[i] = m
      BY <1>5, <2>2
    <2>5. 1 \in DOMAIN all /\ DOMAIN all = 1..Len(all) /\ Len(all) \in Nat /\ all[1] \in S
      BY <1>5, <2>4
    <2>6. all[1] = m
      <3>1. i = 1 \/ 1 < i
        BY <2>4, <2>5
      <3>2. m \in Nat /\ all[1] \in Nat
        BY <1>2, <1>3, <1>4, <2>2, <2>5
      <3>3. 1 < i => all[1] > m
        BY <1>5, <2>4, <2>5 DEF IsDescending
      <3>4. all[1] <= m
        BY <2>2, <2>5
      <3> QED
        BY <2>4, <3>1, <3>2, <3>3, <3>4
    <2>7. m \in DOMAIN commits
      BY <1>2, <1>3, <2>2
    <2>8. EntryAt(m, path) = EntryAt(Tip, path)
      BY <2>1, <2>2, <2>7, EntryIn
    <2> QED
      BY <1>7, <2>3, <2>6, <2>8
  <1>10. ASSUME IsLinear(Tip)
         PROVE  {c \in A : Prints(commits, c, path)} \subseteq S
    <2>1. \A d \in A : Len(commits[d].parents) < 2
      BY <1>2, <1>10 DEF IsLinear
    <2> QED
      BY <1>1, <2>1, ChangedOfLinear
  <1>11. found # << >> => IsLogOf(found, Tip, path, limit)
    <2> HIDE DEF S, A
    <2>1. \A i \in DOMAIN found : found[i] \in S
      BY <1>7
    <2>2. found \in Seq(Ancestors(Tip))
      BY <1>2, <1>3, <1>7
    <2>3. \A i \in DOMAIN found : Prints(commits, found[i], path)
      BY <1>3, <2>1
    <2>4. ASSUME limit = 0, IsLinear(Tip)
          PROVE  {c \in Ancestors(Tip) : Prints(commits, c, path)} \subseteq ToSet(found)
      <3>1. {c \in Ancestors(Tip) : Prints(commits, c, path)} \subseteq S
        BY <1>2, <1>10, <2>4
      <3>2. S \subseteq ToSet(found)
        BY <1>5, <1>7, <2>4 DEF ToSet
      <3> QED
        BY <3>1, <3>2
    <2> QED
      BY <1>7, <1>9, <2>2, <2>3, <2>4 DEF IsLogOf, IsDescending
  <1>12. ASSUME found = << >>, IsLinear(Tip), NEW rev \in Blobs, WasAt(Tip, path, rev)
         PROVE  FALSE
    <2>1. PICK e \in A : EntryAt(e, path) = rev
      BY <1>2, <1>12 DEF WasAt
    <2>2. path \in Paths /\ commits[e].tree[path] = rev
      BY <1>2, <2>1, EntryIn
    <2>3. \E d \in A : Prints(commits, d, path)
      BY <1>1, <2>1, <2>2, Introduced
    <2> QED
      BY <1>8, <1>10, <1>12, <2>3
  <1> QED
    BY <1>9, <1>11, <1>12

------------------------------------------------------------------------------
(***************************************************************************)
(* Paths, and how a listing names what git prints.                         *)
(***************************************************************************)

(* IsPrefix, by positions. *)
LEMMA PrefixMeans ==
    ASSUME NEW s \in Seq(Segments), NEW t \in Seq(Segments)
    PROVE  IsPrefix(s, t) <=> Len(s) <= Len(t) /\ \A i \in 1..Len(s) : s[i] = t[i]
  <1>1. CASE Len(s) <= Len(t)
    <2>1. SubSeq(s, 1, Len(s)) = s
      OBVIOUS
    <2>2. SubSeq(t, 1, Len(s)) \in Seq(Segments) /\ Len(SubSeq(t, 1, Len(s))) = Len(s)
          /\ \A i \in 1..Len(s) : SubSeq(t, 1, Len(s))[i] = t[i]
      BY <1>1
    <2>3. s = SubSeq(t, 1, Len(s)) <=> \A i \in 1..Len(s) : s[i] = SubSeq(t, 1, Len(s))[i]
      BY <2>2, SeqEqual
    <2> QED
      BY <1>1, <2>1, <2>2, <2>3 DEF IsPrefix
  <1>2. CASE ~(Len(s) <= Len(t))
    BY <1>2 DEF IsPrefix
  <1> QED
    BY <1>1, <1>2

(* Concatenation, by positions. *)
LEMMA ConcatIs ==
    ASSUME NEW s \in Seq(Segments), NEW t \in Seq(Segments)
    PROVE  /\ s \o t \in Seq(Segments)
           /\ Len(s \o t) = Len(s) + Len(t)
           /\ \A i \in 1..Len(s) : (s \o t)[i] = s[i]
           /\ \A i \in 1..Len(t) : (s \o t)[Len(s) + i] = t[i]
  OBVIOUS

(* Rel takes off the base: putting it back gives the path. *)
LEMMA RelIs ==
    ASSUME NEW base \in Seq(Segments), NEW q \in Seq(Segments), Within(base, q)
    PROVE  /\ Rel(base, q) \in Seq(Segments)
           /\ base \o Rel(base, q) = q
  <1>1. IsPrefix(base, q) /\ base # q
    BY DEF Within, IsStrictPrefix
  <1>2. Len(base) <= Len(q) /\ \A i \in 1..Len(base) : base[i] = q[i]
    BY <1>1, PrefixMeans
  <1> DEFINE rel == SubSeq(q, Len(base) + 1, Len(q))
  <1>3. /\ rel \in Seq(Segments)
        /\ Len(rel) = Len(q) - Len(base)
        /\ \A i \in 1..Len(rel) : rel[i] = q[Len(base) + i]
    BY <1>2
  <1> HIDE DEF rel
  <1>4. base \o rel \in Seq(Segments) /\ Len(base \o rel) = Len(q)
    BY <1>2, <1>3, ConcatIs
  <1>5. ASSUME NEW i \in 1..Len(q)
        PROVE  (base \o rel)[i] = q[i]
    <2>1. CASE i \in 1..Len(base)
      BY <1>2, <1>3, <2>1, ConcatIs
    <2>2. CASE i \notin 1..Len(base)
      <3>1. i - Len(base) \in 1..Len(rel) /\ Len(base) + (i - Len(base)) = i
        BY <1>2, <1>3, <2>2
      <3>2. (base \o rel)[Len(base) + (i - Len(base))] = rel[i - Len(base)]
        BY <1>3, <3>1, ConcatIs
      <3> QED
        BY <1>3, <3>1, <3>2
    <2> QED
      BY <2>1, <2>2
  <1>6. base \o rel = q
    BY <1>4, <1>5, SeqEqual
  <1>7. Rel(base, q) = rel
    BY DEF Rel, rel
  <1> QED
    BY <1>3, <1>6, <1>7

(* A path put under the base lies within it, and Rel gives it back. *)
LEMMA RelOfConcat ==
    ASSUME NEW base \in Seq(Segments), NEW p \in Seq(Segments), p # NoPath
    PROVE  Within(base, base \o p) /\ Rel(base, base \o p) = p
  <1> DEFINE q == base \o p
  <1>1. q \in Seq(Segments) /\ Len(q) = Len(base) + Len(p)
    BY ConcatIs
  <1>2. Len(p) > 0
    BY DEF NoPath
  <1>3. IsPrefix(base, q)
    <2>1. \A i \in 1..Len(base) : q[i] = base[i]
      BY ConcatIs
    <2> HIDE DEF q
    <2>2. Len(base) <= Len(q)
      BY <1>1
    <2> QED
      BY <1>1, <2>1, <2>2, PrefixMeans
  <1>4. base # q
    <2> HIDE DEF q
    <2> QED
      BY <1>1, <1>2
  <1>5. Within(base, q)
    BY <1>3, <1>4 DEF Within, IsStrictPrefix
  <1>6. /\ SubSeq(q, Len(base) + 1, Len(q)) \in Seq(Segments)
        /\ Len(SubSeq(q, Len(base) + 1, Len(q))) = Len(p)
        /\ \A i \in 1..Len(p) : SubSeq(q, Len(base) + 1, Len(q))[i] = q[Len(base) + i]
    <2> HIDE DEF q
    <2> QED
      BY <1>1, <1>2
  <1>7. \A i \in 1..Len(p) : q[Len(base) + i] = p[i]
    BY ConcatIs
  <1>8. SubSeq(q, Len(base) + 1, Len(q)) = p
    <2> HIDE DEF q
    <2> QED
      BY <1>6, <1>7, SeqEqual
  <1> QED
    BY <1>5, <1>8 DEF Rel

(* Putting the same base before two paths does not change whether one is
   below the other. *)
LEMMA PrefixBelow ==
    ASSUME NEW base \in Seq(Segments), NEW s \in Seq(Segments), NEW t \in Seq(Segments)
    PROVE  IsPrefix(base \o s, base \o t) <=> IsPrefix(s, t)
  <1>1. /\ base \o s \in Seq(Segments) /\ Len(base \o s) = Len(base) + Len(s)
        /\ base \o t \in Seq(Segments) /\ Len(base \o t) = Len(base) + Len(t)
    BY ConcatIs
  <1>2. ASSUME IsPrefix(s, t), NEW i \in 1..Len(base \o s)
        PROVE  (base \o s)[i] = (base \o t)[i]
    <2>1. CASE i \in 1..Len(base)
      BY <2>1, ConcatIs
    <2>2. CASE i \notin 1..Len(base)
      <3> DEFINE j == i - Len(base)
      <3>1. j \in 1..Len(s) /\ i = Len(base) + j
        BY <1>1, <2>2
      <3>2. s[j] = t[j] /\ j \in 1..Len(t)
        BY <1>2, <3>1, PrefixMeans
      <3> HIDE DEF j
      <3>3. (base \o s)[Len(base) + j] = s[j] /\ (base \o t)[Len(base) + j] = t[j]
        BY <3>1, <3>2, ConcatIs
      <3> QED
        BY <3>1, <3>2, <3>3
    <2> QED
      BY <2>1, <2>2
  <1>3. IsPrefix(s, t) => IsPrefix(base \o s, base \o t)
    <2>1. IsPrefix(s, t) => Len(base \o s) <= Len(base \o t)
      BY <1>1, PrefixMeans
    <2> QED
      BY <1>1, <1>2, <2>1, PrefixMeans
  <1>4. ASSUME IsPrefix(base \o s, base \o t)
        PROVE  IsPrefix(s, t)
    <2>1. Len(base \o s) <= Len(base \o t)
          /\ \A i \in 1..Len(base \o s) : (base \o s)[i] = (base \o t)[i]
      BY <1>1, <1>4, PrefixMeans
    <2>2. Len(s) <= Len(t)
      BY <1>1, <2>1
    <2>3. ASSUME NEW j \in 1..Len(s)
          PROVE  s[j] = t[j]
      <3>1. Len(base) + j \in 1..Len(base \o s) /\ j \in 1..Len(t)
        BY <1>1, <2>2
      <3>2. (base \o s)[Len(base) + j] = s[j] /\ (base \o t)[Len(base) + j] = t[j]
        BY <3>1, ConcatIs
      <3> QED
        BY <2>1, <3>1, <3>2
    <2> QED
      BY <2>2, <2>3, PrefixMeans
  <1> QED
    BY <1>3, <1>4

(* What the proofs use of a root: a collection that begins with no dash. *)
LEMMA RootIs ==
    ASSUME root \in Roots
    PROVE  /\ root \in Seq(Segments)
           /\ IsCollection(root)
           /\ root # Root => root[1] \notin Dashed
           /\ Paths \subseteq Seq(Segments)
           /\ NoPath \notin Paths
  BY GitReadsAssumption

(* What git calls a document is found again from what a caller calls it.   *)
LEMMA NamesBack ==
    ASSUME root \in Roots, NEW q \in Seq(Segments), contentPath(q) # NoPath
    PROVE  /\ contentPath(q) = Rel(root, q)
           /\ contentPath(q) \in Seq(Segments)
           /\ IsContentPath(contentPath(q))
           /\ root \o contentPath(q) = q
           /\ repoPath(contentPath(q)) = q
  <1>1. contentPath(q) = Rel(root, q) /\ IsContentPath(Rel(root, q)) /\ IsContentPath(q)
    BY DEF contentPath
  <1>2. Within(root, q)
    BY <1>1 DEF Rel, IsContentPath, validateRelPath
  <1>3. Rel(root, q) \in Seq(Segments) /\ root \o Rel(root, q) = q
    BY <1>2, RootIs, RelIs
  <1>4. validateRelPath(Rel(root, q), MaxContentPath)
    BY <1>1 DEF IsContentPath
  <1>5. Join(root, Rel(root, q)) = q
    BY <1>1, <1>3, <1>4 DEF Join
  <1> QED
    BY <1>1, <1>3, <1>5 DEF repoPath

(* A content path goes to the repository and comes back as itself. *)
LEMMA NamesForth ==
    ASSUME root \in Roots, NEW p \in Seq(Segments), IsContentPath(p), repoPath(p) # NoPath
    PROVE  /\ repoPath(p) = root \o p
           /\ repoPath(p) \in Seq(Segments)
           /\ contentPath(repoPath(p)) = p
  <1>1. repoPath(p) = root \o p /\ IsContentPath(root \o p)
    BY DEF repoPath, Join
  <1>2. p # NoPath
    BY DEF IsContentPath, validateRelPath
  <1>3. Rel(root, root \o p) = p /\ root \o p \in Seq(Segments)
    BY <1>2, RootIs, RelOfConcat, ConcatIs
  <1> QED
    BY <1>1, <1>3 DEF contentPath

(* The pathspec of a listing selects what is in the collection.            *)
LEMMA PathspecSelects ==
    ASSUME root \in Roots, NEW c \in Seq(Segments), NEW p \in Seq(Segments),
           << root, c >> # << Root, Root >> => IsPathspec(listPrefix(c))
    PROVE  IsPrefix(listPrefix(c), root \o p) <=> IsPrefix(c, p)
  <1>1. /\ root \in Seq(Segments) /\ root \o p \in Seq(Segments)
        /\ Len(root \o p) = Len(root) + Len(p)
        /\ \A i \in 1..Len(root) : (root \o p)[i] = root[i]
    BY RootIs, ConcatIs
  <1>2. CASE c = Root
    <2>1. Len(root) <= Len(root \o p)
      BY <1>1
    <2>2. IsPrefix(root, root \o p)
      BY <1>1, <2>1, PrefixMeans
    <2>3. Len(c) = 0
      BY <1>2 DEF Root
    <2>4. IsPrefix(c, p)
      <3>1. Len(c) <= Len(p) /\ \A i \in 1..Len(c) : c[i] = p[i]
        BY <2>3
      <3> QED
        BY <3>1, PrefixMeans
    <2> QED
      BY <1>2, <2>2, <2>4 DEF listPrefix
  <1>3. CASE c # Root /\ root = Root
    <2>1. root \o p = p
      BY <1>3 DEF Root
    <2> QED
      BY <1>3, <2>1 DEF listPrefix
  <1>4. CASE c # Root /\ root # Root
    <2>1. listPrefix(c) = Join(root, c)
      BY <1>4 DEF listPrefix
    <2>2. listPrefix(c) # NoPath
      BY <1>4 DEF IsPathspec
    <2>3. listPrefix(c) = root \o c
      BY <2>1, <2>2 DEF Join
    <2> QED
      BY <1>1, <2>3, PrefixBelow
  <1> QED
    BY <1>2, <1>3, <1>4

(* The documents of one instant, under the names to ask for them.          *)
ListedAt(tip, collection) ==
    LET found == {p \in Paths : EntryAt(tip, p) \in Blobs}
        names == {p \in {Rel(root, q) : q \in found} :
                    IsContentPath(p) /\ repoPath(p) \in found}
    IN  {<< p, EntryAt(tip, repoPath(p)) >> :
           p \in {q \in names : IsMarkdown(q) /\ IsPrefix(collection, q)}}

(* What ls-tree answers for a collection's pathspec are the documents listed
   there at the commit. *)
LEMMA ListingIsListedAt ==
    ASSUME root \in Roots, NEW c \in Seq(Segments), NEW tip,
           << root, c >> # << Root, Root >> => IsPathspec(listPrefix(c))
    PROVE  Listing(tip, listPrefix(c)) = ListedAt(tip, c)
  <1> DEFINE found == {p \in Paths : EntryAt(tip, p) \in Blobs}
             names == {p \in {Rel(root, q) : q \in found} :
                         IsContentPath(p) /\ repoPath(p) \in found}
             chosen == {q \in names : IsMarkdown(q) /\ IsPrefix(c, q)}
             printed == {p \in Paths : Matches(p, listPrefix(c))
                                         /\ IsListed(p, TreeOf(tip)[p])}
  <1>1. ListedAt(tip, c) = {<< p, EntryAt(tip, repoPath(p)) >> : p \in chosen}
    BY DEF ListedAt
  <1>2. Listing(tip, listPrefix(c)) = {<< contentPath(q), TreeOf(tip)[q] >> : q \in printed}
    BY DEF Listing
  <1>3. ASSUME NEW q \in printed
        PROVE  contentPath(q) \in chosen /\ EntryAt(tip, repoPath(contentPath(q))) = TreeOf(tip)[q]
    <2>1. /\ q \in Paths /\ IsPrefix(listPrefix(c), q)
          /\ TreeOf(tip)[q] \in Blobs
          /\ contentPath(q) # NoPath
          /\ IsMarkdown(contentPath(q))
      BY <1>3 DEF Matches, IsListed
    <2>2. q \in Seq(Segments)
      BY <2>1, RootIs
    <2>3. /\ contentPath(q) = Rel(root, q)
          /\ contentPath(q) \in Seq(Segments)
          /\ IsContentPath(contentPath(q))
          /\ root \o contentPath(q) = q
          /\ repoPath(contentPath(q)) = q
      BY <2>1, <2>2, NamesBack
    <2>4. IsPrefix(c, contentPath(q))
      BY <2>1, <2>3, PathspecSelects
    <2>5. EntryAt(tip, q) = TreeOf(tip)[q]
      BY <2>1 DEF EntryAt
    <2>6. q \in found
      BY <2>1, <2>5
    <2>7. contentPath(q) \in names
      BY <2>3, <2>6
    <2> QED
      BY <2>1, <2>3, <2>4, <2>5, <2>7
  <1>4. ASSUME NEW p \in chosen
        PROVE  /\ repoPath(p) \in printed
               /\ contentPath(repoPath(p)) = p
               /\ EntryAt(tip, repoPath(p)) = TreeOf(tip)[repoPath(p)]
    <2>1. /\ IsContentPath(p) /\ repoPath(p) \in found
          /\ IsMarkdown(p) /\ IsPrefix(c, p)
      BY <1>4
    <2>2. PICK q \in found : p = Rel(root, q)
      BY <1>4
    <2>3. repoPath(p) \in Paths /\ repoPath(p) # NoPath /\ EntryAt(tip, repoPath(p)) \in Blobs
      BY <2>1, RootIs
    <2>4. q \in Seq(Segments)
      BY RootIs
    <2>5. p # NoPath
      BY <2>1 DEF IsContentPath, validateRelPath
    <2>6. Within(root, q)
      BY <2>2, <2>5 DEF Rel
    <2>7. p \in Seq(Segments)
      BY <2>2, <2>4, <2>6, RootIs, RelIs
    <2>8. repoPath(p) = root \o p /\ contentPath(repoPath(p)) = p
      BY <2>1, <2>3, <2>7, NamesForth
    <2>9. IsPrefix(listPrefix(c), repoPath(p))
      BY <2>1, <2>7, <2>8, PathspecSelects
    <2>10. EntryAt(tip, repoPath(p)) = TreeOf(tip)[repoPath(p)]
      BY <2>3 DEF EntryAt
    <2> QED
      BY <2>1, <2>3, <2>5, <2>8, <2>9, <2>10 DEF Matches, IsListed
  <1> HIDE DEF chosen, printed
  <1> QED
    BY <1>1, <1>2, <1>3, <1>4

------------------------------------------------------------------------------
(***************************************************************************)
(* Histories of documents.                                                 *)
(***************************************************************************)

(* Where both have a document, nothing lies below it.                      *)
LEMMA PartsOfDocuments ==
    ASSUME NEW path \in Paths, NEW tree, NEW other, IsWellFormed(tree), IsWellFormed(other),
           tree[path] \in Blobs
    PROVE  Part(tree, path) = Part(other, path) <=> tree[path] = other[path]
  <1>1. ASSUME tree[path] = other[path], NEW p \in {q \in Paths : Matches(q, path)}
        PROVE  tree[p] = other[p]
    <2>1. CASE p = path
      BY <1>1, <2>1
    <2>2. CASE p # path
      <3>1. IsPrefix(path, p) /\ p \in Paths
        BY <1>1 DEF Matches
      <3>2. IsStrictPrefix(path, p)
        BY <2>2, <3>1 DEF IsStrictPrefix
      <3>3. << p, path >> \in Inside
        BY <3>1, <3>2, GitReadsAssumption
      <3>4. tree[path] # Absent /\ other[path] # Absent
        BY <1>1, GitTreesAssumption
      <3> QED
        BY <3>1, <3>3, <3>4 DEF IsWellFormed
    <2> QED
      BY <2>1, <2>2
  <1>2. tree[path] = other[path] => Part(tree, path) = Part(other, path)
    BY <1>1 DEF Part
  <1> QED
    BY <1>2, PartsDiffer

(* The versions of a path are the ancestors that change it and hold a blob
   there. *)
LEMMA VersionsArePrinted ==
    ASSUME GraphInv, NEW tip \in DOMAIN commits, NEW path
    PROVE  Versions(tip, path) =
             {c \in Ancestors(tip) : Prints(commits, c, path) /\ EntryAt(c, path) \in Blobs}
  <1> USE DEF GraphInv
  <1>1. ASSUME NEW c \in Ancestors(tip), EntryAt(c, path) \in Blobs
        PROVE  Prints(commits, c, path) <=>
                 \A k \in DOMAIN commits[c].parents :
                    EntryAt(commits[c].parents[k], path) # EntryAt(c, path)
    <2>1. c \in DOMAIN commits
      BY AncestorsAre
    <2>2. path \in Paths /\ EntryAt(c, path) = commits[c].tree[path]
      BY <1>1, <2>1, EntryIn
    <2>3. IsWellFormed(commits[c].tree)
      BY <2>1
    <2>4. ASSUME NEW k \in DOMAIN commits[c].parents
          PROVE  k \in Same(commits, c, path)
                   <=> EntryAt(commits[c].parents[k], path) = EntryAt(c, path)
      <3> DEFINE parent == commits[c].parents[k]
      <3>1. parent \in DOMAIN commits
        BY <2>1, ParentsBelow
      <3>2. IsWellFormed(commits[parent].tree)
        BY <3>1
      <3>3. EntryAt(parent, path) = commits[parent].tree[path]
        BY <2>2, <3>1, EntryIn
      <3>4. Part(commits[parent].tree, path) = Part(commits[c].tree, path)
              <=> commits[parent].tree[path] = commits[c].tree[path]
        <4>1. Part(commits[c].tree, path) = Part(commits[parent].tree, path)
              <=> commits[c].tree[path] = commits[parent].tree[path]
          BY <1>1, <2>2, <2>3, <3>2, PartsOfDocuments
        <4> QED
          BY <4>1
      <3>5. k \in Same(commits, c, path)
              <=> Part(commits[parent].tree, path) = Part(commits[c].tree, path)
        BY DEF Same
      <3> QED
        BY <2>2, <3>3, <3>4, <3>5
    <2>5. Same(commits, c, path) \subseteq DOMAIN commits[c].parents
      BY DEF Same
    <2>6. Part(commits[c].tree, path) # Part(EmptyTree, path)
      <3>1. commits[c].tree[path] # EmptyTree[path]
        BY <1>1, <2>2, GitTreesAssumption DEF EmptyTree
      <3> QED
        BY <2>2, <3>1, PartsDiffer
    <2> QED
      BY <2>4, <2>5, <2>6 DEF Prints
  <1> QED
    BY <1>1 DEF Versions

(* What a history, and a search of it, make of what git log printed.       *)
LEMMA HistoryAnswered ==
    ASSUME GraphInv, NEW tip \in DOMAIN commits, NEW path, NEW limit, NEW printed,
           IsLogOf(printed, tip, path, limit),
           NEW entries, entries = [k \in DOMAIN printed |-> EntryAt(printed[k], path)],
           NEW revs, revs = BlobsOf(entries)
    PROVE  /\ revs \in Seq(Blobs)
           /\ limit = 0 => IF IsLinear(tip) THEN IsHistoryOf(revs, tip, path)
                           ELSE IsSomeOf(revs, tip, path)
           /\ EntryAt(tip, path) \in Blobs => revs # << >> /\ revs[1] = EntryAt(tip, path)
           /\ \A k \in DOMAIN revs : WasAt(tip, path, revs[k])
           /\ limit = 0 /\ IsLinear(tip) =>
                 \A rev \in Blobs : WasAt(tip, path, rev) => rev \in ToSet(revs)
  <1> DEFINE N == Len(commits)
             T == WithBlob(printed, entries, Len(entries))
  <1>1. /\ printed \in Seq(Ancestors(tip)) \ {<< >>}
        /\ IsDescending(printed)
        /\ \A i \in DOMAIN printed : Prints(commits, printed[i], path)
        /\ limit = 0 /\ IsLinear(tip) =>
             {c \in Ancestors(tip) : Prints(commits, c, path)} \subseteq ToSet(printed)
        /\ EntryAt(tip, path) \in Blobs => EntryAt(printed[1], path) = EntryAt(tip, path)
    BY DEF IsLogOf, IsDescending
  <1>2. N \in Nat /\ DOMAIN commits = 1..N
    BY DEF GraphInv, IsGraph
  <1>3. Ancestors(tip) \subseteq 1..N
    BY <1>2, AncestorsAre
  <1> HIDE DEF N
  <1>4. printed \in Seq(1..N)
    <2>1. Len(printed) \in Nat /\ printed \in [1..Len(printed) -> 1..N]
      BY <1>1, <1>3
    <2> QED
      BY <2>1, SeqDef
  <1>5. /\ \A i \in DOMAIN printed : printed[i] \in Ancestors(tip) /\ printed[i] \in DOMAIN commits
        /\ DOMAIN printed = 1..Len(printed) /\ Len(printed) \in Nat /\ Len(printed) > 0
    BY <1>1, <1>2, <1>3
  <1>6. /\ entries \in Seq(Entries) /\ Len(entries) = Len(printed)
        /\ DOMAIN entries = DOMAIN printed
        /\ \A i \in DOMAIN printed : entries[i] = EntryAt(printed[i], path)
    BY <1>5, EntryIn
  <1>7. /\ revs \in Seq(Blobs)
        /\ Len(revs) = Cardinality(T)
        /\ \A k \in DOMAIN revs : \E i \in DOMAIN printed :
              entries[i] \in Blobs /\ revs[k] = entries[i] /\ NthNewest(T, k) = printed[i]
        /\ \A i \in DOMAIN entries : entries[i] \in Blobs => entries[i] \in ToSet(revs)
        /\ entries # << >> /\ entries[1] \in Blobs => revs # << >> /\ revs[1] = entries[1]
    <2>1. T = WithBlob(printed, entries, Len(entries))
      OBVIOUS
    <2> HIDE DEF T
    <2>2. ListsBlobs(BlobsOf(entries), printed, entries, T)
      BY <1>1, <1>2, <1>4, <1>6, <2>1, HistoryOfLog
    <2>3. ListsBlobs(revs, printed, entries, T)
      BY <2>2
    <2> QED
      BY <2>3 DEF ListsBlobs
  <1>8. Versions(tip, path) =
          {c \in Ancestors(tip) : Prints(commits, c, path) /\ EntryAt(c, path) \in Blobs}
    BY VersionsArePrinted
  <1>9. T = {printed[i] : i \in {j \in DOMAIN printed : entries[j] \in Blobs}}
    BY <1>5, <1>6 DEF WithBlob
  <1>10. T \subseteq Versions(tip, path)
    BY <1>1, <1>5, <1>6, <1>8, <1>9
  <1> HIDE DEF T
  <1>11. ASSUME limit = 0, IsLinear(tip)
         PROVE  IsHistoryOf(revs, tip, path)
    <2>1. ASSUME NEW c \in Versions(tip, path)
          PROVE  c \in T
      <3>1. c \in ToSet(printed) /\ EntryAt(c, path) \in Blobs
        BY <1>1, <1>8, <1>11
      <3>2. PICK i \in DOMAIN printed : printed[i] = c
        BY <3>1 DEF ToSet
      <3> QED
        BY <1>6, <1>9, <3>1, <3>2
    <2>2. T = Versions(tip, path)
      BY <1>10, <2>1
    <2> QED
      BY <1>6, <1>7, <2>2 DEF IsHistoryOf
  <1>12. IsSomeOf(revs, tip, path)
    <2>1. ASSUME NEW k \in DOMAIN revs
          PROVE  \E c \in Versions(tip, path) : revs[k] = EntryAt(c, path)
      <3>1. PICK i \in DOMAIN printed : entries[i] \in Blobs /\ revs[k] = entries[i]
        BY <1>7
      <3>2. printed[i] \in T
        BY <1>9, <3>1
      <3> QED
        BY <1>6, <1>10, <3>1, <3>2
    <2> QED
      BY <2>1 DEF IsSomeOf
  <1>13. EntryAt(tip, path) \in Blobs => revs # << >> /\ revs[1] = EntryAt(tip, path)
    <2>1. 1 \in DOMAIN printed /\ entries # << >>
      BY <1>5, <1>6
    <2> QED
      BY <1>1, <1>6, <1>7, <2>1
  <1>14. ASSUME NEW k \in DOMAIN revs
         PROVE  WasAt(tip, path, revs[k])
    <2>1. PICK i \in DOMAIN printed : revs[k] = entries[i]
      BY <1>7
    <2> QED
      BY <1>5, <1>6, <2>1 DEF WasAt
  <1>15. ASSUME limit = 0, IsLinear(tip), NEW rev \in Blobs, WasAt(tip, path, rev)
         PROVE  rev \in ToSet(revs)
    <2>1. PICK e \in Ancestors(tip) : EntryAt(e, path) = rev
      BY <1>15 DEF WasAt
    <2>2. e \in DOMAIN commits /\ Ancestors(tip) = AncestorsIn(commits)[tip]
      BY AncestorsAre
    <2>3. path \in Paths /\ commits[e].tree[path] = rev
      BY <2>1, <2>2, EntryIn
    <2>4. PICK d \in Ancestors(tip) : Prints(commits, d, path) /\ commits[d].tree[path] = rev
      BY <2>1, <2>2, <2>3, Introduced DEF GraphInv
    <2>5. d \in ToSet(printed)
      BY <1>1, <1>15, <2>4
    <2>6. PICK i \in DOMAIN printed : printed[i] = d
      BY <2>5 DEF ToSet
    <2>7. entries[i] = rev
      BY <1>5, <1>6, <2>3, <2>4, <2>6, EntryIn
    <2> QED
      BY <1>6, <1>7, <2>7
  <1> QED
    BY <1>7, <1>11, <1>12, <1>13, <1>14, <1>15

------------------------------------------------------------------------------
(***************************************************************************)
(* What a commit does to a tree, and that the branch only grows.           *)
(***************************************************************************)

(* An edit of the index leaves a tree in which no document lies under
   another. *)
LEMMA UpdateIndexKeepsForm ==
    ASSUME NEW tree \in Trees, IsWellFormed(tree), NEW edit \in Edits
    PROVE  UpdateIndex(tree, edit) \in Trees /\ IsWellFormed(UpdateIndex(tree, edit))
  <1> DEFINE next == UpdateIndex(tree, edit)
  <1>1. edit.path \in Paths /\ edit.entry \in Entries
    BY DEF Edits
  <1>2. next \in Trees
    BY <1>1 DEF UpdateIndex, Trees, Entries
  <1>3. ASSUME NEW q \in Paths, NEW p \in Paths, << q, p >> \in Inside, next[q] # Absent
        PROVE  next[p] = Absent
    <2>1. p # q
      BY <1>3, GitTreesAssumption
    <2>2. CASE q = edit.path
      BY <1>3, <2>1, <2>2 DEF UpdateIndex, InTheWay
    <2>3. CASE p = edit.path
      BY <1>3, <2>1, <2>3 DEF UpdateIndex, InTheWay
    <2>4. CASE q # edit.path /\ p # edit.path
      <3>1. tree[q] # Absent
        BY <1>3, <2>4 DEF UpdateIndex
      <3>2. tree[p] = Absent
        BY <1>3, <3>1 DEF IsWellFormed
      <3> QED
        BY <2>4, <3>2 DEF UpdateIndex
    <2> QED
      BY <2>2, <2>3, <2>4
  <1> QED
    BY <1>2, <1>3 DEF IsWellFormed

(* So does a merge. *)
LEMMA MergedKeepsForm ==
    ASSUME NEW ours \in Trees, NEW theirs \in Trees, NEW tree \in Merged(ours, theirs)
    PROVE  tree \in Trees /\ IsWellFormed(tree)
  <1>1. PICK taken : tree = [p \in Paths |-> IF p \in taken THEN theirs[p] ELSE ours[p]]
    BY DEF Merged
  <1>2. tree \in Trees
    BY <1>1 DEF Trees
  <1>3. \A p \in Paths : tree[p] # Absent => ~IsDirectory(tree, p)
    BY DEF Merged
  <1> QED
    BY <1>2, <1>3 DEF IsWellFormed, IsDirectory

(* The empty tree is such a tree. *)
LEMMA EmptyTreeForm == EmptyTree \in Trees /\ IsWellFormed(EmptyTree)
  BY DEF EmptyTree, Trees, Entries, IsWellFormed

(* Later tips are descendants of the earlier ones.                         *)
LEMMA TipsAreAncestors ==
    ASSUME GraphInv
    PROVE  \A k \in DOMAIN tips : /\ tips[k] \in DOMAIN commits
                                  /\ tips[k] \in Ancestors(Tip)
                                  /\ Ancestors(tips[k]) \subseteq Ancestors(Tip)
  <1> DEFINE n == Len(tips)
             Bad == {i \in 0..(n - 1) : tips[n - i] \notin Ancestors(Tip)}
  <1>1. /\ n \in Nat /\ DOMAIN tips = 1..n
        /\ \A k \in DOMAIN tips : tips[k] \in DOMAIN commits
        /\ \A k \in DOMAIN tips : k > 1 => tips[k - 1] \in Ancestors(tips[k])
        /\ tips # << >> => Tip = tips[n] /\ Tip \in DOMAIN commits
    BY TipTyped DEF GraphInv
  <1> HIDE DEF n
  <1>2. ASSUME Bad # {}
        PROVE  FALSE
    <2>1. PICK i \in Bad : \A j \in Bad : i <= j
      <3>1. Bad \subseteq Nat
        BY <1>1
      <3> HIDE DEF Bad
      <3> QED
        BY <1>2, <3>1, LeastNumber
    <2>2. n > 0 /\ tips # << >> /\ i \in 0..(n - 1)
      BY <1>1, <2>1
    <2>3. i # 0
      <3>1. Tip \in Ancestors(Tip)
        BY <1>1, <2>2, AncestorsAre
      <3> QED
        BY <1>1, <2>1, <2>2, <3>1
    <2>4. i - 1 \in 0..(n - 1) /\ ~(i <= i - 1)
      BY <1>1, <2>1, <2>3
    <2>5. tips[n - (i - 1)] \in Ancestors(Tip)
      BY <2>1, <2>4
    <2>6. n - (i - 1) \in DOMAIN tips /\ n - (i - 1) > 1 /\ n - i = (n - (i - 1)) - 1
      BY <1>1, <2>2, <2>3
    <2>7. tips[n - i] \in Ancestors(tips[n - (i - 1)])
      BY <1>1, <2>6
    <2>8. Ancestors(tips[n - (i - 1)]) \subseteq Ancestors(Tip)
      BY <1>1, <2>2, <2>5, AncestorsAre
    <2> QED
      BY <2>1, <2>7, <2>8
  <1>3. ASSUME NEW k \in DOMAIN tips
        PROVE  tips[k] \in Ancestors(Tip)
    <2>1. n - k \in 0..(n - 1) /\ n - (n - k) = k
      BY <1>1
    <2>2. tips[n - (n - k)] \in Ancestors(Tip)
      BY <1>2, <2>1
    <2> QED
      BY <2>1, <2>2
  <1>4. \A k \in DOMAIN tips : Tip \in DOMAIN commits
    BY <1>1
  <1> QED
    BY <1>1, <1>3, <1>4, AncestorsAre

(* The branch and what stands beside it only grow.                         *)
Grows ==
    /\ GraphInv /\ GraphInv'
    /\ root' = root
    /\ DOMAIN commits \subseteq DOMAIN commits'
    /\ \A c \in DOMAIN commits : commits'[c] = commits[c]
    /\ Len(tips) <= Len(tips')
    /\ \A k \in DOMAIN tips : k \in DOMAIN tips' /\ tips'[k] = tips[k]

(* An entry at a commit stays what it was as the graph grows. *)
LEMMA EntryStays ==
    ASSUME Grows, NEW c \in DOMAIN commits \cup {Unborn}, NEW path
    PROVE  EntryAt(c, path)' = EntryAt(c, path)
  BY DEF Grows, EntryAt, TreeOf

(* So do a commit's ancestors, and whether its history is linear. *)
LEMMA AncestorsRemain ==
    ASSUME Grows, NEW c \in DOMAIN commits \cup {Unborn}
    PROVE  /\ Ancestors(c)' = Ancestors(c)
           /\ Ancestors(c) \subseteq DOMAIN commits
           /\ IsLinear(c)' = IsLinear(c)
  <1>1. Ancestors(c)' = Ancestors(c) /\ Ancestors(c) \subseteq DOMAIN commits
    <2>1. CASE c = Unborn
      BY <2>1 DEF Ancestors
    <2>2. CASE c # Unborn
      <3>1. IsGraph(commits) /\ IsGraph(commits')
        BY DEF Grows, GraphInv
      <3>2. AncestorsIn(commits')[c] = AncestorsIn(commits)[c]
        BY <2>2, <3>1, AncestorsStay DEF Grows
      <3>3. Ancestors(c) \subseteq DOMAIN commits
        BY <2>2, AncestorsAre DEF Grows
      <3> QED
        BY <2>2, <3>2, <3>3 DEF Ancestors
    <2> QED
      BY <2>1, <2>2
  <1>2. \A d \in Ancestors(c) : commits'[d] = commits[d]
    BY <1>1 DEF Grows
  <1> QED
    BY <1>1, <1>2 DEF IsLinear

(* So do the versions of a path at a commit. *)
LEMMA VersionsStay ==
    ASSUME Grows, NEW c \in DOMAIN commits \cup {Unborn}, NEW path
    PROVE  Versions(c, path)' = Versions(c, path)
  <1>1. Ancestors(c)' = Ancestors(c) /\ Ancestors(c) \subseteq DOMAIN commits
    BY AncestorsRemain
  <1>2. ASSUME NEW d \in Ancestors(c)
        PROVE  /\ commits'[d] = commits[d]
               /\ EntryAt(d, path)' = EntryAt(d, path)
               /\ \A k \in DOMAIN commits[d].parents :
                    EntryAt(commits[d].parents[k], path)' = EntryAt(commits[d].parents[k], path)
    <2>1. d \in DOMAIN commits
      BY <1>1
    <2>2. commits'[d] = commits[d] /\ IsGraph(commits)
      BY <2>1 DEF Grows, GraphInv
    <2>3. ASSUME NEW k \in DOMAIN commits[d].parents
          PROVE  EntryAt(commits[d].parents[k], path)' = EntryAt(commits[d].parents[k], path)
      <3>1. commits[d].parents[k] \in DOMAIN commits
        BY <2>1, <2>2, ParentsBelow
      <3>2. PICK p \in DOMAIN commits : p = commits[d].parents[k]
        BY <3>1
      <3>3. EntryAt(p, path)' = EntryAt(p, path)
        BY EntryStays
      <3>4. commits'[d].parents[k] = commits[d].parents[k]
        BY <2>2
      <3> QED
        BY <3>2, <3>3, <3>4
    <2> QED
      BY <2>1, <2>2, <2>3, EntryStays
  <1> QED
    BY <1>1, <1>2 DEF Versions

(* So does whether a commit changes a path. *)
LEMMA PrintsStay ==
    ASSUME Grows, NEW d \in DOMAIN commits, NEW path
    PROVE  Prints(commits, d, path)' = Prints(commits, d, path)
  <1>1. commits'[d] = commits[d] /\ IsGraph(commits)
    BY DEF Grows, GraphInv
  <1>2. \A k \in DOMAIN commits[d].parents :
            commits'[commits[d].parents[k]] = commits[commits[d].parents[k]]
    BY <1>1, ParentsBelow DEF Grows
  <1>3. Same(commits', d, path) = Same(commits, d, path)
    BY <1>1, <1>2 DEF Same
  <1> QED
    BY <1>1, <1>3 DEF Prints

(* So does whether a path had a content up to a commit. *)
LEMMA WasAtStays ==
    ASSUME Grows, NEW c \in DOMAIN commits \cup {Unborn}, NEW path, NEW rev
    PROVE  WasAt(c, path, rev)' = WasAt(c, path, rev)
  <1>1. Ancestors(c)' = Ancestors(c) /\ Ancestors(c) \subseteq DOMAIN commits
    BY AncestorsRemain
  <1>2. \A d \in Ancestors(c) : EntryAt(d, path)' = EntryAt(d, path)
    BY <1>1, EntryStays
  <1> QED
    BY <1>1, <1>2 DEF WasAt

(* So does what is a log of a path at a commit. *)
LEMMA LogStays ==
    ASSUME Grows, NEW c \in DOMAIN commits, NEW path, NEW limit, NEW printed,
           IsLogOf(printed, c, path, limit)
    PROVE  IsLogOf(printed, c, path, limit)'
  <1>1. Ancestors(c)' = Ancestors(c) /\ Ancestors(c) \subseteq DOMAIN commits
        /\ IsLinear(c)' = IsLinear(c)
    BY AncestorsRemain
  <1>2. \A d \in Ancestors(c) : Prints(commits, d, path)' = Prints(commits, d, path)
    BY <1>1, PrintsStay
  <1>3. printed \in Seq(Ancestors(c)) \ {<< >>}
    BY DEF IsLogOf
  <1>4. \A i \in DOMAIN printed : printed[i] \in Ancestors(c)
    BY <1>3
  <1>5. 1 \in DOMAIN printed
    BY <1>3
  <1>6. printed[1] \in DOMAIN commits
    BY <1>1, <1>4, <1>5
  <1>7. EntryAt(printed[1], path)' = EntryAt(printed[1], path)
        /\ EntryAt(c, path)' = EntryAt(c, path)
    BY <1>6, EntryStays
  <1>8. \A i, j \in DOMAIN printed : i < j => printed[i] > printed[j]
    BY DEF IsLogOf
  <1>9. \A i \in DOMAIN printed : Prints(commits, printed[i], path)'
    BY <1>2, <1>4 DEF IsLogOf
  <1>10. limit = 0 /\ IsLinear(c) =>
           {d \in Ancestors(c) : Prints(commits, d, path)} \subseteq ToSet(printed)
    BY DEF IsLogOf
  <1>11. (limit = 0 /\ IsLinear(c) =>
           {d \in Ancestors(c) : Prints(commits, d, path)} \subseteq ToSet(printed))'
    BY <1>1, <1>2, <1>10
  <1>12. EntryAt(c, path) \in Blobs => EntryAt(printed[1], path) = EntryAt(c, path)
    BY DEF IsLogOf
  <1>13. (EntryAt(c, path) \in Blobs => EntryAt(printed[1], path) = EntryAt(c, path))'
    BY <1>7, <1>12
  <1> QED
    BY <1>1, <1>3, <1>8, <1>9, <1>11, <1>13 DEF IsLogOf

TipsWereTips ==
    \A k \in DOMAIN tips : /\ tips[k] \in DOMAIN commits
                           /\ tips[k] \in Ancestors(Tip)
                           /\ Ancestors(tips[k]) \subseteq Ancestors(Tip)

(* Every tip the branch had is a commit the present tip descends from. *)
LEMMA TipsThen == GraphInv => TipsWereTips
  BY TipsAreAncestors DEF TipsWereTips

(* When the branch grows, its new tip descends from the old one: nothing
   readable is lost. *)
LEMMA TipDescends ==
    ASSUME Grows
    PROVE  /\ Ancestors(Tip) \subseteq Ancestors(Tip)'
           /\ IsLinear(Tip)' => IsLinear(Tip)
           /\ \A path, rev : WasAt(Tip, path, rev) => WasAt(Tip, path, rev)'
  <1>1. TipsWereTips /\ TipsWereTips'
    <2>1. GraphInv /\ GraphInv'
      BY DEF Grows
    <2> QED
      BY <2>1, TipsThen, PTL
  <1>2. PICK tip \in DOMAIN commits \cup {Unborn} : tip = Tip
    BY TipTyped DEF Grows
  <1>3. Ancestors(tip)' = Ancestors(tip) /\ Ancestors(tip) \subseteq DOMAIN commits
    BY AncestorsRemain
  <1>4. Ancestors(tip) \subseteq Ancestors(Tip)'
    <2>1. CASE tip = Unborn
      BY <2>1 DEF Ancestors
    <2>2. CASE tip # Unborn
      <3>1. Tip = tips[Len(tips)] /\ Len(tips) \in DOMAIN tips
        BY <1>2, <2>2, TipTyped DEF Grows
      <3>2. PICK k \in DOMAIN tips : k = Len(tips)
        BY <3>1
      <3>3. k \in DOMAIN tips' /\ tips'[k] = tip
        BY <1>2, <3>1, <3>2 DEF Grows
      <3>4. Ancestors(tips[k])' \subseteq Ancestors(Tip)'
        BY <1>1, <3>3 DEF TipsWereTips
      <3>5. Ancestors(tips[k])' = Ancestors(tip)'
        BY <3>3 DEF Ancestors
      <3> QED
        BY <1>3, <3>4, <3>5
    <2> QED
      BY <2>1, <2>2
  <1>5. Ancestors(Tip) = Ancestors(tip)
    BY <1>2
  <1>6. IsLinear(Tip)' => IsLinear(Tip)
    <2>1. \A d \in Ancestors(tip) : commits'[d] = commits[d]
      BY <1>3 DEF Grows
    <2> QED
      BY <1>4, <1>5, <2>1 DEF IsLinear
  <1>7. ASSUME NEW path, NEW rev, WasAt(Tip, path, rev)
        PROVE  WasAt(Tip, path, rev)'
    <2>1. PICK d \in Ancestors(tip) : EntryAt(d, path) = rev
      BY <1>5, <1>7 DEF WasAt
    <2>2. EntryAt(d, path)' = rev
      BY <1>3, <2>1, EntryStays
    <2>3. d \in Ancestors(Tip)'
      BY <1>4
    <2> QED
      BY <2>2, <2>3 DEF WasAt
  <1> QED
    BY <1>4, <1>5, <1>6, <1>7

(* The instants of a call that goes on.                                    *)
LEMMA InstantsStay ==
    ASSUME Grows, NEW r \in Readers, began[r] \in 0..Len(tips), began'[r] = began[r]
    PROVE  /\ began'[r] \in 0..Len(tips')
           /\ During(r) \subseteq DOMAIN commits \cup {Unborn}
           /\ During(r) \subseteq During(r)'
           /\ Unborn \notin DOMAIN commits
  <1>1. Len(tips) \in Nat /\ DOMAIN tips = 1..Len(tips) /\ Unborn \notin DOMAIN commits
        /\ \A k \in DOMAIN tips : tips[k] \in DOMAIN commits
    BY TipTyped DEF Grows, GraphInv
  <1>2. Len(tips') \in Nat /\ DOMAIN tips' = 1..Len(tips')
    BY DEF Grows, GraphInv
  <1>3. Len(tips) <= Len(tips') /\ \A k \in 1..Len(tips) : tips'[k] = tips[k]
    BY <1>1 DEF Grows
  <1>4. During(r) \subseteq DOMAIN commits \cup {Unborn}
    BY <1>1 DEF During
  <1>5. ASSUME NEW tip \in During(r)
        PROVE  tip \in During(r)'
    <2>1. CASE began[r] = 0 /\ tip = Unborn
      BY <2>1 DEF During
    <2>2. CASE \E k \in (IF began[r] = 0 THEN 1 ELSE began[r])..Len(tips) : tip = tips[k]
      <3>1. PICK k \in (IF began[r] = 0 THEN 1 ELSE began[r])..Len(tips) : tip = tips[k]
        BY <2>2
      <3>2. k \in 1..Len(tips)
        BY <1>1, <3>1
      <3>3. k \in (IF began'[r] = 0 THEN 1 ELSE began'[r])..Len(tips') /\ tips'[k] = tip
        BY <1>1, <1>2, <1>3, <3>1, <3>2
      <3> QED
        BY <3>3 DEF During
    <2> QED
      BY <1>5, <2>1, <2>2 DEF During
  <1> QED
    BY <1>1, <1>2, <1>3, <1>4, <1>5

------------------------------------------------------------------------------
(***************************************************************************)
(* The properties of the answers, for one reader, while others commit.     *)
(***************************************************************************)

(* The properties of the answers, for one reader.                          *)
InThePath(r) ==
    Ended(r, "revision") /\ answer[r].kind = "document"
        => /\ answer[r].rev = call[r].rev
           /\ WasAt(Tip, repoPath(call[r].path), call[r].rev)

HistoryIs(r) ==
    Ended(r, "history") /\ answer[r].kind = "history" /\ call[r].limit = 0
        => answer[r].revs \in Seq(Blobs) /\ \E tip \in During(r) :
             IF IsLinear(tip) THEN IsHistoryOf(answer[r].revs, tip, repoPath(call[r].path))
             ELSE IsSomeOf(answer[r].revs, tip, repoPath(call[r].path))

BeginsWith(r, tip) ==
    EntryAt(tip, repoPath(call[r].path)) \in Blobs =>
        /\ answer[r].kind = "history"
        /\ answer[r].revs # << >>
        /\ answer[r].revs[1] = EntryAt(tip, repoPath(call[r].path))

HistoryBegins(r) ==
    Ended(r, "history") /\ answer[r].kind \in {"history", "notfound"}
            /\ repoPath(call[r].path) # NoPath
        => \E tip \in During(r) : BeginsWith(r, tip)

ListIs(r) ==
    Ended(r, "list") /\ answer[r].kind = "list"
        => \E tip \in During(r) : answer[r].entries = ListedAt(tip, call[r].path)

Kinds == {"none", "notfound", "invalid", "failed", "cancelled",
          "document", "list", "history"}

AnswerInv(r) ==
    /\ answer[r].kind \in Kinds
    /\ IsLinear(Tip) => RevisionIsRead(r)
    /\ InThePath(r)
    /\ HistoryIs(r)
    /\ HistoryBegins(r)
    /\ ListIs(r)

ReaderInv(r) == CallInv(r) /\ KnownInv(r) /\ LogInv(r) /\ AnswerInv(r)

ReaderVars(r) ==
    << pc[r], call[r], log[r], answer[r], known[r], began[r], reads[r] >>

(* What a collection lists at a commit stays as the graph grows. *)
LEMMA ListedStays ==
    ASSUME Grows, NEW c \in DOMAIN commits \cup {Unborn}, NEW collection
    PROVE  ListedAt(c, collection)' = ListedAt(c, collection)
  <1>1. \A path : EntryAt(c, path)' = EntryAt(c, path)
    BY EntryStays
  <1>2. root' = root
    BY DEF Grows
  <1> QED
    BY <1>1, <1>2 DEF ListedAt, repoPath

(* The k-th newest of a set is one of its elements. *)
LEMMA NthNewestIn ==
    ASSUME NEW N \in Nat, NEW S, S \subseteq 1..N, NEW k \in 1..Cardinality(S)
    PROVE  NthNewest(S, k) \in S
  <1>1. PICK all \in [1..Cardinality(S) -> S] :
            IsDescending(all) /\ \A x \in S : \E i \in DOMAIN all : all[i] = x
    BY NewestFirstLists
  <1>2. Cardinality(S) \in Nat
    BY NewestFirstLists
  <1>3. \A i \in 1..Cardinality(S) : all[i] \in S /\ all[i] \in 1..N
    BY <1>1
  <1> DEFINE D == {d \in S : d >= all[k]}
             f == [i \in 1..k |-> all[i]]
  <1>4. ASSUME NEW i \in 1..Cardinality(S), NEW j \in 1..Cardinality(S)
        PROVE  i < j <=> all[i] > all[j]
    <2>1. i < j => all[i] > all[j]
      BY <1>1 DEF IsDescending
    <2>2. j < i => all[j] > all[i]
      BY <1>1 DEF IsDescending
    <2>3. all[i] \in 1..N /\ all[j] \in 1..N
      BY <1>3
    <2>4. i = j => all[i] = all[j]
      OBVIOUS
    <2> QED
      BY <1>2, <2>1, <2>2, <2>3, <2>4
  <1>5. 1..k \subseteq 1..Cardinality(S) /\ k \in Nat
    BY <1>2
  <1>6. f \in [1..k -> D]
    <2>1. ASSUME NEW i \in 1..k
          PROVE  all[i] \in D
      <3>1. i \in 1..Cardinality(S) /\ ~(k < i)
        BY <1>2, <1>5
      <3>2. ~(all[k] > all[i]) /\ all[i] \in 1..N /\ all[k] \in 1..N
        BY <1>3, <1>4, <3>1
      <3>3. all[i] >= all[k]
        BY <3>2
      <3> QED
        BY <1>3, <3>1, <3>3
    <2> QED
      BY <2>1
  <1>7. \A i, j \in 1..k : f[i] = f[j] => i = j
    <2>1. ASSUME NEW i \in 1..k, NEW j \in 1..k, all[i] = all[j]
          PROVE  i = j
      <3>1. i \in 1..Cardinality(S) /\ j \in 1..Cardinality(S)
        BY <1>5
      <3>2. ~(all[i] > all[j]) /\ ~(all[j] > all[i])
        <4>1. all[i] \in 1..N
          BY <1>3, <3>1
        <4> QED
          BY <2>1, <4>1
      <3>3. ~(i < j) /\ ~(j < i)
        BY <1>4, <3>1, <3>2
      <3> QED
        BY <3>1, <3>3
    <2> QED
      BY <2>1
  <1>8. \A x \in D : \E i \in 1..k : f[i] = x
    <2>1. ASSUME NEW x \in D
          PROVE  \E i \in 1..k : all[i] = x
      <3>1. PICK i \in 1..Cardinality(S) : all[i] = x
        BY <1>1
      <3>2. ~(all[k] > all[i])
        <4>1. x >= all[k] /\ x \in 1..N /\ all[k] \in 1..N
          BY <1>3
        <4> QED
          BY <3>1, <4>1
      <3>3. ~(k < i)
        BY <1>4, <3>2
      <3>4. i \in 1..k
        BY <1>2, <3>3
      <3> QED
        BY <3>1, <3>4
    <2> QED
      BY <2>1
  <1> HIDE DEF f
  <1>9. ExistsBijection(1..k, D)
    <2> HIDE DEF D
    <2>1. f \in Bijection(1..k, D)
      BY <1>6, <1>7, <1>8 DEF Bijection, Injection, Surjection, IsInjective
    <2> QED
      BY <2>1 DEF ExistsBijection
  <1>10. Cardinality(D) = k
    <2> HIDE DEF D
    <2> QED
      BY <1>5, <1>9, FS_CountingElements
  <1>11. all[k] \in S
    BY <1>3
  <1> QED
    BY <1>10, <1>11 DEF NthNewest

(* What is a history of a path at a commit stays one as the graph grows. *)
LEMMA HistoryStays ==
    ASSUME Grows, NEW c \in DOMAIN commits \cup {Unborn}, NEW path, NEW revs,
           revs \in Seq(Blobs)
    PROVE  /\ IsHistoryOf(revs, c, path) => IsHistoryOf(revs, c, path)'
           /\ IsSomeOf(revs, c, path) => IsSomeOf(revs, c, path)'
  <1>1. Versions(c, path)' = Versions(c, path)
    BY VersionsStay
  <1>2. Versions(c, path) \subseteq DOMAIN commits
    BY AncestorsRemain DEF Versions
  <1>3. \A d \in DOMAIN commits : EntryAt(d, path)' = EntryAt(d, path)
    BY EntryStays
  <1>4. IsSomeOf(revs, c, path) => IsSomeOf(revs, c, path)'
    BY <1>1, <1>2, <1>3 DEF IsSomeOf
  <1>6. DOMAIN revs = 1..Len(revs)
    OBVIOUS
  <1>5. ASSUME IsHistoryOf(revs, c, path)
        PROVE  IsHistoryOf(revs, c, path)'
    <2>1. PICK S : S = Versions(c, path)
      OBVIOUS
    <2>2. /\ Len(revs) = Cardinality(S) /\ Versions(c, path)' = S
          /\ \A k \in DOMAIN revs : revs[k] = EntryAt(NthNewest(S, k), path)
      BY <1>1, <1>5, <2>1 DEF IsHistoryOf
    <2>3. ASSUME NEW k \in DOMAIN revs
          PROVE  EntryAt(NthNewest(S, k), path)' = EntryAt(NthNewest(S, k), path)
      <3>1. Len(commits) \in Nat /\ S \subseteq 1..Len(commits)
        BY <1>2, <2>1 DEF Grows, GraphInv, IsGraph
      <3>2. k \in 1..Cardinality(S)
        BY <2>2, <1>6
      <3>3. NthNewest(S, k) \in S
        BY <3>1, <3>2, NthNewestIn
      <3>4. NthNewest(S, k) \in DOMAIN commits
        BY <1>2, <2>1, <3>3
      <3> QED
        BY <1>3, <3>4
    <2> QED
      BY <2>2, <2>3 DEF IsHistoryOf
  <1> QED
    BY <1>4, <1>5

(* A reader that does nothing keeps its invariant while the graph grows. *)
LEMMA ReaderStays ==
    ASSUME Grows, NEW r \in Readers, ReaderInv(r), ReaderVars(r)' = ReaderVars(r)
    PROVE  ReaderInv(r)'
  <1>1. /\ pc'[r] = pc[r] /\ call'[r] = call[r] /\ log'[r] = log[r]
        /\ answer'[r] = answer[r] /\ known'[r] = known[r]
        /\ began'[r] = began[r] /\ reads'[r] = reads[r]
    BY DEF ReaderVars
  <1>2. /\ CallInv(r) /\ KnownInv(r) /\ LogInv(r) /\ AnswerInv(r)
    BY DEF ReaderInv
  <1>3. /\ began'[r] \in 0..Len(tips')
        /\ During(r) \subseteq DOMAIN commits \cup {Unborn}
        /\ During(r) \subseteq During(r)'
        /\ Unborn \notin DOMAIN commits
    BY <1>1, <1>2, InstantsStay DEF CallInv
  <1>4. root' = root /\ DOMAIN commits \subseteq DOMAIN commits'
    BY DEF Grows
  <1>5. CallInv(r)'
    <2>1. log[r] \in Seq(DOMAIN commits')
      <3>1. log[r] \in Seq(DOMAIN commits)
        BY <1>2 DEF CallInv
      <3>2. Len(log[r]) \in Nat /\ log[r] \in [1..Len(log[r]) -> DOMAIN commits']
        BY <1>4, <3>1
      <3> QED
        BY <3>2, SeqDef
    <2>2. Refusal(call[r])' = Refusal(call[r])
      BY <1>1, <1>4 DEF Refusal, repoPath, listPrefix
    <2> QED
      BY <1>1, <1>2, <1>3, <2>1, <2>2 DEF CallInv
  <1>6. KnownInv(r)'
    <2>1. \A path, rev : WasAt(Tip, path, rev) => WasAt(Tip, path, rev)'
      BY TipDescends
    <2>2. ASSUME NEW pair \in known[r]
          PROVE  WasAt(Tip, repoPath(pair[1]), pair[2])'
      <3>1. PICK path, rev : path = repoPath(pair[1]) /\ rev = pair[2]
        OBVIOUS
      <3>2. WasAt(Tip, path, rev)
        BY <1>2, <3>1 DEF KnownInv
      <3>3. WasAt(Tip, path, rev)'
        BY <2>1, <3>2
      <3>4. repoPath(pair[1])' = path
        BY <1>4, <3>1 DEF repoPath
      <3> QED
        BY <3>1, <3>3, <3>4
    <2> QED
      BY <1>1, <1>2, <2>2 DEF KnownInv
  <1>7. LogInv(r)'
    <2>1. PICK path : path = repoPath(call[r].path)
      OBVIOUS
    <2>2. repoPath(call[r].path)' = path
      BY <1>1, <1>4, <2>1 DEF repoPath
    <2>3. PICK limit, rev : limit = LimitOf(call[r]) /\ rev = call[r].rev
      OBVIOUS
    <2>4. ASSUME pc[r] = "blobs"
          PROVE  \E tip \in During(r)' \ {Unborn} :
                   /\ IsLogOf(log[r], tip, path, limit)'
                   /\ call[r].op = "revision" /\ << call[r].path, rev >> \in known[r]
                          => WasAt(tip, path, rev)'
      <3>1. PICK tip \in During(r) \ {Unborn} :
                   /\ IsLogOf(log[r], tip, path, limit)
                   /\ call[r].op = "revision" /\ << call[r].path, rev >> \in known[r]
                          => WasAt(tip, path, rev)
        BY <1>2, <2>1, <2>3, <2>4 DEF LogInv
      <3>2. tip \in DOMAIN commits /\ tip \in During(r)' \ {Unborn}
        BY <1>3, <3>1
      <3>3. PICK printed : printed = log[r]
        OBVIOUS
      <3>4. IsLogOf(printed, tip, path, limit)'
        BY <3>1, <3>2, <3>3, LogStays
      <3>5. IsLogOf(log[r], tip, path, limit)'
        BY <1>1, <3>3, <3>4
      <3>6. WasAt(tip, path, rev)' = WasAt(tip, path, rev)
        BY <3>2, WasAtStays
      <3> QED
        BY <3>1, <3>2, <3>5, <3>6
    <2>5. pc[r] = "read" => WasAt(Tip, path, rev)'
      <3>1. pc[r] = "read" => WasAt(Tip, path, rev)
        BY <1>2, <2>1, <2>3 DEF LogInv
      <3> QED
        BY <3>1, TipDescends
    <2>6. LimitOf(call[r])' = limit
      BY <1>1, <2>3 DEF LimitOf
    <2> QED
      BY <1>1, <2>2, <2>3, <2>4, <2>5, <2>6 DEF LogInv
  <1>8. AnswerInv(r)'
    <2>1. PICK path : path = repoPath(call[r].path)
      OBVIOUS
    <2>2. repoPath(call[r].path)' = path
      BY <1>1, <1>4, <2>1 DEF repoPath
    <2>3. (IsLinear(Tip) => RevisionIsRead(r))'
      <3>1. RevisionIsRead(r)' = RevisionIsRead(r)
        BY <1>1, <2>1, <2>2 DEF RevisionIsRead, Ended, IsPathspec
      <3> QED
        BY <1>2, <3>1, TipDescends DEF AnswerInv
    <2>4. InThePath(r)'
      <3>1. PICK rev : rev = call[r].rev
        OBVIOUS
      <3>2. WasAt(Tip, path, rev) => WasAt(Tip, path, rev)'
        BY TipDescends
      <3>3. InThePath(r)
        BY <1>2 DEF AnswerInv
      <3> QED
        BY <1>1, <2>1, <2>2, <3>1, <3>2, <3>3 DEF InThePath, Ended
    <2>5. HistoryIs(r)'
      <3>1. ASSUME Ended(r, "history")', answer[r].kind = "history", call[r].limit = 0
            PROVE  answer[r].revs \in Seq(Blobs) /\ \E tip \in During(r)' :
                     IF IsLinear(tip)' THEN IsHistoryOf(answer[r].revs, tip, path)'
                     ELSE IsSomeOf(answer[r].revs, tip, path)'
        <4>1. Ended(r, "history")
          BY <1>1, <3>1 DEF Ended
        <4>2. PICK tip \in During(r) :
                     IF IsLinear(tip) THEN IsHistoryOf(answer[r].revs, tip, path)
                     ELSE IsSomeOf(answer[r].revs, tip, path)
          BY <1>2, <2>1, <3>1, <4>1 DEF AnswerInv, HistoryIs
        <4>3. PICK revs \in Seq(Blobs) : revs = answer[r].revs
          BY <1>2, <3>1, <4>1 DEF AnswerInv, HistoryIs
        <4>4. tip \in DOMAIN commits \cup {Unborn} /\ tip \in During(r)'
          BY <1>3
        <4>5. IsLinear(tip)' = IsLinear(tip)
          BY <4>4, AncestorsRemain
        <4>6. /\ IsHistoryOf(revs, tip, path) => IsHistoryOf(revs, tip, path)'
              /\ IsSomeOf(revs, tip, path) => IsSomeOf(revs, tip, path)'
          BY <4>4, HistoryStays
        <4>7. /\ IsHistoryOf(revs, tip, path)' = IsHistoryOf(answer[r].revs, tip, path)'
              /\ IsSomeOf(revs, tip, path)' = IsSomeOf(answer[r].revs, tip, path)'
          BY <1>1, <4>3
        <4> QED
          BY <4>2, <4>3, <4>4, <4>5, <4>6, <4>7
      <3> QED
        BY <1>1, <2>2, <3>1 DEF HistoryIs
    <2>6. HistoryBegins(r)'
      <3>1. ASSUME NEW tip \in During(r), BeginsWith(r, tip)
            PROVE  tip \in During(r)' /\ BeginsWith(r, tip)'
        <4>1. EntryAt(tip, path)' = EntryAt(tip, path)
          BY <1>3, EntryStays
        <4> QED
          BY <1>1, <1>3, <2>1, <2>2, <3>1, <4>1 DEF BeginsWith
      <3>2. HistoryBegins(r)
        BY <1>2 DEF AnswerInv
      <3> QED
        BY <1>1, <2>1, <2>2, <3>1, <3>2 DEF HistoryBegins, Ended
    <2>7. ListIs(r)'
      <3>1. PICK collection : collection = call[r].path
        OBVIOUS
      <3>2. \A tip \in During(r) : ListedAt(tip, collection)' = ListedAt(tip, collection)
        BY <1>3, ListedStays
      <3>3. ListIs(r)
        BY <1>2 DEF AnswerInv
      <3> QED
        BY <1>1, <1>3, <3>1, <3>2, <3>3 DEF ListIs, Ended
    <2> QED
      BY <1>1, <1>2, <2>3, <2>4, <2>5, <2>6, <2>7 DEF AnswerInv, Kinds
  <1> QED
    BY <1>5, <1>6, <1>7, <1>8 DEF ReaderInv

------------------------------------------------------------------------------
(***************************************************************************)
(* Steps of one reader.                                                    *)
(***************************************************************************)

ReadersTyped ==
    /\ pc \in [Readers -> PCs]
    /\ PerReader(call) /\ PerReader(log) /\ PerReader(answer)
    /\ PerReader(known) /\ PerReader(began) /\ PerReader(reads)

WholeInv == GraphInv /\ ReadersTyped /\ \A r \in Readers : ReaderInv(r)

(* What an answer must be to a call, given what its caller knows and the   *)
(* instants of the call.                                                   *)
Fits(c, result, pairs, instants) ==
    /\ result.kind \in Kinds
    /\ c.op = "revision" /\ IsLinear(Tip) /\ << c.path, c.rev >> \in pairs
         => \/ result.kind \in {"document", "cancelled"}
            \/ result.kind = "invalid" /\
                 (c.rev.shape = Damaged \/ ~IsPathspec(repoPath(c.path)))
    /\ c.op = "revision" /\ result.kind = "document"
         => result.rev = c.rev /\ WasAt(Tip, repoPath(c.path), c.rev)
    /\ c.op = "history" /\ result.kind = "history" /\ c.limit = 0
         => /\ result.revs \in Seq(Blobs)
            /\ \E tip \in instants :
                 IF IsLinear(tip) THEN IsHistoryOf(result.revs, tip, repoPath(c.path))
                 ELSE IsSomeOf(result.revs, tip, repoPath(c.path))
    /\ c.op = "history" /\ result.kind \in {"history", "notfound"}
            /\ repoPath(c.path) # NoPath
         => \E tip \in instants :
              EntryAt(tip, repoPath(c.path)) \in Blobs =>
                /\ result.kind = "history"
                /\ result.revs # << >>
                /\ result.revs[1] = EntryAt(tip, repoPath(c.path))
    /\ c.op = "list" /\ result.kind = "list"
         => \E tip \in instants : result.entries = ListedAt(tip, c.path)

(* An answer that fits its call makes the reader's answer invariant hold. *)
LEMMA FitsGives ==
    ASSUME UNCHANGED branchVars, NEW r \in Readers,
           Fits(call'[r], answer'[r], known'[r], During(r)')
    PROVE  AnswerInv(r)'
  <1>1. root' = root /\ commits' = commits /\ tips' = tips
    BY DEF branchVars
  <1>2. Tip' = Tip
    BY <1>1 DEF Tip
  <1>3. \A path : repoPath(path)' = repoPath(path)
    BY <1>1 DEF repoPath
  <1>4. \A c, path : EntryAt(c, path)' = EntryAt(c, path)
    BY <1>1 DEF EntryAt, TreeOf
  <1>5. \A c : Ancestors(c)' = Ancestors(c)
    BY <1>1 DEF Ancestors
  <1>6. \A c : IsLinear(c)' <=> IsLinear(c)
    BY <1>1, <1>5 DEF IsLinear
  <1>7. \A c, path : Versions(c, path)' = Versions(c, path)
    BY <1>1, <1>4, <1>5 DEF Versions
  <1>8. \A revs, c, path : /\ IsHistoryOf(revs, c, path)' <=> IsHistoryOf(revs, c, path)
                           /\ IsSomeOf(revs, c, path)' <=> IsSomeOf(revs, c, path)
    BY <1>4, <1>7 DEF IsHistoryOf, IsSomeOf
  <1>9. \A c, path, rev : WasAt(c, path, rev)' <=> WasAt(c, path, rev)
    BY <1>4, <1>5 DEF WasAt
  <1>10. \A c, collection : ListedAt(c, collection)' = ListedAt(c, collection)
    BY <1>1, <1>3, <1>4 DEF ListedAt
  <1>11. PICK c, result, pairs, instants :
            /\ c = call'[r] /\ result = answer'[r]
            /\ pairs = known'[r] /\ instants = During(r)'
    OBVIOUS
  <1>12. Fits(c, result, pairs, instants)
    BY <1>11
  <1>13. (IsLinear(Tip) => RevisionIsRead(r))'
    BY <1>2, <1>3, <1>6, <1>11, <1>12 DEF Fits, RevisionIsRead, Ended, IsPathspec
  <1>14. InThePath(r)'
    BY <1>2, <1>3, <1>9, <1>11, <1>12 DEF Fits, InThePath, Ended
  <1>15. HistoryIs(r)'
    BY <1>3, <1>6, <1>8, <1>11, <1>12 DEF Fits, HistoryIs, Ended
  <1>16. HistoryBegins(r)'
    BY <1>3, <1>4, <1>11, <1>12 DEF Fits, HistoryBegins, BeginsWith, Ended
  <1>17. ListIs(r)'
    BY <1>10, <1>11, <1>12 DEF Fits, ListIs, Ended
  <1> QED
    BY <1>11, <1>12, <1>13, <1>14, <1>15, <1>16, <1>17 DEF AnswerInv, Fits

(* A step that leaves the branch alone is a growth by nothing. *)
LEMMA GraphStays ==
    ASSUME GraphInv, UNCHANGED branchVars
    PROVE  Grows
  <1>1. root' = root /\ commits' = commits /\ tips' = tips
    BY DEF branchVars
  <1>2. \A c : Ancestors(c)' = Ancestors(c)
    BY <1>1 DEF Ancestors
  <1>3. GraphInv'
    BY <1>1, <1>2 DEF GraphInv
  <1>4. Len(tips) <= Len(tips)
    BY TipTyped
  <1> QED
    BY <1>1, <1>3, <1>4 DEF Grows

(* A step of one reader.                                                   *)
OnlyReader(r) ==
    /\ UNCHANGED branchVars
    /\ \A q \in Readers \ {r} : ReaderVars(q)' = ReaderVars(q)

(* When one reader moves and its own invariant holds afterwards, the whole
   does. *)
LEMMA ReaderSteps ==
    ASSUME WholeInv, NEW r \in Readers, OnlyReader(r), ReadersTyped', ReaderInv(r)'
    PROVE  WholeInv'
  <1>1. Grows
    BY GraphStays DEF WholeInv, OnlyReader
  <1>2. ASSUME NEW q \in Readers \ {r}
        PROVE  ReaderInv(q)'
    <2>1. ReaderVars(q)' = ReaderVars(q) /\ ReaderInv(q)
      BY DEF OnlyReader, WholeInv
    <2> QED
      BY <1>1, <2>1, ReaderStays
  <1> QED
    BY <1>1, <1>2 DEF WholeInv, Grows

(* What a caller is told of is the branch's.                               *)
IsLearned(pair) ==
    /\ pair \in {p \in Seq(Segments) : IsContentPath(p)} \X Blobs
    /\ WasAt(Tip, repoPath(pair[1]), pair[2])

(* What a caller was given by an answer stays given. *)
LEMMA LearnedStays ==
    ASSUME UNCHANGED branchVars, NEW pair, IsLearned(pair)
    PROVE  IsLearned(pair)'
  <1>1. root' = root /\ commits' = commits /\ tips' = tips
    BY DEF branchVars
  <1> QED
    BY <1>1 DEF IsLearned, WasAt, Ancestors, Tip, EntryAt, TreeOf, repoPath

(* An answer that fits its call keeps the whole invariant. *)
LEMMA AnswerGives ==
    ASSUME WholeInv, NEW r \in Readers, NEW result, NEW learned,
           Answer(r, result, learned),
           Fits(call[r], result, known[r] \cup learned, During(r)),
           \A pair \in learned : IsLearned(pair)
    PROVE  WholeInv'
  <1>1. /\ ReadersTyped /\ ReaderInv(r)
        /\ UNCHANGED branchVars /\ root' = root /\ commits' = commits /\ tips' = tips
        /\ call' = call /\ began' = began /\ reads' = reads
        /\ answer' = [answer EXCEPT ![r] = result]
        /\ known' = [known EXCEPT ![r] = @ \cup learned]
        /\ pc' = [pc EXCEPT ![r] = "idle"]
        /\ log' = [log EXCEPT ![r] = << >>]
    BY DEF Answer, WholeInv, branchVars
  <1>2. /\ answer'[r] = result /\ known'[r] = known[r] \cup learned
        /\ pc'[r] = "idle" /\ log'[r] = << >>
        /\ call'[r] = call[r] /\ began'[r] = began[r] /\ reads'[r] = reads[r]
    BY <1>1 DEF ReadersTyped, PerReader
  <1>3. ReadersTyped'
    BY <1>1 DEF ReadersTyped, PerReader, PCs
  <1>4. OnlyReader(r)
    BY <1>1 DEF OnlyReader, ReaderVars, ReadersTyped, PerReader
  <1>5. During(r)' = During(r)
    BY <1>1 DEF During
  <1>6. AnswerInv(r)'
    BY <1>1, <1>2, <1>5, FitsGives
  <1>7. CallInv(r)'
    <2>1. CallInv(r)
      BY <1>1 DEF ReaderInv
    <2>2. << >> \in Seq(DOMAIN commits)
      OBVIOUS
    <2> QED
      BY <1>1, <1>2, <2>1, <2>2 DEF CallInv, PCs
  <1>8. KnownInv(r)'
    <2>1. \A pair \in known[r] : IsLearned(pair)
      BY <1>1 DEF ReaderInv, KnownInv, IsLearned
    <2>2. \A pair \in known'[r] : IsLearned(pair)'
      BY <1>1, <1>2, <2>1, LearnedStays
    <2> QED
      BY <2>2 DEF KnownInv, IsLearned
  <1>9. LogInv(r)'
    BY <1>2 DEF LogInv
  <1> QED
    BY <1>3, <1>4, <1>6, <1>7, <1>8, <1>9, ReaderSteps DEF ReaderInv

(* The calls, by their fields. *)
LEMMA CallTyped ==
    ASSUME NEW c \in Calls
    PROVE  /\ c.op \in {"get", "list", "history", "revision"}
           /\ c.op = "list" => c.path \in Seq(Segments)
           /\ c.op # "list" => c.path \in Seq(Segments) /\ IsContentPath(c.path)
           /\ LimitOf(c) \in Nat
           /\ c.op = "history" => LimitOf(c) = c.limit
           /\ c.op = "revision" => LimitOf(c) = 0 /\ c.rev \in Revisions
  <1>1. /\ Asked \subseteq Seq(Segments) /\ Collections \subseteq Seq(Segments)
        /\ \A path \in Asked : IsContentPath(path)
        /\ Limits \subseteq Nat
    BY GitReadsAssumption
  <1> QED
    BY <1>1 DEF Calls, LimitOf

(* What a call is refused for, and what is known of its path when it is not
   refused. *)
LEMMA RefusalMeans ==
    ASSUME NEW c \in Calls
    PROVE  /\ Refusal(c) \in {"none", "notfound", "invalid"}
           /\ Refusal(c) = "notfound" => c.op = "revision" /\ c.rev = NoRevision
           /\ Refusal(c) = "invalid" =>
                (c.op \in {"history", "revision"} => ~IsPathspec(repoPath(c.path)))
           /\ Refusal(c) = "none" =>
                /\ c.op # "list" => repoPath(c.path) # NoPath
                /\ c.op = "list" => (<< root, c.path >> # << Root, Root >> =>
                                        IsPathspec(listPrefix(c.path)))
  BY CallTyped DEF Refusal, IsPathspec

(* A call that goes on has no answer yet.                                  *)
LEMMA NoAnswerYet ==
    ASSUME NEW r \in Readers, pc'[r] # "idle", answer'[r].kind \in Kinds
    PROVE  AnswerInv(r)'
  BY DEF AnswerInv, RevisionIsRead, InThePath, HistoryIs, HistoryBegins, ListIs, Ended

(* A reader that learns nothing keeps what it knows. *)
LEMMA KnownStays ==
    ASSUME UNCHANGED branchVars, NEW r \in Readers, KnownInv(r), known'[r] = known[r]
    PROVE  KnownInv(r)'
  <1>1. \A pair \in known[r] : IsLearned(pair)
    BY DEF KnownInv, IsLearned
  <1>2. \A pair \in known'[r] : IsLearned(pair)'
    BY <1>1, LearnedStays
  <1> QED
    BY <1>2 DEF KnownInv, IsLearned

(* A call that begins, or is refused at once, keeps the invariant. *)
LEMMA AskKeeps ==
    ASSUME WholeInv, NEW r \in Readers, Ask(r)
    PROVE  WholeInv'
  <1>1. PICK c \in Calls :
        /\ c.op = "revision" => << c.path, c.rev >> \in known[r] \/ c.rev \in Guesses
        /\ call' = [call EXCEPT ![r] = c]
        /\ answer' = [answer EXCEPT ![r] = Failure(Refusal(c))]
        /\ pc' = [pc EXCEPT ![r] =
             IF Refusal(c) # "none" THEN "idle"
             ELSE IF c.op \in {"history", "revision"} THEN "log"
             ELSE c.op]
    BY DEF Ask
  <1>2. /\ ReadersTyped /\ ReaderInv(r) /\ GraphInv
        /\ UNCHANGED branchVars /\ root' = root /\ commits' = commits /\ tips' = tips
        /\ log' = log /\ known' = known
        /\ began' = [began EXCEPT ![r] = Len(tips)]
        /\ reads' = [reads EXCEPT ![r] = @ + 1]
        /\ pc[r] = "idle" /\ reads[r] < MaxReads
    BY DEF Ask, WholeInv, branchVars
  <1>3. /\ call'[r] = c /\ answer'[r] = Failure(Refusal(c))
        /\ pc'[r] = IF Refusal(c) # "none" THEN "idle"
                    ELSE IF c.op \in {"history", "revision"} THEN "log" ELSE c.op
        /\ log'[r] = log[r] /\ known'[r] = known[r]
        /\ began'[r] = Len(tips) /\ reads'[r] = reads[r] + 1
    BY <1>1, <1>2 DEF ReadersTyped, PerReader
  <1>4. c.op \in {"get", "list", "history", "revision"}
    BY CallTyped
  <1>5. ReadersTyped'
    BY <1>1, <1>2, <1>4 DEF ReadersTyped, PerReader, PCs
  <1>6. OnlyReader(r)
    BY <1>1, <1>2 DEF OnlyReader, ReaderVars, ReadersTyped, PerReader
  <1>7. CallInv(r)'
    <2>1. Refusal(c)' = Refusal(c)
      BY <1>2 DEF Refusal, repoPath, listPrefix
    <2>2. CallInv(r)
      BY <1>2 DEF ReaderInv
    <2>3. Len(tips) \in Nat /\ MaxReads \in Nat
      BY <1>2, TipTyped, GitReadsAssumption
    <2>4. /\ reads'[r] \in 0..MaxReads
          /\ began'[r] \in 0..Len(tips')
          /\ log'[r] \in Seq(DOMAIN commits')
      BY <1>2, <1>3, <2>2, <2>3 DEF CallInv
    <2> QED
      BY <1>3, <1>4, <2>1, <2>4 DEF CallInv, PCs
  <1>8. KnownInv(r)'
    BY <1>2, <1>3, KnownStays DEF ReaderInv
  <1>9. LogInv(r)'
    BY <1>3, <1>4 DEF LogInv
  <1>10. AnswerInv(r)'
    <2>1. Refusal(c) \in {"none", "notfound", "invalid"}
      BY RefusalMeans
    <2>2. CASE Refusal(c) = "none"
      BY <1>3, <1>4, <2>2, NoAnswerYet DEF Failure, Kinds
    <2>3. CASE Refusal(c) # "none"
      <3>1. Failure(Refusal(c)).kind = Refusal(c)
        BY DEF Failure
      <3>2. << c.path, c.rev >> \in known[r] => c.rev # NoRevision
        <4>1. ASSUME << c.path, c.rev >> \in known[r]
              PROVE  c.rev \in Blobs
          <5>1. KnownInv(r)
            BY <1>2 DEF ReaderInv
          <5> QED
            BY <4>1, <5>1 DEF KnownInv
        <4> QED
          BY <4>1, DocumentsAssumption
      <3>3. Fits(c, Failure(Refusal(c)), known[r], During(r)')
        BY <2>1, <2>3, <3>1, <3>2, RefusalMeans DEF Fits, Kinds
      <3> QED
        BY <1>2, <1>3, <3>3, FitsGives
    <2> QED
      BY <2>2, <2>3
  <1> QED
    BY <1>5, <1>6, <1>7, <1>8, <1>9, <1>10, ReaderSteps DEF ReaderInv

(* So does a call that ends in an error of git. *)
LEMMA GiveUpKeeps ==
    ASSUME WholeInv, NEW r \in Readers, GiveUp(r)
    PROVE  WholeInv'
  <1>1. Answer(r, Failure("cancelled"), {})
    BY DEF GiveUp
  <1>2. Fits(call[r], Failure("cancelled"), known[r] \cup {}, During(r))
    BY DEF Fits, Failure, Kinds
  <1> QED
    BY <1>1, <1>2, AnswerGives

(* A call under way.                                                       *)
LEMMA UnderWay ==
    ASSUME WholeInv, NEW r \in Readers, pc[r] # "idle"
    PROVE  /\ GraphInv /\ root \in Roots
           /\ CallInv(r) /\ KnownInv(r) /\ LogInv(r)
           /\ call[r] \in Calls /\ Refusal(call[r]) = "none"
           /\ Tip # Unborn => Tip \in During(r) \ {Unborn} /\ Tip \in DOMAIN commits
           /\ Tip = Unborn => began[r] = 0 /\ known[r] = {}
           /\ began[r] = 0 => Unborn \in During(r)
  <1>1. GraphInv /\ root \in Roots /\ CallInv(r) /\ KnownInv(r) /\ LogInv(r)
    BY DEF WholeInv, ReaderInv, GraphInv
  <1>2. call[r] \in Calls /\ Refusal(call[r]) = "none" /\ began[r] \in 0..Len(tips)
    BY <1>1 DEF CallInv
  <1>3. /\ Tip \in DOMAIN commits \cup {Unborn} /\ Len(tips) \in Nat
        /\ Tip = Unborn <=> tips = << >>
        /\ Tip # Unborn => Tip = tips[Len(tips)] /\ Len(tips) \in DOMAIN tips
        /\ DOMAIN tips = 1..Len(tips)
    BY <1>1, TipTyped
  <1>4. Tip # Unborn => Tip \in During(r) \ {Unborn}
    <2>1. ASSUME Tip # Unborn
          PROVE  Len(tips) \in (IF began[r] = 0 THEN 1 ELSE began[r])..Len(tips)
      BY <1>2, <1>3, <2>1
    <2> QED
      BY <1>3, <2>1 DEF During
  <1>5. Tip = Unborn => began[r] = 0
    BY <1>2, <1>3
  <1>6. ASSUME Tip = Unborn
        PROVE  known[r] = {}
    <2>1. \A pair \in known[r] : WasAt(Tip, repoPath(pair[1]), pair[2])
      BY <1>1 DEF KnownInv
    <2>2. Ancestors(Tip) = {}
      BY <1>6 DEF Ancestors
    <2> QED
      BY <2>1, <2>2 DEF WasAt
  <1>7. began[r] = 0 => Unborn \in During(r)
    BY DEF During
  <1> QED
    BY <1>1, <1>2, <1>3, <1>4, <1>5, <1>6, <1>7

(* An unborn branch has no document. *)
LEMMA UnbornHasNothing ==
    ASSUME NEW path
    PROVE  EntryAt(Unborn, path) \notin Blobs
  BY GitTreesAssumption DEF EntryAt, TreeOf, EmptyTree

(* What the tip holds is a version of the path. *)
LEMMA EntryWasAt ==
    ASSUME GraphInv, NEW path, NEW rev \in Blobs, EntryAt(Tip, path) = rev
    PROVE  WasAt(Tip, path, rev)
  <1>1. Tip # Unborn
    BY UnbornHasNothing
  <1>2. Tip \in DOMAIN commits
    BY <1>1, TipTyped
  <1> QED
    BY <1>2, AncestorsAre DEF WasAt

(* The read of Get keeps the invariant. *)
LEMMA GetKeeps ==
    ASSUME WholeInv, NEW r \in Readers, Get(r)
    PROVE  WholeInv'
  <1> DEFINE path == repoPath(call[r].path)
             stored == EntryAt(Tip, path)
  <1>1. pc[r] = "get" /\ pc[r] # "idle"
    BY DEF Get
  <1>2. /\ call[r] \in Calls /\ call[r].op = "get" /\ GraphInv
        /\ call[r].path \in Seq(Segments) /\ IsContentPath(call[r].path)
    BY <1>1, UnderWay, CallTyped DEF CallInv
  <1>3. CASE path \notin Paths \/ CatFile(TreeOf(Tip), path) # "blob"
    <2>1. Answer(r, Failure("notfound"), {})
      BY <1>3 DEF Get
    <2>2. Fits(call[r], Failure("notfound"), known[r] \cup {}, During(r))
      BY <1>2 DEF Fits, Failure, Kinds
    <2> QED
      BY <2>1, <2>2, AnswerGives
  <1>4. CASE ~(path \notin Paths \/ CatFile(TreeOf(Tip), path) # "blob")
    <2>1. stored \in Blobs
      BY <1>4 DEF CatFile, EntryAt
    <2>2. PICK learned :
            /\ learned = IF stored.shape = Damaged THEN {} ELSE {<< call[r].path, stored >>}
            /\ Answer(r, Parsed(stored), learned)
      BY <1>4 DEF Get
    <2>3. Fits(call[r], Parsed(stored), known[r] \cup learned, During(r))
      <3>1. Parsed(stored).kind \in {"invalid", "document"}
        BY DEF Parsed, Failure
      <3> QED
        BY <1>2, <3>1 DEF Fits, Kinds
    <2>4. IsLearned(<< call[r].path, stored >>)
      <3>1. WasAt(Tip, path, stored)
        BY <1>2, <2>1, EntryWasAt
      <3> QED
        BY <1>2, <2>1, <3>1 DEF IsLearned
    <2>5. \A pair \in learned : IsLearned(pair)
      BY <2>2, <2>4
    <2> QED
      BY <2>2, <2>3, <2>5, AnswerGives
  <1> QED
    BY <1>3, <1>4

(* What must hold for a call to go on to its next git command.             *)
MayGoOn(r, label, printed) ==
    \/ label = "listhead" /\ call[r].op = "list"
    \/ /\ label = "loghead" /\ call[r].op \in {"history", "revision"}
       /\ began[r] = 0 /\ known[r] = {}
    \/ /\ label = "blobs" /\ call[r].op \in {"history", "revision"}
       /\ \E tip \in During(r) \ {Unborn} :
            /\ IsLogOf(printed, tip, repoPath(call[r].path), LimitOf(call[r]))
            /\ call[r].op = "revision" /\ << call[r].path, call[r].rev >> \in known[r]
                  => WasAt(tip, repoPath(call[r].path), call[r].rev)
    \/ /\ label = "read" /\ call[r].op = "revision"
       /\ WasAt(Tip, repoPath(call[r].path), call[r].rev)

(* Whether a reader may go on depends on its own call alone. *)
LEMMA MayGoOnStays ==
    ASSUME UNCHANGED branchVars, NEW r \in Readers, NEW label, NEW printed,
           call'[r] = call[r], began'[r] = began[r], known'[r] = known[r],
           GraphInv, began[r] \in 0..Len(tips), MayGoOn(r, label, printed)
    PROVE  MayGoOn(r, label, printed)'
  <1>1. root' = root /\ commits' = commits /\ tips' = tips
    BY DEF branchVars
  <1>2. Grows
    BY GraphStays
  <1>3. /\ During(r) \subseteq DOMAIN commits \cup {Unborn}
        /\ During(r) \subseteq During(r)'
    BY <1>2, InstantsStay
  <1>4. PICK path, limit, rev :
            path = repoPath(call[r].path) /\ limit = LimitOf(call[r]) /\ rev = call[r].rev
    OBVIOUS
  <1>5. /\ repoPath(call[r].path)' = path /\ LimitOf(call[r])' = limit
    BY <1>1, <1>4 DEF repoPath, LimitOf
  <1>6. ASSUME NEW tip \in During(r) \ {Unborn}
        PROVE  /\ tip \in During(r)' \ {Unborn}
               /\ IsLogOf(printed, tip, path, limit) => IsLogOf(printed, tip, path, limit)'
               /\ WasAt(tip, path, rev) => WasAt(tip, path, rev)'
    <2>1. tip \in DOMAIN commits
      BY <1>3
    <2> QED
      BY <1>2, <1>3, <2>1, LogStays, WasAtStays
  <1>7. WasAt(Tip, path, rev) => WasAt(Tip, path, rev)'
    BY <1>2, TipDescends
  <1>8. ASSUME NEW tip \in During(r) \ {Unborn},
               IsLogOf(printed, tip, path, limit),
               call[r].op = "revision" /\ << call[r].path, rev >> \in known[r]
                    => WasAt(tip, path, rev)
        PROVE  \E t \in During(r)' \ {Unborn} :
                 /\ IsLogOf(printed, t, path, limit)'
                 /\ call[r].op = "revision" /\ << call[r].path, rev >> \in known[r]
                       => WasAt(t, path, rev)'
    BY <1>6, <1>8
  <1> QED
    BY <1>4, <1>5, <1>7, <1>8 DEF MayGoOn

LogBecomes(r, printed) ==
    /\ PerReader(log')
    /\ log'[r] = printed
    /\ \A q \in Readers \ {r} : log'[q] = log[q]

(* A reader that goes on to its next git command keeps the invariant. *)
LEMMA ContinueKeeps ==
    ASSUME WholeInv, NEW r \in Readers, NEW label, pc[r] # "idle",
           Continue(r, label), NEW printed \in Seq(DOMAIN commits),
           LogBecomes(r, printed), MayGoOn(r, label, printed)
    PROVE  WholeInv'
  <1>1. /\ ReadersTyped /\ ReaderInv(r)
        /\ UNCHANGED branchVars /\ root' = root /\ commits' = commits /\ tips' = tips
        /\ call' = call /\ answer' = answer /\ known' = known
        /\ began' = began /\ reads' = reads
        /\ pc' = [pc EXCEPT ![r] = label]
    BY DEF Continue, WholeInv, branchVars
  <1>2. /\ pc'[r] = label /\ log'[r] = printed
        /\ call'[r] = call[r] /\ answer'[r] = answer[r] /\ known'[r] = known[r]
        /\ began'[r] = began[r] /\ reads'[r] = reads[r]
    BY <1>1 DEF ReadersTyped, PerReader, LogBecomes
  <1>3. label \in {"listhead", "loghead", "blobs", "read"}
    BY DEF MayGoOn
  <1>4. ReadersTyped'
    BY <1>1, <1>3 DEF ReadersTyped, PerReader, PCs, LogBecomes
  <1>5. OnlyReader(r)
    BY <1>1 DEF OnlyReader, ReaderVars, ReadersTyped, PerReader, LogBecomes
  <1>6. CallInv(r) /\ KnownInv(r) /\ AnswerInv(r) /\ GraphInv
    BY <1>1 DEF ReaderInv, WholeInv
  <1>7. MayGoOn(r, label, printed)'
    BY <1>1, <1>2, <1>6, MayGoOnStays DEF CallInv
  <1>8. CallInv(r)'
    <2>1. Refusal(call[r])' = Refusal(call[r])
      BY <1>1 DEF Refusal, repoPath, listPrefix
    <2> QED
      BY <1>1, <1>2, <1>3, <1>6, <1>7, <2>1 DEF CallInv, PCs, MayGoOn
  <1>9. KnownInv(r)'
    BY <1>1, <1>2, <1>6, KnownStays
  <1>10. LogInv(r)'
    BY <1>2, <1>3, <1>7 DEF LogInv, MayGoOn
  <1>11. AnswerInv(r)'
    BY <1>2, <1>3, <1>6, NoAnswerYet DEF AnswerInv
  <1> QED
    BY <1>4, <1>5, <1>8, <1>9, <1>10, <1>11, ReaderSteps DEF ReaderInv

(* The log of a call that goes on as it is.                                *)
LEMMA LogKept ==
    ASSUME WholeInv, NEW r \in Readers, UNCHANGED log
    PROVE  LogBecomes(r, log[r]) /\ log[r] \in Seq(DOMAIN commits)
  <1>1. log[r] \in Seq(DOMAIN commits)
    BY DEF WholeInv, ReaderInv, CallInv
  <1> QED
    BY <1>1 DEF LogBecomes, PerReader, WholeInv, ReadersTyped

(* The ls-tree of List keeps the invariant. *)
LEMMA ListTreeKeeps ==
    ASSUME WholeInv, NEW r \in Readers, ListTree(r)
    PROVE  WholeInv'
  <1> DEFINE c == call[r].path
             listed == Listing(Tip, listPrefix(c))
  <1>1. pc[r] = "list" /\ pc[r] # "idle"
    BY DEF ListTree
  <1>2. /\ call[r] \in Calls /\ call[r].op = "list" /\ GraphInv /\ root \in Roots
        /\ c \in Seq(Segments)
        /\ << root, c >> # << Root, Root >> => IsPathspec(listPrefix(c))
    BY <1>1, UnderWay, CallTyped, RefusalMeans DEF CallInv
  <1>3. CASE Tip = Unborn
    <2>1. Continue(r, "listhead") /\ UNCHANGED log
      BY <1>3 DEF ListTree
    <2>2. MayGoOn(r, "listhead", log[r])
      BY <1>2 DEF MayGoOn
    <2> QED
      BY <1>1, <2>1, <2>2, LogKept, ContinueKeeps
  <1>4. CASE Tip # Unborn
    <2>1. Answer(r, [kind |-> "list", entries |-> listed], listed)
      BY <1>4 DEF ListTree
    <2>2. listed = ListedAt(Tip, c)
      BY <1>2, ListingIsListedAt
    <2>3. Tip \in During(r)
      BY <1>1, <1>4, UnderWay
    <2>4. ASSUME NEW pair \in listed
          PROVE  IsLearned(pair)
      <3>1. PICK q \in Paths :
                /\ TreeOf(Tip)[q] \in Blobs /\ contentPath(q) # NoPath
                /\ pair = << contentPath(q), TreeOf(Tip)[q] >>
        BY <2>4 DEF Listing, IsListed
      <3>2. /\ contentPath(q) \in Seq(Segments) /\ IsContentPath(contentPath(q))
            /\ repoPath(contentPath(q)) = q
        <4>1. q \in Seq(Segments)
          BY <1>2, RootIs
        <4> QED
          BY <1>2, <3>1, <4>1, NamesBack
      <3>3. EntryAt(Tip, q) = TreeOf(Tip)[q]
        BY DEF EntryAt
      <3>4. WasAt(Tip, q, TreeOf(Tip)[q])
        BY <1>2, <3>1, <3>3, EntryWasAt
      <3> QED
        BY <3>1, <3>2, <3>4 DEF IsLearned
    <2> HIDE DEF listed
    <2>5. Fits(call[r], [kind |-> "list", entries |-> listed], known[r] \cup listed, During(r))
      BY <1>2, <2>2, <2>3 DEF Fits, Kinds
    <2> QED
      BY <2>1, <2>4, <2>5, AnswerGives
  <1> QED
    BY <1>3, <1>4

(* So does the question for the head that follows a failed ls-tree. *)
LEMMA ListHeadKeeps ==
    ASSUME WholeInv, NEW r \in Readers, ListHead(r)
    PROVE  WholeInv'
  <1>1. pc[r] = "listhead" /\ pc[r] # "idle"
    BY DEF ListHead
  <1>2. call[r].op = "list"
    BY <1>1, UnderWay DEF CallInv
  <1>3. CASE Tip = Unborn
    <2>1. Answer(r, [kind |-> "list", entries |-> {}], {})
      BY <1>3 DEF ListHead
    <2>2. Unborn \in During(r)
      BY <1>1, <1>3, UnderWay
    <2>3. ListedAt(Unborn, call[r].path) = {}
      BY UnbornHasNothing DEF ListedAt
    <2>4. Fits(call[r], [kind |-> "list", entries |-> {}], known[r] \cup {}, During(r))
      BY <1>2, <2>2, <2>3 DEF Fits, Kinds
    <2> QED
      BY <2>1, <2>4, AnswerGives
  <1>4. CASE Tip # Unborn
    <2>1. Answer(r, Failure("failed"), {})
      BY <1>4 DEF ListHead
    <2>2. Fits(call[r], Failure("failed"), known[r] \cup {}, During(r))
      BY <1>2 DEF Fits, Kinds, Failure
    <2> QED
      BY <2>1, <2>2, AnswerGives
  <1> QED
    BY <1>3, <1>4

(* The git log of History and GetRevision keeps the invariant. *)
LEMMA LogKeeps ==
    ASSUME WholeInv, NEW r \in Readers, Log(r)
    PROVE  WholeInv'
  <1> DEFINE path == repoPath(call[r].path)
             limit == LimitOf(call[r])
             found == GitLog(path, limit)
  <1>1. pc[r] = "log" /\ pc[r] # "idle"
    BY DEF Log
  <1>2. /\ call[r] \in Calls /\ call[r].op \in {"history", "revision"} /\ GraphInv
        /\ KnownInv(r) /\ limit \in Nat
        /\ call[r].op = "revision" => limit = 0
    BY <1>1, UnderWay, CallTyped DEF CallInv
  <1>3. CASE Tip = Unborn
    <2>1. Continue(r, "loghead") /\ UNCHANGED log
      BY <1>3 DEF Log
    <2>2. MayGoOn(r, "loghead", log[r])
      BY <1>1, <1>2, <1>3, UnderWay DEF MayGoOn
    <2> QED
      BY <1>1, <2>1, <2>2, LogKept, ContinueKeeps
  <1>4. ASSUME << call[r].path, call[r].rev >> \in known[r]
        PROVE  call[r].rev \in Blobs /\ WasAt(Tip, path, call[r].rev)
    BY <1>2, <1>4 DEF KnownInv
  <1>5. CASE Tip # Unborn /\ found = << >>
    <2>1. Answer(r, Failure("notfound"), {})
      BY <1>5 DEF Log
    <2>2. /\ EntryAt(Tip, path) \notin Blobs
          /\ limit = 0 /\ IsLinear(Tip) => \A rev \in Blobs : ~WasAt(Tip, path, rev)
      <3>1. PICK all : all = found
        OBVIOUS
      <3> QED
        BY <1>2, <1>5, LogPrints
    <2>3. Tip \in During(r)
      BY <1>1, <1>5, UnderWay
    <2>4. Fits(call[r], Failure("notfound"), known[r], During(r))
      BY <1>2, <1>4, <2>2, <2>3 DEF Fits, Kinds, Failure
    <2> QED
      BY <2>1, <2>4, AnswerGives
  <1>6. CASE Tip # Unborn /\ found # << >>
    <2>1. log' = [log EXCEPT ![r] = found] /\ Continue(r, "blobs")
      BY <1>6 DEF Log
    <2>2. IsLogOf(found, Tip, path, limit)
      BY <1>2, <1>6, LogPrints
    <2>3. Tip \in During(r) \ {Unborn} /\ Tip \in DOMAIN commits
      BY <1>1, <1>6, UnderWay
    <2> HIDE DEF found
    <2>4. MayGoOn(r, "blobs", found)
      BY <1>2, <1>4, <2>2, <2>3 DEF MayGoOn
    <2>5. found \in Seq(DOMAIN commits)
      <3>1. found \in Seq(Ancestors(Tip))
        BY <2>2 DEF IsLogOf
      <3>2. Len(found) \in Nat /\ found \in [1..Len(found) -> DOMAIN commits]
        BY <1>2, <2>3, <3>1, AncestorsAre
      <3> QED
        BY <3>2, SeqDef
    <2>6. LogBecomes(r, found)
      BY <2>1 DEF LogBecomes, PerReader, WholeInv, ReadersTyped
    <2> QED
      BY <1>1, <2>1, <2>4, <2>5, <2>6, ContinueKeeps
  <1> QED
    BY <1>3, <1>5, <1>6

(* So does the question for the head that follows a failed log. *)
LEMMA LogHeadKeeps ==
    ASSUME WholeInv, NEW r \in Readers, LogHead(r)
    PROVE  WholeInv'
  <1>1. pc[r] = "loghead" /\ pc[r] # "idle"
    BY DEF LogHead
  <1>2. /\ began[r] = 0 /\ known[r] = {} /\ Unborn \in During(r)
        /\ call[r].op \in {"history", "revision"}
    BY <1>1, UnderWay DEF CallInv
  <1>3. PICK why \in {"notfound", "failed"} : Answer(r, Failure(why), {})
    BY DEF LogHead
  <1>4. Fits(call[r], Failure(why), known[r] \cup {}, During(r))
    BY <1>2, UnbornHasNothing DEF Fits, Kinds, Failure
  <1> QED
    BY <1>3, <1>4, AnswerGives

------------------------------------------------------------------------------
(***************************************************************************)
(* Reading the blobs; commits by others.                                   *)
(***************************************************************************)

(* The tips during a call are commits that the present tip descends from. *)
LEMMA InstantsAre ==
    ASSUME GraphInv, NEW r \in Readers, began[r] \in 0..Len(tips), NEW tip \in During(r) \ {Unborn}
    PROVE  tip \in DOMAIN commits /\ Ancestors(tip) \subseteq Ancestors(Tip)
  <1>1. DOMAIN tips = 1..Len(tips) /\ Len(tips) \in Nat
    BY TipTyped
  <1>2. PICK k \in (IF began[r] = 0 THEN 1 ELSE began[r])..Len(tips) : tip = tips[k]
    BY DEF During
  <1>3. k \in DOMAIN tips
    BY <1>1, <1>2
  <1> QED
    BY <1>2, <1>3, TipsAreAncestors

(* The cat-file of History's entries keeps the invariant. *)
LEMMA ReadBlobsKeeps ==
    ASSUME WholeInv, NEW r \in Readers, ReadBlobs(r)
    PROVE  WholeInv'
  <1> DEFINE path == repoPath(call[r].path)
             limit == LimitOf(call[r])
             revs == Revised(r)
             learned == {<< call[r].path, revs[k] >> : k \in DOMAIN revs}
  <1>1. pc[r] = "blobs" /\ pc[r] # "idle"
    BY DEF ReadBlobs
  <1>2. /\ call[r] \in Calls /\ call[r].op \in {"history", "revision"} /\ GraphInv
        /\ KnownInv(r) /\ LogInv(r) /\ began[r] \in 0..Len(tips)
        /\ call[r].op = "revision" => limit = 0
        /\ call[r].op = "history" => limit = call[r].limit
        /\ call[r].path \in Seq(Segments) /\ IsContentPath(call[r].path)
    <2>1. CallInv(r) /\ call[r] \in Calls /\ GraphInv /\ KnownInv(r) /\ LogInv(r)
      BY <1>1, UnderWay
    <2>2. call[r].op \in {"history", "revision"} /\ began[r] \in 0..Len(tips)
      BY <1>1, <2>1 DEF CallInv
    <2> QED
      BY <2>1, <2>2, CallTyped
  <1>3. PICK tip \in During(r) \ {Unborn} :
            /\ IsLogOf(log[r], tip, path, limit)
            /\ call[r].op = "revision" /\ << call[r].path, call[r].rev >> \in known[r]
                  => WasAt(tip, path, call[r].rev)
    BY <1>1, <1>2 DEF LogInv
  <1>4. tip \in DOMAIN commits /\ Ancestors(tip) \subseteq Ancestors(Tip)
    BY <1>2, InstantsAre
  <1>5. /\ revs \in Seq(Blobs)
        /\ limit = 0 => IF IsLinear(tip) THEN IsHistoryOf(revs, tip, path)
                        ELSE IsSomeOf(revs, tip, path)
        /\ EntryAt(tip, path) \in Blobs => revs # << >> /\ revs[1] = EntryAt(tip, path)
        /\ \A k \in DOMAIN revs : WasAt(tip, path, revs[k])
        /\ limit = 0 /\ IsLinear(tip) =>
              \A rev \in Blobs : WasAt(tip, path, rev) => rev \in ToSet(revs)
    <2>1. PICK printed, entries, answered, p, l :
            /\ printed = log[r] /\ entries = Resolved(r) /\ answered = revs
            /\ p = path /\ l = limit
      OBVIOUS
    <2>2. entries = [k \in DOMAIN printed |-> EntryAt(printed[k], p)] /\ answered = BlobsOf(entries)
      BY <2>1 DEF Resolved, Revised
    <2>3. IsLogOf(printed, tip, p, l)
      BY <1>3, <2>1
    <2>4. /\ answered \in Seq(Blobs)
          /\ l = 0 => IF IsLinear(tip) THEN IsHistoryOf(answered, tip, p)
                          ELSE IsSomeOf(answered, tip, p)
          /\ EntryAt(tip, p) \in Blobs => answered # << >> /\ answered[1] = EntryAt(tip, p)
          /\ \A k \in DOMAIN answered : WasAt(tip, p, answered[k])
          /\ l = 0 /\ IsLinear(tip) =>
                \A rev \in Blobs : WasAt(tip, p, rev) => rev \in ToSet(answered)
      BY <1>2, <1>4, <2>2, <2>3, HistoryAnswered
    <2> QED
      BY <2>1, <2>4
  <1> HIDE DEF revs
  <1>6. \A rev : WasAt(tip, path, rev) => WasAt(Tip, path, rev)
    BY <1>4 DEF WasAt
  <1>7. CASE call[r].op = "history"
    <2>1. Answer(r, [kind |-> "history", revs |-> revs], learned)
      BY <1>7 DEF ReadBlobs, revs
    <2>2. \A pair \in learned : IsLearned(pair)
      BY <1>2, <1>5, <1>6 DEF IsLearned
    <2> HIDE DEF learned
    <2>3. Fits(call[r], [kind |-> "history", revs |-> revs], known[r] \cup learned, During(r))
      BY <1>2, <1>3, <1>5, <1>7 DEF Fits, Kinds
    <2> QED
      BY <2>1, <2>2, <2>3, AnswerGives
  <1>8. CASE call[r].op = "revision" /\ call[r].rev \notin ToSet(revs)
    <2>1. Answer(r, Failure("notfound"), {})
      BY <1>8 DEF ReadBlobs, revs
    <2>2. ASSUME IsLinear(Tip)
          PROVE  << call[r].path, call[r].rev >> \notin known[r]
      <3>1. IsLinear(tip)
        BY <1>4, <2>2 DEF IsLinear
      <3>2. << call[r].path, call[r].rev >> \in known[r] => call[r].rev \in Blobs
        BY <1>2 DEF KnownInv
      <3> QED
        BY <1>2, <1>3, <1>5, <1>8, <3>1, <3>2
    <2>3. Fits(call[r], Failure("notfound"), known[r] \cup {}, During(r))
      BY <1>8, <2>2 DEF Fits, Kinds, Failure
    <2> QED
      BY <2>1, <2>3, AnswerGives
  <1>9. CASE call[r].op = "revision" /\ call[r].rev \in ToSet(revs)
    <2>1. Continue(r, "read") /\ UNCHANGED log
      BY <1>9 DEF ReadBlobs, revs
    <2>2. PICK k \in DOMAIN revs : revs[k] = call[r].rev
      BY <1>9 DEF ToSet
    <2>3. WasAt(Tip, path, call[r].rev)
      BY <1>5, <1>6, <2>2
    <2>4. MayGoOn(r, "read", log[r])
      BY <1>9, <2>3 DEF MayGoOn
    <2> QED
      BY <1>1, <2>1, <2>4, LogKept, ContinueKeeps
  <1> QED
    BY <1>2, <1>7, <1>8, <1>9

(* The cat-file of GetRevision keeps the invariant. *)
LEMMA ReadRevisionKeeps ==
    ASSUME WholeInv, NEW r \in Readers, ReadRevision(r)
    PROVE  WholeInv'
  <1>1. pc[r] = "read" /\ pc[r] # "idle"
    BY DEF ReadRevision
  <1>2. call[r].op = "revision" /\ WasAt(Tip, repoPath(call[r].path), call[r].rev)
    BY <1>1, UnderWay DEF CallInv, LogInv
  <1>3. Answer(r, Parsed(call[r].rev), {})
    BY DEF ReadRevision
  <1>4. /\ Parsed(call[r].rev).kind \in {"invalid", "document"}
        /\ Parsed(call[r].rev).kind = "invalid" => call[r].rev.shape = Damaged
        /\ Parsed(call[r].rev).kind = "document" => Parsed(call[r].rev).rev = call[r].rev
    BY DEF Parsed, Failure
  <1>5. Fits(call[r], Parsed(call[r].rev), known[r] \cup {}, During(r))
    BY <1>2, <1>4 DEF Fits, Kinds
  <1> QED
    BY <1>3, <1>5, AnswerGives

(* Appending the next number to a sequence of numbers, by positions. *)
LEMMA NextNumberAppended ==
    ASSUME NEW n \in Nat, NEW s \in Seq(1..n), NEW t, t = Append(s, n + 1)
    PROVE  /\ t \in Seq(1..(n + 1))
           /\ Len(s) \in Nat
           /\ Len(t) = Len(s) + 1
           /\ DOMAIN t = 1..(Len(s) + 1)
           /\ \A k \in 1..Len(s) : t[k] = s[k]
           /\ t[Len(s) + 1] = n + 1
  <1>1. n + 1 \in 1..(n + 1) /\ 1..n \subseteq 1..(n + 1)
    OBVIOUS
  <1>2. s \in Seq(1..(n + 1))
    <2>1. Len(s) \in Nat /\ s \in [1..Len(s) -> 1..(n + 1)]
      BY <1>1
    <2> QED
      BY <2>1, SeqDef
  <1>3. PICK S : S = 1..(n + 1)
    OBVIOUS
  <1>4. s \in Seq(S) /\ n + 1 \in S
    BY <1>1, <1>2, <1>3
  <1>5. /\ t \in Seq(S) /\ Len(s) \in Nat /\ Len(t) = Len(s) + 1
        /\ DOMAIN t = 1..(Len(s) + 1)
        /\ \A k \in 1..Len(s) : t[k] = s[k]
        /\ t[Len(s) + 1] = n + 1
    BY <1>4
  <1> QED
    BY <1>3, <1>5

(* Commits by others.                                                      *)
LEMMA CommitGrows ==
    ASSUME GraphInv, NEW tree \in Trees, IsWellFormed(tree),
           NEW parents \in Seq(DOMAIN commits), Commit(tree, parents), root' = root,
           \/ tips' = tips
           \/ /\ tips' = Append(tips, Len(commits'))
              /\ tips # << >> => \E k \in DOMAIN parents : parents[k] = Tip
    PROVE  Grows
  <1> DEFINE n == Len(commits)
             new == [tree |-> tree, parents |-> parents]
  <1>1. /\ commits \in Seq([tree: Trees, parents: Seq(Nat)])
        /\ n \in Nat /\ DOMAIN commits = 1..n
    BY DEF GraphInv, IsGraph
  <1>2. parents \in Seq(Nat) /\ \A k \in DOMAIN parents : parents[k] \in 1..n
    <2>1. \A k \in DOMAIN parents : parents[k] \in 1..n
      BY <1>1
    <2>2. Len(parents) \in Nat /\ parents \in [1..Len(parents) -> Nat]
      BY <1>1, <2>1
    <2> QED
      BY <2>1, <2>2, SeqDef
  <1>3. new \in [tree: Trees, parents: Seq(Nat)]
    BY <1>2
  <1>4. commits' = Append(commits, new)
    BY DEF Commit
  <1> HIDE DEF new
  <1>5. /\ commits' \in Seq([tree: Trees, parents: Seq(Nat)])
        /\ Len(commits') = n + 1 /\ DOMAIN commits' = 1..(n + 1)
        /\ \A c \in 1..n : commits'[c] = commits[c]
        /\ commits'[n + 1] = new
    BY <1>1, <1>3, <1>4
  <1>6. IsGraph(commits')
    <2>1. ASSUME NEW c \in 1..(n + 1), NEW k \in DOMAIN commits'[c].parents
          PROVE  commits'[c].parents[k] \in 1..(c - 1)
      <3>1. CASE c = n + 1
        BY <1>1, <1>2, <1>5, <2>1, <3>1 DEF new
      <3>2. CASE c # n + 1
        <4>1. c \in 1..n
          BY <1>1, <3>2
        <4> QED
          BY <1>1, <1>5, <2>1, <4>1 DEF GraphInv, IsGraph
      <3> QED
        BY <3>1, <3>2
    <2> QED
      BY <1>5, <2>1 DEF IsGraph
  <1>7. ASSUME NEW c \in 1..(n + 1)
        PROVE  IsWellFormed(commits'[c].tree)
    <2>1. CASE c = n + 1
      BY <1>5, <2>1 DEF new
    <2>2. CASE c # n + 1
      <3>1. c \in 1..n
        BY <1>1, <2>2
      <3> QED
        BY <1>1, <1>5, <3>1 DEF GraphInv
    <2> QED
      BY <2>1, <2>2
  <1>8. \A c \in 1..n : AncestorsIn(commits')[c] = AncestorsIn(commits)[c]
    <2>1. PICK g, h : g = commits /\ h = commits'
      OBVIOUS
    <2>2. /\ IsGraph(g) /\ IsGraph(h)
          /\ DOMAIN g \subseteq DOMAIN h /\ DOMAIN g = 1..n
          /\ \A c \in DOMAIN g : h[c] = g[c]
      BY <1>1, <1>5, <1>6, <2>1 DEF GraphInv
    <2>3. \A c \in DOMAIN g : AncestorsIn(h)[c] = AncestorsIn(g)[c]
      BY <2>2, AncestorsStay
    <2> QED
      BY <2>1, <2>2, <2>3
  <1>9. /\ tips \in Seq(1..n) /\ Len(tips) \in Nat /\ DOMAIN tips = 1..Len(tips)
        /\ \A k \in DOMAIN tips : tips[k] \in 1..n
        /\ \A k \in DOMAIN tips : k > 1 => tips[k - 1] \in Ancestors(tips[k])
    BY <1>1 DEF GraphInv
  <1>10. ASSUME NEW k \in DOMAIN tips
         PROVE  Ancestors(tips[k]) = AncestorsIn(commits')[tips[k]]
    <2>1. tips[k] \in 1..n /\ tips[k] # Unborn
      BY <1>9 DEF Unborn
    <2> QED
      BY <1>8, <2>1 DEF Ancestors
  <1>11. CASE tips' = tips
    <2>1. tips' \in Seq(DOMAIN commits')
      <3>1. tips \in [1..Len(tips) -> 1..(n + 1)]
        <4>1. \A k \in 1..Len(tips) : tips[k] \in 1..(n + 1)
          BY <1>1, <1>9
        <4> QED
          BY <1>9, <4>1
      <3> QED
        BY <1>5, <1>9, <1>11, <3>1, SeqDef
    <2>2. \A k \in DOMAIN tips' : k > 1 => tips'[k - 1] \in Ancestors(tips[k])'
      <3>1. ASSUME NEW k \in DOMAIN tips, k > 1
            PROVE  tips[k - 1] \in Ancestors(tips[k])'
        <4>1. tips[k] # Unborn
          BY <1>9 DEF Unborn
        <4>2. Ancestors(tips[k])' = AncestorsIn(commits')[tips[k]]
          BY <1>11, <4>1 DEF Ancestors
        <4> QED
          BY <1>9, <1>10, <3>1, <4>2
      <3> QED
        BY <1>11, <3>1
    <2>3. GraphInv'
      BY <1>5, <1>6, <1>7, <2>1, <2>2 DEF GraphInv
    <2> QED
      BY <1>1, <1>5, <1>9, <1>11, <2>3 DEF Grows
  <1>12. CASE /\ tips' = Append(tips, Len(commits'))
              /\ tips # << >> => \E k \in DOMAIN parents : parents[k] = Tip
    <2> DEFINE m == Len(tips)
    <2>1. /\ Len(tips') = m + 1 /\ DOMAIN tips' = 1..(m + 1)
          /\ \A k \in 1..m : tips'[k] = tips[k]
          /\ tips'[m + 1] = n + 1
      <3>1. PICK s, t : s = tips /\ t = tips'
        OBVIOUS
      <3>2. s \in Seq(1..n) /\ t = Append(s, n + 1)
        BY <1>5, <1>9, <1>12, <3>1
      <3>3. /\ Len(t) = Len(s) + 1
            /\ DOMAIN t = 1..(Len(s) + 1)
            /\ \A k \in 1..Len(s) : t[k] = s[k]
            /\ t[Len(s) + 1] = n + 1
        BY <1>1, <3>2, NextNumberAppended
      <3> QED
        BY <3>1, <3>3
    <2>2. tips' \in Seq(DOMAIN commits')
      <3>1. PICK s, t : s = tips /\ t = tips'
        OBVIOUS
      <3>2. s \in Seq(1..n) /\ t = Append(s, n + 1)
        BY <1>5, <1>9, <1>12, <3>1
      <3>3. t \in Seq(1..(n + 1))
        BY <1>1, <3>2, NextNumberAppended
      <3> QED
        BY <1>5, <3>1, <3>3
    <2>3. ASSUME NEW k \in DOMAIN tips', k > 1
          PROVE  tips'[k - 1] \in Ancestors(tips[k])'
      <3>1. CASE k = m + 1
        <4>1. m \in DOMAIN tips /\ tips # << >> /\ tips'[k - 1] = tips[m] /\ tips[m] = Tip
          <5>1. m \in 1..m /\ k - 1 = m
            BY <1>9, <2>3, <3>1
          <5>2. tips # << >>
            BY <1>9, <5>1
          <5> QED
            BY <1>9, <2>1, <5>1, <5>2, TipTyped
        <4>2. PICK j \in DOMAIN parents : parents[j] = Tip
          BY <1>12, <4>1
        <4>3. n + 1 \in DOMAIN commits' /\ commits'[n + 1].parents = parents
          BY <1>1, <1>5 DEF new
        <4>4. AncestorsIn(commits')[parents[j]] \subseteq AncestorsIn(commits')[n + 1]
          BY <1>6, <4>3, AncestorsOfParents
        <4>5. Tip \in AncestorsIn(commits')[Tip]
          <5>1. Tip \in Ancestors(Tip)
            BY <4>1, TipTyped, AncestorsAre
          <5> QED
            BY <1>10, <4>1, <5>1
        <4>6. Ancestors(tips[k])' = AncestorsIn(commits')[n + 1]
          <5>1. tips'[k] = n + 1 /\ n + 1 # Unborn
            BY <1>1, <2>1, <3>1 DEF Unborn
          <5> QED
            BY <5>1 DEF Ancestors
        <4> QED
          BY <4>1, <4>2, <4>4, <4>5, <4>6
      <3>2. CASE k # m + 1
        <4>1. k \in DOMAIN tips /\ k - 1 \in 1..m
          BY <1>9, <2>1, <2>3, <3>2
        <4>2. tips'[k] = tips[k] /\ tips'[k - 1] = tips[k - 1] /\ tips[k] # Unborn
          BY <1>9, <2>1, <4>1 DEF Unborn
        <4>3. Ancestors(tips[k])' = AncestorsIn(commits')[tips[k]]
          BY <4>2 DEF Ancestors
        <4> QED
          BY <1>9, <1>10, <2>3, <4>1, <4>2, <4>3
      <3> QED
        BY <3>1, <3>2
    <2>4. GraphInv'
      BY <1>5, <1>6, <1>7, <2>2, <2>3 DEF GraphInv
    <2>5. m <= m + 1 /\ 1..m \subseteq 1..(m + 1)
      BY <1>9
    <2> QED
      BY <1>1, <1>5, <1>9, <2>1, <2>4, <2>5 DEF Grows
  <1> QED
    BY <1>11, <1>12

(* A growth of the branch while all readers wait keeps the invariant. *)
LEMMA BranchSteps ==
    ASSUME WholeInv, ReadersWait, Grows
    PROVE  WholeInv'
  <1>1. /\ pc' = pc /\ call' = call /\ log' = log /\ answer' = answer
        /\ known' = known /\ began' = began /\ reads' = reads
    BY DEF ReadersWait
  <1>2. \A r \in Readers : ReaderVars(r)' = ReaderVars(r)
    BY <1>1 DEF ReaderVars
  <1>3. ReadersTyped'
    BY <1>1 DEF WholeInv, ReadersTyped, PerReader
  <1>4. ASSUME NEW r \in Readers
        PROVE  ReaderInv(r)'
    BY <1>2, ReaderStays DEF WholeInv
  <1> QED
    BY <1>3, <1>4 DEF WholeInv, Grows

------------------------------------------------------------------------------
(***************************************************************************)
(* The invariant and what follows from it.                                 *)
(***************************************************************************)

(* The tree at a commit, or of the unborn branch, is well formed. *)
LEMMA TreeTyped ==
    ASSUME GraphInv, NEW c \in DOMAIN commits \cup {Unborn}
    PROVE  TreeOf(c) \in Trees /\ IsWellFormed(TreeOf(c))
  <1>1. CASE c = Unborn
    BY <1>1, EmptyTreeForm DEF TreeOf
  <1>2. CASE c # Unborn
    <2>1. commits[c].tree \in Trees
      BY <1>2, CommitTyped DEF GraphInv
    <2> QED
      BY <1>2, <2>1 DEF TreeOf, GraphInv
  <1> QED
    BY <1>1, <1>2

(* A commit on the branch keeps the invariant. *)
LEMMA BranchMovesKeeps == WholeInv /\ BranchMoves => WholeInv'
  <1> SUFFICES ASSUME WholeInv, BranchMoves
               PROVE  WholeInv'
    OBVIOUS
  <1>1. GraphInv
    BY DEF WholeInv
  <1>2. PICK edit \in WriterEdits :
            Commit(UpdateIndex(TreeOf(Tip), edit), IF Tip = Unborn THEN << >> ELSE << Tip >>)
    BY DEF BranchMoves
  <1>3. tips' = Append(tips, Len(commits')) /\ ReadersWait /\ root' = root
    BY DEF BranchMoves, ReadersWait
  <1>4. PICK parents : parents = IF Tip = Unborn THEN << >> ELSE << Tip >>
    OBVIOUS
  <1>5. PICK tree : tree = UpdateIndex(TreeOf(Tip), edit)
    OBVIOUS
  <1>6. /\ Tip \in DOMAIN commits \cup {Unborn}
        /\ Tip = Unborn <=> tips = << >>
    BY <1>1, TipTyped
  <1>7. tree \in Trees /\ IsWellFormed(tree)
    <2>1. edit \in Edits
      BY GitReadsAssumption
    <2>2. TreeOf(Tip) \in Trees /\ IsWellFormed(TreeOf(Tip))
      BY <1>1, <1>6, TreeTyped
    <2> QED
      BY <1>5, <2>1, <2>2, UpdateIndexKeepsForm
  <1>8. /\ parents \in Seq(DOMAIN commits)
        /\ tips # << >> => \E k \in DOMAIN parents : parents[k] = Tip
    <2>1. CASE Tip = Unborn
      BY <1>4, <1>6, <2>1
    <2>2. CASE Tip # Unborn
      <3>1. parents = << Tip >> /\ Tip \in DOMAIN commits
        BY <1>4, <1>6, <2>2
      <3>2. 1 \in DOMAIN parents /\ parents[1] = Tip
        BY <3>1
      <3>3. parents \in Seq(DOMAIN commits)
        BY <3>1
      <3> QED
        BY <3>2, <3>3
    <2> QED
      BY <2>1, <2>2
  <1>9. Grows
    BY <1>1, <1>2, <1>3, <1>4, <1>5, <1>7, <1>8, CommitGrows
  <1> QED
    BY <1>3, <1>9, BranchSteps

(* So does a commit beside it, which no tip reaches yet. *)
LEMMA CommitBesideKeeps == WholeInv /\ CommitBeside => WholeInv'
  <1> SUFFICES ASSUME WholeInv, CommitBeside
               PROVE  WholeInv'
    OBVIOUS
  <1>1. GraphInv
    BY DEF WholeInv
  <1>2. PICK edit \in SideEdits, parent \in DOMAIN commits :
            Commit(UpdateIndex(TreeOf(parent), edit), << parent >>)
    BY DEF CommitBeside
  <1>3. tips' = tips /\ ReadersWait /\ root' = root
    BY DEF CommitBeside, ReadersWait
  <1>4. PICK tree, parents : tree = UpdateIndex(TreeOf(parent), edit) /\ parents = << parent >>
    OBVIOUS
  <1>5. tree \in Trees /\ IsWellFormed(tree)
    <2>1. edit \in Edits
      BY GitReadsAssumption
    <2>2. TreeOf(parent) \in Trees /\ IsWellFormed(TreeOf(parent))
      BY <1>1, TreeTyped
    <2> QED
      BY <1>4, <2>1, <2>2, UpdateIndexKeepsForm
  <1>6. parents \in Seq(DOMAIN commits)
    BY <1>4
  <1>7. Grows
    BY <1>1, <1>2, <1>3, <1>4, <1>5, <1>6, CommitGrows
  <1> QED
    BY <1>3, <1>7, BranchSteps

(* So does the merge of one. *)
LEMMA MergeKeeps == WholeInv /\ Merge => WholeInv'
  <1> SUFFICES ASSUME WholeInv, Merge
               PROVE  WholeInv'
    OBVIOUS
  <1>1. GraphInv
    BY DEF WholeInv
  <1>2. PICK side \in DOMAIN commits : \E tree \in Merged(TreeOf(Tip), TreeOf(side)) :
            Commit(tree, << Tip, side >>)
    BY DEF Merge
  <1>3. PICK tree \in Merged(TreeOf(Tip), TreeOf(side)) : Commit(tree, << Tip, side >>)
    BY <1>2
  <1>4. tips' = Append(tips, Len(commits')) /\ ReadersWait /\ root' = root /\ Tip # Unborn
    BY DEF Merge, ReadersWait
  <1>5. Tip \in DOMAIN commits
    BY <1>1, <1>4, TipTyped
  <1>6. tree \in Trees /\ IsWellFormed(tree)
    <2>1. TreeOf(Tip) \in Trees /\ TreeOf(side) \in Trees
      BY <1>1, <1>5, TreeTyped
    <2> QED
      BY <2>1, MergedKeepsForm
  <1>7. PICK parents : parents = << Tip, side >>
    OBVIOUS
  <1>8. /\ parents \in Seq(DOMAIN commits)
        /\ \E k \in DOMAIN parents : parents[k] = Tip
    <2>1. 1 \in DOMAIN parents /\ parents[1] = Tip
      BY <1>7
    <2>2. parents \in Seq(DOMAIN commits)
      BY <1>5, <1>7
    <2> QED
      BY <2>1, <2>2
  <1>9. Grows
    BY <1>1, <1>3, <1>4, <1>6, <1>7, <1>8, CommitGrows
  <1> QED
    BY <1>4, <1>9, BranchSteps

(* The invariant holds initially. *)
LEMMA InitHolds == Init => WholeInv
  <1> SUFFICES ASSUME Init
               PROVE  WholeInv
    OBVIOUS
  <1>1. GraphInv
    <2>1. root \in Roots
      BY DEF Init
    <2>2. CASE commits = << >> /\ tips = << >>
      BY <2>1, <2>2 DEF GraphInv, IsGraph
    <2>3. ASSUME NEW tree \in InitialTrees,
                 commits = << [tree |-> tree, parents |-> << >>] >>, tips = << 1 >>
          PROVE  GraphInv
      <3>1. tree \in Trees /\ IsWellFormed(tree)
        BY GitReadsAssumption
      <3>2. << >> \in Seq(Nat)
        OBVIOUS
      <3>3. [tree |-> tree, parents |-> << >>] \in [tree: Trees, parents: Seq(Nat)]
        BY <3>1, <3>2
      <3>4. PICK new : new = [tree |-> tree, parents |-> << >>]
        OBVIOUS
      <3>5. /\ commits \in Seq([tree: Trees, parents: Seq(Nat)])
            /\ DOMAIN commits = {1} /\ commits[1] = new
        BY <2>3, <3>3, <3>4
      <3>6. new.tree = tree /\ new.parents = << >>
        BY <3>4
      <3>7. tips \in Seq({1}) /\ DOMAIN tips = {1}
        BY <2>3
      <3> QED
        BY <2>1, <3>1, <3>5, <3>6, <3>7 DEF GraphInv, IsGraph
    <2> QED
      BY <2>2, <2>3 DEF Init
  <1>2. ReadersTyped
    BY DEF Init, ReadersTyped, PerReader, PCs
  <1>3. ASSUME NEW r \in Readers
        PROVE  ReaderInv(r)
    <2>1. /\ pc[r] = "idle" /\ call[r] = [op |-> "none"] /\ log[r] = << >>
          /\ answer[r] = Failure("none") /\ known[r] = {} /\ began[r] = 0 /\ reads[r] = 0
      BY DEF Init
    <2>2. Len(tips) \in Nat /\ MaxReads \in Nat
      BY <1>1, TipTyped, GitReadsAssumption
    <2>3. << >> \in Seq(DOMAIN commits)
      OBVIOUS
    <2>4. CallInv(r)
      BY <2>1, <2>2, <2>3 DEF CallInv, PCs
    <2>5. call[r].op = "none"
      BY <2>1
    <2>6. AnswerInv(r)
      BY <2>1, <2>5 DEF AnswerInv, RevisionIsRead, InThePath, HistoryIs, HistoryBegins, ListIs,
                        Ended, Failure, Kinds
    <2> QED
      BY <2>1, <2>4, <2>6 DEF ReaderInv, KnownInv, LogInv
  <1> QED
    BY <1>1, <1>2, <1>3 DEF WholeInv

(* Every step of a reader keeps the invariant. *)
LEMMA ReadersKeep ==
    ASSUME WholeInv, NEW r \in Readers, Ask(r) \/ Progress(r) \/ GiveUp(r)
    PROVE  WholeInv'
  BY AskKeeps, GiveUpKeeps, GetKeeps, ListTreeKeeps, ListHeadKeeps, LogKeeps, LogHeadKeeps,
     ReadBlobsKeeps, ReadRevisionKeeps DEF Progress

(* So does a stuttering step. *)
LEMMA NothingHappens == WholeInv /\ UNCHANGED vars => WholeInv'
  <1> SUFFICES ASSUME WholeInv, UNCHANGED vars
               PROVE  WholeInv'
    OBVIOUS
  <1>1. UNCHANGED branchVars /\ ReadersWait
    BY DEF vars, branchVars, ReadersWait
  <1>2. Grows
    BY <1>1, GraphStays DEF WholeInv
  <1> QED
    BY <1>1, <1>2, BranchSteps

(* The invariant is inductive. *)
LEMMA NextHolds == WholeInv /\ [Next]_vars => WholeInv'
  BY ReadersKeep, BranchMovesKeeps, CommitBesideKeeps, MergeKeeps, NothingHappens
  DEF Next, AllAnswered

(* The invariant contains the types. *)
LEMMA TypeFollows ==
    ASSUME WholeInv
    PROVE  TypeOK
  <1>1. GraphInv /\ ReadersTyped
    BY DEF WholeInv
  <1>2. \A i \in DOMAIN commits :
            commits[i].tree \in Trees /\ ToSet(commits[i].parents) \subseteq 1..(i - 1)
    BY <1>1, CommitTyped DEF GraphInv, IsGraph, ToSet
  <1>3. ToSet(tips) \subseteq DOMAIN commits
    <2>1. \A k \in DOMAIN tips : tips[k] \in DOMAIN commits
      BY <1>1, TipsAreAncestors
    <2> QED
      BY <2>1 DEF ToSet
  <1>4. ASSUME NEW r \in Readers
        PROVE  /\ call[r] \in Calls \cup {[op |-> "none"]}
               /\ ToSet(log[r]) \subseteq DOMAIN commits
               /\ known[r] \subseteq {p \in Seq(Segments) : IsContentPath(p)} \X Blobs
               /\ began[r] \in 0..Len(tips)
               /\ reads[r] \in 0..MaxReads
               /\ answer[r].kind \in Kinds
    <2>1. CallInv(r) /\ KnownInv(r) /\ AnswerInv(r)
      BY DEF WholeInv, ReaderInv
    <2>2. ToSet(log[r]) \subseteq DOMAIN commits
      BY <2>1 DEF CallInv, ToSet
    <2>3. known[r] \subseteq {p \in Seq(Segments) : IsContentPath(p)} \X Blobs
      BY <2>1 DEF KnownInv
    <2> QED
      BY <2>1, <2>2, <2>3 DEF CallInv, AnswerInv
  <1> QED
    BY <1>1, <1>2, <1>3, <1>4 DEF TypeOK, GraphInv, ReadersTyped, Kinds

(* The invariant implies every property of the answers that the runs check. *)
LEMMA AnswersFollow ==
    ASSUME WholeInv
    PROVE  /\ UnmergedRevisionsStayReadable
           /\ GetRevisionStaysInThePath
           /\ HistoryIsOfOneInstant
           /\ HistoryBeginsAtTheTip
           /\ ListIsOfOneInstant
  <1>1. \A r \in Readers : AnswerInv(r)
    BY DEF WholeInv, ReaderInv
  <1>2. UnmergedRevisionsStayReadable
    BY <1>1 DEF AnswerInv, UnmergedRevisionsStayReadable
  <1>3. GetRevisionStaysInThePath
    BY <1>1 DEF AnswerInv, InThePath, WasAt, GetRevisionStaysInThePath
  <1>4. HistoryIsOfOneInstant
    BY <1>1 DEF AnswerInv, HistoryIs, HistoryIsOfOneInstant
  <1>5. HistoryBeginsAtTheTip
    BY <1>1 DEF AnswerInv, HistoryBegins, BeginsWith, HistoryBeginsAtTheTip
  <1>6. ListIsOfOneInstant
    BY <1>1 DEF AnswerInv, ListIs, ListedAt, ListIsOfOneInstant
  <1> QED
    BY <1>2, <1>3, <1>4, <1>5, <1>6

(* The invariant implies ReadsInv, the conjunction the runs check. *)
LEMMA AllFollow == WholeInv => ReadsInv
  BY TypeFollows, AnswersFollow DEF WholeInv, ReaderInv, ReadsInv, ReadersTyped

(* The inductive invariant holds however many readers call and however     *)
(* often the branch moves meanwhile.                                       *)
THEOREM InvariantHolds == Spec => []ReadsInv
  BY InitHolds, NextHolds, AllFollow, PTL DEF Spec

(* The variables have the types the four read methods give them, and the   *)
(* branch only ever moved to descendants of its tip.                       *)
THEOREM TypeCorrect == Spec => []TypeOK
  <1>1. ReadsInv => TypeOK
    BY DEF ReadsInv
  <1> QED
    BY <1>1, InvariantHolds, PTL

(* A revision that Get, List or History gave for a path is one that        *)
(* GetRevision finds there, for as long as no merge has reached the        *)
(* branch.                                                                 *)
THEOREM RevisionsStayReadable == Spec => []UnmergedRevisionsStayReadable
  <1>1. ReadsInv => UnmergedRevisionsStayReadable
    BY DEF ReadsInv
  <1> QED
    BY <1>1, InvariantHolds, PTL

(* GetRevision hands out what it was asked for, and only what the branch   *)
(* has had at that very path.                                              *)
THEOREM RevisionsStayInThePath == Spec => []GetRevisionStaysInThePath
  <1>1. ReadsInv => GetRevisionStaysInThePath
    BY DEF ReadsInv
  <1> QED
    BY <1>1, InvariantHolds, PTL

(* An unlimited History is every version the document had on the branch at *)
(* one instant of the call, and where there are merges nothing else.       *)
THEOREM HistoriesAreOfOneInstant == Spec => []HistoryIsOfOneInstant
  <1>1. ReadsInv => HistoryIsOfOneInstant
    BY DEF ReadsInv
  <1> QED
    BY <1>1, InvariantHolds, PTL

(* Whatever the limit and the merges, History begins with the document as  *)
(* it was at one instant of the call.                                      *)
THEOREM HistoriesBeginAtTheTip == Spec => []HistoryBeginsAtTheTip
  <1>1. ReadsInv => HistoryBeginsAtTheTip
    BY DEF ReadsInv
  <1> QED
    BY <1>1, InvariantHolds, PTL

(* List is the documents of one instant of the call, all of the collection *)
(* that can be asked for, under the names to ask for them.                 *)
THEOREM ListingsAreOfOneInstant == Spec => []ListIsOfOneInstant
  <1>1. ReadsInv => ListIsOfOneInstant
    BY DEF ReadsInv
  <1> QED
    BY <1>1, InvariantHolds, PTL
==============================================================================
