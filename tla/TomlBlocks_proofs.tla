------------------------- MODULE TomlBlocks_proofs --------------------------
(***************************************************************************)
(* Proofs about TomlBlocks.  tomlTopLevelKeys finds the top-level keys of  *)
(* every block the author of TomlBlocks writes and of every block the      *)
(* encoder writes, in their order; an edit moves none of them; and what is *)
(* written is read back, given that tomlKeyOrder and the library agree on  *)
(* which values are tables.                                                *)
(*                                                                         *)
(* The lexer is a set of recursive functions over positions of the block,  *)
(* and each is first shown to satisfy its equation.  A lemma then says     *)
(* what the lexer does at a piece of text wherever it stands: a string, a  *)
(* value, a key, a line.  The pieces put together say the same of a line   *)
(* of the author and of a field of the encoder, and the inductive          *)
(* invariant says it of the whole block.                                   *)
(***************************************************************************)
EXTENDS TomlBlocks, SequenceTheorems, FiniteSetTheorems, WellFoundedInduction, TLAPS

------------------------------------------------------------------------------
(***************************************************************************)
(* Recursive functions.  Each of the model's is defined at an element from *)
(* its values at elements of a smaller measure, so it exists and satisfies *)
(* its own equation.                                                       *)
(***************************************************************************)

(* A nonempty set of natural numbers has a least element. *)
LEMMA LeastNumber ==
    ASSUME NEW S, S \subseteq Nat, S # {}
    PROVE  \E m \in S : \A n \in S : m <= n
<1>1. PICK m \in S : \A n \in S : <<n, m>> \notin OpToRel(<, Nat)
    BY NatLessThanWellFounded, WFMin
<1>2. ASSUME NEW n \in S
      PROVE  m <= n
    <2>1. <<n, m>> \notin {pair \in Nat \X Nat : pair[1] < pair[2]}
        BY <1>1 DEF OpToRel
    <2>2. ~(n < m) /\ m \in Nat /\ n \in Nat
        BY <2>1
    <2> QED
        BY <2>2
<1> QED
    BY <1>2

(* A property of all elements of a measured set follows at an element from *)
(* its smaller ones: Bad has no least element.                             *)
LEMMA NoLeast ==
    ASSUME NEW S, NEW m \in [S -> Nat], NEW Bad \in SUBSET S,
           \A x \in Bad : \E y \in Bad : m[y] < m[x]
    PROVE  Bad = {}
<1> SUFFICES ASSUME Bad # {} PROVE FALSE
    OBVIOUS
<1> DEFINE M == {m[x] : x \in Bad}
<1>1. M \subseteq Nat /\ M # {}
    OBVIOUS
<1>2. PICK k \in M : \A n \in M : k <= n
    <2> HIDE DEF M
    <2> QED
        BY <1>1, LeastNumber
<1>3. PICK x \in Bad : k = m[x]
    OBVIOUS
<1>4. PICK y \in Bad : m[y] < m[x]
    OBVIOUS
<1>5. m[y] \in M /\ m[y] \in Nat /\ m[x] \in Nat
    OBVIOUS
<1> HIDE DEF M
<1>6. m[x] <= m[y]
    BY <1>2, <1>3, <1>5
<1> QED
    BY <1>4, <1>5, <1>6

(* The functions on S whose value at x is in T[x]. *)
Typed(S, T) ==
    {f \in [S -> UNION {T[x] : x \in S}] : \A x \in S : f[x] \in T[x]}

(* The body G of a definition gives values of T, and its value at x rests  *)
(* on those of smaller measure.                                            *)
IsRecursion(G, S, T, m) ==
    /\ \A x \in S : T[x] # {}
    /\ \A x \in S : \A f \in Typed(S, T) : G[x][f] \in T[x]
    /\ \A x \in S : \A f, g \in Typed(S, T) :
           (\A y \in S : m[y] < m[x] => f[y] = g[y]) => G[x][f] = G[x][g]

(* f satisfies, at every element of S, the equation that G gives. *)
IsSolution(f, G, S) == \A x \in S : f[x] = G[x][f]

(* A function whose values are of T is one of Typed. *)
LEMMA TypedIntro ==
    ASSUME NEW S, NEW T, NEW f, f = [x \in S |-> f[x]], \A x \in S : f[x] \in T[x]
    PROVE  f \in Typed(S, T)
<1>1. \A x \in S : f[x] \in UNION {T[y] : y \in S}
    OBVIOUS
<1>2. f \in [S -> UNION {T[y] : y \in S}]
    BY <1>1
<1> QED
    BY <1>2 DEF Typed

(* Such a definition has a solution. *)
LEMMA RecursionOnMeasure ==
    ASSUME NEW S, NEW T, NEW m \in [S -> Nat], NEW n \in Nat,
           \A x \in S : m[x] < n, NEW G, IsRecursion(G, S, T, m)
    PROVE  \E f \in Typed(S, T) : IsSolution(f, G, S)
<1> DEFINE Fits(f, k) == \A x \in S : m[x] < k => f[x] = G[x][f]
           Bad == {k \in Nat : ~\E f \in Typed(S, T) : Fits(f, k)}
<1>1. ASSUME Bad # {}
      PROVE  FALSE
    <2>1. PICK k \in Bad : \A j \in Bad : k <= j
        <3> HIDE DEF Fits
        <3>1. Bad \subseteq Nat
            OBVIOUS
        <3> HIDE DEF Bad
        <3> QED
            BY <1>1, <3>1, LeastNumber
    <2>2. k # 0
        <3> DEFINE f == [x \in S |-> CHOOSE v \in T[x] : TRUE]
        <3>1. \A x \in S : f[x] \in T[x]
            BY DEF IsRecursion
        <3>2. f = [x \in S |-> f[x]]
            OBVIOUS
        <3> HIDE DEF f
        <3>3. f \in Typed(S, T)
            BY <3>1, <3>2, TypedIntro
        <3>4. \A x \in S : ~(m[x] < 0)
            OBVIOUS
        <3>5. Fits(f, 0)
            BY <3>4
        <3> QED
            BY <2>1, <3>3, <3>5
    <2>3. k - 1 \in Nat /\ k - 1 \notin Bad
        <3> HIDE DEF Fits
        <3>1. k \in Nat
            OBVIOUS
        <3> HIDE DEF Bad
        <3> QED
            BY <2>1, <2>2, <3>1
    <2>4. PICK f \in Typed(S, T) : Fits(f, k - 1)
        BY <2>3
    <2> DEFINE h == [x \in S |-> IF m[x] < k - 1 THEN f[x] ELSE G[x][f]]
    <2>5. \A x \in S : h[x] = IF m[x] < k - 1 THEN f[x] ELSE G[x][f]
        OBVIOUS
    <2>6. h \in Typed(S, T)
        <3>1. \A x \in S : f[x] \in T[x] /\ G[x][f] \in T[x]
            BY DEF IsRecursion, Typed
        <3>2. \A x \in S : h[x] \in T[x]
            BY <3>1, <2>5
        <3>3. h = [x \in S |-> h[x]]
            OBVIOUS
        <3> HIDE DEF h
        <3> QED
            BY <3>2, <3>3, TypedIntro
    <2> HIDE DEF h
    <2>7. ASSUME NEW x \in S, m[x] < k
          PROVE  h[x] = G[x][h]
        <3>1. ASSUME NEW y \in S, m[y] < m[x]
              PROVE  f[y] = h[y]
            <4>1. m[y] \in Nat /\ m[x] \in Nat /\ k \in Nat
                OBVIOUS
            <4>2. m[y] < k - 1
                BY <4>1, <3>1, <2>7
            <4> QED
                BY <4>2, <2>5
        <3>2. G[x][f] = G[x][h]
            BY <3>1, <2>6 DEF IsRecursion
        <3>3. h[x] = G[x][f]
            BY <2>5, <2>4
        <3> QED
            BY <3>2, <3>3
    <2>8. Fits(h, k)
        BY <2>7
    <2> QED
        BY <2>1, <2>6, <2>8
<1>2. n \notin Bad
    BY <1>1
<1> QED
    BY <1>2 DEF IsSolution

(* The positions of a block, measured from its end. *)
FromEnd(b) == [j \in Positions(b) |-> Len(b) + 1 - j]

(* The end of the block measures nothing, and a later position less. *)
LEMMA PositionsMeasured ==
    ASSUME NEW b \in Seq(Marks)
    PROVE  /\ FromEnd(b) \in [Positions(b) -> Nat]
           /\ Len(b) + 1 \in Nat
           /\ \A j \in Positions(b) : FromEnd(b)[j] < Len(b) + 1
           /\ \A i, j \in Positions(b) : FromEnd(b)[i] < FromEnd(b)[j] <=> i > j
<1>1. Len(b) \in Nat
    OBVIOUS
<1>2. \A j \in Positions(b) : j \in Nat /\ j <= Len(b) + 1 /\ 1 <= j
    BY <1>1 DEF Positions
<1>3. \A j \in Positions(b) : Len(b) + 1 - j \in Nat /\ Len(b) + 1 - j < Len(b) + 1
    BY <1>1, <1>2
<1>4. ASSUME NEW i \in Positions(b), NEW j \in Positions(b)
      PROVE  FromEnd(b)[i] < FromEnd(b)[j] <=> i > j
    <2>1. i \in Nat /\ j \in Nat
        BY <1>2
    <2>2. Len(b) + 1 - i < Len(b) + 1 - j <=> i > j
        BY <1>1, <2>1
    <2> QED
        BY <2>2 DEF FromEnd
<1> QED
    BY <1>1, <1>3, <1>4 DEF FromEnd

(* The body of a definition on the positions of b gives values of T, and   *)
(* its value at a position rests on those at later ones.                   *)
IsScan(G, b, T) ==
    /\ \A i \in Positions(b) : T[i] # {}
    /\ \A i \in Positions(b) : \A f \in Typed(Positions(b), T) : G[i][f] \in T[i]
    /\ \A i \in Positions(b) : \A f, g \in Typed(Positions(b), T) :
           (\A j \in Positions(b) : j > i => f[j] = g[j]) => G[i][f] = G[i][g]

(* Such a definition has a solution. *)
LEMMA ScanExists ==
    ASSUME NEW b \in Seq(Marks), NEW T, NEW G, IsScan(G, b, T)
    PROVE  \E f \in Typed(Positions(b), T) : \A i \in Positions(b) : f[i] = G[i][f]
<1> DEFINE S == Positions(b)
           m == FromEnd(b)
           n == Len(b) + 1
<1>1. m \in [S -> Nat] /\ n \in Nat /\ \A x \in S : m[x] < n
    BY PositionsMeasured
<1>2. ASSUME NEW i \in S, NEW f \in Typed(S, T), NEW g \in Typed(S, T),
             \A j \in S : m[j] < m[i] => f[j] = g[j]
      PROVE  G[i][f] = G[i][g]
    <2>1. \A j \in S : j > i => m[j] < m[i]
        BY PositionsMeasured
    <2>2. \A j \in S : j > i => f[j] = g[j]
        BY <2>1, <1>2
    <2> QED
        BY <2>2 DEF IsScan
<1> HIDE DEF S, m, n
<1>3. IsRecursion(G, S, T, m)
    BY <1>2 DEF IsRecursion, IsScan, S
<1>4. \E f \in Typed(S, T) : IsSolution(f, G, S)
    BY ONLY <1>1, <1>3, RecursionOnMeasure
<1> QED
    BY <1>4 DEF IsSolution, S

(* What holds at a position whenever it holds at the later ones holds at   *)
(* all: a set that has no last position is empty.                          *)
LEMMA NoLastPosition ==
    ASSUME NEW b \in Seq(Marks), NEW Bad \in SUBSET Positions(b),
           \A i \in Bad : \E j \in Bad : j > i
    PROVE  Bad = {}
<1>1. \A i \in Bad : \E j \in Bad : FromEnd(b)[j] < FromEnd(b)[i]
    BY PositionsMeasured
<1> DEFINE S == Positions(b)
           m == FromEnd(b)
<1>2. /\ m \in [S -> Nat]
      /\ Bad \in SUBSET S
      /\ \A i \in Bad : \E j \in Bad : m[j] < m[i]
    BY <1>1, PositionsMeasured
<1> HIDE DEF S, m
<1> QED
    BY ONLY <1>2, NoLeast

------------------------------------------------------------------------------
(***************************************************************************)
(* The marks, and the first of a set of marks.                             *)
(***************************************************************************)

(* The length of a block is a number, and its marks are marks. *)
LEMMA BlockTyped ==
    ASSUME NEW b \in Seq(Marks)
    PROVE  /\ Len(b) \in Nat
           /\ DOMAIN b = 1..Len(b)
           /\ \A i \in 1..Len(b) : b[i] \in Marks
<1>1. Len(b) \in Nat /\ DOMAIN b = 1..Len(b)
    BY LenProperties
<1>2. \A i \in 1..Len(b) : b[i] \in Marks
    BY ElementOfSeq
<1> QED
    BY <1>1, <1>2

(* A position is a number from 1 to the end of the block. *)
LEMMA PositionIs ==
    ASSUME NEW b \in Seq(Marks), NEW i
    PROVE  i \in Positions(b) <=> i \in Nat /\ 1 <= i /\ i <= Len(b) + 1
<1>1. Len(b) \in Nat
    BY BlockTyped
<1> QED
    BY <1>1 DEF Positions

(* UpTo is the first position from i on at a mark of marks, or the end. *)
IsUpTo(j, b, i, marks) ==
    /\ j \in i..(Len(b) + 1)
    /\ j <= Len(b) => b[j] \in marks
    /\ \A k \in i..(j - 1) : b[k] \notin marks

(* The first of a set of marks, or the end, can be found. *)
LEMMA UpToExists ==
    ASSUME NEW b \in Seq(Marks), NEW i \in Positions(b), NEW marks
    PROVE  \E j : IsUpTo(j, b, i, marks)
<1>1. Len(b) \in Nat /\ i \in Nat /\ 1 <= i /\ i <= Len(b) + 1
    BY BlockTyped, PositionIs
<1> DEFINE n == Len(b) + 1
           S == {j \in i..n : j <= Len(b) => b[j] \in marks}
<1>2. S \subseteq Nat /\ n \in S
    BY <1>1
<1>3. PICK j \in S : \A k \in S : j <= k
    <2> HIDE DEF S
    <2> QED
        BY <1>2, LeastNumber
<1>4. j \in i..n /\ (j <= Len(b) => b[j] \in marks) /\ j \in Nat
    BY <1>1, <1>3
<1>5. ASSUME NEW k \in i..(j - 1)
      PROVE  b[k] \notin marks
    <2>1. k \in i..n /\ k <= Len(b) /\ k < j /\ k \in Nat
        BY <1>1, <1>4
    <2>2. k \in S => j <= k
        BY <1>3
    <2>3. k \notin S
        <3> HIDE DEF S
        <3> QED
            BY <2>1, <2>2, <1>4
    <2> QED
        BY <2>1, <2>3
<1> QED
    BY <1>4, <1>5 DEF IsUpTo

(* UpTo finds it. *)
LEMMA UpToIs ==
    ASSUME NEW b \in Seq(Marks), NEW i \in Positions(b), NEW marks
    PROVE  IsUpTo(UpTo(b, i, marks), b, i, marks)
<1>1. \E j \in i..(Len(b) + 1) :
        /\ j <= Len(b) => b[j] \in marks
        /\ \A k \in i..(j - 1) : b[k] \notin marks
    BY UpToExists DEF IsUpTo
<1> QED
    BY <1>1 DEF UpTo, IsUpTo

(* There is only one such position. *)
LEMMA UpToOnly ==
    ASSUME NEW b \in Seq(Marks), NEW i \in Positions(b), NEW marks, NEW j,
           IsUpTo(j, b, i, marks)
    PROVE  UpTo(b, i, marks) = j
<1> DEFINE u == UpTo(b, i, marks)
<1>1. IsUpTo(u, b, i, marks)
    BY UpToIs
<1>2. Len(b) \in Nat /\ i \in Nat
    BY BlockTyped, PositionIs
<1> HIDE DEF u
<1>3. u \in Nat /\ j \in Nat /\ i <= u /\ u <= Len(b) + 1 /\ i <= j /\ j <= Len(b) + 1
    BY <1>1, <1>2 DEF IsUpTo
<1>4. ~(u < j)
    <2> SUFFICES ASSUME u < j PROVE FALSE
        OBVIOUS
    <2>1. u <= Len(b) /\ u \in i..(j - 1)
        BY <1>2, <1>3
    <2> QED
        BY <2>1, <1>1 DEF IsUpTo
<1>5. ~(j < u)
    <2> SUFFICES ASSUME j < u PROVE FALSE
        OBVIOUS
    <2>1. j <= Len(b) /\ j \in i..(u - 1)
        BY <1>2, <1>3
    <2> QED
        BY <2>1, <1>1 DEF IsUpTo
<1>6. u = j
    BY <1>3, <1>4, <1>5
<1> QED
    BY <1>6 DEF u

(* It is a position, not before i, and past i unless it is at i. *)
LEMMA UpToTyped ==
    ASSUME NEW b \in Seq(Marks), NEW i \in Positions(b), NEW marks
    PROVE  /\ UpTo(b, i, marks) \in Positions(b)
           /\ UpTo(b, i, marks) >= i
           /\ i <= Len(b) /\ b[i] \notin marks => UpTo(b, i, marks) > i
<1> DEFINE u == UpTo(b, i, marks)
<1>1. IsUpTo(u, b, i, marks)
    BY UpToIs
<1>2. Len(b) \in Nat /\ i \in Nat /\ 1 <= i
    BY BlockTyped, PositionIs
<1> HIDE DEF u
<1>3. u \in Nat /\ i <= u /\ u <= Len(b) + 1
    BY <1>1, <1>2 DEF IsUpTo
<1>4. i <= Len(b) /\ b[i] \notin marks => u # i
    BY <1>1 DEF IsUpTo
<1>5. u \in Positions(b) /\ u >= i /\ (i <= Len(b) /\ b[i] \notin marks => u > i)
    BY <1>2, <1>3, <1>4, PositionIs
<1> QED
    BY <1>5 DEF u

(* The lesser of two positions is one of them. *)
LEMMA LesserIs ==
    ASSUME NEW i \in Int, NEW j \in Int
    PROVE  /\ Lesser(i, j) \in {i, j}
           /\ Lesser(i, j) <= i
           /\ Lesser(i, j) <= j
    BY DEF Lesser

(* A line is skipped to a position past its start. *)
LEMMA SkipLineTyped ==
    ASSUME NEW b \in Seq(Marks), NEW i \in Positions(b)
    PROVE  /\ tomlSkipLine(b, i) \in Positions(b)
           /\ tomlSkipLine(b, i) >= i
           /\ i <= Len(b) => tomlSkipLine(b, i) > i
<1> DEFINE u == UpTo(b, i, {LF})
           l == tomlSkipLine(b, i)
<1>1. u \in Positions(b) /\ u >= i
    BY UpToTyped
<1>2. l = Lesser(u + 1, Len(b) + 1)
    BY DEF tomlSkipLine
<1>3. Len(b) \in Nat /\ i \in Nat /\ 1 <= i /\ i <= Len(b) + 1
    BY BlockTyped, PositionIs
<1> HIDE DEF u, l
<1>4. u \in Nat /\ 1 <= u /\ u <= Len(b) + 1
    BY <1>1, PositionIs
<1>5. l = IF u + 1 <= Len(b) + 1 THEN u + 1 ELSE Len(b) + 1
    BY <1>2 DEF Lesser
<1>6. l \in Nat /\ 1 <= l /\ l <= Len(b) + 1 /\ l >= i /\ (i <= Len(b) => l > i)
    BY <1>1, <1>3, <1>4, <1>5
<1>7. l \in Positions(b)
    BY <1>6, PositionIs
<1> QED
    BY <1>6, <1>7 DEF l

(* It is the position after the line's end.                                *)
LEMMA SkipLineTo ==
    ASSUME NEW b \in Seq(Marks), NEW i \in Positions(b), NEW j \in i..Len(b),
           b[j] = LF, \A k \in i..(j - 1) : b[k] # LF
    PROVE  tomlSkipLine(b, i) = j + 1
<1>1. Len(b) \in Nat /\ i \in Nat /\ 1 <= i
    BY BlockTyped, PositionIs
<1>2. IsUpTo(j, b, i, {LF})
    BY <1>1 DEF IsUpTo
<1>3. UpTo(b, i, {LF}) = j
    BY <1>2, UpToOnly
<1> QED
    BY <1>1, <1>3 DEF tomlSkipLine, Lesser

(* Names of marks are spelled differently. *)
LEMMA MarksDiffer ==
    /\ LF # SP /\ LF # DQ /\ LF # SQ /\ LF # BS /\ LF # Coded
    /\ SP # DQ /\ SP # SQ /\ SP # BS /\ SP # Coded
    /\ DQ # SQ /\ DQ # BS /\ DQ # Coded
    /\ SQ # BS /\ SQ # Coded
    /\ BS # Coded
    BY DEF LF, SP, DQ, SQ, BS, Coded

(* The marks that mean something are marks of a block. *)
LEMMA AreMarks ==
    /\ {LF, SP, DQ, SQ, BS, Coded, "#", "[", "]", ",", ".", "="} \subseteq Marks
    /\ Bare \subseteq Marks /\ Opening \subseteq Marks /\ Closing \subseteq Marks
    BY Zenon DEF Marks, Opening, Closing

(* A bare mark means nothing to the lexer. *)
LEMMA BareMarks ==
    /\ Bare \cap {LF, SP, DQ, SQ, BS, Coded, "#", "[", "]", ",", ".", "="} = {}
    /\ Bare \cap (Opening \cup Closing) = {}
<1>1. Bare \cap {LF, SP, DQ, SQ, BS, Coded, "#", "[", "]", ",", ".", "="} = {}
    BY DEF Bare, LF, SP, DQ, SQ, BS, Coded
<1>2. Bare \cap (Opening \cup Closing) = {}
    BY Zenon DEF Bare, Opening, Closing
<1> QED
    BY <1>1, <1>2

(* Short sequences of marks. *)
LEMMA ShortTexts ==
    ASSUME NEW x \in Marks, NEW y \in Marks, NEW z \in Marks
    PROVE  /\ <<>> \in Seq(Marks) /\ <<x>> \in Seq(Marks)
           /\ <<x, y>> \in Seq(Marks) /\ <<x, y, z>> \in Seq(Marks)
<1> DEFINE M == Marks
<1>1. x \in M /\ y \in M /\ z \in M
    OBVIOUS
<1> HIDE DEF M
<1>2. <<>> \in Seq(M) /\ <<x>> \in Seq(M) /\ <<x, y>> \in Seq(M) /\ <<x, y, z>> \in Seq(M)
    BY <1>1
<1> QED
    BY <1>2 DEF M

------------------------------------------------------------------------------
(***************************************************************************)
(* The parts of a key.                                                     *)
(***************************************************************************)

(* A quote is passed where it is, and nothing else. *)
LEMMA PastQuoteTyped ==
    ASSUME NEW b \in Seq(Marks), NEW j \in Positions(b), NEW quote
    PROVE  PastQuote(b, j, quote) \in Positions(b) /\ PastQuote(b, j, quote) >= j
<1>1. Len(b) \in Nat /\ j \in Nat /\ 1 <= j /\ j <= Len(b) + 1
    BY BlockTyped, PositionIs
<1>2. CASE At(b, j, {quote})
    <2>1. j + 1 \in Positions(b)
        BY <1>1, <1>2, PositionIs DEF At
    <2> QED
        BY <1>1, <1>2, <2>1 DEF PastQuote
<1>3. CASE ~At(b, j, {quote})
    BY <1>1, <1>3 DEF PastQuote
<1> QED
    BY <1>2, <1>3

(* What is read of a part: the marks of its name, and where it ends. *)
Parts(b, i) == {part \in [name: Seq(Marks), next: Positions(b)] : part.next >= i}

(* An escape spells one mark or two, and ends past them. *)
LEMMA EscapeTyped ==
    ASSUME NEW b \in Seq(Marks), NEW i \in 1..Len(b)
    PROVE  /\ tomlEscape(b, i) \in Parts(b, i)
           /\ tomlEscape(b, i).next > i
<1>1. Len(b) \in Nat /\ i \in Nat /\ 1 <= i /\ i <= Len(b)
    BY BlockTyped
<1>2. BS \in Marks /\ "a" \in Marks
    BY AreMarks DEF Bare
<1>3. CASE i = Len(b)
    <2>1. tomlEscape(b, i) = [name |-> <<BS>>, next |-> i + 1]
        BY <1>3 DEF tomlEscape
    <2>2. i + 1 \in Positions(b) /\ i + 1 > i
        BY <1>1, PositionIs
    <2> QED
        BY <1>1, <1>2, <2>1, <2>2 DEF Parts
<1>4. CASE i # Len(b)
    <2> DEFINE name == CASE b[i + 1] \in {DQ, BS} -> <<b[i + 1]>>
                         [] b[i + 1] = Coded -> <<"a">>
                         [] OTHER -> <<BS, b[i + 1]>>
    <2>1. tomlEscape(b, i) = [name |-> name, next |-> i + 2]
        BY Zenon, <1>4 DEF tomlEscape
    <2>2. i + 2 \in Positions(b) /\ i + 2 > i
        BY <1>1, <1>4, PositionIs
    <2>3. b[i + 1] \in Marks
        BY <1>1, <1>4, BlockTyped
    <2>4. name \in {<<b[i + 1]>>, <<"a">>, <<BS, b[i + 1]>>}
        BY Zenon
    <2>5. name \in Seq(Marks)
        <3> HIDE DEF name
        <3>1. /\ <<b[i + 1]>> \in Seq(Marks) /\ <<"a">> \in Seq(Marks)
              /\ <<BS, b[i + 1]>> \in Seq(Marks)
            BY <1>2, <2>3, ShortTexts
        <3> QED
            BY Zenon, <2>4, <3>1
    <2> HIDE DEF name
    <2> QED
        BY <1>1, <2>1, <2>2, <2>5 DEF Parts
<1> QED
    BY <1>3, <1>4

(* BasicPart, unfolded. *)
BasicOne(b, j) ==
    IF b[j] = BS THEN tomlEscape(b, j) ELSE [name |-> <<b[j]>>, next |-> j + 1]

(* One step of the recursion in BasicPart. *)
BasicStep(b, read, j) ==
    IF ~At(b, j, Marks \ {DQ, LF})
    THEN [name |-> <<>>, next |-> PastQuote(b, j, DQ)]
    ELSE [name |-> BasicOne(b, j).name \o read[BasicOne(b, j).next].name,
          next |-> read[BasicOne(b, j).next].next]

(* The function that BasicPart is defined with. *)
BasicPast(b) == CHOOSE read : read = [j \in Positions(b) |-> BasicStep(b, read, j)]

(* What its values at a position are. *)
BasicType(b, j) == Parts(b, j)

(* BasicPart, by that function. *)
LEMMA BasicUnfolded ==
    ASSUME NEW b, NEW i
    PROVE  BasicPart(b, i) = BasicPast(b)[i + 1]
    BY Zenon DEF BasicPart, BasicPast, BasicStep, BasicOne

(* One mark or one escape of a quoted part. *)
LEMMA BasicOneTyped ==
    ASSUME NEW b \in Seq(Marks), NEW j \in Positions(b), At(b, j, Marks \ {DQ, LF})
    PROVE  BasicOne(b, j) \in Parts(b, j) /\ BasicOne(b, j).next > j
<1>1. Len(b) \in Nat /\ j \in Nat /\ 1 <= j /\ j <= Len(b) + 1
    BY BlockTyped, PositionIs
<1>2. j \in 1..Len(b) /\ b[j] \in Marks
    BY <1>1, BlockTyped DEF At
<1>3. CASE b[j] = BS
    BY <1>2, <1>3, EscapeTyped DEF BasicOne
<1>4. CASE b[j] # BS
    <2>1. BasicOne(b, j) = [name |-> <<b[j]>>, next |-> j + 1]
        BY <1>4 DEF BasicOne
    <2>2. j + 1 \in Positions(b) /\ j + 1 > j
        BY <1>1, <1>2, PositionIs
    <2> QED
        BY <1>1, <1>2, <2>1, <2>2 DEF Parts
<1> QED
    BY <1>3, <1>4

(* There are values of that type. *)
LEMMA BasicInhabited ==
    ASSUME NEW b \in Seq(Marks)
    PROVE  \A j \in Positions(b) : BasicType(b, j) # {}
<1>1. ASSUME NEW j \in Positions(b)
      PROVE  [name |-> <<>>, next |-> j] \in Parts(b, j)
    <2>1. j \in Nat
        BY PositionIs
    <2> QED
        BY <2>1 DEF Parts
<1> QED
    BY <1>1 DEF BasicType

(* One step keeps the type. *)
LEMMA BasicTyped ==
    ASSUME NEW b \in Seq(Marks), NEW j \in Positions(b), NEW read,
           \A k \in Positions(b) : k > j => read[k] \in BasicType(b, k)
    PROVE  BasicStep(b, read, j) \in BasicType(b, j)
<1>1. CASE ~At(b, j, Marks \ {DQ, LF})
    <2>1. PastQuote(b, j, DQ) \in Positions(b) /\ PastQuote(b, j, DQ) >= j
        BY PastQuoteTyped
    <2> QED
        BY <1>1, <2>1 DEF BasicStep, BasicType, Parts
<1>2. CASE At(b, j, Marks \ {DQ, LF})
    <2> DEFINE one == BasicOne(b, j)
    <2>1. one \in Parts(b, j) /\ one.next > j
        BY <1>2, BasicOneTyped
    <2>2. BasicStep(b, read, j) = [name |-> one.name \o read[one.next].name,
                                   next |-> read[one.next].next]
        BY <1>2 DEF BasicStep
    <2> HIDE DEF one
    <2>3. one.next \in Positions(b) /\ one.name \in Seq(Marks)
        BY <2>1 DEF Parts
    <2>4. read[one.next] \in Parts(b, one.next)
        BY <2>1, <2>3 DEF BasicType
    <2>5. /\ read[one.next].name \in Seq(Marks)
          /\ read[one.next].next \in Positions(b)
          /\ read[one.next].next >= one.next
        BY <2>4 DEF Parts
    <2>6. one.name \o read[one.next].name \in Seq(Marks)
        BY <2>3, <2>5, ConcatProperties
    <2>7. read[one.next].next >= j
        BY <2>1, <2>3, <2>5, PositionIs
    <2> QED
        BY <2>2, <2>5, <2>6, <2>7 DEF BasicType, Parts
<1> QED
    BY <1>1, <1>2

(* One step uses the positions after it only. *)
LEMMA BasicLocal ==
    ASSUME NEW b \in Seq(Marks), NEW j \in Positions(b), NEW f, NEW g,
           \A k \in Positions(b) : k > j => f[k] = g[k]
    PROVE  BasicStep(b, f, j) = BasicStep(b, g, j)
<1>1. CASE ~At(b, j, Marks \ {DQ, LF})
    BY <1>1 DEF BasicStep
<1>2. CASE At(b, j, Marks \ {DQ, LF})
    <2>1. BasicOne(b, j) \in Parts(b, j) /\ BasicOne(b, j).next > j
        BY <1>2, BasicOneTyped
    <2>2. f[BasicOne(b, j).next] = g[BasicOne(b, j).next]
        BY <2>1 DEF Parts
    <2> QED
        BY <2>2 DEF BasicStep
<1> QED
    BY <1>1, <1>2

(* What is read of a quoted part, from each of its positions. *)
LEMMA BasicEquation ==
    ASSUME NEW b \in Seq(Marks)
    PROVE  \A j \in Positions(b) :
               /\ BasicPast(b)[j] = BasicStep(b, BasicPast(b), j)
               /\ BasicPast(b)[j] \in BasicType(b, j)
<1> DEFINE S == Positions(b)
           T == [j \in S |-> BasicType(b, j)]
           F == Typed(S, T)
           G == [j \in S |-> [f \in F |-> BasicStep(b, f, j)]]
           past == BasicPast(b)
<1>1. \A j \in S : T[j] # {}
    BY BasicInhabited
<1>2. ASSUME NEW j \in S, NEW f \in F
      PROVE  G[j][f] = BasicStep(b, f, j) /\ BasicStep(b, f, j) \in T[j]
    <2>1. \A k \in S : f[k] \in BasicType(b, k)
        BY DEF Typed
    <2> HIDE DEF F
    <2>2. BasicStep(b, f, j) \in BasicType(b, j)
        BY <2>1, BasicTyped
    <2> QED
        BY <2>2
<1>3. ASSUME NEW j \in S, NEW f \in F, NEW g \in F, \A k \in S : k > j => f[k] = g[k]
      PROVE  BasicStep(b, f, j) = BasicStep(b, g, j)
    <2> HIDE DEF F
    <2> QED
        BY <1>3, BasicLocal
<1> HIDE DEF T, G
<1>4. IsScan(G, b, T)
    BY <1>1, <1>2, <1>3 DEF IsScan
<1>5. PICK f \in F : \A j \in S : f[j] = G[j][f]
    BY <1>4, ScanExists
<1>6. f = [j \in S |-> BasicStep(b, f, j)]
    <2>1. f = [j \in S |-> f[j]]
        BY DEF Typed
    <2>2. \A j \in S : f[j] = BasicStep(b, f, j)
        BY <1>2, <1>5
    <2> HIDE DEF F
    <2> QED
        BY <2>1, <2>2
<1>7. past = [j \in S |-> BasicStep(b, past, j)]
    <2>1. past = CHOOSE p : p = [j \in S |-> BasicStep(b, p, j)]
        BY DEF BasicPast
    <2> HIDE DEF past, F
    <2> QED
        BY <1>6, <2>1
<1>8. \A j \in S : past[j] = BasicStep(b, past, j)
    <2> HIDE DEF past
    <2> QED
        BY <1>7
<1> DEFINE Bad == {j \in S : past[j] \notin BasicType(b, j)}
<1>9. \A j \in Bad : \E k \in Bad : k > j
    <2> SUFFICES ASSUME NEW j \in Bad, \A k \in Bad : ~(k > j) PROVE FALSE
        OBVIOUS
    <2> HIDE DEF past
    <2>1. j \in S /\ past[j] \notin BasicType(b, j)
        OBVIOUS
    <2>2. \A k \in S : k > j => past[k] \in BasicType(b, k)
        OBVIOUS
    <2>3. BasicStep(b, past, j) \in BasicType(b, j)
        BY <2>1, <2>2, BasicTyped
    <2> QED
        BY <2>1, <2>3, <1>8
<1>10. Bad = {}
    <2>1. Bad \in SUBSET S
        OBVIOUS
    <2> HIDE DEF Bad
    <2> QED
        BY <2>1, <1>9, NoLastPosition
<1> QED
    BY <1>8, <1>10

------------------------------------------------------------------------------
(***************************************************************************)
(* Keys and headers: where they end.                                       *)
(***************************************************************************)

(* A stretch of a block is a text. *)
LEMMA StretchTyped ==
    ASSUME NEW b \in Seq(Marks), NEW i \in Positions(b), NEW j \in Positions(b)
    PROVE  SubSeq(b, i, j - 1) \in Seq(Marks)
<1>1. Len(b) \in Nat /\ i \in Nat /\ 1 <= i /\ j \in Nat /\ j <= Len(b) + 1
    BY BlockTyped, PositionIs
<1>2. \A k \in i..(j - 1) : b[k] \in Marks
    <2> SUFFICES ASSUME NEW k \in i..(j - 1) PROVE b[k] \in Marks
        OBVIOUS
    <2>1. k \in 1..Len(b)
        BY <1>1
    <2> QED
        BY <2>1, BlockTyped
<1>3. i \in Int /\ j - 1 \in Int
    BY <1>1
<1> QED
    BY <1>2, <1>3, SubSeqProperties

(* A part in double quotes is a name, and ends after its first quote. *)
LEMMA BasicPartTyped ==
    ASSUME NEW b \in Seq(Marks), NEW i \in 1..Len(b)
    PROVE  BasicPart(b, i) \in Parts(b, i + 1) /\ i + 1 \in Positions(b)
<1>1. Len(b) \in Nat
    BY BlockTyped
<1>2. i + 1 \in Positions(b)
    BY <1>1, PositionIs
<1> QED
    BY <1>2, BasicUnfolded, BasicEquation DEF BasicType

(* So is one in single quotes. *)
LEMMA LiteralPartTyped ==
    ASSUME NEW b \in Seq(Marks), NEW i \in 1..Len(b)
    PROVE  LiteralPart(b, i) \in Parts(b, i + 1)
<1>1. Len(b) \in Nat
    BY BlockTyped
<1>2. i + 1 \in Positions(b) /\ i + 1 \in Nat
    BY <1>1, PositionIs
<1> DEFINE close == UpTo(b, i + 1, {SQ, LF})
           past == PastQuote(b, close, SQ)
<1>3. close \in Positions(b) /\ close >= i + 1
    BY <1>2, UpToTyped
<1>4. LiteralPart(b, i) = [name |-> SubSeq(b, i + 1, close - 1), next |-> past]
    BY DEF LiteralPart
<1> HIDE DEF close
<1>5. past \in Positions(b) /\ past >= close
    BY <1>3, PastQuoteTyped
<1>6. SubSeq(b, i + 1, close - 1) \in Seq(Marks)
    BY <1>2, <1>3, StretchTyped
<1> HIDE DEF past
<1>7. past >= i + 1
    BY <1>2, <1>3, <1>5, PositionIs
<1> QED
    BY <1>4, <1>5, <1>6, <1>7 DEF Parts

(* A bare part is a name, and may end where it starts. *)
LEMMA BarePartTyped ==
    ASSUME NEW b \in Seq(Marks), NEW i \in Positions(b)
    PROVE  BarePart(b, i) \in Parts(b, i)
<1> DEFINE end == UpTo(b, i, Marks \ Bare)
<1>1. end \in Positions(b) /\ end >= i
    BY UpToTyped
<1>2. BarePart(b, i) = [name |-> SubSeq(b, i, end - 1), next |-> end]
    BY DEF BarePart
<1> HIDE DEF end
<1>3. SubSeq(b, i, end - 1) \in Seq(Marks)
    BY <1>1, StretchTyped
<1> QED
    BY <1>1, <1>2, <1>3 DEF Parts

(* A key part ends in the block, and not before it starts. *)
LEMMA KeyPartTyped ==
    ASSUME NEW b \in Seq(Marks), NEW i \in Positions(b)
    PROVE  tomlKeyPart(b, i) \in Parts(b, i)
<1>1. Len(b) \in Nat /\ i \in Nat /\ 1 <= i
    BY BlockTyped, PositionIs
<1>2. ASSUME i <= Len(b), NEW part \in Parts(b, i + 1)
      PROVE  part \in Parts(b, i)
    <2>1. part.next \in Nat /\ part.next >= i + 1
        BY PositionIs DEF Parts
    <2>2. part.next >= i
        BY <1>1, <2>1
    <2> QED
        BY <2>2 DEF Parts
<1>3. CASE At(b, i, {DQ})
    <2>1. i \in 1..Len(b)
        BY <1>1, <1>3 DEF At
    <2> QED
        BY <1>2, <1>3, <2>1, BasicPartTyped DEF tomlKeyPart
<1>4. CASE ~At(b, i, {DQ}) /\ At(b, i, {SQ})
    <2>1. i \in 1..Len(b)
        BY <1>1, <1>4 DEF At
    <2> QED
        BY <1>2, <1>4, <2>1, LiteralPartTyped DEF tomlKeyPart
<1>5. CASE ~At(b, i, {DQ}) /\ ~At(b, i, {SQ})
    BY <1>5, BarePartTyped DEF tomlKeyPart
<1> QED
    BY <1>3, <1>4, <1>5

(* tomlDottedKey, unfolded. *)
DottedNext(b, j) == tomlKeyPart(b, PastBlanks(b, j + 1)).next

(* One step of the recursion in tomlDottedKey. *)
DottedStep(b, past, j) ==
    IF At(b, j, {SP}) THEN past[j + 1]
    ELSE IF At(b, j, {"="}) THEN j + 1
    ELSE IF At(b, j, {"."})
    THEN IF DottedNext(b, j) = PastBlanks(b, j + 1) THEN NotAKey ELSE past[DottedNext(b, j)]
    ELSE NotAKey

(* The function that tomlDottedKey is defined with. *)
DottedPast(b) == CHOOSE past : past = [j \in Positions(b) |-> DottedStep(b, past, j)]

(* What its values at a position are. *)
DottedType(b, j) == {NotAKey} \cup {k \in Positions(b) : k > j}

(* tomlDottedKey, by that function. *)
LEMMA DottedUnfolded ==
    ASSUME NEW b, NEW i
    PROVE  tomlDottedKey(b, i) =
             [name |-> tomlKeyPart(b, i).name,
              next |-> IF tomlKeyPart(b, i).next = i THEN NotAKey
                       ELSE DottedPast(b)[tomlKeyPart(b, i).next]]
    BY Zenon DEF tomlDottedKey, DottedPast, DottedStep, DottedNext

(* There are values of that type. *)
LEMMA DottedInhabited ==
    ASSUME NEW b \in Seq(Marks)
    PROVE  \A j \in Positions(b) : DottedType(b, j) # {}
    BY DEF DottedType

(* After a dot the scan goes on past the dot. *)
LEMMA DottedMoves ==
    ASSUME NEW b \in Seq(Marks), NEW j \in Positions(b), j <= Len(b)
    PROVE  /\ j + 1 \in Positions(b)
           /\ j + 1 > j
           /\ PastBlanks(b, j + 1) \in Positions(b)
           /\ PastBlanks(b, j + 1) > j
           /\ DottedNext(b, j) \in Positions(b)
           /\ DottedNext(b, j) > j
<1>1. Len(b) \in Nat /\ j \in Nat /\ 1 <= j
    BY BlockTyped, PositionIs
<1>2. j + 1 \in Positions(b)
    BY <1>1, PositionIs
<1> DEFINE part == PastBlanks(b, j + 1)
           next == DottedNext(b, j)
<1>3. part \in Positions(b) /\ part >= j + 1
    BY <1>2, UpToTyped DEF PastBlanks
<1>4. next \in Positions(b) /\ next >= part
    <2> HIDE DEF part
    <2>1. tomlKeyPart(b, part) \in Parts(b, part)
        BY <1>3, KeyPartTyped
    <2> QED
        BY <2>1 DEF Parts, DottedNext, part
<1> HIDE DEF part, next
<1>5. part > j /\ next > j /\ j + 1 > j
    BY <1>1, <1>3, <1>4, PositionIs
<1> QED
    BY <1>2, <1>3, <1>4, <1>5 DEF part, next

(* One step keeps the type. *)
LEMMA DottedTyped ==
    ASSUME NEW b \in Seq(Marks), NEW j \in Positions(b), NEW past,
           \A k \in Positions(b) : k > j => past[k] \in DottedType(b, k)
    PROVE  DottedStep(b, past, j) \in DottedType(b, j)
<1>1. CASE j > Len(b)
    <2>1. \A marks : ~At(b, j, marks)
        BY <1>1, BlockTyped, PositionIs DEF At
    <2> QED
        BY <2>1 DEF DottedStep, DottedType
<1>2. CASE ~(j > Len(b))
    <2>1. j <= Len(b)
        BY <1>2, BlockTyped, PositionIs
    <2>2. ASSUME NEW k \in Positions(b), k > j
          PROVE  past[k] \in DottedType(b, j)
        <3>1. past[k] \in DottedType(b, k)
            BY <2>2
        <3>2. \A n \in Positions(b) : n > k => n > j
            BY <2>2, PositionIs
        <3> QED
            BY <3>1, <3>2 DEF DottedType
    <2>3. j + 1 \in DottedType(b, j) /\ NotAKey \in DottedType(b, j)
        BY <2>1, DottedMoves DEF DottedType
    <2> QED
        BY <2>1, <2>2, <2>3, DottedMoves DEF DottedStep
<1> QED
    BY <1>1, <1>2

(* One step uses the positions after it only. *)
LEMMA DottedLocal ==
    ASSUME NEW b \in Seq(Marks), NEW j \in Positions(b), NEW f, NEW g,
           \A k \in Positions(b) : k > j => f[k] = g[k]
    PROVE  DottedStep(b, f, j) = DottedStep(b, g, j)
<1>1. CASE j > Len(b)
    <2>1. \A marks : ~At(b, j, marks)
        BY <1>1, BlockTyped, PositionIs DEF At
    <2> QED
        BY <2>1 DEF DottedStep
<1>2. CASE ~(j > Len(b))
    <2>1. j <= Len(b)
        BY <1>2, BlockTyped, PositionIs
    <2>2. f[j + 1] = g[j + 1] /\ f[DottedNext(b, j)] = g[DottedNext(b, j)]
        BY <2>1, DottedMoves
    <2> QED
        BY <2>2 DEF DottedStep
<1> QED
    BY <1>1, <1>2

(* Where the value of a key starts, from each position in the key. *)
LEMMA DottedEquation ==
    ASSUME NEW b \in Seq(Marks)
    PROVE  \A j \in Positions(b) :
               /\ DottedPast(b)[j] = DottedStep(b, DottedPast(b), j)
               /\ DottedPast(b)[j] \in DottedType(b, j)
<1> DEFINE S == Positions(b)
           T == [j \in S |-> DottedType(b, j)]
           F == Typed(S, T)
           G == [j \in S |-> [f \in F |-> DottedStep(b, f, j)]]
           past == DottedPast(b)
<1>1. \A j \in S : T[j] # {}
    BY DottedInhabited
<1>2. ASSUME NEW j \in S, NEW f \in F
      PROVE  G[j][f] = DottedStep(b, f, j) /\ DottedStep(b, f, j) \in T[j]
    <2>1. \A k \in S : f[k] \in DottedType(b, k)
        BY DEF Typed
    <2> HIDE DEF F
    <2>2. DottedStep(b, f, j) \in DottedType(b, j)
        BY <2>1, DottedTyped
    <2> QED
        BY <2>2
<1>3. ASSUME NEW j \in S, NEW f \in F, NEW g \in F, \A k \in S : k > j => f[k] = g[k]
      PROVE  DottedStep(b, f, j) = DottedStep(b, g, j)
    <2> HIDE DEF F
    <2> QED
        BY <1>3, DottedLocal
<1> HIDE DEF T, G
<1>4. IsScan(G, b, T)
    BY <1>1, <1>2, <1>3 DEF IsScan
<1>5. PICK f \in F : \A j \in S : f[j] = G[j][f]
    BY <1>4, ScanExists
<1>6. f = [j \in S |-> DottedStep(b, f, j)]
    <2>1. f = [j \in S |-> f[j]]
        BY DEF Typed
    <2>2. \A j \in S : f[j] = DottedStep(b, f, j)
        BY <1>2, <1>5
    <2> HIDE DEF F
    <2> QED
        BY <2>1, <2>2
<1>7. past = [j \in S |-> DottedStep(b, past, j)]
    <2>1. past = CHOOSE p : p = [j \in S |-> DottedStep(b, p, j)]
        BY DEF DottedPast
    <2> HIDE DEF past, F
    <2> QED
        BY <1>6, <2>1
<1>8. \A j \in S : past[j] = DottedStep(b, past, j)
    <2> HIDE DEF past
    <2> QED
        BY <1>7
<1> DEFINE Bad == {j \in S : past[j] \notin DottedType(b, j)}
<1>9. \A j \in Bad : \E k \in Bad : k > j
    <2> SUFFICES ASSUME NEW j \in Bad, \A k \in Bad : ~(k > j) PROVE FALSE
        OBVIOUS
    <2> HIDE DEF past
    <2>1. j \in S /\ past[j] \notin DottedType(b, j)
        OBVIOUS
    <2>2. \A k \in S : k > j => past[k] \in DottedType(b, k)
        OBVIOUS
    <2>3. DottedStep(b, past, j) \in DottedType(b, j)
        BY <2>1, <2>2, DottedTyped
    <2> QED
        BY <2>1, <2>3, <1>8
<1>10. Bad = {}
    <2>1. Bad \in SUBSET S
        OBVIOUS
    <2> HIDE DEF Bad
    <2> QED
        BY <2>1, <1>9, NoLastPosition
<1> QED
    BY <1>8, <1>10

(* A key that is one names its first part and ends past its start. *)
LEMMA DottedKeyTyped ==
    ASSUME NEW b \in Seq(Marks), NEW i \in Positions(b)
    PROVE  /\ tomlDottedKey(b, i).name \in Seq(Marks)
           /\ tomlDottedKey(b, i).next # NotAKey =>
                 /\ tomlDottedKey(b, i).next \in Positions(b)
                 /\ tomlDottedKey(b, i).next > i
<1> DEFINE first == tomlKeyPart(b, i)
<1>1. first \in Parts(b, i)
    BY KeyPartTyped
<1>2. tomlDottedKey(b, i) = [name |-> first.name,
              next |-> IF first.next = i THEN NotAKey ELSE DottedPast(b)[first.next]]
    BY DottedUnfolded
<1> HIDE DEF first
<1>3. first.name \in Seq(Marks) /\ first.next \in Positions(b) /\ first.next >= i
    BY <1>1 DEF Parts
<1>4. DottedPast(b)[first.next] \in DottedType(b, first.next)
    BY <1>3, DottedEquation
<1>5. \A n \in Positions(b) : n > first.next => n > i
    BY <1>3, PositionIs
<1> QED
    BY <1>2, <1>3, <1>4, <1>5 DEF DottedType

(* A header names its first part and ends, with its line, past its start. *)
LEMMA HeaderTyped ==
    ASSUME NEW b \in Seq(Marks), NEW i \in 1..Len(b)
    PROVE  /\ tomlHeaderName(b, i).name \in Seq(Marks)
           /\ tomlHeaderName(b, i).next \in Positions(b)
           /\ tomlHeaderName(b, i).next > i
<1>1. Len(b) \in Nat /\ i \in Nat /\ 1 <= i /\ i <= Len(b)
    BY BlockTyped
<1> DEFINE open == IF At(b, i + 1, {"["}) THEN i + 2 ELSE i + 1
           at == PastBlanks(b, open)
           part == tomlKeyPart(b, at)
           next == tomlSkipLine(b, part.next)
<1>2. open \in Positions(b) /\ open > i
    <2>1. CASE At(b, i + 1, {"["})
        <3>1. i + 1 <= Len(b)
            BY <2>1 DEF At
        <3>2. i + 2 \in Positions(b)
            BY <1>1, <3>1, PositionIs
        <3> QED
            BY <2>1, <3>2, <1>1
    <2>2. CASE ~At(b, i + 1, {"["})
        <3>1. i + 1 \in Positions(b)
            BY <1>1, PositionIs
        <3> QED
            BY <2>2, <3>1, <1>1
    <2> QED
        BY <2>1, <2>2
<1>3. tomlHeaderName(b, i) = [name |-> part.name, next |-> next]
    BY Zenon DEF tomlHeaderName
<1> HIDE DEF open
<1>4. at \in Positions(b) /\ at >= open
    BY <1>2, UpToTyped DEF PastBlanks
<1> HIDE DEF at
<1>5. part \in Parts(b, at)
    BY <1>4, KeyPartTyped
<1> HIDE DEF part
<1>6. part.name \in Seq(Marks) /\ part.next \in Positions(b) /\ part.next >= at
    BY <1>5 DEF Parts
<1>7. next \in Positions(b) /\ next >= part.next
    BY <1>6, SkipLineTyped
<1> HIDE DEF next
<1>8. next > i
    BY <1>1, <1>2, <1>4, <1>6, <1>7, PositionIs
<1> QED
    BY <1>3, <1>6, <1>7, <1>8

------------------------------------------------------------------------------
(***************************************************************************)
(* Strings and values: where they end.                                     *)
(***************************************************************************)

(* The positions from j on. *)
Onward(b, j) == {k \in Positions(b) : k >= j}

(* Positions from here on: this one, those from each of them on, and the   *)
(* next.                                                                   *)
LEMMA OnwardIs ==
    ASSUME NEW b \in Seq(Marks), NEW j \in Positions(b)
    PROVE  /\ j \in Onward(b, j)
           /\ \A k \in Onward(b, j) : k \in Positions(b) /\ Onward(b, k) \subseteq Onward(b, j)
           /\ j <= Len(b) => j + 1 \in Onward(b, j) /\ j + 1 \in Positions(b) /\ j + 1 > j
<1>1. Len(b) \in Nat /\ j \in Nat /\ 1 <= j
    BY BlockTyped, PositionIs
<1>2. ASSUME NEW k \in Positions(b), k >= j, NEW n \in Positions(b), n >= k
      PROVE  n >= j
    BY <1>1, <1>2, PositionIs
<1>3. j <= Len(b) => j + 1 \in Positions(b) /\ j + 1 > j /\ j + 1 >= j
    BY <1>1, PositionIs
<1>4. j >= j
    BY <1>1
<1> QED
    BY <1>2, <1>3, <1>4 DEF Onward

(* tomlSkipMultilineString, unfolded. *)
LinesRun(b, quote, j) == UpTo(b, j, Marks \ {quote})

(* One step of the recursion in tomlSkipMultilineString. *)
LinesStep(b, quote, past, j) ==
    IF j > Len(b) THEN j
    ELSE IF quote = DQ /\ b[j] = BS THEN past[Lesser(j + 2, Len(b) + 1)]
    ELSE IF b[j] # quote THEN past[j + 1]
    ELSE IF LinesRun(b, quote, j) - j < 3 THEN past[LinesRun(b, quote, j)]
    ELSE PastDelimiter(LinesRun(b, quote, j), j)

(* The function that tomlSkipMultilineString is defined with. *)
LinesPast(b, quote) ==
    CHOOSE past : past = [j \in Positions(b) |-> LinesStep(b, quote, past, j)]

(* What its values at a position are. *)
LinesType(b, quote, j) == Onward(b, j)

(* tomlSkipMultilineString, by that function. *)
LEMMA LinesUnfolded ==
    ASSUME NEW b, NEW i, NEW quote
    PROVE  tomlSkipMultilineString(b, i, quote) = LinesPast(b, quote)[i]
    BY Zenon DEF tomlSkipMultilineString, LinesPast, LinesStep, LinesRun

(* There are values of that type. *)
LEMMA LinesInhabited ==
    ASSUME NEW b \in Seq(Marks), NEW quote
    PROVE  \A j \in Positions(b) : LinesType(b, quote, j) # {}
    BY OnwardIs DEF LinesType

(* Where the scan goes on from within a string of several lines. *)
LEMMA LinesMove ==
    ASSUME NEW b \in Seq(Marks), NEW quote, NEW j \in Positions(b), j <= Len(b)
    PROVE  /\ Lesser(j + 2, Len(b) + 1) \in Positions(b)
           /\ Lesser(j + 2, Len(b) + 1) > j
           /\ j + 1 \in Positions(b)
           /\ j + 1 > j
           /\ b[j] = quote =>
                /\ LinesRun(b, quote, j) \in Positions(b)
                /\ LinesRun(b, quote, j) > j
                /\ PastDelimiter(LinesRun(b, quote, j), j) \in Onward(b, j)
<1>1. Len(b) \in Nat /\ j \in Nat /\ 1 <= j
    BY BlockTyped, PositionIs
<1>2. Lesser(j + 2, Len(b) + 1) \in Positions(b) /\ Lesser(j + 2, Len(b) + 1) > j
    <2> DEFINE l == Lesser(j + 2, Len(b) + 1)
    <2>1. l \in {j + 2, Len(b) + 1} /\ l <= Len(b) + 1
        BY <1>1, LesserIs
    <2> HIDE DEF l
    <2>2. l \in Nat /\ 1 <= l /\ l <= Len(b) + 1 /\ l > j
        BY <1>1, <2>1
    <2>3. l \in Positions(b)
        BY <2>2, PositionIs
    <2> QED
        BY <2>2, <2>3 DEF l
<1>3. ASSUME b[j] = quote
      PROVE  /\ LinesRun(b, quote, j) \in Positions(b)
             /\ LinesRun(b, quote, j) > j
             /\ PastDelimiter(LinesRun(b, quote, j), j) \in Onward(b, j)
    <2> DEFINE run == LinesRun(b, quote, j)
               p == PastDelimiter(run, j)
    <2>1. run \in Positions(b) /\ run > j
        BY <1>3, UpToTyped DEF LinesRun
    <2> HIDE DEF run
    <2>2. run \in Nat /\ run <= Len(b) + 1
        BY <2>1, PositionIs
    <2>3. p \in {run, j + 5} /\ p <= run
        BY <1>1, <2>2, LesserIs DEF PastDelimiter
    <2> HIDE DEF p
    <2>4. p \in Nat /\ 1 <= p /\ p <= Len(b) + 1 /\ p >= j
        BY <1>1, <2>1, <2>2, <2>3
    <2>5. p \in Onward(b, j)
        BY <2>4, PositionIs DEF Onward
    <2> QED
        BY <2>1, <2>5 DEF run, p
<1>4. j + 1 \in Positions(b) /\ j + 1 > j
    BY <1>1, PositionIs
<1> QED
    BY <1>2, <1>3, <1>4

(* One step keeps the type. *)
LEMMA LinesTyped ==
    ASSUME NEW b \in Seq(Marks), NEW quote, NEW j \in Positions(b), NEW past,
           \A k \in Positions(b) : k > j => past[k] \in LinesType(b, quote, k)
    PROVE  LinesStep(b, quote, past, j) \in LinesType(b, quote, j)
<1>1. CASE j > Len(b)
    BY <1>1, OnwardIs DEF LinesStep, LinesType
<1>2. CASE ~(j > Len(b))
    <2>1. j <= Len(b)
        BY <1>2, BlockTyped, PositionIs
    <2>2. ASSUME NEW k \in Positions(b), k > j
          PROVE  past[k] \in Onward(b, j)
        <3>1. past[k] \in Onward(b, k) /\ k \in Onward(b, j)
            BY <2>2, PositionIs DEF Onward, LinesType
        <3> QED
            BY <3>1, OnwardIs
    <2> QED
        BY <1>2, <2>1, <2>2, LinesMove DEF LinesStep, LinesType
<1> QED
    BY <1>1, <1>2

(* One step uses the positions after it only. *)
LEMMA LinesLocal ==
    ASSUME NEW b \in Seq(Marks), NEW quote, NEW j \in Positions(b), NEW f, NEW g,
           \A k \in Positions(b) : k > j => f[k] = g[k]
    PROVE  LinesStep(b, quote, f, j) = LinesStep(b, quote, g, j)
<1>1. CASE j > Len(b)
    BY <1>1 DEF LinesStep
<1>2. CASE ~(j > Len(b))
    <2>1. j <= Len(b)
        BY <1>2, BlockTyped, PositionIs
    <2> QED
        BY <2>1, LinesMove DEF LinesStep
<1> QED
    BY <1>1, <1>2

(* Where a string of several lines ends, from each position in it. *)
LEMMA LinesEquation ==
    ASSUME NEW b \in Seq(Marks), NEW quote
    PROVE  \A j \in Positions(b) :
               /\ LinesPast(b, quote)[j] = LinesStep(b, quote, LinesPast(b, quote), j)
               /\ LinesPast(b, quote)[j] \in LinesType(b, quote, j)
<1> DEFINE S == Positions(b)
           T == [j \in S |-> LinesType(b, quote, j)]
           F == Typed(S, T)
           G == [j \in S |-> [f \in F |-> LinesStep(b, quote, f, j)]]
           past == LinesPast(b, quote)
<1>1. \A j \in S : T[j] # {}
    BY LinesInhabited
<1>2. ASSUME NEW j \in S, NEW f \in F
      PROVE  G[j][f] = LinesStep(b, quote, f, j) /\ LinesStep(b, quote, f, j) \in T[j]
    <2>1. \A k \in S : f[k] \in LinesType(b, quote, k)
        BY DEF Typed
    <2> HIDE DEF F
    <2>2. LinesStep(b, quote, f, j) \in LinesType(b, quote, j)
        BY <2>1, LinesTyped
    <2> QED
        BY <2>2
<1>3. ASSUME NEW j \in S, NEW f \in F, NEW g \in F, \A k \in S : k > j => f[k] = g[k]
      PROVE  LinesStep(b, quote, f, j) = LinesStep(b, quote, g, j)
    <2> HIDE DEF F
    <2> QED
        BY <1>3, LinesLocal
<1> HIDE DEF T, G
<1>4. IsScan(G, b, T)
    BY <1>1, <1>2, <1>3 DEF IsScan
<1>5. PICK f \in F : \A j \in S : f[j] = G[j][f]
    BY <1>4, ScanExists
<1>6. f = [j \in S |-> LinesStep(b, quote, f, j)]
    <2>1. f = [j \in S |-> f[j]]
        BY DEF Typed
    <2>2. \A j \in S : f[j] = LinesStep(b, quote, f, j)
        BY <1>2, <1>5
    <2> HIDE DEF F
    <2> QED
        BY <2>1, <2>2
<1>7. past = [j \in S |-> LinesStep(b, quote, past, j)]
    <2>1. past = CHOOSE p : p = [j \in S |-> LinesStep(b, quote, p, j)]
        BY DEF LinesPast
    <2> HIDE DEF past, F
    <2> QED
        BY <1>6, <2>1
<1>8. \A j \in S : past[j] = LinesStep(b, quote, past, j)
    <2> HIDE DEF past
    <2> QED
        BY <1>7
<1> DEFINE Bad == {j \in S : past[j] \notin LinesType(b, quote, j)}
<1>9. \A j \in Bad : \E k \in Bad : k > j
    <2> SUFFICES ASSUME NEW j \in Bad, \A k \in Bad : ~(k > j) PROVE FALSE
        OBVIOUS
    <2> HIDE DEF past
    <2>1. j \in S /\ past[j] \notin LinesType(b, quote, j)
        OBVIOUS
    <2>2. \A k \in S : k > j => past[k] \in LinesType(b, quote, k)
        OBVIOUS
    <2>3. LinesStep(b, quote, past, j) \in LinesType(b, quote, j)
        BY <2>1, <2>2, LinesTyped
    <2> QED
        BY <2>1, <2>3, <1>8
<1>10. Bad = {}
    <2>1. Bad \in SUBSET S
        OBVIOUS
    <2> HIDE DEF Bad
    <2> QED
        BY <2>1, <1>9, NoLastPosition
<1> QED
    BY <1>8, <1>10

(* tomlSkipString, unfolded. *)
StringStep(b, i, past, j) ==
    IF ~At(b, j, Marks \ {LF}) THEN tomlSkipLine(b, i)
    ELSE IF b[j] = b[i] THEN j + 1
    ELSE IF b[i] = DQ /\ b[j] = BS /\ j < Len(b) THEN past[j + 2]
    ELSE past[j + 1]

(* The function that tomlSkipString is defined with. *)
StringPast(b, i) == CHOOSE past : past = [j \in Positions(b) |-> StringStep(b, i, past, j)]

(* What its values at a position are. *)
StringType(b, i, j) == {k \in Positions(b) : j > i => k > i}

(* tomlSkipString, by that function. *)
LEMMA StringUnfolded ==
    ASSUME NEW b, NEW i
    PROVE  tomlSkipString(b, i) =
             IF At(b, i + 1, {b[i]}) /\ At(b, i + 2, {b[i]})
             THEN tomlSkipMultilineString(b, i + 3, b[i])
             ELSE StringPast(b, i)[i + 1]
    BY Zenon DEF tomlSkipString, StringPast, StringStep

(* There are values of that type. *)
LEMMA StringInhabited ==
    ASSUME NEW b \in Seq(Marks), NEW i \in 1..Len(b)
    PROVE  \A j \in Positions(b) : StringType(b, i, j) # {}
    BY DEF StringType

(* Where the scan goes on from within a string of one line. *)
LEMMA StringMoves ==
    ASSUME NEW b \in Seq(Marks), NEW j \in Positions(b), j <= Len(b)
    PROVE  /\ j + 1 \in Positions(b)
           /\ j + 1 > j
           /\ j < Len(b) => j + 2 \in Positions(b) /\ j + 2 > j
<1>1. Len(b) \in Nat /\ j \in Nat /\ 1 <= j
    BY BlockTyped, PositionIs
<1>2. j + 1 \in Positions(b) /\ j + 1 > j
    BY <1>1, PositionIs
<1>3. j < Len(b) => j + 2 \in Positions(b) /\ j + 2 > j
    BY <1>1, PositionIs
<1> QED
    BY <1>2, <1>3

(* One step keeps the type. *)
LEMMA StringTyped ==
    ASSUME NEW b \in Seq(Marks), NEW i \in 1..Len(b), NEW j \in Positions(b), NEW past,
           \A k \in Positions(b) : k > j => past[k] \in StringType(b, i, k)
    PROVE  StringStep(b, i, past, j) \in StringType(b, i, j)
<1>1. i \in Positions(b) /\ i <= Len(b) /\ i \in Nat /\ j \in Nat /\ Len(b) \in Nat
    BY BlockTyped, PositionIs
<1>2. tomlSkipLine(b, i) \in StringType(b, i, j)
    BY <1>1, SkipLineTyped DEF StringType
<1>3. CASE ~At(b, j, Marks \ {LF})
    BY <1>2, <1>3 DEF StringStep
<1>4. CASE At(b, j, Marks \ {LF})
    <2>1. j <= Len(b)
        BY <1>4 DEF At
    <2>2. ASSUME NEW k \in Positions(b), k > j
          PROVE  past[k] \in StringType(b, i, j)
        <3>1. past[k] \in StringType(b, i, k) /\ (j > i => k > i)
            BY <1>1, <2>2, PositionIs
        <3> QED
            BY <3>1 DEF StringType
    <2>3. j + 1 \in StringType(b, i, j)
        <3>1. j > i => j + 1 > i
            BY <1>1
        <3> QED
            BY <3>1, <2>1, StringMoves DEF StringType
    <2> QED
        BY <1>4, <2>1, <2>2, <2>3, StringMoves DEF StringStep
<1> QED
    BY <1>3, <1>4

(* One step uses the positions after it only. *)
LEMMA StringLocal ==
    ASSUME NEW b \in Seq(Marks), NEW i \in 1..Len(b), NEW j \in Positions(b), NEW f, NEW g,
           \A k \in Positions(b) : k > j => f[k] = g[k]
    PROVE  StringStep(b, i, f, j) = StringStep(b, i, g, j)
<1>1. CASE ~At(b, j, Marks \ {LF})
    BY <1>1 DEF StringStep
<1>2. CASE At(b, j, Marks \ {LF})
    <2>1. j <= Len(b)
        BY <1>2 DEF At
    <2> QED
        BY <1>2, <2>1, StringMoves DEF StringStep
<1> QED
    BY <1>1, <1>2

(* Where the string at i ends, from each position after it. *)
LEMMA StringEquation ==
    ASSUME NEW b \in Seq(Marks), NEW i \in 1..Len(b)
    PROVE  \A j \in Positions(b) :
               /\ StringPast(b, i)[j] = StringStep(b, i, StringPast(b, i), j)
               /\ StringPast(b, i)[j] \in StringType(b, i, j)
<1> DEFINE S == Positions(b)
           T == [j \in S |-> StringType(b, i, j)]
           F == Typed(S, T)
           G == [j \in S |-> [f \in F |-> StringStep(b, i, f, j)]]
           past == StringPast(b, i)
<1>1. \A j \in S : T[j] # {}
    BY StringInhabited
<1>2. ASSUME NEW j \in S, NEW f \in F
      PROVE  G[j][f] = StringStep(b, i, f, j) /\ StringStep(b, i, f, j) \in T[j]
    <2>1. \A k \in S : f[k] \in StringType(b, i, k)
        BY DEF Typed
    <2> HIDE DEF F
    <2>2. StringStep(b, i, f, j) \in StringType(b, i, j)
        BY <2>1, StringTyped
    <2> QED
        BY <2>2
<1>3. ASSUME NEW j \in S, NEW f \in F, NEW g \in F, \A k \in S : k > j => f[k] = g[k]
      PROVE  StringStep(b, i, f, j) = StringStep(b, i, g, j)
    <2> HIDE DEF F
    <2> QED
        BY <1>3, StringLocal
<1> HIDE DEF T, G
<1>4. IsScan(G, b, T)
    BY <1>1, <1>2, <1>3 DEF IsScan
<1>5. PICK f \in F : \A j \in S : f[j] = G[j][f]
    BY <1>4, ScanExists
<1>6. f = [j \in S |-> StringStep(b, i, f, j)]
    <2>1. f = [j \in S |-> f[j]]
        BY DEF Typed
    <2>2. \A j \in S : f[j] = StringStep(b, i, f, j)
        BY <1>2, <1>5
    <2> HIDE DEF F
    <2> QED
        BY <2>1, <2>2
<1>7. past = [j \in S |-> StringStep(b, i, past, j)]
    <2>1. past = CHOOSE p : p = [j \in S |-> StringStep(b, i, p, j)]
        BY DEF StringPast
    <2> HIDE DEF past, F
    <2> QED
        BY <1>6, <2>1
<1>8. \A j \in S : past[j] = StringStep(b, i, past, j)
    <2> HIDE DEF past
    <2> QED
        BY <1>7
<1> DEFINE Bad == {j \in S : past[j] \notin StringType(b, i, j)}
<1>9. \A j \in Bad : \E k \in Bad : k > j
    <2> SUFFICES ASSUME NEW j \in Bad, \A k \in Bad : ~(k > j) PROVE FALSE
        OBVIOUS
    <2> HIDE DEF past
    <2>1. j \in S /\ past[j] \notin StringType(b, i, j)
        OBVIOUS
    <2>2. \A k \in S : k > j => past[k] \in StringType(b, i, k)
        OBVIOUS
    <2>3. StringStep(b, i, past, j) \in StringType(b, i, j)
        BY <2>1, <2>2, StringTyped
    <2> QED
        BY <2>1, <2>3, <1>8
<1>10. Bad = {}
    <2>1. Bad \in SUBSET S
        OBVIOUS
    <2> HIDE DEF Bad
    <2> QED
        BY <2>1, <1>9, NoLastPosition
<1> QED
    BY <1>8, <1>10

(* A string ends past its start. *)
LEMMA SkipStringTyped ==
    ASSUME NEW b \in Seq(Marks), NEW i \in 1..Len(b)
    PROVE  tomlSkipString(b, i) \in Positions(b) /\ tomlSkipString(b, i) > i
<1>1. Len(b) \in Nat /\ i \in Nat /\ 1 <= i /\ i <= Len(b)
    BY BlockTyped
<1>2. CASE At(b, i + 1, {b[i]}) /\ At(b, i + 2, {b[i]})
    <2>1. i + 2 <= Len(b)
        BY <1>2 DEF At
    <2>2. i + 3 \in Positions(b)
        BY <1>1, <2>1, PositionIs
    <2>3. tomlSkipString(b, i) = LinesPast(b, b[i])[i + 3]
        BY <1>2, StringUnfolded, LinesUnfolded
    <2>4. LinesPast(b, b[i])[i + 3] \in Onward(b, i + 3)
        BY <2>2, LinesEquation DEF LinesType
    <2>5. \A k \in Onward(b, i + 3) : k \in Positions(b) /\ k > i
        BY <1>1, PositionIs DEF Onward
    <2> QED
        BY <2>3, <2>4, <2>5
<1>3. CASE ~(At(b, i + 1, {b[i]}) /\ At(b, i + 2, {b[i]}))
    <2>1. i + 1 \in Positions(b) /\ i + 1 > i
        BY <1>1, PositionIs
    <2>2. tomlSkipString(b, i) = StringPast(b, i)[i + 1]
        BY <1>3, StringUnfolded
    <2>3. StringPast(b, i)[i + 1] \in StringType(b, i, i + 1)
        BY <2>1, StringEquation
    <2> QED
        BY <2>1, <2>2, <2>3 DEF StringType
<1> QED
    BY <1>2, <1>3

(* tomlSkipValue, unfolded: from a position and a bracket depth.           *)
ValueGo(b, past, j, depth) ==
    IF j > Len(b) THEN j
    ELSE CASE b[j] \in {LF, "#"} ->
                IF depth = 0 THEN tomlSkipLine(b, j) ELSE past[tomlSkipLine(b, j)][depth]
           [] b[j] \in {DQ, SQ} -> past[tomlSkipString(b, j)][depth]
           [] b[j] \in Opening -> past[j + 1][depth + 1]
           [] b[j] \in Closing -> past[j + 1][IF depth > 0 THEN depth - 1 ELSE 0]
           [] OTHER -> past[j + 1][depth]

(* One step of the recursion in tomlSkipValue. *)
ValueStep(b, past, j) == [depth \in Nat |-> ValueGo(b, past, j, depth)]

(* The function that tomlSkipValue is defined with. *)
ValuePast(b) == CHOOSE past : past = [j \in Positions(b) |-> ValueStep(b, past, j)]

(* What its values at a position are. *)
ValueType(b, j) == [Nat -> Onward(b, j)]

(* tomlSkipValue, by that function. *)
LEMMA ValueUnfolded ==
    ASSUME NEW b, NEW i
    PROVE  tomlSkipValue(b, i) = ValuePast(b)[i][0]
    BY Zenon DEF tomlSkipValue, ValuePast, ValueStep, ValueGo

(* There are values of that type. *)
LEMMA ValueInhabited ==
    ASSUME NEW b \in Seq(Marks)
    PROVE  \A j \in Positions(b) : ValueType(b, j) # {}
<1>1. ASSUME NEW j \in Positions(b)
      PROVE  [depth \in Nat |-> j] \in [Nat -> Onward(b, j)]
    BY OnwardIs
<1> QED
    BY <1>1 DEF ValueType

(* The cases of ValueGo, each with what it goes on from. *)
LEMMA ValueCases ==
    ASSUME NEW b \in Seq(Marks), NEW j \in 1..Len(b)
    PROVE  /\ ~(j > Len(b))
           /\ b[j] \in {LF, "#"} =>
                b[j] \notin {DQ, SQ} /\ b[j] \notin Opening /\ b[j] \notin Closing
           /\ b[j] \in {DQ, SQ} =>
                b[j] \notin {LF, "#"} /\ b[j] \notin Opening /\ b[j] \notin Closing
           /\ b[j] \in Opening =>
                b[j] \notin {LF, "#"} /\ b[j] \notin {DQ, SQ} /\ b[j] \notin Closing
           /\ b[j] \in Closing =>
                b[j] \notin {LF, "#"} /\ b[j] \notin {DQ, SQ} /\ b[j] \notin Opening
<1>1. ~(j > Len(b))
    BY BlockTyped
<1>2. b[j] \in {LF, "#"} =>
        b[j] \notin {DQ, SQ} /\ b[j] \notin Opening /\ b[j] \notin Closing
    BY Zenon DEF LF, DQ, SQ, Opening, Closing
<1>3. b[j] \in {DQ, SQ} =>
        b[j] \notin {LF, "#"} /\ b[j] \notin Opening /\ b[j] \notin Closing
    BY Zenon DEF LF, DQ, SQ, Opening, Closing
<1>4. b[j] \in Opening =>
        b[j] \notin {LF, "#"} /\ b[j] \notin {DQ, SQ} /\ b[j] \notin Closing
    BY Zenon DEF LF, DQ, SQ, Opening, Closing
<1>5. b[j] \in Closing =>
        b[j] \notin {LF, "#"} /\ b[j] \notin {DQ, SQ} /\ b[j] \notin Opening
    BY Zenon DEF LF, DQ, SQ, Opening, Closing
<1> QED
    BY <1>1, <1>2, <1>3, <1>4, <1>5

(* A line end or a comment outside all brackets ends the value. *)
LEMMA ValueAtLineEnd ==
    ASSUME NEW b \in Seq(Marks), NEW j \in 1..Len(b), b[j] \in {LF, "#"}
    PROVE  \A past : ValueGo(b, past, j, 0) = tomlSkipLine(b, j)
    BY Zenon, ValueCases DEF ValueGo

(* Inside brackets the value goes on in the next line. *)
LEMMA ValueAtInnerLine ==
    ASSUME NEW b \in Seq(Marks), NEW j \in 1..Len(b), NEW depth,
           b[j] \in {LF, "#"}, depth # 0
    PROVE  \A past : ValueGo(b, past, j, depth) = past[tomlSkipLine(b, j)][depth]
    BY Zenon, ValueCases DEF ValueGo

(* A string is passed over. *)
LEMMA ValueAtQuote ==
    ASSUME NEW b \in Seq(Marks), NEW j \in 1..Len(b), NEW depth,
           b[j] \in {DQ, SQ}
    PROVE  \A past : ValueGo(b, past, j, depth) = past[tomlSkipString(b, j)][depth]
    BY Zenon, ValueCases DEF ValueGo

(* An opening bracket is one deeper. *)
LEMMA ValueAtOpening ==
    ASSUME NEW b \in Seq(Marks), NEW j \in 1..Len(b), NEW depth,
           b[j] \in Opening
    PROVE  \A past : ValueGo(b, past, j, depth) = past[j + 1][depth + 1]
    BY Zenon, ValueCases DEF ValueGo

(* The depth after a closing bracket, which is never negative. *)
Below(depth) == IF depth > 0 THEN depth - 1 ELSE 0

(* A closing bracket is one less deep. *)
LEMMA ValueAtClosing ==
    ASSUME NEW b \in Seq(Marks), NEW j \in 1..Len(b), NEW depth,
           b[j] \in Closing
    PROVE  \A past : ValueGo(b, past, j, depth) = past[j + 1][Below(depth)]
    BY Zenon, ValueCases DEF ValueGo, Below

(* The marks that mean something where a value is read. *)
ValueMarks == {LF, "#", DQ, SQ} \cup Opening \cup Closing

(* Every other mark is passed over. *)
LEMMA ValueAtOther ==
    ASSUME NEW b \in Seq(Marks), NEW j \in 1..Len(b), NEW depth,
           b[j] \notin ValueMarks
    PROVE  \A past : ValueGo(b, past, j, depth) = past[j + 1][depth]
<1>1. /\ b[j] \notin {LF, "#"} /\ b[j] \notin {DQ, SQ}
      /\ b[j] \notin Opening /\ b[j] \notin Closing
    BY DEF ValueMarks
<1> QED
    BY <1>1, Zenon, ValueCases DEF ValueGo

(* There is always a case, and all of them go on past the position. *)
LEMMA ValueMoves ==
    ASSUME NEW b \in Seq(Marks), NEW j \in 1..Len(b), NEW depth \in Nat
    PROVE  \/ \A f : ValueGo(b, f, j, depth) = tomlSkipLine(b, j)
           \/ \E k \in Positions(b), d \in Nat :
                 k > j /\ \A f : ValueGo(b, f, j, depth) = f[k][d]
<1>1. j \in Positions(b) /\ j <= Len(b)
    BY BlockTyped, PositionIs
<1>2. tomlSkipLine(b, j) \in Positions(b) /\ tomlSkipLine(b, j) > j
    BY <1>1, SkipLineTyped
<1>3. tomlSkipString(b, j) \in Positions(b) /\ tomlSkipString(b, j) > j
    BY SkipStringTyped
<1>4. j + 1 \in Positions(b) /\ j + 1 > j
    BY <1>1, StringMoves
<1>5. depth + 1 \in Nat /\ Below(depth) \in Nat
    BY DEF Below
<1>6. CASE b[j] \in {LF, "#"} /\ depth = 0
    BY <1>6, ValueAtLineEnd
<1>7. CASE b[j] \in {LF, "#"} /\ depth # 0
    <2>1. \A f : ValueGo(b, f, j, depth) = f[tomlSkipLine(b, j)][depth]
        BY <1>7, ValueAtInnerLine
    <2> QED
        BY <1>2, <2>1
<1>8. CASE b[j] \in {DQ, SQ}
    <2>1. \A f : ValueGo(b, f, j, depth) = f[tomlSkipString(b, j)][depth]
        BY <1>8, ValueAtQuote
    <2> QED
        BY <1>3, <2>1
<1>9. CASE b[j] \in Opening
    <2>1. \A f : ValueGo(b, f, j, depth) = f[j + 1][depth + 1]
        BY <1>9, ValueAtOpening
    <2> QED
        BY <1>4, <1>5, <2>1
<1>10. CASE b[j] \in Closing
    <2>1. \A f : ValueGo(b, f, j, depth) = f[j + 1][Below(depth)]
        BY <1>10, ValueAtClosing
    <2> QED
        BY <1>4, <1>5, <2>1
<1>11. CASE b[j] \notin ValueMarks
    <2>1. \A f : ValueGo(b, f, j, depth) = f[j + 1][depth]
        BY <1>11, ValueAtOther
    <2> QED
        BY <1>4, <2>1
<1> QED
    BY <1>6, <1>7, <1>8, <1>9, <1>10, <1>11 DEF ValueMarks

(* One step keeps the type. *)
LEMMA ValueTyped ==
    ASSUME NEW b \in Seq(Marks), NEW j \in Positions(b), NEW past,
           \A k \in Positions(b) : k > j => past[k] \in ValueType(b, k)
    PROVE  ValueStep(b, past, j) \in ValueType(b, j)
<1>1. ASSUME NEW depth \in Nat
      PROVE  ValueGo(b, past, j, depth) \in Onward(b, j)
    <2>1. CASE j > Len(b)
        BY <2>1, OnwardIs DEF ValueGo
    <2>2. CASE ~(j > Len(b))
        <3>1. j \in 1..Len(b) /\ j <= Len(b)
            BY <2>2, BlockTyped, PositionIs
        <3>2. tomlSkipLine(b, j) \in Onward(b, j)
            BY SkipLineTyped DEF Onward
        <3>3. ASSUME NEW k \in Positions(b), NEW d \in Nat, k > j
              PROVE  past[k][d] \in Onward(b, j)
            <4>1. past[k][d] \in Onward(b, k) /\ k \in Onward(b, j)
                BY <3>3, PositionIs DEF Onward, ValueType
            <4> QED
                BY <4>1, OnwardIs
        <3>4. CASE \A f : ValueGo(b, f, j, depth) = tomlSkipLine(b, j)
            BY <3>2, <3>4
        <3>5. CASE \E k \in Positions(b), d \in Nat :
                     k > j /\ \A f : ValueGo(b, f, j, depth) = f[k][d]
            <4>1. PICK k \in Positions(b), d \in Nat :
                     k > j /\ \A f : ValueGo(b, f, j, depth) = f[k][d]
                BY <3>5
            <4>2. ValueGo(b, past, j, depth) = past[k][d]
                BY <4>1
            <4> QED
                BY <3>3, <4>1, <4>2
        <3> QED
            BY <3>1, <3>4, <3>5, ValueMoves
    <2> QED
        BY <2>1, <2>2
<1> QED
    BY <1>1 DEF ValueStep, ValueType

(* One step uses the positions after it only. *)
LEMMA ValueLocal ==
    ASSUME NEW b \in Seq(Marks), NEW j \in Positions(b), NEW f, NEW g,
           \A k \in Positions(b) : k > j => f[k] = g[k]
    PROVE  ValueStep(b, f, j) = ValueStep(b, g, j)
<1>1. ASSUME NEW depth \in Nat
      PROVE  ValueGo(b, f, j, depth) = ValueGo(b, g, j, depth)
    <2>1. CASE j > Len(b)
        BY <2>1 DEF ValueGo
    <2>2. CASE ~(j > Len(b))
        <3>1. j \in 1..Len(b) /\ j <= Len(b)
            BY <2>2, BlockTyped, PositionIs
        <3> QED
            BY <1>1, <3>1, ValueMoves
    <2> QED
        BY <2>1, <2>2
<1> QED
    BY <1>1 DEF ValueStep

(* Where the value ends, from each position and bracket depth. *)
LEMMA ValueEquation ==
    ASSUME NEW b \in Seq(Marks)
    PROVE  \A j \in Positions(b) :
               /\ ValuePast(b)[j] = ValueStep(b, ValuePast(b), j)
               /\ ValuePast(b)[j] \in ValueType(b, j)
<1> DEFINE S == Positions(b)
           T == [j \in S |-> ValueType(b, j)]
           F == Typed(S, T)
           G == [j \in S |-> [f \in F |-> ValueStep(b, f, j)]]
           past == ValuePast(b)
<1>1. \A j \in S : T[j] # {}
    BY ValueInhabited
<1>2. ASSUME NEW j \in S, NEW f \in F
      PROVE  G[j][f] = ValueStep(b, f, j) /\ ValueStep(b, f, j) \in T[j]
    <2>1. \A k \in S : f[k] \in ValueType(b, k)
        BY DEF Typed
    <2> HIDE DEF F
    <2>2. ValueStep(b, f, j) \in ValueType(b, j)
        BY <2>1, ValueTyped
    <2> QED
        BY <2>2
<1>3. ASSUME NEW j \in S, NEW f \in F, NEW g \in F, \A k \in S : k > j => f[k] = g[k]
      PROVE  ValueStep(b, f, j) = ValueStep(b, g, j)
    <2> HIDE DEF F
    <2> QED
        BY <1>3, ValueLocal
<1> HIDE DEF T, G
<1>4. IsScan(G, b, T)
    BY <1>1, <1>2, <1>3 DEF IsScan
<1>5. PICK f \in F : \A j \in S : f[j] = G[j][f]
    BY <1>4, ScanExists
<1>6. f = [j \in S |-> ValueStep(b, f, j)]
    <2>1. f = [j \in S |-> f[j]]
        BY DEF Typed
    <2>2. \A j \in S : f[j] = ValueStep(b, f, j)
        BY <1>2, <1>5
    <2> HIDE DEF F
    <2> QED
        BY <2>1, <2>2
<1>7. past = [j \in S |-> ValueStep(b, past, j)]
    <2>1. past = CHOOSE p : p = [j \in S |-> ValueStep(b, p, j)]
        BY DEF ValuePast
    <2> HIDE DEF past, F
    <2> QED
        BY <1>6, <2>1
<1>8. \A j \in S : past[j] = ValueStep(b, past, j)
    <2> HIDE DEF past
    <2> QED
        BY <1>7
<1> DEFINE Bad == {j \in S : past[j] \notin ValueType(b, j)}
<1>9. \A j \in Bad : \E k \in Bad : k > j
    <2> SUFFICES ASSUME NEW j \in Bad, \A k \in Bad : ~(k > j) PROVE FALSE
        OBVIOUS
    <2> HIDE DEF past
    <2>1. j \in S /\ past[j] \notin ValueType(b, j)
        OBVIOUS
    <2>2. \A k \in S : k > j => past[k] \in ValueType(b, k)
        OBVIOUS
    <2>3. ValueStep(b, past, j) \in ValueType(b, j)
        BY <2>1, <2>2, ValueTyped
    <2> QED
        BY <2>1, <2>3, <1>8
<1>10. Bad = {}
    <2>1. Bad \in SUBSET S
        OBVIOUS
    <2> HIDE DEF Bad
    <2> QED
        BY <2>1, <1>9, NoLastPosition
<1> QED
    BY <1>8, <1>10

(* A value ends, with its line, in the block and not before it starts. *)
LEMMA SkipValueTyped ==
    ASSUME NEW b \in Seq(Marks), NEW i \in Positions(b)
    PROVE  tomlSkipValue(b, i) \in Positions(b) /\ tomlSkipValue(b, i) >= i
<1>1. ValuePast(b)[i] \in [Nat -> Onward(b, i)]
    BY ValueEquation DEF ValueType
<1>2. ValuePast(b)[i][0] \in Onward(b, i)
    BY <1>1
<1> QED
    BY <1>2, ValueUnfolded DEF Onward

(* The value from each position and depth is what ValueGo says. *)
LEMMA ValueFrom ==
    ASSUME NEW b \in Seq(Marks), NEW j \in Positions(b), NEW depth \in Nat
    PROVE  ValuePast(b)[j][depth] = ValueGo(b, ValuePast(b), j, depth)
<1>1. ValuePast(b)[j] = ValueStep(b, ValuePast(b), j)
    BY ValueEquation
<1> QED
    BY <1>1 DEF ValueStep

------------------------------------------------------------------------------
(***************************************************************************)
(* The scan for the keys of the top level.                                 *)
(***************************************************************************)

(* tomlTopLevelKeys, unfolded: from a position, past a header or not.      *)
KeysGo(b, scan, i, past) ==
    IF i > Len(b) THEN <<>>
    ELSE CASE b[i] \in {SP, LF} -> scan[i + 1][past]
           [] b[i] = "#" -> scan[tomlSkipLine(b, i)][past]
           [] b[i] = "[" ->
                <<tomlHeaderName(b, i).name>> \o scan[tomlHeaderName(b, i).next][TRUE]
           [] OTHER ->
                IF tomlDottedKey(b, i).next = NotAKey
                THEN scan[tomlSkipLine(b, i)][past]
                ELSE (IF past THEN <<>> ELSE <<tomlDottedKey(b, i).name>>)
                        \o scan[tomlSkipValue(b, tomlDottedKey(b, i).next)][past]

(* One step of the recursion in tomlTopLevelKeys. *)
KeysStep(b, scan, i) == [past \in BOOLEAN |-> KeysGo(b, scan, i, past)]

(* The function that tomlTopLevelKeys is defined with. *)
KeysPast(b) == CHOOSE scan : scan = [i \in Positions(b) |-> KeysStep(b, scan, i)]

(* Sequences of names. *)
NamesSeq == Seq(Seq(Marks))

(* What its values at a position are. *)
KeysType(b, i) == [BOOLEAN -> NamesSeq]

(* tomlTopLevelKeys, by that function. *)
LEMMA KeysUnfolded ==
    ASSUME NEW b
    PROVE  tomlTopLevelKeys(b) = Recorded(KeysPast(b)[1][FALSE])
    BY Zenon DEF tomlTopLevelKeys, KeysPast, KeysStep, KeysGo

(* There are values of that type. *)
LEMMA KeysInhabited ==
    ASSUME NEW b \in Seq(Marks)
    PROVE  \A j \in Positions(b) : KeysType(b, j) # {}
<1>1. [past \in BOOLEAN |-> <<>>] \in [BOOLEAN -> NamesSeq]
    BY DEF NamesSeq
<1> QED
    BY <1>1 DEF KeysType

(* The cases of KeysGo. *)
LEMMA KeysCases ==
    ASSUME NEW b \in Seq(Marks), NEW i \in 1..Len(b)
    PROVE  /\ ~(i > Len(b))
           /\ b[i] \in {SP, LF} => b[i] # "#" /\ b[i] # "["
           /\ b[i] = "#" => b[i] \notin {SP, LF} /\ b[i] # "["
           /\ b[i] = "[" => b[i] \notin {SP, LF} /\ b[i] # "#"
<1>1. ~(i > Len(b))
    BY BlockTyped
<1> QED
    BY <1>1 DEF SP, LF

(* A blank or an empty line is passed over. *)
LEMMA KeysAtBlank ==
    ASSUME NEW b \in Seq(Marks), NEW i \in 1..Len(b), NEW past, b[i] \in {SP, LF}
    PROVE  \A scan : KeysGo(b, scan, i, past) = scan[i + 1][past]
    BY Zenon, KeysCases DEF KeysGo

(* A comment is passed over. *)
LEMMA KeysAtComment ==
    ASSUME NEW b \in Seq(Marks), NEW i \in 1..Len(b), NEW past, b[i] = "#"
    PROVE  \A scan : KeysGo(b, scan, i, past) = scan[tomlSkipLine(b, i)][past]
    BY Zenon, KeysCases DEF KeysGo

(* A header is a name, and what follows belongs to its table. *)
LEMMA KeysAtHeader ==
    ASSUME NEW b \in Seq(Marks), NEW i \in 1..Len(b), NEW past, b[i] = "["
    PROVE  \A scan : KeysGo(b, scan, i, past) =
             <<tomlHeaderName(b, i).name>> \o scan[tomlHeaderName(b, i).next][TRUE]
    BY Zenon, KeysCases DEF KeysGo

(* The marks that start a line which is no key. *)
LineMarks == {SP, LF, "#", "["}

(* A line that is no key is passed over. *)
LEMMA KeysAtNoKey ==
    ASSUME NEW b \in Seq(Marks), NEW i \in 1..Len(b), NEW past, b[i] \notin LineMarks,
           tomlDottedKey(b, i).next = NotAKey
    PROVE  \A scan : KeysGo(b, scan, i, past) = scan[tomlSkipLine(b, i)][past]
<1>1. b[i] \notin {SP, LF} /\ b[i] # "#" /\ b[i] # "["
    BY DEF LineMarks
<1> QED
    BY <1>1, Zenon, KeysCases DEF KeysGo

(* A key is a name unless a table is open, and its value is passed over. *)
LEMMA KeysAtKey ==
    ASSUME NEW b \in Seq(Marks), NEW i \in 1..Len(b), NEW past, b[i] \notin LineMarks,
           tomlDottedKey(b, i).next # NotAKey
    PROVE  \A scan : KeysGo(b, scan, i, past) =
             (IF past THEN <<>> ELSE <<tomlDottedKey(b, i).name>>)
                 \o scan[tomlSkipValue(b, tomlDottedKey(b, i).next)][past]
<1>1. b[i] \notin {SP, LF} /\ b[i] # "#" /\ b[i] # "["
    BY DEF LineMarks
<1> QED
    BY <1>1, Zenon, KeysCases DEF KeysGo

(* The scan goes on past the position, after at most one name. *)
LEMMA KeysMove ==
    ASSUME NEW b \in Seq(Marks), NEW i \in 1..Len(b), NEW past \in BOOLEAN
    PROVE  \E k \in Positions(b), p \in BOOLEAN, front \in NamesSeq :
               /\ k > i
               /\ \/ \A scan : KeysGo(b, scan, i, past) = scan[k][p]
                  \/ \A scan : KeysGo(b, scan, i, past) = front \o scan[k][p]
<1>1. i \in Positions(b) /\ i <= Len(b)
    BY BlockTyped, PositionIs
<1>2. <<>> \in NamesSeq
    BY DEF NamesSeq
<1>3. tomlSkipLine(b, i) \in Positions(b) /\ tomlSkipLine(b, i) > i
    BY <1>1, SkipLineTyped
<1>4. CASE b[i] \in {SP, LF}
    <2>1. i + 1 \in Positions(b) /\ i + 1 > i
        BY <1>1, StringMoves
    <2>2. \A scan : KeysGo(b, scan, i, past) = scan[i + 1][past]
        BY <1>4, KeysAtBlank
    <2> QED
        BY <1>2, <2>1, <2>2
<1>5. CASE b[i] = "#"
    <2>1. \A scan : KeysGo(b, scan, i, past) = scan[tomlSkipLine(b, i)][past]
        BY <1>5, KeysAtComment
    <2> QED
        BY <1>2, <1>3, <2>1
<1>6. CASE b[i] = "["
    <2> DEFINE header == tomlHeaderName(b, i)
               front == <<header.name>>
    <2>1. header.name \in Seq(Marks) /\ header.next \in Positions(b) /\ header.next > i
        BY HeaderTyped
    <2>2. \A scan : KeysGo(b, scan, i, past) = <<header.name>> \o scan[header.next][TRUE]
        BY <1>6, KeysAtHeader
    <2> HIDE DEF header
    <2>3. <<header.name>> \in NamesSeq
        BY <2>1 DEF NamesSeq
    <2> QED
        BY <2>1, <2>2, <2>3
<1>7. CASE b[i] \notin LineMarks /\ tomlDottedKey(b, i).next = NotAKey
    <2>1. \A scan : KeysGo(b, scan, i, past) = scan[tomlSkipLine(b, i)][past]
        BY <1>7, KeysAtNoKey
    <2> QED
        BY <1>2, <1>3, <2>1
<1>8. CASE b[i] \notin LineMarks /\ tomlDottedKey(b, i).next # NotAKey
    <2> DEFINE key == tomlDottedKey(b, i)
               k == tomlSkipValue(b, key.next)
               front == IF past THEN <<>> ELSE <<key.name>>
    <2>1. key.name \in Seq(Marks) /\ key.next \in Positions(b) /\ key.next > i
        BY <1>8, <1>1, DottedKeyTyped
    <2>2. \A scan : KeysGo(b, scan, i, past) = front \o scan[k][past]
        BY <1>8, KeysAtKey
    <2> HIDE DEF key
    <2>3. k \in Positions(b) /\ k >= key.next
        BY <2>1, SkipValueTyped
    <2> HIDE DEF k
    <2>4. k > i
        BY <1>1, <2>1, <2>3, PositionIs
    <2>5. front \in NamesSeq
        BY <2>1, <1>2 DEF NamesSeq
    <2> HIDE DEF front
    <2> QED
        BY <2>2, <2>3, <2>4, <2>5
<1> QED
    BY <1>4, <1>5, <1>6, <1>7, <1>8 DEF LineMarks

(* One step keeps the type. *)
LEMMA KeysTyped ==
    ASSUME NEW b \in Seq(Marks), NEW j \in Positions(b), NEW past,
           \A k \in Positions(b) : k > j => past[k] \in KeysType(b, k)
    PROVE  KeysStep(b, past, j) \in KeysType(b, j)
<1>1. ASSUME NEW p \in BOOLEAN
      PROVE  KeysGo(b, past, j, p) \in NamesSeq
    <2>1. CASE j > Len(b)
        BY <2>1 DEF KeysGo, NamesSeq
    <2>2. CASE ~(j > Len(b))
        <3>1. j \in 1..Len(b)
            BY <2>2, BlockTyped, PositionIs
        <3>2. PICK k \in Positions(b), q \in BOOLEAN, front \in NamesSeq :
               /\ k > j
               /\ \/ \A scan : KeysGo(b, scan, j, p) = scan[k][q]
                  \/ \A scan : KeysGo(b, scan, j, p) = front \o scan[k][q]
            BY <3>1, KeysMove
        <3>3. past[k][q] \in NamesSeq
            BY <3>2 DEF KeysType
        <3>4. \/ KeysGo(b, past, j, p) = past[k][q]
              \/ KeysGo(b, past, j, p) = front \o past[k][q]
            BY <3>2
        <3>5. front \o past[k][q] \in NamesSeq
            BY <3>3, ConcatProperties DEF NamesSeq
        <3> QED
            BY <3>3, <3>4, <3>5
    <2> QED
        BY <2>1, <2>2
<1> QED
    BY <1>1 DEF KeysStep, KeysType

(* One step uses the positions after it only. *)
LEMMA KeysLocal ==
    ASSUME NEW b \in Seq(Marks), NEW j \in Positions(b), NEW f, NEW g,
           \A k \in Positions(b) : k > j => f[k] = g[k]
    PROVE  KeysStep(b, f, j) = KeysStep(b, g, j)
<1>1. ASSUME NEW p \in BOOLEAN
      PROVE  KeysGo(b, f, j, p) = KeysGo(b, g, j, p)
    <2>1. CASE j > Len(b)
        BY <2>1 DEF KeysGo
    <2>2. CASE ~(j > Len(b))
        <3>1. j \in 1..Len(b)
            BY <2>2, BlockTyped, PositionIs
        <3>2. PICK k \in Positions(b), q \in BOOLEAN, front \in NamesSeq :
               /\ k > j
               /\ \/ \A scan : KeysGo(b, scan, j, p) = scan[k][q]
                  \/ \A scan : KeysGo(b, scan, j, p) = front \o scan[k][q]
            BY <3>1, KeysMove
        <3>3. f[k] = g[k]
            BY <3>2
        <3> QED
            BY <3>2, <3>3
    <2> QED
        BY <2>1, <2>2
<1> QED
    BY <1>1 DEF KeysStep

(* The names from each position, past a header or not. *)
LEMMA KeysEquation ==
    ASSUME NEW b \in Seq(Marks)
    PROVE  \A j \in Positions(b) :
               /\ KeysPast(b)[j] = KeysStep(b, KeysPast(b), j)
               /\ KeysPast(b)[j] \in KeysType(b, j)
<1> DEFINE S == Positions(b)
           T == [j \in S |-> KeysType(b, j)]
           F == Typed(S, T)
           G == [j \in S |-> [f \in F |-> KeysStep(b, f, j)]]
           past == KeysPast(b)
<1>1. \A j \in S : T[j] # {}
    BY KeysInhabited
<1>2. ASSUME NEW j \in S, NEW f \in F
      PROVE  G[j][f] = KeysStep(b, f, j) /\ KeysStep(b, f, j) \in T[j]
    <2>1. \A k \in S : f[k] \in KeysType(b, k)
        BY DEF Typed
    <2> HIDE DEF F
    <2>2. KeysStep(b, f, j) \in KeysType(b, j)
        BY <2>1, KeysTyped
    <2> QED
        BY <2>2
<1>3. ASSUME NEW j \in S, NEW f \in F, NEW g \in F, \A k \in S : k > j => f[k] = g[k]
      PROVE  KeysStep(b, f, j) = KeysStep(b, g, j)
    <2> HIDE DEF F
    <2> QED
        BY <1>3, KeysLocal
<1> HIDE DEF T, G
<1>4. IsScan(G, b, T)
    BY <1>1, <1>2, <1>3 DEF IsScan
<1>5. PICK f \in F : \A j \in S : f[j] = G[j][f]
    BY <1>4, ScanExists
<1>6. f = [j \in S |-> KeysStep(b, f, j)]
    <2>1. f = [j \in S |-> f[j]]
        BY DEF Typed
    <2>2. \A j \in S : f[j] = KeysStep(b, f, j)
        BY <1>2, <1>5
    <2> HIDE DEF F
    <2> QED
        BY <2>1, <2>2
<1>7. past = [j \in S |-> KeysStep(b, past, j)]
    <2>1. past = CHOOSE p : p = [j \in S |-> KeysStep(b, p, j)]
        BY DEF KeysPast
    <2> HIDE DEF past, F
    <2> QED
        BY <1>6, <2>1
<1>8. \A j \in S : past[j] = KeysStep(b, past, j)
    <2> HIDE DEF past
    <2> QED
        BY <1>7
<1> DEFINE Bad == {j \in S : past[j] \notin KeysType(b, j)}
<1>9. \A j \in Bad : \E k \in Bad : k > j
    <2> SUFFICES ASSUME NEW j \in Bad, \A k \in Bad : ~(k > j) PROVE FALSE
        OBVIOUS
    <2> HIDE DEF past
    <2>1. j \in S /\ past[j] \notin KeysType(b, j)
        OBVIOUS
    <2>2. \A k \in S : k > j => past[k] \in KeysType(b, k)
        OBVIOUS
    <2>3. KeysStep(b, past, j) \in KeysType(b, j)
        BY <2>1, <2>2, KeysTyped
    <2> QED
        BY <2>1, <2>3, <1>8
<1>10. Bad = {}
    <2>1. Bad \in SUBSET S
        OBVIOUS
    <2> HIDE DEF Bad
    <2> QED
        BY <2>1, <1>9, NoLastPosition
<1> QED
    BY <1>8, <1>10

(* The equation of the scan, and that it finds names. *)
LEMMA KeysFrom ==
    ASSUME NEW b \in Seq(Marks), NEW i \in Positions(b), NEW past \in BOOLEAN
    PROVE  /\ KeysPast(b)[i][past] = KeysGo(b, KeysPast(b), i, past)
           /\ KeysPast(b)[i][past] \in NamesSeq
<1>1. KeysPast(b)[i] = KeysStep(b, KeysPast(b), i) /\ KeysPast(b)[i] \in KeysType(b, i)
    BY KeysEquation
<1> QED
    BY <1>1 DEF KeysStep, KeysType

------------------------------------------------------------------------------
(***************************************************************************)
(* Sequences put together from pieces.                                     *)
(***************************************************************************)

(* What holds at 0, and at k whenever at k - 1, holds up to n. *)
LEMMA Ascending ==
    ASSUME NEW n \in Nat, NEW Bad \in SUBSET (0..n), 0 \notin Bad,
           \A k \in Bad : k - 1 \in Bad
    PROVE  Bad = {}
<1> SUFFICES ASSUME Bad # {} PROVE FALSE
    OBVIOUS
<1>1. Bad \subseteq Nat
    OBVIOUS
<1>2. PICK k \in Bad : \A j \in Bad : k <= j
    BY <1>1, LeastNumber
<1>3. k \in Nat /\ k # 0 /\ k - 1 \in Bad
    BY <1>1
<1>4. k <= k - 1
    BY <1>2, <1>3
<1> QED
    BY <1>3, <1>4

(* FlattenSeq, unfolded. *)
FlatStep(s, past, i) == IF i = 1 THEN s[i] ELSE past[i - 1] \o s[i]

(* The function that FlattenSeq is defined with. *)
FlatPast(s) == CHOOSE past : past = [i \in 1..Len(s) |-> FlatStep(s, past, i)]

(* FlattenSeq, by that function. *)
LEMMA FlatUnfolded ==
    ASSUME NEW s
    PROVE  FlattenSeq(s) = IF Len(s) = 0 THEN s ELSE FlatPast(s)[Len(s)]
    BY Zenon DEF FlattenSeq, FlatPast, FlatStep

(* Its equation, and the type of its values. *)
LEMMA FlatEquation ==
    ASSUME NEW A, NEW s \in Seq(Seq(A))
    PROVE  \A i \in 1..Len(s) :
               FlatPast(s)[i] = FlatStep(s, FlatPast(s), i) /\ FlatPast(s)[i] \in Seq(A)
<1> DEFINE S == 1..Len(s)
           T == [i \in S |-> Seq(A)]
           F == Typed(S, T)
           m == [i \in S |-> i]
           G == [i \in S |-> [f \in F |-> FlatStep(s, f, i)]]
           past == FlatPast(s)
<1>1. Len(s) \in Nat /\ \A i \in S : s[i] \in Seq(A)
    BY LenProperties, ElementOfSeq
<1>2. ASSUME NEW i \in S, NEW f, i # 1 => f[i - 1] \in Seq(A)
      PROVE  FlatStep(s, f, i) \in Seq(A)
    <2>1. CASE i = 1
        BY <1>1, <2>1 DEF FlatStep
    <2>2. CASE i # 1
        BY <1>1, <1>2, <2>2, ConcatProperties DEF FlatStep
    <2> QED
        BY <2>1, <2>2
<1>3. \A i \in S : i # 1 => i - 1 \in S /\ i - 1 < i
    BY <1>1
<1>4. ASSUME NEW i \in S, NEW f \in F
      PROVE  G[i][f] = FlatStep(s, f, i) /\ FlatStep(s, f, i) \in T[i]
    <2>1. \A k \in S : f[k] \in Seq(A)
        BY DEF Typed
    <2> HIDE DEF F
    <2>2. FlatStep(s, f, i) \in Seq(A)
        <3> HIDE DEF S
        <3> QED
            BY <1>2, <1>3, <2>1
    <2> QED
        BY <2>2
<1>5. ASSUME NEW i \in S, NEW f, NEW g, \A k \in S : m[k] < m[i] => f[k] = g[k]
      PROVE  FlatStep(s, f, i) = FlatStep(s, g, i)
    <2>1. i # 1 => f[i - 1] = g[i - 1]
        BY <1>3, <1>5
    <2> QED
        BY <2>1 DEF FlatStep
<1>6. m \in [S -> Nat] /\ Len(s) + 1 \in Nat /\ \A i \in S : m[i] < Len(s) + 1
    BY <1>1
<1>7. \A i \in S : T[i] # {}
    <2>1. <<>> \in Seq(A)
        OBVIOUS
    <2> QED
        BY <2>1
<1> HIDE DEF T, G, m
<1>8. IsRecursion(G, S, T, m)
    <2>1. \A i \in S : \A f \in F : G[i][f] \in T[i]
        BY <1>4
    <2>2. \A i \in S : \A f, g \in F :
            (\A k \in S : m[k] < m[i] => f[k] = g[k]) => G[i][f] = G[i][g]
        <3> HIDE DEF S, F
        <3> QED
            BY <1>4, <1>5
    <2> HIDE DEF S
    <2> QED
        BY <1>7, <2>1, <2>2 DEF IsRecursion
<1>9. \E f \in F : IsSolution(f, G, S)
    BY <1>6, <1>8, RecursionOnMeasure
<1>10. PICK f \in F : \A i \in S : f[i] = G[i][f]
    BY <1>9 DEF IsSolution
<1>11. f = [i \in S |-> FlatStep(s, f, i)]
    <2>1. f = [i \in S |-> f[i]]
        BY DEF Typed
    <2>2. \A i \in S : f[i] = FlatStep(s, f, i)
        BY <1>4, <1>10
    <2> HIDE DEF F, S
    <2> QED
        BY <2>1, <2>2
<1>12. past = [i \in S |-> FlatStep(s, past, i)]
    <2>1. past = CHOOSE p : p = [i \in S |-> FlatStep(s, p, i)]
        BY DEF FlatPast
    <2> HIDE DEF past, F, S
    <2> QED
        BY <1>11, <2>1
<1>13. \A i \in S : past[i] = FlatStep(s, past, i)
    <2> HIDE DEF past, S
    <2> QED
        BY <1>12
<1> DEFINE Bad == {i \in S : past[i] \notin Seq(A)}
<1>14. Bad = {}
    <2>1. Bad \in SUBSET (0..Len(s)) /\ 0 \notin Bad
        BY <1>1
    <2>2. ASSUME NEW k \in Bad
          PROVE  k - 1 \in Bad
        <3> HIDE DEF past, S
        <3>1. k \in S /\ past[k] \notin Seq(A)
            OBVIOUS
        <3>2. ~(k # 1 => past[k - 1] \in Seq(A))
            BY <1>2, <1>13, <3>1
        <3> QED
            BY <1>3, <3>1, <3>2
    <2> HIDE DEF Bad
    <2> QED
        BY <1>1, <2>1, <2>2, Ascending
<1> QED
    BY <1>13, <1>14

(* The first n pieces, put together. *)
Joined(s, n) == IF n = 0 THEN <<>> ELSE FlatPast(s)[n]

(* The first n pieces, joined: one piece after the other, and all of       *)
(* them in the end.                                                        *)
LEMMA JoinedIs ==
    ASSUME NEW A, NEW s \in Seq(Seq(A))
    PROVE  /\ Len(s) \in Nat
           /\ Joined(s, 0) = <<>>
           /\ \A n \in 0..Len(s) : Joined(s, n) \in Seq(A)
           /\ \A n \in 1..Len(s) : Joined(s, n) = Joined(s, n - 1) \o s[n] /\ s[n] \in Seq(A)
           /\ FlattenSeq(s) = Joined(s, Len(s))
<1>1. Len(s) \in Nat /\ \A n \in 1..Len(s) : s[n] \in Seq(A)
    BY LenProperties, ElementOfSeq
<1>2. Joined(s, 0) = <<>>
    BY DEF Joined
<1>3. ASSUME NEW n \in 0..Len(s)
      PROVE  Joined(s, n) \in Seq(A)
    <2>1. CASE n = 0
        BY <2>1 DEF Joined
    <2>2. CASE n # 0
        <3>1. n \in 1..Len(s)
            BY <1>1, <2>2
        <3> QED
            BY <2>2, <3>1, FlatEquation DEF Joined
    <2> QED
        BY <2>1, <2>2
<1>4. ASSUME NEW n \in 1..Len(s)
      PROVE  Joined(s, n) = Joined(s, n - 1) \o s[n]
    <2>1. Joined(s, n) = FlatStep(s, FlatPast(s), n)
        BY FlatEquation DEF Joined
    <2>2. CASE n = 1
        <3>1. Joined(s, n) = s[n] /\ Joined(s, n - 1) = <<>>
            BY <2>1, <2>2 DEF FlatStep, Joined
        <3> QED
            BY <3>1, <1>1, ConcatEmptySeq
    <2>3. CASE n # 1
        <3>1. n - 1 # 0
            BY <1>1, <2>3
        <3>2. Joined(s, n - 1) = FlatPast(s)[n - 1]
            BY <3>1 DEF Joined
        <3> QED
            BY <2>1, <2>3, <3>2 DEF FlatStep
    <2> QED
        BY <2>2, <2>3
<1>5. FlattenSeq(s) = Joined(s, Len(s))
    <2>1. Len(s) = 0 => s = <<>>
        BY EmptySeq
    <2> QED
        BY <2>1, FlatUnfolded DEF Joined
<1> QED
    BY <1>1, <1>2, <1>3, <1>4, <1>5

(* They are those of the first n pieces, whatever comes after them. *)
LEMMA JoinedAlike ==
    ASSUME NEW A, NEW s \in Seq(Seq(A)), NEW t \in Seq(Seq(A)), NEW n \in Nat,
           n <= Len(s), n <= Len(t), \A i \in 1..n : s[i] = t[i]
    PROVE  Joined(s, n) = Joined(t, n)
<1> DEFINE Bad == {k \in 0..n : Joined(s, k) # Joined(t, k)}
<1>1. Len(s) \in Nat /\ Len(t) \in Nat /\ Joined(s, 0) = Joined(t, 0)
    BY JoinedIs
<1>2. ASSUME NEW k \in Bad
      PROVE  k - 1 \in Bad
    <2>1. k \in 0..n /\ Joined(s, k) # Joined(t, k)
        OBVIOUS
    <2>2. k # 0
        BY <1>1, <2>1
    <2>3. k \in 1..n /\ k - 1 \in 0..n /\ k \in 1..Len(s) /\ k \in 1..Len(t)
        BY <1>1, <2>1, <2>2
    <2>4. Joined(s, k) = Joined(s, k - 1) \o s[k] /\ Joined(t, k) = Joined(t, k - 1) \o t[k]
        BY <2>3, JoinedIs
    <2>5. Joined(s, k - 1) # Joined(t, k - 1)
        BY <2>1, <2>3, <2>4
    <2> QED
        BY <2>3, <2>5
<1>3. Bad \in SUBSET (0..n) /\ 0 \notin Bad
    BY <1>1
<1>4. Bad = {}
    <2> HIDE DEF Bad
    <2> QED
        BY <1>2, <1>3, Ascending
<1> QED
    BY <1>4

(* FlattenSeq of a sequence with one piece more. *)
LEMMA FlattenAppend ==
    ASSUME NEW A, NEW s \in Seq(Seq(A)), NEW x \in Seq(A)
    PROVE  /\ FlattenSeq(Append(s, x)) = FlattenSeq(s) \o x
           /\ FlattenSeq(s) \in Seq(A)
           /\ FlattenSeq(<<>>) = <<>>
<1> DEFINE t == Append(s, x)
           n == Len(s)
<1>1. t \in Seq(Seq(A)) /\ Len(t) = n + 1 /\ n \in Nat /\ t[n + 1] = x
      /\ \A i \in 1..n : t[i] = s[i]
    BY AppendProperties, LenProperties
<1> HIDE DEF t
<1>2. Joined(t, n) = Joined(s, n)
    <2>1. n <= Len(s) /\ n <= Len(t) /\ \A i \in 1..n : s[i] = t[i]
        BY <1>1
    <2> QED
        BY <1>1, <2>1, JoinedAlike
<1>3. n + 1 \in 1..Len(t) /\ n \in 0..n
    BY <1>1
<1>4. Joined(t, n + 1) = Joined(t, n) \o t[n + 1]
    <2>1. Joined(t, n + 1) = Joined(t, (n + 1) - 1) \o t[n + 1]
        BY <1>1, <1>3, JoinedIs
    <2>2. (n + 1) - 1 = n
        BY <1>1
    <2> QED
        BY <2>1, <2>2
<1>5. FlattenSeq(t) = Joined(t, n + 1) /\ FlattenSeq(s) = Joined(s, n) /\ Joined(s, n) \in Seq(A)
    BY <1>1, <1>3, JoinedIs
<1>6. FlattenSeq(<<>>) = <<>>
    BY FlatUnfolded
<1> QED
    BY <1>1, <1>2, <1>4, <1>5, <1>6 DEF t

------------------------------------------------------------------------------
(***************************************************************************)
(* Elements picked from a sequence, in their order.                        *)
(***************************************************************************)

(* A piece for each element: the element where its place is in I,          *)
(* nothing elsewhere.                                                      *)
Picks(s, I) == [i \in DOMAIN s |-> IF i \in I THEN <<s[i]>> ELSE <<>>]

(* They are as many as the elements. *)
LEMMA PicksTyped ==
    ASSUME NEW A, NEW s \in Seq(A), NEW I
    PROVE  /\ Picks(s, I) \in Seq(Seq(A))
           /\ Len(Picks(s, I)) = Len(s)
           /\ Len(s) \in Nat /\ DOMAIN s = 1..Len(s)
           /\ \A i \in 1..Len(s) : Picks(s, I)[i] = IF i \in I THEN <<s[i]>> ELSE <<>>
<1>1. Len(s) \in Nat /\ DOMAIN s = 1..Len(s) /\ \A i \in 1..Len(s) : s[i] \in A
    BY LenProperties, ElementOfSeq
<1> DEFINE e(i) == IF i \in I THEN <<s[i]>> ELSE <<>>
           n == Len(s)
           p == [i \in 1..n |-> e(i)]
<1>2. \A i \in 1..n : e(i) \in Seq(A)
    BY <1>1
<1>3. n \in Nat /\ \A i \in 1..n : p[i] \in Seq(A)
    BY <1>1, <1>2
<1>4. p \in [1..n -> Seq(A)]
    BY <1>2
<1>5. p \in Seq(Seq(A)) /\ Len(p) = n
    <2> HIDE DEF p, n
    <2> QED
        BY <1>3, <1>4
<1>6. Picks(s, I) = p
    BY <1>1 DEF Picks
<1> QED
    BY <1>1, <1>5, <1>6

(* p holds the elements of s at the indices I, and at says where from.     *)
IsSelection(at, p, s, I) ==
    /\ at \in [1..Len(p) -> I]
    /\ \A k, l \in 1..Len(p) : k < l => at[k] < at[l]
    /\ \A k \in 1..Len(p) : p[k] = s[at[k]]
    /\ \A i \in I : \E k \in 1..Len(p) : at[k] = i

(* A selection grows by the element at an index past all of its own.       *)
LEMMA SelectionGrows ==
    ASSUME NEW A, NEW s, NEW p \in Seq(A), NEW I \in SUBSET Nat, NEW at,
           IsSelection(at, p, s, I), NEW n \in Nat, \A i \in I : i < n, s[n] \in A
    PROVE  \E up : IsSelection(up, p \o <<s[n]>>, s, I \cup {n})
<1> DEFINE q == p \o <<s[n]>>
           m == Len(p)
           up == [k \in 1..(m + 1) |-> IF k <= m THEN at[k] ELSE n]
<1>1. m \in Nat /\ Len(q) = m + 1 /\ q[m + 1] = s[n] /\ \A k \in 1..m : q[k] = p[k]
    <2>1. <<s[n]>> \in Seq(A) /\ Len(<<s[n]>>) = 1 /\ <<s[n]>>[1] = s[n] /\ m \in Nat
        BY LenProperties
    <2>2. Len(q) = m + 1
        BY <2>1, ConcatProperties
    <2>3. \A k \in 1..(m + 1) : q[k] = IF k <= m THEN p[k] ELSE <<s[n]>>[k - m]
        BY <2>1, ConcatProperties
    <2> HIDE DEF q, m
    <2>4. m + 1 \in 1..(m + 1) /\ ~(m + 1 <= m) /\ (m + 1) - m = 1
        BY <2>1
    <2>5. q[m + 1] = s[n]
        BY <2>1, <2>3, <2>4
    <2>6. \A k \in 1..m : q[k] = p[k]
        BY <2>1, <2>3
    <2> QED
        BY <2>1, <2>2, <2>5, <2>6
<1>2. \A k \in 1..m : at[k] \in I /\ at[k] \in Nat /\ at[k] < n
    BY DEF IsSelection
<1>3. /\ \A k \in 1..m : up[k] = at[k]
      /\ up[m + 1] = n
      /\ DOMAIN up = 1..(m + 1)
    <2> HIDE DEF m
    <2> QED
        BY <1>1
<1>4. up \in [1..(m + 1) -> I \cup {n}]
    <2> HIDE DEF m
    <2> QED
        BY <1>1, <1>2
<1> HIDE DEF up, q
<1>5. \A k \in 1..(m + 1) : k \in 1..m \/ k = m + 1
    <2> HIDE DEF m
    <2> QED
        BY <1>1
<1>6. ASSUME NEW k \in 1..(m + 1), NEW l \in 1..(m + 1), k < l
      PROVE  up[k] < up[l]
    <2>1. k \in 1..m
        <3> HIDE DEF m
        <3> QED
            BY <1>1, <1>6
    <2>2. CASE l \in 1..m
        BY <1>3, <1>6, <2>1, <2>2 DEF IsSelection
    <2>3. CASE l = m + 1
        BY <1>2, <1>3, <2>1, <2>3
    <2> QED
        BY <1>5, <2>2, <2>3
<1>7. ASSUME NEW k \in 1..(m + 1)
      PROVE  q[k] = s[up[k]]
    <2>1. CASE k \in 1..m
        BY <1>1, <1>3, <2>1 DEF IsSelection
    <2>2. CASE k = m + 1
        BY <1>1, <1>3, <2>2
    <2> QED
        BY <1>5, <2>1, <2>2
<1>8. ASSUME NEW i \in I \cup {n}
      PROVE  \E k \in 1..(m + 1) : up[k] = i
    <2>1. CASE i \in I
        <3>1. PICK k \in 1..m : at[k] = i
            BY <2>1 DEF IsSelection
        <3>2. k \in 1..(m + 1)
            <4> HIDE DEF m
            <4> QED
                BY <1>1
        <3> QED
            BY <3>1, <3>2, <1>3
    <2>2. CASE i = n
        <3>1. m + 1 \in 1..(m + 1)
            BY <1>1
        <3> QED
            BY <2>2, <3>1, <1>3
    <2> QED
        BY <2>1, <2>2
<1> HIDE DEF m
<1>9. IsSelection(up, q, s, I \cup {n})
    BY <1>1, <1>4, <1>6, <1>7, <1>8 DEF IsSelection
<1> QED
    BY <1>9 DEF q

(* What is picked is a selection of the indices. *)
LEMMA PickedIsSelection ==
    ASSUME NEW A, NEW s \in Seq(A), NEW I \in SUBSET DOMAIN s
    PROVE  /\ FlattenSeq(Picks(s, I)) \in Seq(A)
           /\ \E at : IsSelection(at, FlattenSeq(Picks(s, I)), s, I)
<1> DEFINE t == Picks(s, I)
           n == Len(s)
           Upto(k) == {i \in I : i <= k}
           Fine(k) == \E at : IsSelection(at, Joined(t, k), s, Upto(k))
           Bad == {k \in 0..n : ~Fine(k)}
<1>1. /\ t \in Seq(Seq(A)) /\ Len(t) = n /\ n \in Nat /\ DOMAIN s = 1..n
      /\ \A i \in 1..n : t[i] = IF i \in I THEN <<s[i]>> ELSE <<>>
    BY PicksTyped
<1> HIDE DEF t
<1>2. I \subseteq 1..n /\ \A i \in 1..n : s[i] \in A
    BY <1>1, ElementOfSeq
<1>3. /\ Joined(t, 0) = <<>>
      /\ \A k \in 0..n : Joined(t, k) \in Seq(A)
      /\ \A k \in 1..n : Joined(t, k) = Joined(t, k - 1) \o t[k]
      /\ FlattenSeq(t) = Joined(t, n)
    BY <1>1, JoinedIs
<1>4. Fine(0)
    <2>1. Upto(0) = {}
        BY <1>1, <1>2
    <2>2. Len(<<>>) = 0 /\ 1..0 = {}
        OBVIOUS
    <2>3. IsSelection([k \in {} |-> 0], <<>>, s, {})
        BY <2>2 DEF IsSelection
    <2> QED
        BY <1>3, <2>1, <2>3
<1>5. ASSUME NEW k \in Bad
      PROVE  k - 1 \in Bad
    <2>1. k \in 0..n /\ ~Fine(k)
        OBVIOUS
    <2>2. k # 0
        <3> HIDE DEF Fine
        <3> QED
            BY <1>4, <2>1
    <2>3. k \in 1..n /\ k - 1 \in 0..n /\ k \in Nat /\ k - 1 \in Nat
        <3> HIDE DEF Fine, n
        <3> QED
            BY <1>1, <2>1, <2>2
    <2>4. ASSUME NEW at, IsSelection(at, Joined(t, k - 1), s, Upto(k - 1))
          PROVE  FALSE
        <3> DEFINE p == Joined(t, k - 1)
        <3>1. p \in Seq(A)
            BY <1>3, <2>3
        <3>2. CASE k \in I
            <4>1. Upto(k) = Upto(k - 1) \cup {k}
                <5> HIDE DEF n
                <5> QED
                    BY <1>1, <1>2, <2>3, <3>2
            <4>2. Joined(t, k) = p \o <<s[k]>>
                BY <1>1, <1>3, <2>3, <3>2
            <4>3. Upto(k - 1) \in SUBSET Nat /\ \A i \in Upto(k - 1) : i < k
                <5> HIDE DEF n
                <5> QED
                    BY <1>1, <1>2, <2>3
            <4>4. s[k] \in A
                BY <1>2, <2>3
            <4> HIDE DEF p
            <4>5. IsSelection(at, p, s, Upto(k - 1))
                BY <2>4 DEF p
            <4> HIDE DEF Upto
            <4>6. \E up : IsSelection(up, p \o <<s[k]>>, s, Upto(k - 1) \cup {k})
                BY <3>1, <4>3, <4>4, <4>5, <2>3, SelectionGrows
            <4> QED
                BY <2>1, <4>1, <4>2, <4>6
        <3>3. CASE k \notin I
            <4>1. Upto(k) = Upto(k - 1)
                <5> HIDE DEF n
                <5> QED
                    BY <1>1, <1>2, <2>3, <3>3
            <4>2. Joined(t, k) = p
                BY <1>1, <1>3, <2>3, <3>1, <3>3, ConcatEmptySeq
            <4> HIDE DEF Upto
            <4> QED
                BY <2>1, <2>4, <4>1, <4>2
        <3> QED
            BY <3>2, <3>3
    <2>5. ~Fine(k - 1)
        BY <2>4
    <2> HIDE DEF Fine
    <2> QED
        BY <2>3, <2>5
<1>6. Bad \in SUBSET (0..n) /\ 0 \notin Bad
    <2> HIDE DEF Fine
    <2> QED
        BY <1>4
<1>7. Bad = {}
    <2> HIDE DEF Bad
    <2> QED
        BY <1>1, <1>5, <1>6, Ascending
<1>8. Fine(n)
    <2> HIDE DEF Fine
    <2>1. n \in 0..n
        BY <1>1
    <2> QED
        BY <1>7, <2>1
<1>9. Upto(n) = I
    BY <1>1, <1>2
<1>10. n \in 0..n
    BY <1>1
<1> QED
    BY <1>3, <1>8, <1>9, <1>10 DEF t

(* No element twice. *)
Distinct(s) == \A i, j \in DOMAIN s : s[i] = s[j] => i = j

(* The set of the elements of a sequence. *)
LEMMA ToSetIs ==
    ASSUME NEW A, NEW s \in Seq(A)
    PROVE  /\ Len(s) \in Nat
           /\ DOMAIN s = 1..Len(s)
           /\ ToSet(s) \subseteq A
           /\ \A x : x \in ToSet(s) <=> \E i \in 1..Len(s) : s[i] = x
<1>1. Len(s) \in Nat /\ DOMAIN s = 1..Len(s) /\ \A i \in 1..Len(s) : s[i] \in A
    BY LenProperties, ElementOfSeq
<1> QED
    BY <1>1 DEF ToSet

(* A selection has the elements at its indices, keeps their order and      *)
(* makes none, and no element twice if they differ.                        *)
KeepsOrder(p, s, I) ==
    /\ ToSet(p) = {s[i] : i \in I}
    /\ (\A i, j \in I : s[i] = s[j] => i = j) => Distinct(p)
    /\ \A i, j \in I : i < j => Precedes(p, s[i], s[j])
    /\ \A x, y : Precedes(p, x, y) => \E i, j \in I : i < j /\ s[i] = x /\ s[j] = y

(* A selection has the elements that were selected, in their order. *)
LEMMA SelectionKeeps ==
    ASSUME NEW A, NEW s \in Seq(A), NEW I \in SUBSET DOMAIN s, NEW p \in Seq(A), NEW at,
           IsSelection(at, p, s, I)
    PROVE  KeepsOrder(p, s, I)
<1> DEFINE m == Len(p)
<1>1. m \in Nat /\ DOMAIN p = 1..m /\ DOMAIN s = 1..Len(s) /\ Len(s) \in Nat
    BY LenProperties
<1>2. /\ \A k \in 1..m : at[k] \in I
      /\ \A k, l \in 1..m : k < l => at[k] < at[l]
      /\ \A k \in 1..m : p[k] = s[at[k]]
      /\ \A i \in I : \E k \in 1..m : at[k] = i
    BY DEF IsSelection
<1>3. \A k, l \in 1..m : at[k] < at[l] => k < l
    <2> SUFFICES ASSUME NEW k \in 1..m, NEW l \in 1..m, at[k] < at[l] PROVE k < l
        OBVIOUS
    <2>1. at[k] \in Nat /\ at[l] \in Nat
        BY <1>1, <1>2
    <2>2. ~(l < k)
        BY <1>2, <2>1
    <2>3. k # l
        BY <2>1
    <2> HIDE DEF m
    <2> QED
        BY <1>1, <2>2, <2>3
<1> HIDE DEF m
<1>4. ToSet(p) = {s[i] : i \in I}
    BY <1>1, <1>2 DEF ToSet
<1>5. ASSUME \A i, j \in I : s[i] = s[j] => i = j
      PROVE  Distinct(p)
    <2> SUFFICES ASSUME NEW k \in 1..m, NEW l \in 1..m, p[k] = p[l] PROVE k = l
        BY <1>1 DEF Distinct
    <2>1. at[k] = at[l]
        BY <1>2, <1>5
    <2>2. at[k] \in Nat
        BY <1>1, <1>2
    <2>3. ~(k < l) /\ ~(l < k)
        BY <1>2, <2>1, <2>2
    <2> QED
        BY <1>1, <2>3
<1>6. ASSUME NEW i \in I, NEW j \in I, i < j
      PROVE  Precedes(p, s[i], s[j])
    <2>1. PICK k \in 1..m : at[k] = i
        BY <1>2
    <2>2. PICK l \in 1..m : at[l] = j
        BY <1>2
    <2>3. k < l
        BY <1>3, <1>6, <2>1, <2>2
    <2>4. p[k] = s[i] /\ p[l] = s[j]
        BY <1>2, <2>1, <2>2
    <2> QED
        BY <1>1, <2>3, <2>4 DEF Precedes
<1>7. ASSUME NEW x, NEW y, Precedes(p, x, y)
      PROVE  \E i, j \in I : i < j /\ s[i] = x /\ s[j] = y
    <2>1. PICK k \in 1..m, l \in 1..m : k < l /\ p[k] = x /\ p[l] = y
        BY <1>1, <1>7 DEF Precedes
    <2>2. at[k] \in I /\ at[l] \in I /\ at[k] < at[l] /\ s[at[k]] = x /\ s[at[l]] = y
        BY <1>2, <2>1
    <2> QED
        BY <2>2
<1> QED
    BY <1>4, <1>5, <1>6, <1>7 DEF KeepsOrder

(* Kept keeps the wanted names, in their order. *)
KeptAt(names, wanted) == {i \in DOMAIN names : names[i] \in wanted}

(* Kept has the names that are wanted, each as often as before, in their   *)
(* order.                                                                  *)
LEMMA KeptIs ==
    ASSUME NEW A, NEW names \in Seq(A), NEW wanted
    PROVE  /\ Kept(names, wanted) \in Seq(A)
           /\ ToSet(Kept(names, wanted)) = ToSet(names) \cap wanted
           /\ Distinct(names) => Distinct(Kept(names, wanted))
           /\ \A x, y \in wanted : Precedes(names, x, y) => Precedes(Kept(names, wanted), x, y)
           /\ \A x, y : Precedes(Kept(names, wanted), x, y) => Precedes(names, x, y)
<1> DEFINE I == KeptAt(names, wanted)
           p == FlattenSeq(Picks(names, I))
<1>1. Kept(names, wanted) = p
    <2>1. [i \in DOMAIN names |-> IF names[i] \in wanted THEN <<names[i]>> ELSE <<>>]
            = Picks(names, I)
        BY DEF Picks, KeptAt
    <2> QED
        BY <2>1 DEF Kept
<1>2. I \in SUBSET DOMAIN names
    BY DEF KeptAt
<1> HIDE DEF I
<1>3. p \in Seq(A) /\ \E at : IsSelection(at, p, names, I)
    BY <1>2, PickedIsSelection
<1> HIDE DEF p
<1>4. PICK at : IsSelection(at, p, names, I)
    BY <1>3
<1>5. /\ ToSet(p) = {names[i] : i \in I}
      /\ (\A i, j \in I : names[i] = names[j] => i = j) => Distinct(p)
      /\ \A i, j \in I : i < j => Precedes(p, names[i], names[j])
      /\ \A x, y : Precedes(p, x, y) =>
             \E i, j \in I : i < j /\ names[i] = x /\ names[j] = y
    <2>1. KeepsOrder(p, names, I)
        BY <1>2, <1>3, <1>4, SelectionKeeps
    <2> QED
        BY <2>1 DEF KeepsOrder
<1>6. {names[i] : i \in I} = ToSet(names) \cap wanted
    BY DEF ToSet, I, KeptAt
<1>7. Distinct(names) => Distinct(p)
    BY <1>2, <1>5 DEF Distinct
<1>8. ASSUME NEW x \in wanted, NEW y \in wanted, Precedes(names, x, y)
      PROVE  Precedes(p, x, y)
    <2>1. PICK i \in DOMAIN names, j \in DOMAIN names : i < j /\ names[i] = x /\ names[j] = y
        BY <1>8 DEF Precedes
    <2>2. i \in I /\ j \in I
        BY <2>1 DEF I, KeptAt
    <2> QED
        BY <1>5, <2>1, <2>2
<1>9. ASSUME NEW x, NEW y, Precedes(p, x, y)
      PROVE  Precedes(names, x, y)
    <2>1. PICK i \in I, j \in I : i < j /\ names[i] = x /\ names[j] = y
        BY <1>5, <1>9
    <2> QED
        BY <1>2, <2>1 DEF Precedes
<1> QED
    BY <1>1, <1>3, <1>5, <1>6, <1>7, <1>8, <1>9

(* Recorded has every name once. *)
FirstAt(names) == {i \in DOMAIN names : ~\E j \in 1..(i - 1) : names[j] = names[i]}

(* Recorded picks every name where it is seen first. *)
LEMMA RecordedPicks ==
    ASSUME NEW names
    PROVE  Recorded(names) = FlattenSeq(Picks(names, FirstAt(names)))
<1>1. [i \in DOMAIN names |->
          IF \E j \in 1..(i - 1) : names[j] = names[i] THEN <<>> ELSE <<names[i]>>]
        = Picks(names, FirstAt(names))
    BY DEF Picks, FirstAt
<1> QED
    BY <1>1 DEF Recorded

(* Recorded has the same names, each once. *)
LEMMA RecordedIs ==
    ASSUME NEW A, NEW names \in Seq(A)
    PROVE  /\ Recorded(names) \in Seq(A)
           /\ ToSet(Recorded(names)) = ToSet(names)
           /\ Distinct(Recorded(names))
<1> DEFINE I == FirstAt(names)
           p == FlattenSeq(Picks(names, I))
           n == Len(names)
<1>1. Recorded(names) = p
    BY RecordedPicks
<1>2. I \in SUBSET DOMAIN names
    BY DEF FirstAt
<1>3. n \in Nat /\ DOMAIN names = 1..n
    BY LenProperties
<1> HIDE DEF I, n
<1>4. p \in Seq(A) /\ \E at : IsSelection(at, p, names, I)
    BY <1>2, PickedIsSelection
<1> HIDE DEF p
<1>5. PICK at : IsSelection(at, p, names, I)
    BY <1>4
<1>6. /\ ToSet(p) = {names[i] : i \in I}
      /\ (\A i, j \in I : names[i] = names[j] => i = j) => Distinct(p)
    <2>1. KeepsOrder(p, names, I)
        BY <1>2, <1>4, <1>5, SelectionKeeps
    <2> QED
        BY <2>1 DEF KeepsOrder
<1>7. ASSUME NEW i \in DOMAIN names
      PROVE  \E j \in I : names[j] = names[i]
    <2> DEFINE S == {j \in 1..n : names[j] = names[i]}
    <2>1. S \subseteq Nat /\ i \in S
        BY <1>3
    <2>2. PICK j \in S : \A k \in S : j <= k
        <3> HIDE DEF S
        <3> QED
            BY <2>1, LeastNumber
    <2>3. j \in 1..n /\ names[j] = names[i]
        OBVIOUS
    <2>4. ASSUME NEW k \in 1..(j - 1), names[k] = names[j]
          PROVE  FALSE
        <3>1. k \in S /\ k < j /\ k \in Nat /\ j \in Nat
            BY <1>3, <2>3, <2>4
        <3> HIDE DEF S
        <3>2. j <= k
            BY <2>2, <3>1
        <3> QED
            BY <3>1, <3>2
    <2>5. j \in I
        BY <1>3, <2>3, <2>4 DEF I, FirstAt
    <2> QED
        BY <2>3, <2>5
<1>8. {names[i] : i \in I} = ToSet(names)
    <2>1. {names[i] : i \in I} \subseteq ToSet(names)
        BY <1>2 DEF ToSet
    <2>2. ToSet(names) \subseteq {names[i] : i \in I}
        BY <1>7 DEF ToSet
    <2> QED
        BY <2>1, <2>2
<1>9. ASSUME NEW i \in I, NEW j \in I, names[i] = names[j]
      PROVE  i = j
    <2>1. i \in Nat /\ j \in Nat /\ 1 <= i /\ 1 <= j
        BY <1>2, <1>3
    <2>2. \A k \in 1..(i - 1) : names[k] # names[i]
        BY DEF I, FirstAt
    <2>3. \A k \in 1..(j - 1) : names[k] # names[j]
        BY DEF I, FirstAt
    <2>4. ~(i < j)
        <3> SUFFICES ASSUME i < j PROVE FALSE
            OBVIOUS
        <3>1. i \in 1..(j - 1)
            BY <2>1
        <3> QED
            BY <3>1, <2>3, <1>9
    <2>5. ~(j < i)
        <3> SUFFICES ASSUME j < i PROVE FALSE
            OBVIOUS
        <3>1. j \in 1..(i - 1)
            BY <2>1
        <3> QED
            BY <3>1, <2>2, <1>9
    <2> QED
        BY <2>1, <2>4, <2>5
<1> QED
    BY <1>1, <1>4, <1>6, <1>8, <1>9

(* The lexer stops on every block, legal or not, and names no key twice. *)
LEMMA TopLevelKeysTyped ==
    ASSUME NEW b \in Seq(Marks)
    PROVE  /\ tomlTopLevelKeys(b) \in NamesSeq
           /\ Distinct(tomlTopLevelKeys(b))
<1>1. Len(b) \in Nat
    BY BlockTyped
<1>2. 1 \in Positions(b)
    BY <1>1, PositionIs
<1>3. KeysPast(b)[1][FALSE] \in NamesSeq
    BY <1>2, KeysFrom
<1> QED
    BY <1>3, KeysUnfolded, RecordedIs DEF NamesSeq

(* A name that is recorded once more changes nothing; a new one comes last. *)
LEMMA RecordedAppend ==
    ASSUME NEW A, NEW names \in Seq(A), NEW name \in A
    PROVE  Recorded(Append(names, name)) =
             IF name \in ToSet(names) THEN Recorded(names)
             ELSE Append(Recorded(names), name)
<1> DEFINE n == Len(names)
           more == Append(names, name)
           I == FirstAt(names)
           J == FirstAt(more)
           last == IF n + 1 \in J THEN <<name>> ELSE <<>>
<1>1. /\ n \in Nat /\ DOMAIN names = 1..n /\ more \in Seq(A)
      /\ Len(more) = n + 1 /\ DOMAIN more = 1..(n + 1)
      /\ more[n + 1] = name /\ \A i \in 1..n : more[i] = names[i]
    BY AppendProperties, LenProperties
<1> HIDE DEF more, n
<1>2. \A i \in 1..n : i \in J <=> i \in I
    <2> SUFFICES ASSUME NEW i \in 1..n PROVE i \in J <=> i \in I
        OBVIOUS
    <2>1. i \in DOMAIN names /\ i \in DOMAIN more /\ more[i] = names[i]
        BY <1>1
    <2>2. \A j \in 1..(i - 1) : more[j] = names[j]
        BY <1>1
    <2> QED
        BY <2>1, <2>2 DEF FirstAt
<1>3. n + 1 \in J <=> name \notin ToSet(names)
    <2>1. n + 1 \in DOMAIN more /\ (n + 1) - 1 = n
        BY <1>1
    <2>2. n + 1 \in J <=> ~\E j \in 1..n : more[j] = name
        BY <1>1, <2>1 DEF FirstAt
    <2>3. (\E j \in 1..n : more[j] = name) <=> name \in ToSet(names)
        BY <1>1 DEF ToSet
    <2> QED
        BY <2>2, <2>3
<1> HIDE DEF I, J
<1>4. Picks(names, I) \in Seq(Seq(A)) /\ Len(Picks(names, I)) = n
      /\ \A i \in 1..n : Picks(names, I)[i] = IF i \in I THEN <<names[i]>> ELSE <<>>
    BY PicksTyped DEF n
<1>5. Picks(more, J) \in Seq(Seq(A)) /\ Len(Picks(more, J)) = n + 1
      /\ \A i \in 1..(n + 1) : Picks(more, J)[i] = IF i \in J THEN <<more[i]>> ELSE <<>>
    BY <1>1, PicksTyped
<1>6. last \in Seq(A)
    OBVIOUS
<1>7. Picks(more, J) = Append(Picks(names, I), last)
    <2> DEFINE p == Picks(names, I)
               q == Picks(more, J)
               r == Append(p, last)
    <2> HIDE DEF last
    <2>1. r \in Seq(Seq(A)) /\ Len(r) = n + 1 /\ r[n + 1] = last /\ \A i \in 1..n : r[i] = p[i]
        BY <1>4, <1>6, AppendProperties
    <2>2. q[n + 1] = last
        <3>1. n + 1 \in 1..(n + 1)
            BY <1>1
        <3> QED
            BY <1>1, <1>5, <3>1 DEF last
    <2>3. \A i \in 1..n : q[i] = p[i]
        <3>1. \A i \in 1..n : i \in 1..(n + 1)
            BY <1>1
        <3> QED
            BY <1>1, <1>2, <1>4, <1>5, <3>1
    <2>4. \A i \in 1..(n + 1) : i \in 1..n \/ i = n + 1
        BY <1>1
    <2> HIDE DEF p, q, r
    <2>5. \A i \in 1..(n + 1) : q[i] = r[i]
        BY <2>1, <2>2, <2>3, <2>4
    <2>6. q \in Seq(Seq(A)) /\ Len(q) = n + 1
        BY <1>5 DEF q
    <2>7. q = r
        BY <2>1, <2>5, <2>6, SeqEqual
    <2> QED
        BY <2>7 DEF p, q, r
<1>8. /\ FlattenSeq(Picks(more, J)) = FlattenSeq(Picks(names, I)) \o last
      /\ FlattenSeq(Picks(names, I)) \in Seq(A)
    BY <1>4, <1>6, <1>7, FlattenAppend
<1>9. Recorded(more) = Recorded(names) \o last /\ Recorded(names) \in Seq(A)
    BY <1>8, RecordedPicks DEF I, J
<1>10. CASE name \in ToSet(names)
    <2>1. last = <<>>
        BY <1>3, <1>10
    <2> QED
        BY <1>9, <1>10, <2>1, ConcatEmptySeq DEF more
<1>11. CASE name \notin ToSet(names)
    <2>1. last = <<name>>
        BY <1>3, <1>11
    <2> QED
        BY <1>9, <1>11, <2>1, AppendIsConcat DEF more
<1> QED
    BY <1>10, <1>11

------------------------------------------------------------------------------
(***************************************************************************)
(* The values of fields.                                                   *)
(***************************************************************************)
Simple == {Scalar, Map}

(* How deep a value is nested. *)
Rank == [v \in Values |->
    IF v.kind # "list" THEN 0
    ELSE IF \A i \in DOMAIN v.elems : v.elems[i] \in Simple THEN 1 ELSE 2]

(* They are values, and not the same. *)
LEMMA SimpleValues ==
    /\ Scalar \in Values /\ Map \in Values
    /\ Scalar.kind = "scalar" /\ Scalar.elems = <<>>
    /\ Map.kind = "map" /\ Map.elems = <<>>
    /\ Scalar # Map
<1>1. Scalar \in Values /\ Map \in Values
    BY Zenon DEF Values
<1> QED
    BY <1>1 DEF Scalar, Map

(* The kind and the elements of a list. *)
LEMMA ListIs ==
    ASSUME NEW elems
    PROVE  List(elems).kind = "list" /\ List(elems).elems = elems
    BY DEF List

(* A flat list has up to two simple elements. *)
LEMMA FlatListIs ==
    ASSUME NEW v
    PROVE  v \in FlatLists <=>
             \E n \in 0..2 : \E elems \in [1..n -> Simple] : v = List(elems)
    BY DEF FlatLists, BoundedSeq, SeqOf, Simple

(* The elements of a list are values of a lower rank. *)
LEMMA ValueIs ==
    ASSUME NEW v \in Values
    PROVE  \/ v \in Simple
           \/ v \in FlatLists
           \/ \E inner \in FlatLists : v = List(<<inner>>)
    BY Zenon DEF Values, Simple

(* A list of elements that are all of a set. *)
IsListOf(v, A) ==
    /\ v.kind = "list"
    /\ v.elems \in Seq(A)
    /\ DOMAIN v.elems = 1..Len(v.elems)
    /\ Len(v.elems) \in 0..2
    /\ \A i \in DOMAIN v.elems : v.elems[i] \in A

(* So it is a list of simple values. *)
LEMMA FlatListShape ==
    ASSUME NEW v \in FlatLists
    PROVE  IsListOf(v, Simple)
<1>1. PICK n \in 0..2 : \E elems \in [1..n -> Simple] : v = List(elems)
    BY FlatListIs
<1>2. PICK elems \in [1..n -> Simple] : v = List(elems)
    BY <1>1
<1>3. v.kind = "list" /\ v.elems = elems
    BY <1>2, ListIs
<1> DEFINE A == Simple
<1>4. elems \in [1..n -> A]
    OBVIOUS
<1> HIDE DEF A
<1>5. elems \in Seq(A) /\ DOMAIN elems = 1..n /\ Len(elems) = n
    BY <1>4
<1>6. \A i \in DOMAIN elems : elems[i] \in A
    BY <1>4
<1> QED
    BY <1>3, <1>5, <1>6 DEF IsListOf, A

(* The other lists are lists of flat lists. *)
LEMMA NestedShape ==
    ASSUME NEW inner \in FlatLists
    PROVE  IsListOf(List(<<inner>>), FlatLists)
<1> DEFINE A == FlatLists
           e == <<inner>>
<1>1. inner \in A
    OBVIOUS
<1> HIDE DEF A
<1>2. e \in Seq(A) /\ DOMAIN e = 1..1 /\ Len(e) = 1 /\ \A i \in DOMAIN e : e[i] \in A
    BY <1>1
<1> HIDE DEF e
<1>3. IsListOf(List(e), A)
    BY <1>2, ListIs DEF IsListOf
<1> QED
    BY <1>3 DEF A, e

(* The elements of a list are values of a lower rank. *)
LEMMA ValueShape ==
    ASSUME NEW v \in Values
    PROVE  /\ v \in Simple \/ IsListOf(v, Values)
           /\ v.kind \in {"scalar", "map", "list"}
           /\ v.kind = "list" => IsListOf(v, Values)
           /\ \A i \in DOMAIN v.elems : v.elems[i] \in Values /\ Rank[v.elems[i]] < Rank[v]
           /\ Rank[v] \in 0..2
<1>1. Simple \subseteq Values /\ FlatLists \subseteq Values
    BY Zenon DEF Simple, Values
<1>2. \A u \in Simple : u.kind # "list" /\ Rank[u] = 0 /\ DOMAIN u.elems = {}
    <2>1. \A u \in Simple : u.kind # "list" /\ u.elems = <<>>
        BY SimpleValues DEF Simple
    <2>2. DOMAIN <<>> = {}
        OBVIOUS
    <2> QED
        BY <1>1, <2>1, <2>2 DEF Rank
<1>3. ASSUME NEW A, NEW u, IsListOf(u, A), A \subseteq Values
      PROVE  IsListOf(u, Values)
    <2>1. u.elems \in Seq(Values)
        BY <1>3, SeqMonotonic DEF IsListOf
    <2> QED
        BY <1>3, <2>1 DEF IsListOf
<1>4. \A u \in FlatLists : IsListOf(u, Simple) /\ IsListOf(u, Values) /\ Rank[u] = 1
    <2> SUFFICES ASSUME NEW u \in FlatLists
                 PROVE  IsListOf(u, Simple) /\ IsListOf(u, Values) /\ Rank[u] = 1
        OBVIOUS
    <2>1. IsListOf(u, Simple)
        BY FlatListShape
    <2>2. IsListOf(u, Values)
        BY <1>1, <1>3, <2>1
    <2>3. u \in Values /\ u.kind = "list" /\ \A i \in DOMAIN u.elems : u.elems[i] \in Simple
        BY <1>1, <2>1 DEF IsListOf
    <2>4. Rank[u] = 1
        BY <2>3 DEF Rank
    <2> QED
        BY <2>1, <2>2, <2>4
<1>5. CASE v \in Simple
    <2>1. v.kind \in {"scalar", "map"}
        BY <1>5, SimpleValues DEF Simple
    <2> QED
        BY <1>2, <1>5, <2>1
<1>6. CASE v \in FlatLists
    <2>1. IsListOf(v, Simple) /\ IsListOf(v, Values) /\ Rank[v] = 1
        BY <1>4, <1>6
    <2>2. \A i \in DOMAIN v.elems : v.elems[i] \in Simple
        BY <2>1 DEF IsListOf
    <2> QED
        BY <1>1, <1>2, <2>1, <2>2 DEF IsListOf
<1>7. CASE \E inner \in FlatLists : v = List(<<inner>>)
    <2>1. PICK inner \in FlatLists : v = List(<<inner>>)
        BY <1>7
    <2>2. IsListOf(v, FlatLists)
        BY <2>1, NestedShape
    <2>3. IsListOf(v, Values)
        BY <1>1, <1>3, <2>2
    <2>4. \A i \in DOMAIN v.elems : v.elems[i] \in FlatLists
        BY <2>2 DEF IsListOf
    <2>5. v.elems[1] = inner /\ 1 \in DOMAIN v.elems
        <3>1. v.elems = <<inner>>
            BY <2>1, ListIs
        <3> QED
            BY <3>1
    <2>6. inner.kind = "list" /\ inner \notin Simple
        BY <1>2, <1>4 DEF IsListOf
    <2>7. Rank[v] = 2
        <3>1. v.kind = "list" /\ ~\A i \in DOMAIN v.elems : v.elems[i] \in Simple
            BY <2>2, <2>5, <2>6 DEF IsListOf
        <3> QED
            BY <3>1 DEF Rank
    <2>8. v.kind = "list"
        BY <2>2 DEF IsListOf
    <2> QED
        BY <1>1, <1>4, <2>3, <2>4, <2>7, <2>8
<1> QED
    BY <1>5, <1>6, <1>7, ValueIs

(* The rank of every value is a number. *)
LEMMA RankTyped ==
    Rank \in [Values -> Nat] /\ \A v \in Values : Rank[v] < 3
<1>1. \A v \in Values : Rank[v] \in 0..2
    BY ValueShape
<1>2. Rank \in [Values -> Nat]
    BY DEF Rank
<1> QED
    BY <1>1, <1>2

(* isTOMLTable, unfolded. *)
TableStep(first, v) ==
    \/ v.kind = "map"
    \/ v.kind = "list" /\ v.elems # <<>> /\ first[v.elems[1]]

(* The function that isTOMLTable is defined with. *)
TablePast == CHOOSE first : first = [v \in Values |-> TableStep(first, v)]

(* What its values are. *)
TableType == BOOLEAN

(* isTOMLTable, by that function. *)
LEMMA TableUnfolded ==
    ASSUME NEW value
    PROVE  isTOMLTable(value) = TablePast[value]
    BY Zenon DEF isTOMLTable, TablePast, TableStep

(* There are values of that type. *)
LEMMA TableInhabited ==
    TableType # {}
    BY DEF TableType

(* One step keeps the type. *)
LEMMA TableTyped ==
    ASSUME NEW v \in Values, NEW first,
           \A u \in Values : Rank[u] < Rank[v] => first[u] \in TableType
    PROVE  TableStep(first, v) \in TableType
    BY DEF TableStep, TableType

(* The first element of a list, where there is one. *)
LEMMA FirstElement ==
    ASSUME NEW v \in Values, v.kind = "list", v.elems # <<>>
    PROVE  1 \in DOMAIN v.elems /\ v.elems[1] \in Values /\ Rank[v.elems[1]] < Rank[v]
<1>1. IsListOf(v, Values)
    BY ValueShape
<1>2. v.elems \in Seq(Values) /\ DOMAIN v.elems = 1..Len(v.elems)
    BY <1>1 DEF IsListOf
<1>3. Len(v.elems) \in Nat \ {0}
    BY <1>2, EmptySeq
<1>4. 1 \in DOMAIN v.elems
    BY <1>2, <1>3
<1> QED
    BY <1>4, ValueShape

(* One step uses values of a lower rank only. *)
LEMMA TableLocal ==
    ASSUME NEW v \in Values, NEW f, NEW g,
           \A u \in Values : Rank[u] < Rank[v] => f[u] = g[u]
    PROVE  TableStep(f, v) = TableStep(g, v)
    BY FirstElement DEF TableStep

(* Whether a value is written as a table. *)
LEMMA TableEquation ==
    \A v \in Values :
        /\ TablePast[v] = TableStep(TablePast, v)
        /\ TablePast[v] \in TableType
<1> DEFINE S == Values
           T == [v \in S |-> TableType]
           F == Typed(S, T)
           G == [v \in S |-> [f \in F |-> TableStep(f, v)]]
           past == TablePast
<1>1. \A v \in S : T[v] # {}
    BY TableInhabited
<1>2. ASSUME NEW v \in S, NEW f \in F
      PROVE  G[v][f] = TableStep(f, v) /\ TableStep(f, v) \in T[v]
    <2>1. \A u \in S : f[u] \in TableType
        BY DEF Typed
    <2> HIDE DEF F
    <2>2. TableStep(f, v) \in TableType
        BY <2>1, TableTyped
    <2> QED
        BY <2>2
<1>3. ASSUME NEW v \in S, NEW f \in F, NEW g \in F,
             \A u \in S : Rank[u] < Rank[v] => f[u] = g[u]
      PROVE  TableStep(f, v) = TableStep(g, v)
    <2> HIDE DEF F
    <2> QED
        BY <1>3, TableLocal
<1>4. Rank \in [S -> Nat] /\ \A v \in S : Rank[v] < 3
    BY RankTyped
<1> HIDE DEF T, G, S
<1>5. \A v \in S : \A f \in F : G[v][f] \in T[v]
    BY <1>2
<1>6. \A v \in S : \A f, g \in F :
        (\A u \in S : Rank[u] < Rank[v] => f[u] = g[u]) => G[v][f] = G[v][g]
    <2> HIDE DEF F
    <2> QED
        BY <1>2, <1>3
<1>7. IsRecursion(G, S, T, Rank)
    BY <1>1, <1>5, <1>6 DEF IsRecursion
<1>8. \E f \in F : IsSolution(f, G, S)
    BY <1>4, <1>7, RecursionOnMeasure
<1>9. PICK f \in F : \A v \in S : f[v] = G[v][f]
    BY <1>8 DEF IsSolution
<1>10. f = [v \in S |-> TableStep(f, v)]
    <2>1. f = [v \in S |-> f[v]]
        BY DEF Typed
    <2>2. \A v \in S : f[v] = TableStep(f, v)
        BY <1>2, <1>9
    <2> HIDE DEF F
    <2> QED
        BY <2>1, <2>2
<1>11. past = [v \in S |-> TableStep(past, v)]
    <2>1. past = CHOOSE p : p = [v \in S |-> TableStep(p, v)]
        BY DEF TablePast, S
    <2> HIDE DEF past, F
    <2> QED
        BY <1>10, <2>1
<1>12. \A v \in S : past[v] = TableStep(past, v)
    <2> HIDE DEF past
    <2> QED
        BY <1>11
<1> DEFINE Bad == {v \in S : past[v] \notin TableType}
<1>13. \A v \in Bad : \E u \in Bad : Rank[u] < Rank[v]
    <2> SUFFICES ASSUME NEW v \in Bad, \A u \in Bad : ~(Rank[u] < Rank[v]) PROVE FALSE
        OBVIOUS
    <2> HIDE DEF past
    <2>1. v \in S /\ past[v] \notin TableType
        OBVIOUS
    <2>2. \A u \in S : Rank[u] < Rank[v] => past[u] \in TableType
        OBVIOUS
    <2>3. TableStep(past, v) \in TableType
        BY <2>1, <2>2, TableTyped DEF S
    <2> QED
        BY <2>1, <2>3, <1>12
<1>14. Bad = {}
    <2>1. Bad \in SUBSET S
        OBVIOUS
    <2> HIDE DEF Bad
    <2> QED
        BY <2>1, <1>4, <1>13, NoLeast
<1> QED
    BY <1>12, <1>14 DEF S

(* What isTOMLTable says of a value. *)
LEMMA TableIs ==
    ASSUME NEW v \in Values
    PROVE  /\ isTOMLTable(v) \in BOOLEAN
           /\ isTOMLTable(v) <=>
                \/ v.kind = "map"
                \/ v.kind = "list" /\ v.elems # <<>> /\ isTOMLTable(v.elems[1])
<1>1. TablePast[v] = TableStep(TablePast, v) /\ TablePast[v] \in BOOLEAN
    BY TableEquation DEF TableType
<1> QED
    BY <1>1, TableUnfolded DEF TableStep

------------------------------------------------------------------------------
(***************************************************************************)
(* Texts are sequences of marks.                                           *)
(***************************************************************************)
Texts == Seq(Marks)

(* A function on the first numbers is a sequence. *)
LEMMA FunctionIsSeq ==
    ASSUME NEW A, NEW n \in Nat, NEW f \in [1..n -> A]
    PROVE  f \in Seq(A) /\ Len(f) = n
    OBVIOUS

(* Two texts make a text. *)
LEMMA ConcatTyped ==
    ASSUME NEW s \in Texts, NEW t \in Texts
    PROVE  s \o t \in Texts
    BY ConcatProperties DEF Texts

(* Any number of texts make a text. *)
LEMMA FlattenTyped ==
    ASSUME NEW s \in Seq(Texts)
    PROVE  FlattenSeq(s) \in Texts
<1>1. Len(s) \in Nat
    BY LenProperties
<1>2. Len(s) \in 0..Len(s)
    BY <1>1
<1> QED
    BY <1>2, JoinedIs DEF Texts

(* An escaped mark is a text. *)
LEMMA EscapedTyped ==
    ASSUME NEW mark \in Marks
    PROVE  Escaped(mark) \in Texts
<1>1. BS \in Marks
    BY AreMarks
<1> QED
    BY <1>1, ShortTexts DEF Escaped, Texts

(* Quotes around a text make a text. *)
LEMMA QuotedTyped ==
    ASSUME NEW text \in Texts, NEW quote \in Marks
    PROVE  Quoted(text, quote) \in Texts
<1>1. <<quote>> \in Texts
    BY ShortTexts DEF Texts
<1> QED
    BY <1>1, ConcatTyped DEF Quoted

(* So do braces. *)
LEMMA BracedTyped ==
    ASSUME NEW text \in Texts
    PROVE  Braced(text) \in Texts
<1> DEFINE open == <<"{">>
           close == <<"}">>
<1>1. "{" \in Marks /\ "}" \in Marks
    BY Zenon, AreMarks DEF Opening, Closing
<1>2. open \in Texts /\ close \in Texts
    BY Zenon, <1>1, ShortTexts DEF Texts
<1>3. Braced(text) = open \o text \o close
    BY Zenon DEF Braced
<1> HIDE DEF open, close
<1> QED
    BY <1>2, <1>3, ConcatTyped

(* Five marks are a text. *)
LEMMA FiveTexts ==
    ASSUME NEW M, NEW v \in M, NEW w \in M, NEW x \in M, NEW y \in M, NEW z \in M
    PROVE  <<v, w, x, y, z>> \in Seq(M)
    OBVIOUS

(* The short texts that are written as they stand. *)
LEMMA FixedTexts ==
    /\ <<>> \in Texts /\ <<LF>> \in Texts /\ <<SP>> \in Texts
    /\ <<"1">> \in Texts /\ <<"[">> \in Texts /\ <<"]">> \in Texts
    /\ <<",">> \in Texts /\ <<".">> \in Texts /\ <<"=">> \in Texts /\ <<"#">> \in Texts
    /\ <<",", SP>> \in Texts /\ <<SP, ".">> \in Texts /\ <<SP, "=", SP>> \in Texts
    /\ <<"]", LF>> \in Texts /\ <<"[", "[">> \in Texts /\ <<"]", "]">> \in Texts
    /\ <<"[", "[", SP>> \in Texts /\ <<"]", "]", LF>> \in Texts
    /\ <<"x", "=">> \in Texts /\ <<"x">> \in Texts /\ <<"y">> \in Texts
    /\ Entry \in Texts
<1>1. /\ LF \in Marks /\ SP \in Marks /\ "1" \in Marks /\ "[" \in Marks /\ "]" \in Marks
      /\ "," \in Marks /\ "." \in Marks /\ "=" \in Marks /\ "#" \in Marks
      /\ "x" \in Marks /\ "y" \in Marks
    BY AreMarks DEF Bare
<1>2. /\ <<>> \in Texts /\ <<LF>> \in Texts /\ <<SP>> \in Texts
      /\ <<"1">> \in Texts /\ <<"[">> \in Texts /\ <<"]">> \in Texts
      /\ <<",">> \in Texts /\ <<".">> \in Texts /\ <<"=">> \in Texts /\ <<"#">> \in Texts
    BY Zenon, <1>1, ShortTexts DEF Texts
<1>3. /\ <<",", SP>> \in Texts /\ <<SP, ".">> \in Texts /\ <<SP, "=", SP>> \in Texts
      /\ <<"]", LF>> \in Texts /\ <<"[", "[">> \in Texts /\ <<"]", "]">> \in Texts
    BY Zenon, <1>1, ShortTexts DEF Texts
<1>4. /\ <<"[", "[", SP>> \in Texts /\ <<"]", "]", LF>> \in Texts
      /\ <<"x", "=">> \in Texts /\ <<"x">> \in Texts /\ <<"y">> \in Texts
    BY Zenon, <1>1, ShortTexts DEF Texts
<1>5. Entry \in Texts
    BY Zenon, <1>1, FiveTexts DEF Entry, Texts
<1> QED
    BY <1>2, <1>3, <1>4, <1>5

(* The encoder writes a key as a text. *)
LEMMA EncodeKeyTyped ==
    ASSUME NEW name \in Texts
    PROVE  EncodeKey(name) \in Texts
<1> DEFINE way == [i \in DOMAIN name |-> Escaped(name[i])]
<1>1. DOMAIN name = 1..Len(name) /\ Len(name) \in Nat /\ \A i \in DOMAIN name : name[i] \in Marks
    BY LenProperties, ElementOfSeq DEF Texts
<1>2. way \in [1..Len(name) -> Texts]
    BY <1>1, EscapedTyped
<1> HIDE DEF way
<1>3. way \in Seq(Texts)
    BY <1>1, <1>2, FunctionIsSeq
<1>4. FlattenSeq(way) \in Texts
    BY <1>3, FlattenTyped
<1>5. DQ \in Marks /\ SQ \in Marks
    BY AreMarks
<1>6. Quoted(name, SQ) \in Texts /\ Quoted(FlattenSeq(way), DQ) \in Texts
    BY <1>4, <1>5, QuotedTyped
<1> QED
    BY <1>6 DEF EncodeKey, way

(* Texts with separators between them make a text. *)
LEMMA SeparatedTyped ==
    ASSUME NEW texts \in Seq(Texts)
    PROVE  Separated(texts) \in Texts
<1> DEFINE piece == [i \in DOMAIN texts |-> texts[i] \o
                    (IF i < Len(texts) THEN <<",", SP>> ELSE <<>>)]
<1>1. DOMAIN texts = 1..Len(texts) /\ Len(texts) \in Nat
      /\ \A i \in DOMAIN texts : texts[i] \in Texts
    BY LenProperties, ElementOfSeq
<1>2. \A i \in DOMAIN texts : piece[i] \in Texts
    <2> SUFFICES ASSUME NEW i \in DOMAIN texts PROVE piece[i] \in Texts
        OBVIOUS
    <2>1. (IF i < Len(texts) THEN <<",", SP>> ELSE <<>>) \in Texts
        BY FixedTexts
    <2> QED
        BY <1>1, <2>1, ConcatTyped
<1>3. piece \in [1..Len(texts) -> Texts]
    BY <1>1, <1>2
<1> HIDE DEF piece
<1>4. piece \in Seq(Texts)
    BY <1>1, <1>3, FunctionIsSeq
<1>5. FlattenSeq(piece) \in Texts
    BY <1>4, FlattenTyped
<1> QED
    BY <1>5 DEF Separated, piece

(* EncodeInline, unfolded. *)
InlineStep(inline, v) ==
    CASE v.kind = "scalar" -> <<"1">>
      [] v.kind = "map" -> Braced(Entry)
      [] OTHER -> <<"[">>
            \o Separated([i \in DOMAIN v.elems |-> inline[v.elems[i]]])
            \o <<"]">>

(* The function that EncodeInline is defined with. *)
InlinePast == CHOOSE inline : inline = [v \in Values |-> InlineStep(inline, v)]

(* What its values are. *)
InlineType == Texts

(* EncodeInline, by that function. *)
LEMMA InlineUnfolded ==
    ASSUME NEW value
    PROVE  EncodeInline(value) = InlinePast[value]
    BY Zenon DEF EncodeInline, InlinePast, InlineStep

(* There are values of that type. *)
LEMMA InlineInhabited ==
    InlineType # {}
    BY FixedTexts DEF InlineType

(* The cases of InlineStep. *)
LEMMA InlineCases ==
    ASSUME NEW v \in Values, NEW inline
    PROVE  /\ v.kind = "scalar" => InlineStep(inline, v) = <<"1">>
           /\ v.kind = "map" => InlineStep(inline, v) = Braced(Entry)
           /\ v.kind = "list" => InlineStep(inline, v) = <<"[">>
                \o Separated([i \in DOMAIN v.elems |-> inline[v.elems[i]]])
                \o <<"]">>
<1>1. v.kind = "scalar" => v.kind # "map" /\ v.kind # "list"
    OBVIOUS
<1>2. v.kind = "map" => v.kind # "scalar" /\ v.kind # "list"
    OBVIOUS
<1>3. v.kind = "list" => v.kind # "map" /\ v.kind # "scalar"
    OBVIOUS
<1>4. v.kind = "scalar" => InlineStep(inline, v) = <<"1">>
    BY Zenon, <1>1 DEF InlineStep
<1>5. v.kind = "map" => InlineStep(inline, v) = Braced(Entry)
    BY Zenon, <1>2 DEF InlineStep
<1>6. v.kind = "list" => InlineStep(inline, v) = <<"[">>
                \o Separated([i \in DOMAIN v.elems |-> inline[v.elems[i]]])
                \o <<"]">>
    BY Zenon, <1>3 DEF InlineStep
<1> QED
    BY <1>4, <1>5, <1>6

(* One step keeps the type. *)
LEMMA InlineTyped ==
    ASSUME NEW v \in Values, NEW inline,
           \A u \in Values : Rank[u] < Rank[v] => inline[u] \in InlineType
    PROVE  InlineStep(inline, v) \in InlineType
<1>1. CASE v.kind = "scalar"
    BY <1>1, InlineCases, FixedTexts DEF InlineType
<1>2. CASE v.kind = "map"
    BY <1>2, InlineCases, FixedTexts, BracedTyped DEF InlineType
<1>3. CASE v.kind = "list"
    <2> DEFINE texts == [i \in DOMAIN v.elems |-> inline[v.elems[i]]]
    <2>1. IsListOf(v, Values) /\ \A i \in DOMAIN v.elems : inline[v.elems[i]] \in Texts
        BY <1>3, ValueShape DEF InlineType
    <2>2. DOMAIN v.elems = 1..Len(v.elems) /\ Len(v.elems) \in Nat
        BY <2>1 DEF IsListOf
    <2>3. texts \in [1..Len(v.elems) -> Texts]
        BY <2>1, <2>2
    <2>4. InlineStep(inline, v) = <<"[">> \o Separated(texts) \o <<"]">>
        BY <1>3, InlineCases
    <2> HIDE DEF texts
    <2>5. texts \in Seq(Texts)
        BY <2>2, <2>3, FunctionIsSeq
    <2>6. Separated(texts) \in Texts
        BY <2>5, SeparatedTyped
    <2>7. <<"[">> \o Separated(texts) \in Texts
        BY <2>6, FixedTexts, ConcatTyped
    <2>8. (<<"[">> \o Separated(texts)) \o <<"]">> \in Texts
        BY <2>7, FixedTexts, ConcatTyped
    <2> QED
        BY <2>4, <2>8 DEF InlineType
<1> QED
    BY <1>1, <1>2, <1>3, ValueShape

(* One step uses values of a lower rank only. *)
LEMMA InlineLocal ==
    ASSUME NEW v \in Values, NEW f, NEW g,
           \A u \in Values : Rank[u] < Rank[v] => f[u] = g[u]
    PROVE  InlineStep(f, v) = InlineStep(g, v)
<1>1. CASE v.kind = "scalar"
    <2>1. InlineStep(f, v) = <<"1">> /\ InlineStep(g, v) = <<"1">>
        BY <1>1, InlineCases
    <2> QED
        BY <2>1
<1>2. CASE v.kind = "map"
    <2>1. InlineStep(f, v) = Braced(Entry) /\ InlineStep(g, v) = Braced(Entry)
        BY <1>2, InlineCases
    <2> QED
        BY <2>1
<1>3. CASE v.kind = "list"
    <2>1. [i \in DOMAIN v.elems |-> f[v.elems[i]]] = [i \in DOMAIN v.elems |-> g[v.elems[i]]]
        BY ValueShape
    <2>2. InlineStep(f, v) = <<"[">>
                \o Separated([i \in DOMAIN v.elems |-> f[v.elems[i]]])
                \o <<"]">>
        BY <1>3, InlineCases
    <2>3. InlineStep(g, v) = <<"[">>
                \o Separated([i \in DOMAIN v.elems |-> g[v.elems[i]]])
                \o <<"]">>
        BY <1>3, InlineCases
    <2> QED
        BY <2>1, <2>2, <2>3
<1> QED
    BY <1>1, <1>2, <1>3, ValueShape

(* How a value is written on the line of its key. *)
LEMMA InlineEquation ==
    \A v \in Values :
        /\ InlinePast[v] = InlineStep(InlinePast, v)
        /\ InlinePast[v] \in InlineType
<1> DEFINE S == Values
           T == [v \in S |-> InlineType]
           F == Typed(S, T)
           G == [v \in S |-> [f \in F |-> InlineStep(f, v)]]
           past == InlinePast
<1>1. \A v \in S : T[v] # {}
    BY InlineInhabited
<1>2. ASSUME NEW v \in S, NEW f \in F
      PROVE  G[v][f] = InlineStep(f, v) /\ InlineStep(f, v) \in T[v]
    <2>1. \A u \in S : f[u] \in InlineType
        BY DEF Typed
    <2> HIDE DEF F
    <2>2. InlineStep(f, v) \in InlineType
        BY <2>1, InlineTyped
    <2> QED
        BY <2>2
<1>3. ASSUME NEW v \in S, NEW f \in F, NEW g \in F,
             \A u \in S : Rank[u] < Rank[v] => f[u] = g[u]
      PROVE  InlineStep(f, v) = InlineStep(g, v)
    <2> HIDE DEF F
    <2> QED
        BY <1>3, InlineLocal
<1>4. Rank \in [S -> Nat] /\ \A v \in S : Rank[v] < 3
    BY RankTyped
<1> HIDE DEF T, G, S
<1>5. \A v \in S : \A f \in F : G[v][f] \in T[v]
    BY <1>2
<1>6. \A v \in S : \A f, g \in F :
        (\A u \in S : Rank[u] < Rank[v] => f[u] = g[u]) => G[v][f] = G[v][g]
    <2> HIDE DEF F
    <2> QED
        BY <1>2, <1>3
<1>7. IsRecursion(G, S, T, Rank)
    BY <1>1, <1>5, <1>6 DEF IsRecursion
<1>8. \E f \in F : IsSolution(f, G, S)
    BY <1>4, <1>7, RecursionOnMeasure
<1>9. PICK f \in F : \A v \in S : f[v] = G[v][f]
    BY <1>8 DEF IsSolution
<1>10. f = [v \in S |-> InlineStep(f, v)]
    <2>1. f = [v \in S |-> f[v]]
        BY DEF Typed
    <2>2. \A v \in S : f[v] = InlineStep(f, v)
        BY <1>2, <1>9
    <2> HIDE DEF F
    <2> QED
        BY <2>1, <2>2
<1>11. past = [v \in S |-> InlineStep(past, v)]
    <2>1. past = CHOOSE p : p = [v \in S |-> InlineStep(p, v)]
        BY DEF InlinePast, S
    <2> HIDE DEF past, F
    <2> QED
        BY <1>10, <2>1
<1>12. \A v \in S : past[v] = InlineStep(past, v)
    <2> HIDE DEF past
    <2> QED
        BY <1>11
<1> DEFINE Bad == {v \in S : past[v] \notin InlineType}
<1>13. \A v \in Bad : \E u \in Bad : Rank[u] < Rank[v]
    <2> SUFFICES ASSUME NEW v \in Bad, \A u \in Bad : ~(Rank[u] < Rank[v]) PROVE FALSE
        OBVIOUS
    <2> HIDE DEF past
    <2>1. v \in S /\ past[v] \notin InlineType
        OBVIOUS
    <2>2. \A u \in S : Rank[u] < Rank[v] => past[u] \in InlineType
        OBVIOUS
    <2>3. InlineStep(past, v) \in InlineType
        BY <2>1, <2>2, InlineTyped DEF S
    <2> QED
        BY <2>1, <2>3, <1>12
<1>14. Bad = {}
    <2>1. Bad \in SUBSET S
        OBVIOUS
    <2> HIDE DEF Bad
    <2> QED
        BY <2>1, <1>4, <1>13, NoLeast
<1> QED
    BY <1>12, <1>14 DEF S

(* The encoder writes a value as a text, by its equation. *)
LEMMA EncodeInlineTyped ==
    ASSUME NEW v \in Values
    PROVE  EncodeInline(v) \in Texts /\ EncodeInline(v) = InlineStep(InlinePast, v)
    BY InlineEquation, InlineUnfolded DEF InlineType

------------------------------------------------------------------------------
(***************************************************************************)
(* The lines an author may write are texts.                                *)
(***************************************************************************)
(* The text of one element of a list, and of a list of elements. *)
Element(text, gap) == text \o <<",">> \o gap

(* The elements of a list, as an author writes them. *)
Elements(texts, gap) == FlattenSeq([i \in DOMAIN texts |-> Element(texts[i], gap)])

(* The texts of the elements of a value. *)
ElementsOf(v, gap, spelled) ==
    [i \in DOMAIN v.elems |-> spelled[v.elems[i]] \o <<",">> \o gap]

(* Spelled, unfolded. *)
SpelledStep(scalar, gap, spelled, v) ==
    CASE v.kind = "scalar" -> scalar
      [] v.kind = "map" -> Braced(<<"x", "=">> \o scalar)
      [] OTHER -> <<"[">> \o gap
            \o FlattenSeq(ElementsOf(v, gap, spelled)) \o <<"]">>

(* The function that Spelled is defined with. *)
SpelledPast(scalar, gap) ==
    CHOOSE spelled : spelled = [v \in Values |-> SpelledStep(scalar, gap, spelled, v)]

(* What its values are. *)
SpelledType == Texts

(* Spelled is the solution of its equation, at the value. *)
LEMMA SpelledUnfolded ==
    ASSUME NEW value, NEW scalar, NEW gap
    PROVE  Spelled(value, scalar, gap) = SpelledPast(scalar, gap)[value]
    BY Zenon DEF Spelled, SpelledPast, SpelledStep, ElementsOf

(* There is a text. *)
LEMMA SpelledInhabited ==
    SpelledType # {}
    BY FixedTexts DEF SpelledType

(* The cases of SpelledStep. *)
LEMMA SpelledCases ==
    ASSUME NEW v \in Values, NEW scalar, NEW gap, NEW spelled
    PROVE  /\ v.kind = "scalar" => SpelledStep(scalar, gap, spelled, v) = scalar
           /\ v.kind = "map" =>
                SpelledStep(scalar, gap, spelled, v) = Braced(<<"x", "=">> \o scalar)
           /\ v.kind = "list" => SpelledStep(scalar, gap, spelled, v) = <<"[">> \o gap
                \o FlattenSeq(ElementsOf(v, gap, spelled)) \o <<"]">>
<1>1. v.kind = "map" => v.kind # "scalar"
    OBVIOUS
<1>2. v.kind = "list" => v.kind # "map" /\ v.kind # "scalar"
    OBVIOUS
<1>3. v.kind = "scalar" => SpelledStep(scalar, gap, spelled, v) = scalar
    BY Zenon DEF SpelledStep
<1>4. v.kind = "map" =>
        SpelledStep(scalar, gap, spelled, v) = Braced(<<"x", "=">> \o scalar)
    BY Zenon, <1>1 DEF SpelledStep
<1>5. v.kind = "list" => SpelledStep(scalar, gap, spelled, v) = <<"[">> \o gap
                \o FlattenSeq(ElementsOf(v, gap, spelled)) \o <<"]">>
    BY Zenon, <1>2 DEF SpelledStep
<1> QED
    BY <1>3, <1>4, <1>5

(* The pieces of a list, put together, are a text. *)
LEMMA ElementsTyped ==
    ASSUME NEW texts \in Seq(Texts), NEW gap \in Texts
    PROVE  /\ [i \in DOMAIN texts |-> Element(texts[i], gap)] \in Seq(Texts)
           /\ Len([i \in DOMAIN texts |-> Element(texts[i], gap)]) = Len(texts)
           /\ Elements(texts, gap) \in Texts
<1> DEFINE piece == [i \in DOMAIN texts |-> Element(texts[i], gap)]
<1>1. DOMAIN texts = 1..Len(texts) /\ Len(texts) \in Nat
      /\ \A i \in DOMAIN texts : texts[i] \in Texts
    BY LenProperties, ElementOfSeq
<1>2. \A i \in DOMAIN texts : Element(texts[i], gap) \in Texts
    <2> SUFFICES ASSUME NEW i \in DOMAIN texts PROVE Element(texts[i], gap) \in Texts
        OBVIOUS
    <2>1. texts[i] \o <<",">> \in Texts
        BY <1>1, FixedTexts, ConcatTyped
    <2>2. (texts[i] \o <<",">>) \o gap \in Texts
        BY <2>1, ConcatTyped
    <2> QED
        BY <2>2 DEF Element
<1>3. piece \in [1..Len(texts) -> Texts]
    BY <1>1, <1>2
<1> HIDE DEF piece
<1>4. piece \in Seq(Texts) /\ Len(piece) = Len(texts)
    BY <1>1, <1>3, FunctionIsSeq
<1>5. FlattenSeq(piece) \in Texts
    BY <1>4, FlattenTyped
<1> QED
    BY <1>4, <1>5 DEF Elements, piece

(* The texts of a list's elements, and of the list. *)
LEMMA SpelledList ==
    ASSUME NEW v \in Values, v.kind = "list", NEW scalar, NEW gap, NEW spelled,
           \A u \in Values : Rank[u] < Rank[v] => spelled[u] \in Texts
    PROVE  \E texts \in Seq(Texts) :
              /\ Len(texts) = Len(v.elems)
              /\ \A i \in 1..Len(texts) : /\ v.elems[i] \in Values
                                          /\ Rank[v.elems[i]] < Rank[v]
                                          /\ texts[i] = spelled[v.elems[i]]
              /\ SpelledStep(scalar, gap, spelled, v) =
                   <<"[">> \o gap \o Elements(texts, gap) \o <<"]">>
<1> DEFINE texts == [i \in DOMAIN v.elems |-> spelled[v.elems[i]]]
           piece == ElementsOf(v, gap, spelled)
<1>1. /\ IsListOf(v, Values)
      /\ \A i \in DOMAIN v.elems : v.elems[i] \in Values /\ Rank[v.elems[i]] < Rank[v]
    BY ValueShape
<1>2. DOMAIN v.elems = 1..Len(v.elems) /\ Len(v.elems) \in Nat
    BY <1>1 DEF IsListOf
<1>3. texts \in [1..Len(v.elems) -> Texts]
    BY <1>1, <1>2
<1>4. DOMAIN texts = DOMAIN v.elems
    OBVIOUS
<1>5. \A i \in DOMAIN v.elems : texts[i] = spelled[v.elems[i]]
    OBVIOUS
<1>6. piece = [i \in DOMAIN texts |-> Element(texts[i], gap)]
    BY Zenon, <1>4, <1>5 DEF Element, ElementsOf
<1>7. SpelledStep(scalar, gap, spelled, v) = <<"[">> \o gap \o FlattenSeq(piece) \o <<"]">>
    BY SpelledCases
<1> HIDE DEF texts, piece
<1>8. texts \in Seq(Texts) /\ Len(texts) = Len(v.elems)
    BY <1>2, <1>3, FunctionIsSeq
<1>9. SpelledStep(scalar, gap, spelled, v) = <<"[">> \o gap \o Elements(texts, gap) \o <<"]">>
    BY <1>6, <1>7 DEF Elements
<1>10. \A i \in 1..Len(texts) :
          v.elems[i] \in Values /\ Rank[v.elems[i]] < Rank[v] /\ texts[i] = spelled[v.elems[i]]
    BY <1>1, <1>2, <1>5, <1>8
<1> QED
    BY <1>8, <1>9, <1>10

(* A value is spelled as a text if the values in it are. *)
LEMMA SpelledTyped ==
    ASSUME NEW scalar \in Texts, NEW gap \in Texts, NEW v \in Values, NEW spelled,
           \A u \in Values : Rank[u] < Rank[v] => spelled[u] \in SpelledType
    PROVE  SpelledStep(scalar, gap, spelled, v) \in SpelledType
<1>1. CASE v.kind = "scalar"
    BY <1>1, SpelledCases DEF SpelledType
<1>2. CASE v.kind = "map"
    <2>1. <<"x", "=">> \o scalar \in Texts
        BY FixedTexts, ConcatTyped
    <2>2. Braced(<<"x", "=">> \o scalar) \in Texts
        BY <2>1, BracedTyped
    <2> QED
        BY <1>2, <2>2, SpelledCases DEF SpelledType
<1>3. CASE v.kind = "list"
    <2>1. PICK texts \in Seq(Texts) :
              SpelledStep(scalar, gap, spelled, v) =
                   <<"[">> \o gap \o Elements(texts, gap) \o <<"]">>
        BY <1>3, SpelledList DEF SpelledType
    <2>2. <<"[">> \o gap \in Texts /\ Elements(texts, gap) \in Texts
        BY FixedTexts, ConcatTyped, ElementsTyped
    <2>3. (<<"[">> \o gap) \o Elements(texts, gap) \in Texts
        BY <2>2, ConcatTyped
    <2>4. ((<<"[">> \o gap) \o Elements(texts, gap)) \o <<"]">> \in Texts
        BY <2>3, FixedTexts, ConcatTyped
    <2> QED
        BY <2>1, <2>4 DEF SpelledType
<1> QED
    BY <1>1, <1>2, <1>3, ValueShape

(* The spelling of a value depends on those of the values in it. *)
LEMMA SpelledLocal ==
    ASSUME NEW scalar \in Texts, NEW gap \in Texts, NEW v \in Values, NEW f, NEW g,
           \A u \in Values : Rank[u] < Rank[v] => f[u] = g[u]
    PROVE  SpelledStep(scalar, gap, f, v) = SpelledStep(scalar, gap, g, v)
<1>1. CASE v.kind = "scalar"
    <2>1. SpelledStep(scalar, gap, f, v) = scalar /\ SpelledStep(scalar, gap, g, v) = scalar
        BY <1>1, SpelledCases
    <2> QED
        BY <2>1
<1>2. CASE v.kind = "map"
    <2>1. /\ SpelledStep(scalar, gap, f, v) = Braced(<<"x", "=">> \o scalar)
          /\ SpelledStep(scalar, gap, g, v) = Braced(<<"x", "=">> \o scalar)
        BY <1>2, SpelledCases
    <2> QED
        BY <2>1
<1>3. CASE v.kind = "list"
    <2>1. \A i \in DOMAIN v.elems : f[v.elems[i]] = g[v.elems[i]]
        BY ValueShape
    <2>2. ElementsOf(v, gap, f) = ElementsOf(v, gap, g)
        BY <2>1 DEF ElementsOf
    <2>3. SpelledStep(scalar, gap, f, v) = <<"[">> \o gap
                \o FlattenSeq(ElementsOf(v, gap, f)) \o <<"]">>
        BY <1>3, SpelledCases
    <2>4. SpelledStep(scalar, gap, g, v) = <<"[">> \o gap
                \o FlattenSeq(ElementsOf(v, gap, g)) \o <<"]">>
        BY <1>3, SpelledCases
    <2> QED
        BY <2>2, <2>3, <2>4
<1> QED
    BY <1>1, <1>2, <1>3, ValueShape

(* How a value is spelled. *)
LEMMA SpelledEquation ==
    ASSUME NEW scalar \in Texts, NEW gap \in Texts
    PROVE  \A v \in Values :
               /\ SpelledPast(scalar, gap)[v] = SpelledStep(scalar, gap, SpelledPast(scalar, gap), v)
               /\ SpelledPast(scalar, gap)[v] \in SpelledType
<1> DEFINE S == Values
           T == [v \in S |-> SpelledType]
           F == Typed(S, T)
           G == [v \in S |-> [f \in F |-> SpelledStep(scalar, gap, f, v)]]
           past == SpelledPast(scalar, gap)
<1>1. \A v \in S : T[v] # {}
    BY SpelledInhabited
<1>2. ASSUME NEW v \in S, NEW f \in F
      PROVE  G[v][f] = SpelledStep(scalar, gap, f, v) /\ SpelledStep(scalar, gap, f, v) \in T[v]
    <2>1. \A u \in S : f[u] \in SpelledType
        BY DEF Typed
    <2> HIDE DEF F
    <2>2. SpelledStep(scalar, gap, f, v) \in SpelledType
        BY <2>1, SpelledTyped
    <2> QED
        BY <2>2
<1>3. ASSUME NEW v \in S, NEW f \in F, NEW g \in F,
             \A u \in S : Rank[u] < Rank[v] => f[u] = g[u]
      PROVE  SpelledStep(scalar, gap, f, v) = SpelledStep(scalar, gap, g, v)
    <2> HIDE DEF F
    <2> QED
        BY <1>3, SpelledLocal
<1>4. Rank \in [S -> Nat] /\ \A v \in S : Rank[v] < 3
    BY RankTyped
<1> HIDE DEF T, G, S
<1>5. \A v \in S : \A f \in F : G[v][f] \in T[v]
    BY <1>2
<1>6. \A v \in S : \A f, g \in F :
        (\A u \in S : Rank[u] < Rank[v] => f[u] = g[u]) => G[v][f] = G[v][g]
    <2> HIDE DEF F
    <2> QED
        BY <1>2, <1>3
<1>7. IsRecursion(G, S, T, Rank)
    BY <1>1, <1>5, <1>6 DEF IsRecursion
<1>8. \E f \in F : IsSolution(f, G, S)
    BY <1>4, <1>7, RecursionOnMeasure
<1>9. PICK f \in F : \A v \in S : f[v] = G[v][f]
    BY <1>8 DEF IsSolution
<1>10. f = [v \in S |-> SpelledStep(scalar, gap, f, v)]
    <2>1. f = [v \in S |-> f[v]]
        BY DEF Typed
    <2>2. \A v \in S : f[v] = SpelledStep(scalar, gap, f, v)
        BY <1>2, <1>9
    <2> HIDE DEF F
    <2> QED
        BY <2>1, <2>2
<1>11. past = [v \in S |-> SpelledStep(scalar, gap, past, v)]
    <2>1. past = CHOOSE p : p = [v \in S |-> SpelledStep(scalar, gap, p, v)]
        BY DEF SpelledPast, S
    <2> HIDE DEF past, F
    <2> QED
        BY <1>10, <2>1
<1>12. \A v \in S : past[v] = SpelledStep(scalar, gap, past, v)
    <2> HIDE DEF past
    <2> QED
        BY <1>11
<1> DEFINE Bad == {v \in S : past[v] \notin SpelledType}
<1>13. \A v \in Bad : \E u \in Bad : Rank[u] < Rank[v]
    <2> SUFFICES ASSUME NEW v \in Bad, \A u \in Bad : ~(Rank[u] < Rank[v]) PROVE FALSE
        OBVIOUS
    <2> HIDE DEF past
    <2>1. v \in S /\ past[v] \notin SpelledType
        OBVIOUS
    <2>2. \A u \in S : Rank[u] < Rank[v] => past[u] \in SpelledType
        OBVIOUS
    <2>3. SpelledStep(scalar, gap, past, v) \in SpelledType
        BY <2>1, <2>2, SpelledTyped DEF S
    <2> QED
        BY <2>1, <2>3, <1>12
<1>14. Bad = {}
    <2>1. Bad \in SUBSET S
        OBVIOUS
    <2> HIDE DEF Bad
    <2> QED
        BY <2>1, <1>4, <1>13, NoLeast
<1> QED
    BY <1>12, <1>14 DEF S

(* A value that an author writes is a text. *)
LEMMA SpelledIs ==
    ASSUME NEW v \in Values, NEW scalar \in Texts, NEW gap \in Texts
    PROVE  /\ Spelled(v, scalar, gap) \in Texts
           /\ Spelled(v, scalar, gap) = SpelledStep(scalar, gap, SpelledPast(scalar, gap), v)
           /\ Spelled(v, scalar, gap) = SpelledPast(scalar, gap)[v]
    BY SpelledEquation, SpelledUnfolded DEF SpelledType

------------------------------------------------------------------------------
(***************************************************************************)
(* Texts that stand in a block.                                            *)
(***************************************************************************)
(* The text t stands at i in the block b. *)
Holds(b, i, t) ==
    /\ i \in Nat /\ i >= 1
    /\ i + Len(t) <= Len(b) + 1
    /\ \A k \in 1..Len(t) : b[i + k - 1] = t[k]

(* A text's length is a number, and its marks are marks. *)
LEMMA TextIs ==
    ASSUME NEW t \in Texts
    PROVE  /\ t \in Seq(Marks)
           /\ Len(t) \in Nat
           /\ DOMAIN t = 1..Len(t)
           /\ \A k \in 1..Len(t) : t[k] \in Marks
<1>1. t \in Seq(Marks)
    BY DEF Texts
<1> QED
    BY <1>1, BlockTyped

(* A text that stands in a block starts and ends at positions of it. *)
LEMMA HoldsAt ==
    ASSUME NEW b \in Texts, NEW t \in Texts, NEW i, Holds(b, i, t)
    PROVE  /\ i \in Positions(b)
           /\ i + Len(t) \in Positions(b)
           /\ \A k \in 1..Len(t) : /\ i + k - 1 \in 1..Len(b)
                                   /\ i + k - 1 \in Positions(b)
                                   /\ i + k \in Positions(b)
                                   /\ b[i + k - 1] = t[k]
<1>1. Len(t) \in Nat /\ Len(b) \in Nat
    BY TextIs
<1>2. i \in Nat /\ i >= 1 /\ i + Len(t) <= Len(b) + 1
    BY DEF Holds
<1>3. b \in Seq(Marks)
    BY DEF Texts
<1> DEFINE n == Len(t)
           m == Len(b)
<1> HIDE DEF n, m
<1>4. n \in Nat /\ m \in Nat /\ i + n <= m + 1
    BY <1>1, <1>2 DEF n, m
<1>5. i \in 1..(m + 1) /\ i + n \in 1..(m + 1)
    BY <1>2, <1>4
<1>6. \A k \in 1..n : i + k - 1 \in 1..m /\ i + k - 1 \in 1..(m + 1) /\ i + k \in 1..(m + 1)
    BY <1>2, <1>4
<1>7. \A k \in 1..n : b[i + k - 1] = t[k]
    BY DEF Holds, n
<1> QED
    BY <1>5, <1>6, <1>7 DEF Positions, n, m

(* Two texts in a row. *)
LEMMA ConcatIs ==
    ASSUME NEW s \in Texts, NEW t \in Texts
    PROVE  /\ s \o t \in Texts
           /\ Len(s \o t) = Len(s) + Len(t)
           /\ \A k \in 1..Len(s) : (s \o t)[k] = s[k]
           /\ \A k \in 1..Len(t) : (s \o t)[Len(s) + k] = t[k]
<1>1. s \in Seq(Marks) /\ t \in Seq(Marks) /\ Len(s) \in Nat /\ Len(t) \in Nat
    BY TextIs
<1>2. /\ Len(s \o t) = Len(s) + Len(t)
      /\ \A k \in 1..(Len(s) + Len(t)) :
            (s \o t)[k] = IF k <= Len(s) THEN s[k] ELSE t[k - Len(s)]
    BY <1>1, ConcatProperties
<1> DEFINE u == s \o t
           n == Len(s)
           m == Len(t)
<1>3. n \in Nat /\ m \in Nat /\ \A k \in 1..(n + m) : u[k] = IF k <= n THEN s[k] ELSE t[k - n]
    BY <1>1, <1>2
<1> HIDE DEF u, n, m
<1>4. \A k \in 1..n : u[k] = s[k]
    BY <1>3
<1>5. \A k \in 1..m : u[n + k] = t[k]
    BY <1>3
<1> QED
    BY <1>2, <1>4, <1>5, ConcatTyped DEF u, n, m

(* Where two texts stand together, each of them stands. *)
LEMMA HoldsConcat ==
    ASSUME NEW b \in Texts, NEW s \in Texts, NEW t \in Texts, NEW i, Holds(b, i, s \o t)
    PROVE  /\ Holds(b, i, s)
           /\ Holds(b, i + Len(s), t)
           /\ i + Len(s \o t) = (i + Len(s)) + Len(t)
<1> DEFINE u == s \o t
           n == Len(s)
           m == Len(t)
<1>1. /\ Len(u) = n + m
      /\ \A k \in 1..n : u[k] = s[k]
      /\ \A k \in 1..m : u[n + k] = t[k]
    BY ConcatIs
<1>2. n \in Nat /\ m \in Nat /\ Len(b) \in Nat
    BY TextIs
<1>3. /\ i \in Nat /\ i >= 1
      /\ i + Len(u) <= Len(b) + 1
      /\ \A k \in 1..Len(u) : b[i + k - 1] = u[k]
    BY DEF Holds
<1> HIDE DEF u, n, m
<1>4. \A k \in 1..(n + m) : b[i + k - 1] = u[k]
    BY <1>1, <1>3
<1>5. ASSUME NEW k \in 1..n PROVE b[i + k - 1] = s[k]
    <2>1. k \in 1..(n + m)
        BY <1>2
    <2> QED
        BY <2>1, <1>1, <1>4
<1>6. ASSUME NEW k \in 1..m PROVE b[(i + n) + k - 1] = t[k]
    <2>1. n + k \in 1..(n + m) /\ i + (n + k) - 1 = (i + n) + k - 1
        BY <1>2, <1>3
    <2> QED
        BY <2>1, <1>1, <1>4
<1>7. i + n <= Len(b) + 1 /\ (i + n) + m <= Len(b) + 1 /\ i + n \in Nat /\ i + n >= 1
      /\ i + Len(u) = (i + n) + m
    BY <1>1, <1>2, <1>3
<1> QED
    BY <1>3, <1>5, <1>6, <1>7 DEF Holds, u, n, m

(* A block stands in itself, with nothing after it. *)
LEMMA HoldsWhole ==
    ASSUME NEW b \in Texts
    PROVE  Holds(b, 1, b)
<1>1. Len(b) \in Nat
    BY TextIs
<1> QED
    BY <1>1 DEF Holds

(* One mark that stands in a block. *)
LEMMA HoldsMark ==
    ASSUME NEW b \in Texts, NEW mark \in Marks, NEW i, Holds(b, i, <<mark>>)
    PROVE  /\ i \in 1..Len(b) /\ b[i] = mark
           /\ i + Len(<<mark>>) = i + 1
           /\ i \in Positions(b) /\ i + 1 \in Positions(b)
           /\ <<mark>> \in Texts
<1>1. <<mark>> \in Texts
    BY ShortTexts DEF Texts
<1> DEFINE t == <<mark>>
<1>2. Len(t) = 1 /\ t[1] = mark
    OBVIOUS
<1> HIDE DEF t
<1>3. Holds(b, i, t) /\ t \in Texts
    BY <1>1 DEF t
<1>4. i \in Positions(b) /\ i + 1 \in Positions(b) /\ i + 1 - 1 \in 1..Len(b)
      /\ b[i + 1 - 1] = t[1]
    <2>1. /\ i \in Positions(b)
          /\ \A k \in 1..Len(t) : /\ i + k - 1 \in 1..Len(b)
                                  /\ i + k \in Positions(b)
                                  /\ b[i + k - 1] = t[k]
        BY <1>3, HoldsAt
    <2>2. 1 \in 1..Len(t)
        BY <1>2
    <2> QED
        BY Zenon, <2>1, <2>2
<1>5. i \in Nat
    BY <1>3 DEF Holds
<1>6. i + 1 - 1 = i
    BY <1>5
<1> QED
    BY <1>1, <1>2, <1>4, <1>6 DEF t

(* What is the same from each number to the next is the same throughout. *)
LEMMA Walk ==
    ASSUME NEW f, NEW i \in Nat, NEW j \in Nat, i <= j, \A k \in i..(j - 1) : f[k] = f[k + 1]
    PROVE  f[i] = f[j]
<1> DEFINE Bad == {n \in 0..(j - i) : f[i + n] # f[i]}
<1>1. j - i \in Nat
    OBVIOUS
<1>2. 0 \notin Bad
    OBVIOUS
<1>3. \A n \in Bad : n - 1 \in Bad
    <2> SUFFICES ASSUME NEW n \in Bad PROVE n - 1 \in Bad
        OBVIOUS
    <2>1. n \in 0..(j - i) /\ f[i + n] # f[i]
        OBVIOUS
    <2>2. n # 0
        BY <2>1
    <2>3. i + (n - 1) \in i..(j - 1) /\ i + (n - 1) + 1 = i + n /\ n - 1 \in 0..(j - i)
        BY <2>1, <2>2
    <2>4. f[i + (n - 1)] = f[i + n]
        BY <2>3
    <2> QED
        BY <2>1, <2>3, <2>4
<1>4. Bad \in SUBSET (0..(j - i))
    OBVIOUS
<1>5. Bad = {}
    <2> HIDE DEF Bad
    <2> QED
        BY <1>1, <1>2, <1>3, <1>4, Ascending
<1>6. j - i \in 0..(j - i) /\ i + (j - i) = j
    OBVIOUS
<1> QED
    BY <1>5, <1>6

------------------------------------------------------------------------------
(***************************************************************************)
(* Texts that tomlSkipValue passes over, at a depth.                       *)
(***************************************************************************)
Skips(t, d) ==
    \A b \in Texts : \A i :
        Holds(b, i, t) => ValuePast(b)[i][d] = ValuePast(b)[i + Len(t)][d]

(* The same for a text that no quote follows. *)
Unquoted(b, i) == At(b, i, Marks \ {DQ, SQ})

(* The same for a text that no quote follows. *)
SkipsBefore(t, d) ==
    \A b \in Texts : \A i :
        Holds(b, i, t) /\ Unquoted(b, i + Len(t)) =>
            ValuePast(b)[i][d] = ValuePast(b)[i + Len(t)][d]

(* What is passed over is passed over when no quote follows. *)
LEMMA SkipsBoth ==
    ASSUME NEW t, NEW d, Skips(t, d)
    PROVE  SkipsBefore(t, d)
    BY DEF Skips, SkipsBefore

(* Most marks change nothing; brackets change the depth. *)
LEMMA OverOther ==
    ASSUME NEW b \in Texts, NEW i \in 1..Len(b), NEW d \in Nat, b[i] \notin ValueMarks
    PROVE  ValuePast(b)[i][d] = ValuePast(b)[i + 1][d]
<1>1. b \in Seq(Marks) /\ Len(b) \in Nat
    BY TextIs
<1>2. i \in Positions(b)
    BY <1>1 DEF Positions
<1>3. ValuePast(b)[i][d] = ValueGo(b, ValuePast(b), i, d)
    BY <1>1, <1>2, ValueFrom
<1>4. \A past : ValueGo(b, past, i, d) = past[i + 1][d]
    BY <1>1, ValueAtOther
<1> QED
    BY Zenon, <1>3, <1>4

(* An opening bracket is passed over, to one depth more. *)
LEMMA OverOpening ==
    ASSUME NEW b \in Texts, NEW i \in 1..Len(b), NEW d \in Nat, b[i] \in Opening
    PROVE  ValuePast(b)[i][d] = ValuePast(b)[i + 1][d + 1]
<1>1. b \in Seq(Marks) /\ Len(b) \in Nat
    BY TextIs
<1>2. i \in Positions(b)
    BY <1>1 DEF Positions
<1>3. ValuePast(b)[i][d] = ValueGo(b, ValuePast(b), i, d)
    BY <1>1, <1>2, ValueFrom
<1>4. \A past : ValueGo(b, past, i, d) = past[i + 1][d + 1]
    BY <1>1, ValueAtOpening
<1> QED
    BY Zenon, <1>3, <1>4

(* A closing bracket is passed over, to one depth less. *)
LEMMA OverClosing ==
    ASSUME NEW b \in Texts, NEW i \in 1..Len(b), NEW d \in Nat, b[i] \in Closing
    PROVE  ValuePast(b)[i][d + 1] = ValuePast(b)[i + 1][d]
<1>1. b \in Seq(Marks) /\ Len(b) \in Nat
    BY TextIs
<1>2. i \in Positions(b) /\ d + 1 \in Nat
    BY <1>1 DEF Positions
<1>3. ValuePast(b)[i][d + 1] = ValueGo(b, ValuePast(b), i, d + 1)
    BY <1>1, <1>2, ValueFrom
<1>4. \A past : ValueGo(b, past, i, d + 1) = past[i + 1][Below(d + 1)]
    BY <1>1, ValueAtClosing
<1>5. Below(d + 1) = d
    BY DEF Below
<1> QED
    BY Zenon, <1>3, <1>4, <1>5

(* Inside a list, a line that ends goes on at the next.                    *)
LEMMA OverInnerLine ==
    ASSUME NEW b \in Texts, NEW i \in 1..Len(b), NEW d \in Nat, d # 0, b[i] \in {LF, "#"}
    PROVE  ValuePast(b)[i][d] = ValuePast(b)[tomlSkipLine(b, i)][d]
<1>1. b \in Seq(Marks) /\ Len(b) \in Nat
    BY TextIs
<1>2. i \in Positions(b)
    BY <1>1 DEF Positions
<1>3. ValuePast(b)[i][d] = ValueGo(b, ValuePast(b), i, d)
    BY <1>1, <1>2, ValueFrom
<1>4. \A past : ValueGo(b, past, i, d) = past[tomlSkipLine(b, i)][d]
    BY <1>1, ValueAtInnerLine
<1> QED
    BY Zenon, <1>3, <1>4

(* At a quote, the string is passed over. *)
LEMMA OverQuote ==
    ASSUME NEW b \in Texts, NEW i \in 1..Len(b), NEW d \in Nat, b[i] \in {DQ, SQ}
    PROVE  ValuePast(b)[i][d] = ValuePast(b)[tomlSkipString(b, i)][d]
<1>1. b \in Seq(Marks) /\ Len(b) \in Nat
    BY TextIs
<1>2. i \in Positions(b)
    BY <1>1 DEF Positions
<1>3. ValuePast(b)[i][d] = ValueGo(b, ValuePast(b), i, d)
    BY <1>1, <1>2, ValueFrom
<1>4. \A past : ValueGo(b, past, i, d) = past[tomlSkipString(b, i)][d]
    BY <1>1, ValueAtQuote
<1> QED
    BY Zenon, <1>3, <1>4

(* Nothing is passed over by staying.                                      *)
LEMMA SkipsNothing ==
    ASSUME NEW d
    PROVE  Skips(<<>>, d)
<1>1. ASSUME NEW b \in Texts, NEW i, Holds(b, i, <<>>)
      PROVE  ValuePast(b)[i][d] = ValuePast(b)[i + Len(<<>>)][d]
    <2>1. i \in Nat /\ Len(<<>>) = 0
        BY <1>1 DEF Holds
    <2>2. i + Len(<<>>) = i
        BY <2>1
    <2> QED
        BY <2>2
<1> QED
    BY <1>1 DEF Skips

(* Two texts that are passed over are passed over together. *)
LEMMA SkipsConcat ==
    ASSUME NEW s \in Texts, NEW t \in Texts, NEW d, Skips(s, d), Skips(t, d)
    PROVE  Skips(s \o t, d)
<1>1. ASSUME NEW b \in Texts, NEW i, Holds(b, i, s \o t)
      PROVE  ValuePast(b)[i][d] = ValuePast(b)[i + Len(s \o t)][d]
    <2>1. Holds(b, i, s) /\ Holds(b, i + Len(s), t)
          /\ i + Len(s \o t) = (i + Len(s)) + Len(t)
        BY <1>1, HoldsConcat
    <2>2. ValuePast(b)[i][d] = ValuePast(b)[i + Len(s)][d]
        BY <2>1 DEF Skips
    <2>3. ValuePast(b)[i + Len(s)][d] = ValuePast(b)[(i + Len(s)) + Len(t)][d]
        BY <2>1 DEF Skips
    <2> QED
        BY <2>1, <2>2, <2>3
<1> QED
    BY <1>1 DEF Skips

(* Another mark than those that matter, or several of them. *)
LEMMA SkipsPlain ==
    ASSUME NEW t \in Texts, \A k \in 1..Len(t) : t[k] \notin ValueMarks, NEW d \in Nat
    PROVE  Skips(t, d)
<1>1. ASSUME NEW b \in Texts, NEW i, Holds(b, i, t)
      PROVE  ValuePast(b)[i][d] = ValuePast(b)[i + Len(t)][d]
    <2>1. i \in Nat /\ Len(t) \in Nat
        BY <1>1, TextIs DEF Holds
    <2> DEFINE f == [j \in Positions(b) |-> ValuePast(b)[j][d]]
               n == Len(t)
    <2>2. \A k \in 1..n : /\ i + k - 1 \in 1..Len(b)
                          /\ i + k - 1 \in Positions(b)
                          /\ i + k \in Positions(b)
                          /\ b[i + k - 1] = t[k]
        BY <1>1, HoldsAt
    <2>3. i \in Positions(b) /\ i + n \in Positions(b)
        BY <1>1, HoldsAt
    <2> HIDE DEF f, n
    <2>4. ASSUME NEW j \in i..(i + n - 1) PROVE f[j] = f[j + 1]
        <3>1. j - i + 1 \in 1..n /\ i + (j - i + 1) - 1 = j /\ i + (j - i + 1) = j + 1
            BY <2>1 DEF n
        <3>2. j \in 1..Len(b) /\ j \in Positions(b) /\ j + 1 \in Positions(b)
              /\ b[j] = t[j - i + 1]
            BY <2>2, <3>1
        <3>3. b[j] \notin ValueMarks
            BY <3>1, <3>2 DEF n
        <3>4. ValuePast(b)[j][d] = ValuePast(b)[j + 1][d]
            BY <3>2, <3>3, OverOther
        <3> QED
            BY <3>2, <3>4 DEF f
    <2> DEFINE top == i + n
    <2>5. top \in Nat /\ i <= top /\ \A j \in i..(top - 1) : f[j] = f[j + 1]
        BY <2>1, <2>4 DEF n
    <2>6. f[i] = f[i + n]
        <3> HIDE DEF top
        <3>1. f[i] = f[top]
            BY <2>1, <2>5, Walk
        <3> QED
            BY <3>1 DEF top
    <2> QED
        BY <2>3, <2>6 DEF f, n
<1> QED
    BY <1>1 DEF Skips

(* A mark that means nothing is passed over. *)
LEMMA SkipsMark ==
    ASSUME NEW mark \in Marks, mark \notin ValueMarks, NEW d \in Nat
    PROVE  <<mark>> \in Texts /\ Skips(<<mark>>, d)
<1>1. <<mark>> \in Texts
    BY ShortTexts DEF Texts
<1> DEFINE t == <<mark>>
<1>2. Len(t) = 1 /\ t[1] = mark
    OBVIOUS
<1> HIDE DEF t
<1>3. \A k \in 1..Len(t) : t[k] \notin ValueMarks
    BY <1>2
<1>4. Skips(t, d)
    BY <1>1, <1>3, SkipsPlain DEF t
<1> QED
    BY <1>1, <1>4 DEF t

(* A text that must not be followed by a quote, and what may follow it.    *)
LEMMA SkipsThen ==
    ASSUME NEW s \in Texts, NEW mark \in Marks \ {DQ, SQ}, NEW t \in Texts, NEW d \in Nat,
           SkipsBefore(s, d), mark \notin ValueMarks, Skips(t, d)
    PROVE  Skips(s \o <<mark>> \o t, d)
<1> DEFINE m == <<mark>>
<1>1. m \in Texts /\ Skips(m, d)
    BY SkipsMark
<1>2. s \o m \in Texts
    BY <1>1, ConcatTyped
<1>3. ASSUME NEW b \in Texts, NEW i, Holds(b, i, s \o m)
      PROVE  ValuePast(b)[i][d] = ValuePast(b)[i + Len(s \o m)][d]
    <2>1. Holds(b, i, s) /\ Holds(b, i + Len(s), m)
          /\ i + Len(s \o m) = (i + Len(s)) + Len(m)
        <3> HIDE DEF m
        <3> QED
            BY <1>1, <1>3, HoldsConcat
    <2>2. i + Len(s) \in 1..Len(b) /\ b[i + Len(s)] = mark
        BY <2>1, HoldsMark
    <2>3. Unquoted(b, i + Len(s))
        BY <2>2 DEF Unquoted, At
    <2>4. ValuePast(b)[i][d] = ValuePast(b)[i + Len(s)][d]
        BY <2>1, <2>3 DEF SkipsBefore
    <2>5. ValuePast(b)[i + Len(s)][d] = ValuePast(b)[(i + Len(s)) + Len(m)][d]
        BY <1>1, <2>1 DEF Skips
    <2> QED
        BY <2>1, <2>4, <2>5
<1>4. Skips(s \o m, d)
    BY <1>3 DEF Skips
<1> QED
    BY <1>2, <1>4, SkipsConcat

(* A text in brackets.                                                     *)
LEMMA SkipsEnclosed ==
    ASSUME NEW open \in Opening, NEW t \in Texts, NEW close \in Closing, NEW d \in Nat,
           SkipsBefore(t, d + 1)
    PROVE  /\ <<open>> \o t \o <<close>> \in Texts
           /\ Skips(<<open>> \o t \o <<close>>, d)
<1>1. open \in Marks /\ close \in Marks /\ close \notin {DQ, SQ}
    <2>1. Opening \subseteq Marks /\ Closing \subseteq Marks
        BY AreMarks
    <2>2. close \notin {DQ, SQ}
        BY Zenon DEF Closing, DQ, SQ
    <2> QED
        BY <2>1, <2>2
<1> DEFINE o == <<open>>
           c == <<close>>
<1>2. o \in Texts /\ c \in Texts
    BY <1>1, ShortTexts DEF Texts
<1>3. o \o t \in Texts
    BY <1>2, ConcatTyped
<1>4. ASSUME NEW b \in Texts, NEW i, Holds(b, i, (o \o t) \o c)
      PROVE  ValuePast(b)[i][d] = ValuePast(b)[i + Len((o \o t) \o c)][d]
    <2>1. Holds(b, i, o \o t) /\ Holds(b, i + Len(o \o t), c)
          /\ i + Len((o \o t) \o c) = (i + Len(o \o t)) + Len(c)
        <3> DEFINE ot == o \o t
        <3>1. ot \in Texts /\ c \in Texts /\ Holds(b, i, ot \o c)
            BY <1>2, <1>3, <1>4
        <3> HIDE DEF ot, c
        <3>2. Holds(b, i, ot) /\ Holds(b, i + Len(ot), c)
              /\ i + Len(ot \o c) = (i + Len(ot)) + Len(c)
            BY ONLY b \in Texts, <3>1, HoldsConcat
        <3> QED
            BY <3>2 DEF ot
    <2>2. Holds(b, i, o) /\ Holds(b, i + Len(o), t)
          /\ i + Len(o \o t) = (i + Len(o)) + Len(t)
        <3> HIDE DEF o, c
        <3> QED
            BY <1>2, <2>1, HoldsConcat
    <2>3. i \in 1..Len(b) /\ b[i] = open /\ i + Len(o) = i + 1
        BY <1>1, <2>2, HoldsMark
    <2> DEFINE j == i + Len(o \o t)
    <2>4. j \in 1..Len(b) /\ b[j] = close /\ j + Len(c) = j + 1
        BY <1>1, <2>1, HoldsMark
    <2>5. j = (i + 1) + Len(t) /\ Holds(b, i + 1, t)
        BY <2>2, <2>3
    <2>6. i + Len((o \o t) \o c) = j + 1
        BY <2>1, <2>4
    <2> HIDE DEF j
    <2>7. Unquoted(b, j)
        BY <1>1, <2>4 DEF Unquoted, At
    <2>8. ValuePast(b)[i][d] = ValuePast(b)[i + 1][d + 1]
        BY <2>3, OverOpening
    <2>9. ValuePast(b)[i + 1][d + 1] = ValuePast(b)[j][d + 1]
        BY <2>5, <2>7 DEF SkipsBefore
    <2>10. ValuePast(b)[j][d + 1] = ValuePast(b)[j + 1][d]
        BY <2>4, OverClosing
    <2> QED
        BY <2>6, <2>8, <2>9, <2>10
<1>5. Skips((o \o t) \o c, d)
    BY <1>4 DEF Skips
<1> QED
    BY <1>2, <1>3, <1>5, ConcatTyped

------------------------------------------------------------------------------
(***************************************************************************)
(* Strings are skipped.                                                    *)
(***************************************************************************)
(* A set of numbers without a last one is empty. *)
LEMMA NoLast ==
    ASSUME NEW n \in Nat, NEW Bad \in SUBSET (1..n), \A k \in Bad : \E l \in Bad : l > k
    PROVE  Bad = {}
<1> DEFINE m == [k \in 1..n |-> n - k]
<1>1. m \in [1..n -> Nat]
    OBVIOUS
<1>2. \A k \in Bad : \E l \in Bad : m[l] < m[k]
    <2> SUFFICES ASSUME NEW k \in Bad PROVE \E l \in Bad : m[l] < m[k]
        OBVIOUS
    <2>1. PICK l \in Bad : l > k
        OBVIOUS
    <2>2. m[l] < m[k]
        BY <2>1
    <2> QED
        BY <2>2
<1> HIDE DEF m
<1> QED
    BY <1>1, <1>2, NoLeast

(* A string with one quote on each side, in a block. *)
QuotedAt(b, i, n, quote) ==
    /\ i \in 1..Len(b) /\ i \in Positions(b) /\ n \in Nat /\ Len(b) \in Nat
    /\ i + n + 2 \in 1..Len(b)
    /\ b[i] = quote /\ b[i + n + 1] = quote
    /\ b[i + n + 2] \in Marks \ {DQ, SQ}

(* A quoted text in a block has its quotes where they belong. *)
LEMMA QuotedHolds ==
    ASSUME NEW b \in Texts, NEW content \in Texts, NEW quote \in {DQ, SQ}, NEW i,
           Holds(b, i, Quoted(content, quote)),
           Unquoted(b, i + Len(Quoted(content, quote)))
    PROVE  /\ QuotedAt(b, i, Len(content), quote)
           /\ i + Len(Quoted(content, quote)) = i + Len(content) + 2
           /\ \A k \in 1..Len(content) : b[i + k] = content[k]
<1> DEFINE q == <<quote>>
           qc == q \o content
           t == Quoted(content, quote)
           n == Len(content)
<1>1. quote \in Marks
    BY AreMarks
<1>2. q \in Texts
    BY <1>1, ShortTexts DEF Texts
<1>3. qc \in Texts
    BY <1>2, ConcatTyped
<1>4. t = qc \o q
    BY DEF Quoted
<1> HIDE DEF q, qc, t
<1>5. Holds(b, i, qc) /\ Holds(b, i + Len(qc), q) /\ i + Len(t) = (i + Len(qc)) + Len(q)
    <2>1. Holds(b, i, qc \o q)
        BY <1>4 DEF t
    <2> QED
        BY <2>1, <1>2, <1>3, <1>4, HoldsConcat
<1>6. Holds(b, i, q) /\ Holds(b, i + Len(q), content) /\ i + Len(qc) = (i + Len(q)) + n
    <2>1. Holds(b, i, q \o content)
        BY <1>5 DEF qc
    <2> QED
        BY <2>1, <1>2, HoldsConcat DEF qc
<1>7. i \in 1..Len(b) /\ b[i] = quote /\ i + Len(q) = i + 1 /\ i \in Positions(b)
    BY <1>1, <1>6, HoldsMark DEF q
<1>8. i + Len(qc) \in 1..Len(b) /\ b[i + Len(qc)] = quote
      /\ (i + Len(qc)) + Len(q) = (i + Len(qc)) + 1
    BY <1>1, <1>5, HoldsMark DEF q
<1>9. n \in Nat /\ Len(b) \in Nat
    BY TextIs
<1>10. \A k \in 1..n : b[i + k] = content[k]
    <2> SUFFICES ASSUME NEW k \in 1..n PROVE b[i + k] = content[k]
        OBVIOUS
    <2>1. Holds(b, i + 1, content)
        BY <1>6, <1>7
    <2>2. b[(i + 1) + k - 1] = content[k]
        BY <2>1 DEF Holds
    <2>3. (i + 1) + k - 1 = i + k
        BY <1>7, <1>9
    <2> QED
        BY <2>2, <2>3
<1>11. i + Len(qc) = i + n + 1 /\ i + Len(t) = i + n + 2
    BY <1>5, <1>6, <1>7, <1>8, <1>9
<1>12. At(b, i + n + 2, Marks \ {DQ, SQ})
    BY <1>11 DEF Unquoted, t
<1>13. i + n + 2 \in 1..Len(b) /\ b[i + n + 2] \in Marks \ {DQ, SQ}
    BY <1>7, <1>9, <1>12 DEF At
<1> QED
    BY <1>7, <1>8, <1>9, <1>10, <1>11, <1>13 DEF QuotedAt, t

(* A string of one line is skipped. *)
LEMMA OneLineSkipped ==
    ASSUME NEW b \in Texts, NEW content \in Texts, NEW quote \in {DQ, SQ}, NEW i,
           IsOneLine(content, quote),
           Holds(b, i, Quoted(content, quote)),
           Unquoted(b, i + Len(Quoted(content, quote)))
    PROVE  tomlSkipString(b, i) = i + Len(Quoted(content, quote))
<1> DEFINE n == Len(content)
           past == StringPast(b, i)
<1>1. /\ QuotedAt(b, i, n, quote)
      /\ i + Len(Quoted(content, quote)) = i + n + 2
      /\ \A k \in 1..n : b[i + k] = content[k]
    BY QuotedHolds
<1>2. /\ i \in 1..Len(b) /\ i \in Positions(b) /\ n \in Nat /\ Len(b) \in Nat
      /\ i + n + 2 \in 1..Len(b)
      /\ b[i] = quote /\ b[i + n + 1] = quote
      /\ b[i + n + 2] \in Marks \ {DQ, SQ}
    BY <1>1 DEF QuotedAt
<1>3. PICK escapes \in SUBSET DOMAIN content :
        /\ AreEscapes(escapes, content, quote)
        /\ n \notin escapes
        /\ \A k \in DOMAIN content : content[k] = quote => k - 1 \in escapes
    BY DEF IsOneLine
<1>4. DOMAIN content = 1..n /\ \A k \in 1..n : content[k] \in Marks
    BY TextIs
<1>5. \A k \in 1..n : content[k] # LF
    BY <1>4 DEF IsOneLine, ToSet
<1>6. escapes \subseteq 1..n /\ 0 \notin escapes
    BY <1>3, <1>4
<1>7. \A k \in 1..n : k \in escapes <=> quote = DQ /\ content[k] = BS /\ k - 1 \notin escapes
    BY <1>3, <1>4 DEF AreEscapes
<1>8. \A k \in 1..n : content[k] = quote => k - 1 \in escapes
    BY <1>3, <1>4
<1>9. \A j \in Positions(b) : past[j] = StringStep(b, i, past, j)
    BY <1>2, StringEquation DEF Texts
<1> HIDE DEF n, past
<1>10. ~(At(b, i + 1, {b[i]}) /\ At(b, i + 2, {b[i]}))
    <2>1. CASE n = 0
        <3>1. i + n + 2 = i + 2
            BY <2>1, <1>2
        <3>2. b[i + 2] \notin {DQ, SQ}
            BY <1>2, <3>1
        <3> QED
            BY <1>2, <3>2 DEF At
    <2>2. CASE n # 0
        <3>1. 1 \in 1..n
            BY <1>2, <2>2
        <3>2. b[i + 1] = content[1] /\ content[1] # quote
            BY <3>1, <1>1, <1>6, <1>8
        <3> QED
            BY <1>2, <3>2 DEF At
    <2> QED
        BY <2>1, <2>2
<1>11. tomlSkipString(b, i) = past[i + 1]
    BY <1>10, StringUnfolded DEF past
<1>12. quote \in Marks \ {LF} /\ LF \notin {quote} /\ quote # BS
    BY AreMarks, MarksDiffer
<1>13. past[i + (n + 1)] = i + n + 2
    <2> DEFINE j == i + n + 1
    <2>1. j \in 1..Len(b) /\ j = i + (n + 1) /\ j + 1 = i + n + 2
        BY <1>2
    <2>2. j \in Positions(b) /\ j <= Len(b) /\ b[j] = quote /\ b[j] = b[i]
        BY <1>2, <2>1 DEF Positions
    <2> HIDE DEF j
    <2>3. past[j] = j + 1
        BY <2>2, <1>9, <1>12 DEF StringStep, At
    <2> QED
        BY <2>1, <2>3
<1> DEFINE Bad == {k \in 1..(n + 1) : k - 1 \notin escapes /\ past[i + k] # i + n + 2}
<1>14. ASSUME NEW k \in Bad PROVE \E l \in Bad : l > k
    <2>1. k \in 1..(n + 1) /\ k - 1 \notin escapes /\ past[i + k] # i + n + 2
        OBVIOUS
    <2>2. k \in 1..n
        BY <2>1, <1>2, <1>13
    <2> DEFINE j == i + k
    <2>3. j \in Positions(b) /\ j < Len(b) /\ j <= Len(b) /\ j \in Nat
        BY <1>2, <2>2 DEF Positions
    <2>4. b[j] = content[k] /\ b[j] \in Marks \ {LF} /\ b[j] # quote
        BY <1>1, <1>4, <1>5, <1>8, <2>1, <2>2
    <2>5. past[j] = StringStep(b, i, past, j)
        BY <1>9, <2>3
    <2> HIDE DEF j
    <2>6. CASE quote = DQ /\ content[k] = BS
        <3>1. k \in escapes
            BY <1>7, <2>1, <2>2, <2>6
        <3>2. k # n /\ k + 1 \in 1..n
            BY <1>2, <1>3, <2>2, <3>1 DEF n
        <3>3. k + 1 \notin escapes
            BY <1>7, <3>1, <3>2, <1>2, <2>2
        <3>4. past[j] = past[j + 2]
            BY <1>2, <2>3, <2>4, <2>5, <2>6 DEF StringStep, At
        <3>5. j + 2 = i + (k + 2) /\ k + 2 \in 1..(n + 1) /\ (k + 2) - 1 = k + 1 /\ k + 2 > k
            BY <1>2, <2>2, <3>2 DEF j
        <3>6. k + 2 \in Bad
            BY <2>1, <3>3, <3>4, <3>5 DEF j
        <3> QED
            BY <3>5, <3>6
    <2>7. CASE ~(quote = DQ /\ content[k] = BS)
        <3>1. k \notin escapes
            BY <1>7, <2>2, <2>7
        <3>2. past[j] = past[j + 1]
            BY <1>2, <2>3, <2>4, <2>5, <2>7 DEF StringStep, At
        <3>3. j + 1 = i + (k + 1) /\ k + 1 \in 1..(n + 1) /\ (k + 1) - 1 = k /\ k + 1 > k
            BY <1>2, <2>2 DEF j
        <3>4. k + 1 \in Bad
            BY <2>1, <3>1, <3>2, <3>3 DEF j
        <3> QED
            BY <3>3, <3>4
    <2> QED
        BY <2>6, <2>7
<1>15. Bad = {}
    <2>1. Bad \in SUBSET (1..(n + 1)) /\ n + 1 \in Nat
        BY <1>2
    <2> HIDE DEF Bad
    <2> QED
        BY <2>1, <1>14, NoLast
<1>16. 1 \in 1..(n + 1) /\ 1 - 1 = 0
    BY <1>2
<1>17. past[i + 1] = i + n + 2
    BY <1>6, <1>15, <1>16
<1> QED
    BY <1>1, <1>11, <1>17

------------------------------------------------------------------------------
(* Three quotes on each side, in a block: at is where the content starts,  *)
(* and end the mark after the string.                                      *)
TripledAt(b, i, at, end, n, quote) ==
    /\ i \in 1..Len(b) /\ i \in Positions(b) /\ n \in Nat /\ Len(b) \in Nat
    /\ at = i + 3 /\ end = at + n + 3
    /\ end \in 1..Len(b)
    /\ b[i] = quote /\ b[i + 1] = quote /\ b[i + 2] = quote
    /\ b[at + n] = quote /\ b[at + n + 1] = quote /\ b[at + n + 2] = quote
    /\ b[end] \in Marks \ {DQ, SQ}

(* Three marks in a block. *)
LEMMA HoldsThree ==
    ASSUME NEW b \in Texts, NEW mark \in Marks, NEW i, Holds(b, i, <<mark, mark, mark>>)
    PROVE  /\ <<mark, mark, mark>> \in Texts
           /\ i \in 1..Len(b) /\ i \in Positions(b)
           /\ b[i] = mark /\ b[i + 1] = mark /\ b[i + 2] = mark
           /\ i + Len(<<mark, mark, mark>>) = i + 3
<1> DEFINE t == <<mark, mark, mark>>
<1>1. t \in Texts
    BY ShortTexts DEF Texts
<1>2. Len(t) = 3 /\ t[1] = mark /\ t[2] = mark /\ t[3] = mark
    OBVIOUS
<1> HIDE DEF t
<1>3. i \in Nat /\ i >= 1 /\ i + 3 <= Len(b) + 1 /\ Len(b) \in Nat
    BY <1>2, TextIs DEF Holds, t
<1>4. \A k \in 1..3 : b[i + k - 1] = t[k]
    BY <1>2 DEF Holds, t
<1>5. i + 1 - 1 = i /\ i + 2 - 1 = i + 1 /\ i + 3 - 1 = i + 2
    BY <1>3
<1>6. 1 \in 1..3 /\ 2 \in 1..3 /\ 3 \in 1..3
    OBVIOUS
<1>7. b[i] = mark /\ b[i + 1] = mark /\ b[i + 2] = mark
    <2>1. b[i + 1 - 1] = mark /\ b[i + 2 - 1] = mark /\ b[i + 3 - 1] = mark
        BY <1>2, <1>4, <1>6
    <2> QED
        BY <2>1, <1>5
<1>8. i \in 1..Len(b) /\ i \in Positions(b)
    BY <1>3 DEF Positions
<1> QED
    BY <1>1, <1>2, <1>7, <1>8 DEF t

(* So has one in three quotes on each side. *)
LEMMA TripledHolds ==
    ASSUME NEW b \in Texts, NEW content \in Texts, NEW quote \in {DQ, SQ}, NEW i,
           Holds(b, i, Tripled(content, quote)),
           Unquoted(b, i + Len(Tripled(content, quote)))
    PROVE  /\ TripledAt(b, i, i + 3, i + Len(Tripled(content, quote)), Len(content), quote)
           /\ \A k \in 1..Len(content) : b[(i + 3) + k - 1] = content[k]
           /\ Tripled(content, quote) \in Texts
<1> DEFINE q == <<quote, quote, quote>>
           qc == q \o content
           t == Tripled(content, quote)
           n == Len(content)
<1>1. quote \in Marks
    BY AreMarks
<1>2. q \in Texts
    BY <1>1, ShortTexts DEF Texts
<1>3. qc \in Texts
    BY <1>2, ConcatTyped
<1>4. t = qc \o q
    BY DEF Tripled
<1> HIDE DEF q, qc, t
<1>5. Holds(b, i, qc) /\ Holds(b, i + Len(qc), q) /\ i + Len(t) = (i + Len(qc)) + Len(q)
    <2>1. Holds(b, i, qc \o q)
        BY <1>4 DEF t
    <2> QED
        BY <2>1, <1>2, <1>3, <1>4, HoldsConcat
<1>6. Holds(b, i, q) /\ Holds(b, i + Len(q), content) /\ i + Len(qc) = (i + Len(q)) + n
    <2>1. Holds(b, i, q \o content)
        BY <1>5 DEF qc
    <2> QED
        BY <2>1, <1>2, HoldsConcat DEF qc
<1>7. /\ i \in 1..Len(b) /\ i \in Positions(b) /\ i + Len(q) = i + 3
      /\ b[i] = quote /\ b[i + 1] = quote /\ b[i + 2] = quote
    BY <1>1, <1>6, HoldsThree DEF q
<1> DEFINE at == i + 3
           j == i + Len(qc)
<1>8. j \in 1..Len(b) /\ b[j] = quote /\ b[j + 1] = quote /\ b[j + 2] = quote /\ j + Len(q) = j + 3
    BY <1>1, <1>5, HoldsThree DEF q
<1>9. n \in Nat /\ Len(b) \in Nat
    BY TextIs
<1>10. j = at + n /\ i + Len(t) = j + 3 /\ Holds(b, at, content) /\ at \in Nat
    <2>1. i + Len(t) = j + Len(q)
        BY <1>5
    <2>2. i + Len(q) = at
        BY <1>7
    <2>3. j = at + n /\ Holds(b, at, content)
        BY <1>6, <2>2
    <2>4. i + Len(t) = j + 3
        BY <1>8, <2>1
    <2>5. at \in Nat
        BY <1>7, <1>9
    <2> QED
        BY <2>3, <2>4, <2>5
<1> HIDE DEF at, j
<1>11. \A k \in 1..n : b[at + k - 1] = content[k]
    BY <1>10 DEF Holds
<1>12. At(b, i + Len(t), Marks \ {DQ, SQ})
    BY DEF Unquoted, t
<1>13. i + Len(t) = at + n + 3 /\ j = at + n
    BY <1>9, <1>10
<1>14. i + Len(t) \in 1..Len(b) /\ b[i + Len(t)] \in Marks \ {DQ, SQ}
    BY <1>8, <1>9, <1>10, <1>12 DEF At
<1>15. TripledAt(b, i, at, i + Len(t), n, quote)
    BY <1>7, <1>8, <1>9, <1>13, <1>14 DEF TripledAt, at
<1>16. t \in Texts
    BY <1>2, <1>3, <1>4, ConcatTyped
<1> QED
    BY <1>11, <1>15, <1>16 DEF at, t

(* A run of quotes that starts at j ends no later than the string.         *)
LEMMA RunEnds ==
    ASSUME NEW b \in Texts, NEW quote \in {DQ, SQ}, NEW j \in Positions(b), NEW end \in 1..Len(b),
           j <= end, b[end] \in Marks \ {DQ, SQ}
    PROVE  /\ LinesRun(b, quote, j) \in j..end
           /\ b[LinesRun(b, quote, j)] # quote
           /\ \A k \in j..(LinesRun(b, quote, j) - 1) : b[k] = quote
<1> DEFINE run == LinesRun(b, quote, j)
<1>1. IsUpTo(run, b, j, Marks \ {quote})
    BY UpToIs DEF LinesRun, Texts
<1>2. Len(b) \in Nat /\ \A k \in 1..Len(b) : b[k] \in Marks
    BY TextIs
<1>3. j \in Nat /\ 1 <= j /\ j <= Len(b) + 1
    BY <1>2 DEF Positions
<1> HIDE DEF run
<1>4. /\ run \in j..(Len(b) + 1)
      /\ run <= Len(b) => b[run] \in Marks \ {quote}
      /\ \A k \in j..(run - 1) : b[k] \notin Marks \ {quote}
    BY <1>1 DEF IsUpTo
<1>5. run <= end
    <2> SUFFICES ASSUME ~(run <= end) PROVE FALSE
        OBVIOUS
    <2>1. end \in j..(run - 1)
        BY <1>2, <1>3, <1>4
    <2> QED
        BY <2>1, <1>4
<1>6. run \in j..end /\ run <= Len(b)
    BY <1>2, <1>3, <1>4, <1>5
<1>7. \A k \in j..(run - 1) : b[k] = quote
    <2> SUFFICES ASSUME NEW k \in j..(run - 1) PROVE b[k] = quote
        OBVIOUS
    <2>1. k \in 1..Len(b)
        BY <1>2, <1>3, <1>6
    <2> QED
        BY <2>1, <1>2, <1>4
<1> QED
    BY <1>4, <1>6, <1>7 DEF run

(* A string of several lines is skipped. *)
LEMMA MultilineSkipped ==
    ASSUME NEW b \in Texts, NEW content \in Texts, NEW quote \in {DQ, SQ}, NEW i,
           IsMultiline(content, quote),
           Holds(b, i, Tripled(content, quote)),
           Unquoted(b, i + Len(Tripled(content, quote)))
    PROVE  tomlSkipString(b, i) = i + Len(Tripled(content, quote))
<1> DEFINE n == Len(content)
           past == LinesPast(b, quote)
           at == i + 3
           end == i + Len(Tripled(content, quote))
<1>1. TripledAt(b, i, at, end, n, quote) /\ \A k \in 1..n : b[at + k - 1] = content[k]
    BY TripledHolds
<1>2. PICK escapes \in SUBSET DOMAIN content :
        /\ AreEscapes(escapes, content, quote)
        /\ n \notin escapes
        /\ \A k \in 1..(n - 2) :
              (\A l \in k..(k + 2) : content[l] = quote) => k - 1 \in escapes
    BY DEF IsMultiline
<1>3. DOMAIN content = 1..n /\ \A k \in 1..n : content[k] \in Marks
    BY TextIs
<1>4. escapes \subseteq 1..n /\ 0 \notin escapes
    BY <1>2, <1>3
<1>5. \A k \in 1..n : k \in escapes <=> quote = DQ /\ content[k] = BS /\ k - 1 \notin escapes
    BY <1>2, <1>3 DEF AreEscapes
<1>6. \A j \in Positions(b) : past[j] = LinesStep(b, quote, past, j)
    BY LinesEquation DEF Texts
<1>7. tomlSkipString(b, i) = past[at]
    <2>1. At(b, i + 1, {b[i]}) /\ At(b, i + 2, {b[i]})
        BY <1>1 DEF TripledAt, At
    <2>2. b[i] = quote
        BY <1>1 DEF TripledAt
    <2> QED
        BY <2>1, <2>2, StringUnfolded, LinesUnfolded
<1>8. quote # BS
    BY MarksDiffer
<1> HIDE DEF n, past, at, end
<1>9. /\ n \in Nat /\ Len(b) \in Nat /\ at \in Nat /\ at >= 1 /\ end = at + n + 3
      /\ end \in 1..Len(b) /\ end \in Nat
      /\ b[at + n] = quote /\ b[at + n + 1] = quote /\ b[at + n + 2] = quote
      /\ b[end] \in Marks \ {DQ, SQ}
    BY <1>1 DEF TripledAt
<1>10. \A k \in 1..(n - 2) : ~(content[k] = quote /\ content[k + 1] = quote
                                 /\ content[k + 2] = quote /\ k - 1 \notin escapes)
    <2> SUFFICES ASSUME NEW k \in 1..(n - 2), content[k] = quote, content[k + 1] = quote,
                        content[k + 2] = quote
                 PROVE  k - 1 \in escapes
        OBVIOUS
    <2>1. \A l \in k..(k + 2) : l = k \/ l = k + 1 \/ l = k + 2
        BY <1>9
    <2>2. \A l \in k..(k + 2) : content[l] = quote
        BY <2>1
    <2> QED
        BY <2>2, <1>2
<1> DEFINE Bad == {k \in 1..(n + 1) : k - 1 \notin escapes /\ past[at + k - 1] # end}
<1>11. ASSUME NEW k \in Bad PROVE \E l \in Bad : l > k
    <2>1. k \in 1..(n + 1) /\ k - 1 \notin escapes /\ past[at + k - 1] # end
        OBVIOUS
    <2> DEFINE j == at + k - 1
    <2>2. j \in Positions(b) /\ j < Len(b) /\ j <= Len(b) /\ j \in Nat /\ j <= end
        BY <1>9, <2>1 DEF Positions
    <2>3. past[j] = LinesStep(b, quote, past, j)
        BY <1>6, <2>2
    <2>4. k \in 1..n => b[j] = content[k]
        BY <1>1
    <2>5. k = n + 1 => b[j] = quote
        BY <1>9
    <2>6. j = at + k - 1
        OBVIOUS
    <2> HIDE DEF j, Bad
    <2>7. CASE k \in 1..n /\ quote = DQ /\ content[k] = BS
        <3>1. k \in escapes
            BY <1>5, <2>1, <2>7
        <3>2. k # n /\ k + 1 \in 1..n
            BY <1>2, <1>9, <2>7, <3>1 DEF n
        <3>3. k + 1 \notin escapes
            BY <1>5, <3>1, <3>2, <1>9, <2>7
        <3>4. Lesser(j + 2, Len(b) + 1) = j + 2
            BY <1>9, <2>2 DEF Lesser
        <3>5. past[j] = past[j + 2]
            BY <1>9, <2>2, <2>3, <2>4, <2>7, <3>4 DEF LinesStep
        <3>6. j + 2 = at + (k + 2) - 1 /\ k + 2 \in 1..(n + 1) /\ (k + 2) - 1 = k + 1 /\ k + 2 > k
            BY <1>9, <2>6, <2>7, <3>2
        <3>7. k + 2 \in Bad
            BY <2>1, <3>3, <3>5, <3>6 DEF Bad, j
        <3> QED
            BY <3>6, <3>7
    <2>8. CASE k \in 1..n /\ ~(quote = DQ /\ content[k] = BS) /\ content[k] # quote
        <3>1. k \notin escapes
            BY <1>5, <2>8
        <3>2. past[j] = past[j + 1]
            BY <1>9, <2>2, <2>3, <2>4, <2>8 DEF LinesStep
        <3>3. j + 1 = at + (k + 1) - 1 /\ k + 1 \in 1..(n + 1) /\ (k + 1) - 1 = k /\ k + 1 > k
            BY <1>9, <2>6, <2>8
        <3>4. k + 1 \in Bad
            BY <2>1, <3>1, <3>2, <3>3 DEF Bad, j
        <3> QED
            BY <3>3, <3>4
    <2>9. CASE b[j] = quote
        <3> DEFINE run == LinesRun(b, quote, j)
        <3>1. run \in j..end /\ b[run] # quote /\ \A m \in j..(run - 1) : b[m] = quote
            BY <1>9, <2>2, RunEnds
        <3>2. past[j] = IF run - j < 3 THEN past[run] ELSE PastDelimiter(run, j)
            BY <2>2, <2>3, <2>9, <1>8 DEF LinesStep
        <3> HIDE DEF run
        <3>3. run \in Nat /\ j <= run /\ run <= end
            BY <2>2, <3>1, <1>9
        <3>4. run - j >= 3 => k > n - 2
            <4> SUFFICES ASSUME run - j >= 3, k <= n - 2 PROVE FALSE
                BY <1>9, <2>1
            <4>1. k \in 1..(n - 2) /\ k \in 1..n /\ k + 1 \in 1..n /\ k + 2 \in 1..n
                BY <1>9, <2>1
            <4>2. j \in j..(run - 1) /\ j + 1 \in j..(run - 1) /\ j + 2 \in j..(run - 1)
                BY <2>2, <3>3
            <4>3. b[j] = quote /\ b[j + 1] = quote /\ b[j + 2] = quote
                BY <3>1, <4>2
            <4>4. at + k - 1 = j /\ at + (k + 1) - 1 = j + 1 /\ at + (k + 2) - 1 = j + 2
                BY <1>9, <2>6, <4>1
            <4>5. content[k] = quote /\ content[k + 1] = quote /\ content[k + 2] = quote
                BY <1>1, <4>1, <4>3, <4>4
            <4> QED
                BY <1>10, <2>1, <4>1, <4>5
        <3>5. CASE run >= at + n
            <4>1. run = end
                <5> SUFFICES ASSUME run # end PROVE FALSE
                    OBVIOUS
                <5>1. run = at + n \/ run = at + n + 1 \/ run = at + n + 2
                    BY <1>9, <3>3, <3>5
                <5> QED
                    BY <1>9, <3>1, <5>1
            <4>2. run - j >= 3
                BY <1>9, <2>1, <2>6, <4>1
            <4>3. k > n - 2
                BY <3>4, <4>2
            <4>4. j + 5 >= end
                BY <1>9, <2>1, <2>6, <4>3
            <4>5. PastDelimiter(run, j) = end
                BY <1>9, <2>2, <4>1, <4>4 DEF PastDelimiter, Lesser
            <4>6. ~(run - j < 3)
                BY <2>2, <3>3, <4>2
            <4> QED
                BY <2>1, <3>2, <4>5, <4>6 DEF j
        <3>6. CASE run < at + n
            <4> DEFINE l == run - at + 1
            <4>1. l \in 1..n /\ at + l - 1 = run /\ l >= k /\ l \in 1..(n + 1) /\ l \in Nat
                BY <1>9, <2>1, <2>6, <3>3, <3>6
            <4> HIDE DEF l
            <4>2. content[l] # quote
                BY <1>1, <3>1, <4>1
            <4>3. run # j
                BY <2>9, <3>1
            <4>4. l > k /\ l - 1 \in 1..n
                BY <1>9, <2>1, <2>6, <4>1, <4>3
            <4>5. run - 1 \in j..(run - 1) /\ at + (l - 1) - 1 = run - 1
                BY <2>2, <3>3, <4>1, <4>3, <1>9
            <4>6. content[l - 1] = quote
                BY <1>1, <3>1, <4>4, <4>5
            <4>7. l - 1 \notin escapes
                BY <1>5, <1>8, <4>4, <4>6
            <4>8. run - j < 3
                <5> SUFFICES ASSUME ~(run - j < 3) PROVE FALSE
                    OBVIOUS
                <5>1. run - j >= 3
                    BY <2>2, <3>3
                <5>2. k > n - 2
                    BY <3>4, <5>1
                <5> QED
                    BY <1>9, <2>1, <2>6, <3>3, <3>6, <5>1, <5>2
            <4>9. past[j] = past[run]
                BY <3>2, <4>8
            <4>10. l \in Bad
                BY <2>1, <4>1, <4>7, <4>9 DEF Bad, j
            <4> QED
                BY <4>4, <4>10
        <3> QED
            BY <3>3, <3>5, <3>6, <1>9
    <2> QED
        BY <2>1, <2>4, <2>5, <2>7, <2>8, <2>9, <1>9
<1>12. Bad = {}
    <2>1. Bad \in SUBSET (1..(n + 1)) /\ n + 1 \in Nat
        BY <1>9
    <2> HIDE DEF Bad
    <2> QED
        BY <2>1, <1>11, NoLast
<1>13. 1 \in 1..(n + 1) /\ 1 - 1 = 0 /\ at + 1 - 1 = at
    BY <1>9
<1>14. past[at] = end
    BY <1>4, <1>12, <1>13
<1> QED
    BY <1>7, <1>14 DEF end

------------------------------------------------------------------------------
(***************************************************************************)
(* Scalars, gaps and values are skipped.                                   *)
(***************************************************************************)
LEMMA ScalarSkipped ==
    ASSUME NEW scalar \in Texts, IsScalar(scalar), NEW d \in Nat
    PROVE  SkipsBefore(scalar, d)
<1> DEFINE short == SubSeq(scalar, 2, Len(scalar) - 1)
           long == SubSeq(scalar, 4, Len(scalar) - 3)
<1>1. Len(scalar) \in Nat /\ scalar \in Seq(Marks)
    BY TextIs
<1>2. Len(scalar) >= 2 => short \in Texts
    <2> SUFFICES ASSUME Len(scalar) >= 2 PROVE short \in Texts
        OBVIOUS
    <2>1. 2 \in Positions(scalar) /\ Len(scalar) \in Positions(scalar)
        BY <1>1 DEF Positions
    <2> QED
        BY <1>1, <2>1, StretchTyped DEF Texts
<1>3. Len(scalar) >= 6 => long \in Texts
    <2> SUFFICES ASSUME Len(scalar) >= 6 PROVE long \in Texts
        OBVIOUS
    <2> DEFINE j == Len(scalar) - 2
    <2>1. 4 \in Positions(scalar) /\ j \in Positions(scalar) /\ j - 1 = Len(scalar) - 3
        BY <1>1 DEF Positions
    <2>2. SubSeq(scalar, 4, j - 1) \in Seq(Marks)
        <3> HIDE DEF j
        <3> QED
            BY <1>1, <2>1, StretchTyped
    <2> QED
        BY <2>1, <2>2 DEF Texts
<1>4. CASE IsPlain(scalar)
    <2>1. \A k \in 1..Len(scalar) : scalar[k] \in ToSet(scalar)
        BY <1>1, ToSetIs
    <2>2. \A k \in 1..Len(scalar) : scalar[k] \notin ValueMarks
        BY <2>1, <1>4 DEF IsPlain, ValueMarks
    <2> QED
        BY <2>2, SkipsPlain, SkipsBoth
<1> HIDE DEF short, long
<1>5. ASSUME NEW quote \in {DQ, SQ}, NEW b \in Texts, NEW i, Holds(b, i, scalar),
             i \in 1..Len(b), b[i] = quote, tomlSkipString(b, i) = i + Len(scalar)
      PROVE  ValuePast(b)[i][d] = ValuePast(b)[i + Len(scalar)][d]
    BY <1>5, OverQuote
<1>6. ASSUME NEW quote \in {DQ, SQ}, Len(scalar) >= 2, scalar = Quoted(short, quote),
             IsOneLine(short, quote)
      PROVE  SkipsBefore(scalar, d)
    <2>1. ASSUME NEW b \in Texts, NEW i, Holds(b, i, scalar), Unquoted(b, i + Len(scalar))
          PROVE  ValuePast(b)[i][d] = ValuePast(b)[i + Len(scalar)][d]
        <3>1. /\ Holds(b, i, Quoted(short, quote))
              /\ Unquoted(b, i + Len(Quoted(short, quote)))
            BY <1>6, <2>1
        <3>2. QuotedAt(b, i, Len(short), quote)
            BY <1>2, <1>6, <3>1, QuotedHolds
        <3>3. tomlSkipString(b, i) = i + Len(Quoted(short, quote))
            BY <1>2, <1>6, <3>1, OneLineSkipped
        <3>4. tomlSkipString(b, i) = i + Len(scalar)
            BY <1>6, <3>3
        <3>5. i \in 1..Len(b) /\ b[i] = quote
            BY <3>2 DEF QuotedAt
        <3> QED
            BY <1>5, <2>1, <3>4, <3>5
    <2> QED
        BY <2>1 DEF SkipsBefore
<1>7. ASSUME NEW quote \in {DQ, SQ}, Len(scalar) >= 6, scalar = Tripled(long, quote),
             IsMultiline(long, quote)
      PROVE  SkipsBefore(scalar, d)
    <2>1. ASSUME NEW b \in Texts, NEW i, Holds(b, i, scalar), Unquoted(b, i + Len(scalar))
          PROVE  ValuePast(b)[i][d] = ValuePast(b)[i + Len(scalar)][d]
        <3>1. /\ Holds(b, i, Tripled(long, quote))
              /\ Unquoted(b, i + Len(Tripled(long, quote)))
            BY <1>7, <2>1
        <3>2. TripledAt(b, i, i + 3, i + Len(Tripled(long, quote)), Len(long), quote)
            BY <1>3, <1>7, <3>1, TripledHolds
        <3>3. tomlSkipString(b, i) = i + Len(Tripled(long, quote))
            BY <1>3, <1>7, <3>1, MultilineSkipped
        <3>4. tomlSkipString(b, i) = i + Len(scalar)
            BY <1>7, <3>3
        <3>5. i \in 1..Len(b) /\ b[i] = quote
            BY <3>2 DEF TripledAt
        <3> QED
            BY <1>5, <2>1, <3>4, <3>5
    <2> QED
        BY <2>1 DEF SkipsBefore
<1>8. \/ IsPlain(scalar)
      \/ \E quote \in {DQ, SQ} : \/ /\ Len(scalar) >= 2
                                    /\ scalar = Quoted(short, quote)
                                    /\ IsOneLine(short, quote)
                                 \/ /\ Len(scalar) >= 6
                                    /\ scalar = Tripled(long, quote)
                                    /\ IsMultiline(long, quote)
    BY Zenon DEF IsScalar, short, long
<1> QED
    BY <1>4, <1>6, <1>7, <1>8

(* A gap is passed over inside brackets. *)
LEMMA GapSkipped ==
    ASSUME NEW gap \in Texts, IsGap(gap), NEW d \in Nat, d # 0
    PROVE  Skips(gap, d)
<1> SUFFICES ASSUME NEW b \in Texts, NEW i, Holds(b, i, gap)
             PROVE  ValuePast(b)[i][d] = ValuePast(b)[i + Len(gap)][d]
    BY DEF Skips
<1> DEFINE n == Len(gap)
           past == ValuePast(b)
           fresh(k) == \A j \in 1..(k - 1) : gap[j] = "#" => \E m \in j..(k - 1) : gap[m] = LF
           Bad == {k \in 1..(n + 1) : fresh(k) /\ past[i + k - 1][d] # past[i + n][d]}
<1>1. n \in Nat /\ DOMAIN gap = 1..n /\ b \in Seq(Marks) /\ Len(b) \in Nat
    BY TextIs
<1>2. i \in Nat /\ i >= 1
    BY DEF Holds
<1>3. \A k \in 1..n : /\ i + k - 1 \in 1..Len(b)
                      /\ i + k - 1 \in Positions(b)
                      /\ b[i + k - 1] = gap[k]
    BY HoldsAt
<1>4. \A k \in 1..n : gap[k] \notin {SP, LF} =>
        /\ \E j \in 1..k : gap[j] = "#" /\ \A m \in j..k : gap[m] # LF
        /\ \E j \in k..n : gap[j] = LF
    BY <1>1 DEF IsGap
<1>5. SP \notin ValueMarks /\ LF # "#" /\ SP # "#" /\ SP # LF
    <2>1. SP \notin Opening /\ SP \notin Closing
        BY Zenon DEF Opening, Closing, SP
    <2> QED
        BY <2>1 DEF ValueMarks, SP, LF, DQ, SQ
<1> HIDE DEF n, past
<1>6. ASSUME NEW k \in 1..n, fresh(k), past[i + k - 1][d] # past[i + n][d]
      PROVE  \E l \in 1..(n + 1) : l > k /\ fresh(l) /\ past[i + l - 1][d] # past[i + n][d]
    <2> DEFINE j == i + k - 1
    <2>1. j \in 1..Len(b) /\ j \in Positions(b) /\ b[j] = gap[k] /\ j + 1 = i + (k + 1) - 1
          /\ k + 1 \in 1..(n + 1) /\ k + 1 > k
        BY <1>1, <1>2, <1>3
    <2>2. past[j][d] # past[i + n][d]
        BY <1>6
    <2> HIDE DEF j
    <2>3. CASE gap[k] = SP
        <3>1. past[j][d] = past[j + 1][d]
            BY <1>5, <2>1, <2>3, OverOther DEF past
        <3>2. fresh(k + 1)
            <4> SUFFICES ASSUME NEW m \in 1..((k + 1) - 1), gap[m] = "#"
                         PROVE  \E l \in m..((k + 1) - 1) : gap[l] = LF
                OBVIOUS
            <4>1. m # k
                BY <1>5, <2>3
            <4>2. m \in 1..(k - 1)
                BY <1>1, <4>1
            <4>3. PICK l \in m..(k - 1) : gap[l] = LF
                BY <1>6, <4>2
            <4>4. l \in m..((k + 1) - 1)
                BY <1>1, <4>2, <4>3
            <4> QED
                BY <4>3, <4>4
        <3>3. past[i + (k + 1) - 1][d] # past[i + n][d]
            BY <2>1, <2>2, <3>1
        <3> QED
            BY <2>1, <3>2, <3>3
    <2>4. ASSUME NEW m \in k..n, gap[m] = LF, \A l \in k..(m - 1) : gap[l] # LF,
                 gap[k] \in {LF, "#"}
          PROVE  \E l \in 1..(n + 1) : l > k /\ fresh(l) /\ past[i + l - 1][d] # past[i + n][d]
        <3> DEFINE p == i + m - 1
        <3>1. m \in 1..n /\ m \in Nat
            BY <1>1, <2>4
        <3>2. p \in 1..Len(b) /\ b[p] = LF /\ p >= j /\ p + 1 = i + (m + 1) - 1
            BY <1>1, <1>2, <1>3, <2>4, <3>1 DEF j
        <3>3. \A q \in j..(p - 1) : b[q] # LF
            <4> SUFFICES ASSUME NEW q \in j..(p - 1) PROVE b[q] # LF
                OBVIOUS
            <4> DEFINE l == q - i + 1
            <4>1. l \in k..(m - 1) /\ l \in 1..n /\ i + l - 1 = q
                BY <1>1, <1>2, <2>1, <2>4, <3>1 DEF j
            <4> HIDE DEF l
            <4> QED
                BY <1>3, <2>4, <4>1
        <3> HIDE DEF p
        <3>4. p \in j..Len(b)
            BY <1>1, <2>1, <3>2
        <3>5. tomlSkipLine(b, j) = p + 1
            BY <1>1, <2>1, <3>2, <3>3, <3>4, SkipLineTo
        <3>6. past[j][d] = past[p + 1][d]
            BY <2>1, <2>4, <3>5, OverInnerLine DEF past
        <3>7. fresh(m + 1)
            <4> SUFFICES ASSUME NEW q \in 1..((m + 1) - 1), gap[q] = "#"
                         PROVE  \E l \in q..((m + 1) - 1) : gap[l] = LF
                OBVIOUS
            <4>1. m \in q..((m + 1) - 1)
                BY <3>1
            <4> QED
                BY <2>4, <4>1
        <3>8. past[i + (m + 1) - 1][d] # past[i + n][d]
            BY <2>2, <3>2, <3>6
        <3>9. m + 1 \in 1..(n + 1) /\ m + 1 > k
            BY <1>1, <2>4, <3>1
        <3> QED
            BY <3>7, <3>8, <3>9
    <2>5. CASE gap[k] = LF
        <3>1. k \in k..n /\ \A l \in k..(k - 1) : gap[l] # LF
            BY <1>1
        <3> QED
            BY <2>4, <2>5, <3>1
    <2>6. CASE gap[k] \notin {SP, LF}
        <3>1. PICK m \in 1..k : gap[m] = "#" /\ \A l \in m..k : gap[l] # LF
            BY <1>4, <2>6
        <3>2. ~(m \in 1..(k - 1))
            <4> SUFFICES ASSUME m \in 1..(k - 1) PROVE FALSE
                OBVIOUS
            <4>1. PICK l \in m..(k - 1) : gap[l] = LF
                BY <1>6, <3>1
            <4>2. l \in m..k
                BY <1>1, <4>1
            <4> QED
                BY <3>1, <4>1, <4>2
        <3>3. m = k
            BY <1>1, <3>2
        <3>4. gap[k] = "#"
            BY <3>1, <3>3
        <3> DEFINE S == {l \in k..n : gap[l] = LF}
        <3>5. S # {} /\ S \subseteq Nat
            <4>1. \E l \in k..n : gap[l] = LF
                BY <1>4, <2>6
            <4> QED
                BY <1>1, <4>1
        <3>6. PICK l \in S : \A q \in S : l <= q
            <4> HIDE DEF S
            <4> QED
                BY <3>5, LeastNumber
        <3>7. l \in k..n /\ gap[l] = LF
            OBVIOUS
        <3>8. \A q \in k..(l - 1) : gap[q] # LF
            <4> SUFFICES ASSUME NEW q \in k..(l - 1), gap[q] = LF PROVE FALSE
                OBVIOUS
            <4>1. q \in k..n /\ ~(l <= q)
                BY <1>1, <3>7
            <4> QED
                BY <4>1, <3>6
        <3> QED
            BY <2>4, <3>4, <3>7, <3>8
    <2> QED
        BY <2>3, <2>5, <2>6
<1>7. \A k \in Bad : \E l \in Bad : l > k
    <2> SUFFICES ASSUME NEW k \in Bad PROVE \E l \in Bad : l > k
        OBVIOUS
    <2>1. k \in 1..(n + 1) /\ fresh(k) /\ past[i + k - 1][d] # past[i + n][d]
        OBVIOUS
    <2>2. k # n + 1
        <3> SUFFICES ASSUME k = n + 1 PROVE FALSE
            OBVIOUS
        <3>1. i + k - 1 = i + n
            BY <1>1, <1>2
        <3> QED
            BY <2>1, <3>1
    <2>3. k \in 1..n
        BY <1>1, <2>1, <2>2
    <2> HIDE DEF fresh
    <2>4. PICK l \in 1..(n + 1) : l > k /\ fresh(l) /\ past[i + l - 1][d] # past[i + n][d]
        BY <1>6, <2>1, <2>3
    <2> QED
        BY <2>4
<1>8. Bad = {}
    <2>1. Bad \in SUBSET (1..(n + 1)) /\ n + 1 \in Nat
        BY <1>1
    <2> HIDE DEF Bad
    <2> QED
        BY <2>1, <1>7, NoLast
<1>9. 1 \in 1..(n + 1) /\ i + 1 - 1 = i /\ fresh(1)
    BY <1>1, <1>2
<1>10. past[i][d] = past[i + n][d]
    BY <1>8, <1>9
<1> QED
    BY <1>10 DEF past, n

(* What is joined of texts that are passed over is passed over. *)
LEMMA FlattenSkipped ==
    ASSUME NEW s \in Seq(Texts), NEW d, \A k \in 1..Len(s) : Skips(s[k], d)
    PROVE  FlattenSeq(s) \in Texts /\ Skips(FlattenSeq(s), d)
<1> DEFINE n == Len(s)
           Bad == {k \in 0..n : ~Skips(Joined(s, k), d)}
<1>1. /\ n \in Nat
      /\ Joined(s, 0) = <<>>
      /\ \A k \in 0..n : Joined(s, k) \in Texts
      /\ \A k \in 1..n : Joined(s, k) = Joined(s, k - 1) \o s[k] /\ s[k] \in Texts
      /\ FlattenSeq(s) = Joined(s, n)
    BY JoinedIs DEF Texts
<1> HIDE DEF n
<1>2. 0 \notin Bad
    BY <1>1, SkipsNothing
<1>3. \A k \in Bad : k - 1 \in Bad
    <2> SUFFICES ASSUME NEW k \in Bad PROVE k - 1 \in Bad
        OBVIOUS
    <2>1. k \in 0..n /\ ~Skips(Joined(s, k), d) /\ k # 0
        BY <1>2
    <2>2. k \in 1..n /\ k - 1 \in 0..n
        BY <1>1, <2>1
    <2>3. Joined(s, k) = Joined(s, k - 1) \o s[k] /\ s[k] \in Texts /\ Joined(s, k - 1) \in Texts
        BY <1>1, <2>2
    <2>4. Skips(s[k], d)
        BY <2>2 DEF n
    <2>5. Skips(Joined(s, k - 1), d) => Skips(Joined(s, k), d)
        BY <2>3, <2>4, SkipsConcat
    <2> QED
        BY <2>1, <2>2, <2>5
<1>4. Bad = {}
    <2>1. Bad \in SUBSET (0..n)
        OBVIOUS
    <2> HIDE DEF Bad
    <2> QED
        BY <1>1, <1>2, <1>3, <2>1, Ascending
<1>5. n \in 0..n
    BY <1>1
<1> QED
    BY <1>1, <1>4, <1>5

------------------------------------------------------------------------------
(* The marks between values mean nothing by themselves.                    *)
LEMMA PlainMarks ==
    /\ {SP, "=", ",", ".", "x", "y", "1"} \subseteq Marks
    /\ {SP, "=", ",", ".", "x", "y", "1"} \cap ValueMarks = {}
    /\ {SP, "=", ",", "."} \cap {DQ, SQ} = {}
<1> DEFINE plain == {SP, "=", ",", ".", "x", "y", "1"}
<1>1. plain \subseteq Marks
    BY AreMarks DEF Bare
<1>2. plain \cap {LF, "#", DQ, SQ} = {}
    BY DEF SP, LF, DQ, SQ
<1>3. SP \notin Opening /\ "=" \notin Opening /\ "," \notin Opening /\ "." \notin Opening
      /\ "x" \notin Opening /\ "y" \notin Opening /\ "1" \notin Opening
    BY Zenon DEF Opening, SP
<1>4. SP \notin Closing /\ "=" \notin Closing /\ "," \notin Closing /\ "." \notin Closing
      /\ "x" \notin Closing /\ "y" \notin Closing /\ "1" \notin Closing
    BY Zenon DEF Closing, SP
<1>5. plain \cap ValueMarks = {}
    BY <1>2, <1>3, <1>4 DEF ValueMarks
<1> QED
    BY <1>1, <1>2, <1>5

(* Brackets are no other mark that means something. *)
LEMMA BracketMarks ==
    /\ "[" \in Opening /\ "]" \in Closing
    /\ Opening \cap {DQ, SQ, SP, LF, "#", "=", ",", "."} = {}
    /\ Closing \cap {DQ, SQ, SP, LF, "#", "=", ",", "."} = {}
    BY Zenon DEF Opening, Closing, DQ, SQ, SP, LF

(* The last of two texts may be one that no quote follows. *)
LEMMA SkipsBeforeConcat ==
    ASSUME NEW s \in Texts, NEW t \in Texts, NEW d, Skips(s, d), SkipsBefore(t, d)
    PROVE  SkipsBefore(s \o t, d)
<1>1. ASSUME NEW b \in Texts, NEW i, Holds(b, i, s \o t), Unquoted(b, i + Len(s \o t))
      PROVE  ValuePast(b)[i][d] = ValuePast(b)[i + Len(s \o t)][d]
    <2>1. Holds(b, i, s) /\ Holds(b, i + Len(s), t)
          /\ i + Len(s \o t) = (i + Len(s)) + Len(t)
        BY <1>1, HoldsConcat
    <2>2. Unquoted(b, (i + Len(s)) + Len(t))
        BY <1>1, <2>1
    <2>3. ValuePast(b)[i][d] = ValuePast(b)[i + Len(s)][d]
        BY <2>1 DEF Skips
    <2>4. ValuePast(b)[i + Len(s)][d] = ValuePast(b)[(i + Len(s)) + Len(t)][d]
        BY <2>1, <2>2 DEF SkipsBefore
    <2> QED
        BY <2>1, <2>3, <2>4
<1> QED
    BY <1>1 DEF SkipsBefore

(* A text in braces is passed over: the closing brace is no quote. *)
LEMMA BracedSkipped ==
    ASSUME NEW text \in Texts, NEW d \in Nat, SkipsBefore(text, d + 1)
    PROVE  Skips(Braced(text), d)
<1> DEFINE open == "{"
           close == "}"
<1>1. open \in Opening /\ close \in Closing
    BY Zenon DEF Opening, Closing
<1>2. Braced(text) = <<open>> \o text \o <<close>>
    BY Zenon DEF Braced
<1> HIDE DEF open, close
<1>3. Skips(<<open>> \o text \o <<close>>, d)
    BY <1>1, SkipsEnclosed
<1> QED
    BY <1>2, <1>3

(* One and two members of a set are a sequence of it. *)
LEMMA PairTexts ==
    ASSUME NEW M, NEW x \in M, NEW y \in M
    PROVE  <<x>> \in Seq(M) /\ <<x, y>> \in Seq(M)
    OBVIOUS

(* The entries that stand in a map. *)
LEMMA EntrySkipped ==
    ASSUME NEW d \in Nat
    PROVE  Skips(Entry, d) /\ Skips(<<"x", "=">>, d) /\ Skips(<<"1">>, d)
           /\ Skips(<<",", SP>>, d)
<1> DEFINE one == <<"1">>
           two == <<"x", "=">>
           sep == <<",", SP>>
<1>1. Entry \in Texts /\ one \in Texts /\ two \in Texts /\ sep \in Texts
    BY FixedTexts
<1> DEFINE P == Marks \ ValueMarks
<1>2. SP \in P /\ "=" \in P /\ "," \in P /\ "x" \in P /\ "1" \in P
    BY PlainMarks
<1> HIDE DEF P
<1>3. Entry \in Seq(P) /\ one \in Seq(P) /\ two \in Seq(P) /\ sep \in Seq(P)
    BY Zenon, <1>2, FiveTexts, PairTexts DEF Entry
<1> HIDE DEF one, two, sep
<1>4. \A t \in Seq(P) : \A k \in 1..Len(t) : t[k] \in P
    BY ElementOfSeq
<1>5. \A t \in Seq(P) : \A k \in 1..Len(t) : t[k] \notin ValueMarks
    BY <1>4 DEF P
<1>11. Skips(Entry, d) /\ Skips(one, d) /\ Skips(two, d) /\ Skips(sep, d)
    BY <1>1, <1>3, <1>5, SkipsPlain
<1> QED
    BY <1>11 DEF one, two, sep

(* Values in brackets, as they are spelled and as they are encoded.        *)
LEMMA ListSkipped ==
    ASSUME NEW text \in Texts, NEW d \in Nat, Skips(text, d + 1)
    PROVE  /\ <<"[">> \o text \o <<"]">> \in Texts
           /\ Skips(<<"[">> \o text \o <<"]">>, d)
<1>1. SkipsBefore(text, d + 1)
    BY SkipsBoth
<1> DEFINE open == "["
           close == "]"
<1>2. open \in Opening /\ close \in Closing
    BY BracketMarks
<1> HIDE DEF open, close
<1>3. /\ <<open>> \o text \o <<close>> \in Texts
      /\ Skips(<<open>> \o text \o <<close>>, d)
    BY <1>1, <1>2, SkipsEnclosed
<1> QED
    BY <1>3 DEF open, close

(* The elements of a list are passed over: each has a comma after it. *)
LEMMA ElementsSkipped ==
    ASSUME NEW texts \in Seq(Texts), NEW gap \in Texts, NEW d \in Nat, Skips(gap, d),
           \A k \in 1..Len(texts) : SkipsBefore(texts[k], d)
    PROVE  Skips(Elements(texts, gap), d)
<1> DEFINE piece == [i \in DOMAIN texts |-> Element(texts[i], gap)]
           comma == ","
<1>1. DOMAIN texts = 1..Len(texts) /\ \A k \in 1..Len(texts) : texts[k] \in Texts
    BY LenProperties, ElementOfSeq
<1>2. comma \in Marks \ {DQ, SQ} /\ comma \notin ValueMarks
    BY PlainMarks
<1> HIDE DEF comma
<1>3. ASSUME NEW k \in 1..Len(texts) PROVE Skips(Element(texts[k], gap), d)
    <2>1. texts[k] \in Texts /\ SkipsBefore(texts[k], d)
        BY <1>1
    <2>2. Skips(texts[k] \o <<comma>> \o gap, d)
        BY <1>2, <2>1, SkipsThen
    <2> QED
        BY <2>2 DEF Element, comma
<1>4. piece \in Seq(Texts) /\ Len(piece) = Len(texts)
    BY ElementsTyped
<1>5. \A k \in 1..Len(texts) : piece[k] = Element(texts[k], gap)
    BY <1>1
<1> HIDE DEF piece
<1>6. \A k \in 1..Len(piece) : Skips(piece[k], d)
    BY <1>3, <1>4, <1>5
<1>7. Skips(FlattenSeq(piece), d)
    BY <1>4, <1>6, FlattenSkipped
<1> QED
    BY <1>7 DEF Elements, piece

(* Three texts may be joined in either order. *)
LEMMA Regroup ==
    ASSUME NEW r \in Texts, NEW s \in Texts, NEW t \in Texts
    PROVE  (r \o s) \o t = r \o (s \o t)
    BY ConcatAssociative DEF Texts

(* A value that is spelled is passed over, wherever it stands.             *)
LEMMA SpelledSkipped ==
    ASSUME NEW scalar \in Texts, IsScalar(scalar), NEW gap \in Texts, IsGap(gap)
    PROVE  \A v \in Values : \A d \in Nat : SkipsBefore(SpelledPast(scalar, gap)[v], d)
<1> DEFINE past == SpelledPast(scalar, gap)
           Bad == {v \in Values : ~\A d \in Nat : SkipsBefore(past[v], d)}
<1>1. \A v \in Values : past[v] = SpelledStep(scalar, gap, past, v) /\ past[v] \in Texts
    BY SpelledEquation DEF SpelledType
<1> HIDE DEF past
<1>2. ASSUME NEW v \in Values, NEW d \in Nat,
             \A u \in Values : Rank[u] < Rank[v] => \A e \in Nat : SkipsBefore(past[u], e)
      PROVE  SkipsBefore(past[v], d)
    <2>1. d + 1 \in Nat /\ d + 1 # 0
        OBVIOUS
    <2>2. CASE v.kind = "scalar"
        <3>1. past[v] = scalar
            BY <1>1, <2>2, SpelledCases
        <3> QED
            BY <3>1, ScalarSkipped
    <2>3. CASE v.kind = "map"
        <3> DEFINE text == <<"x", "=">> \o scalar
        <3>1. past[v] = Braced(text)
            BY <1>1, <2>3, SpelledCases
        <3>2. Skips(<<"x", "=">>, d + 1) /\ <<"x", "=">> \in Texts
            BY <2>1, EntrySkipped, FixedTexts
        <3>3. SkipsBefore(scalar, d + 1)
            BY <2>1, ScalarSkipped
        <3>4. text \in Texts /\ SkipsBefore(text, d + 1)
            BY <3>2, <3>3, SkipsBeforeConcat, ConcatTyped
        <3> HIDE DEF text
        <3>5. Skips(past[v], d)
            BY <3>1, <3>4, BracedSkipped
        <3> QED
            BY <3>5, SkipsBoth
    <2>4. CASE v.kind = "list"
        <3>1. \A u \in Values : Rank[u] < Rank[v] => past[u] \in Texts
            BY <1>1
        <3>2. PICK texts \in Seq(Texts) :
                /\ \A i \in 1..Len(texts) : /\ v.elems[i] \in Values
                                            /\ Rank[v.elems[i]] < Rank[v]
                                            /\ texts[i] = past[v.elems[i]]
                /\ SpelledStep(scalar, gap, past, v) =
                     <<"[">> \o gap \o Elements(texts, gap) \o <<"]">>
            BY <2>4, <3>1, SpelledList
        <3>3. \A k \in 1..Len(texts) : SkipsBefore(texts[k], d + 1)
            BY <1>2, <2>1, <3>2
        <3>4. Skips(gap, d + 1)
            BY <2>1, GapSkipped
        <3>5. Skips(Elements(texts, gap), d + 1) /\ Elements(texts, gap) \in Texts
            BY <2>1, <3>3, <3>4, ElementsSkipped, ElementsTyped
        <3> DEFINE text == gap \o Elements(texts, gap)
        <3>6. text \in Texts /\ Skips(text, d + 1)
            BY <3>4, <3>5, SkipsConcat, ConcatTyped
        <3>7. (<<"[">> \o gap) \o Elements(texts, gap) = <<"[">> \o text
            <4>1. <<"[">> \in Texts
                BY FixedTexts
            <4> QED
                BY Zenon, <3>5, <4>1, Regroup
        <3>8. past[v] = <<"[">> \o text \o <<"]">>
            BY <1>1, <3>2, <3>7
        <3> HIDE DEF text
        <3>9. Skips(past[v], d)
            BY <3>6, <3>8, ListSkipped
        <3> QED
            BY <3>9, SkipsBoth
    <2> QED
        BY <2>2, <2>3, <2>4, ValueShape
<1>3. \A v \in Bad : \E u \in Bad : Rank[u] < Rank[v]
    <2> SUFFICES ASSUME NEW v \in Bad, \A u \in Bad : ~(Rank[u] < Rank[v]) PROVE FALSE
        OBVIOUS
    <2>1. v \in Values /\ ~\A d \in Nat : SkipsBefore(past[v], d)
        OBVIOUS
    <2>2. \A u \in Values : Rank[u] < Rank[v] => \A e \in Nat : SkipsBefore(past[u], e)
        OBVIOUS
    <2> QED
        BY <2>1, <2>2, <1>2
<1>4. Bad = {}
    <2>1. Bad \in SUBSET Values
        OBVIOUS
    <2> HIDE DEF Bad
    <2> QED
        BY <2>1, <1>3, RankTyped, NoLeast
<1> QED
    BY <1>4 DEF past

(* A value that is encoded on its line is passed over.                     *)
LEMMA SeparatedSkipped ==
    ASSUME NEW texts \in Seq(Texts), NEW d \in Nat, \A k \in 1..Len(texts) : Skips(texts[k], d)
    PROVE  Skips(Separated(texts), d)
<1> DEFINE sep(i) == IF i < Len(texts) THEN <<",", SP>> ELSE <<>>
           piece == [i \in DOMAIN texts |-> texts[i] \o sep(i)]
<1>1. DOMAIN texts = 1..Len(texts) /\ Len(texts) \in Nat
      /\ \A k \in 1..Len(texts) : texts[k] \in Texts
    BY LenProperties, ElementOfSeq
<1>2. \A i \in 1..Len(texts) : sep(i) \in Texts /\ Skips(sep(i), d)
    BY FixedTexts, EntrySkipped, SkipsNothing
<1>3. Separated(texts) = FlattenSeq(piece)
    BY DEF Separated
<1> HIDE DEF sep
<1>4. \A i \in 1..Len(texts) : piece[i] = texts[i] \o sep(i)
    BY <1>1
<1>5. \A i \in 1..Len(texts) : texts[i] \o sep(i) \in Texts /\ Skips(texts[i] \o sep(i), d)
    BY <1>1, <1>2, ConcatTyped, SkipsConcat
<1>6. piece \in [1..Len(texts) -> Texts]
    BY <1>1, <1>5
<1> HIDE DEF piece
<1>7. piece \in Seq(Texts) /\ Len(piece) = Len(texts)
    BY <1>1, <1>6, FunctionIsSeq
<1>8. \A k \in 1..Len(piece) : Skips(piece[k], d)
    BY <1>4, <1>5, <1>7
<1> QED
    BY <1>3, <1>7, <1>8, FlattenSkipped

(* What the encoder writes for a value is passed over, at any depth. *)
LEMMA InlineSkipped ==
    \A v \in Values : \A d \in Nat : Skips(InlinePast[v], d)
<1> DEFINE past == InlinePast
           Bad == {v \in Values : ~\A d \in Nat : Skips(past[v], d)}
<1>1. \A v \in Values : past[v] = InlineStep(past, v) /\ past[v] \in Texts
    BY InlineEquation DEF InlineType
<1> HIDE DEF past
<1>2. ASSUME NEW v \in Values, NEW d \in Nat,
             \A u \in Values : Rank[u] < Rank[v] => \A e \in Nat : Skips(past[u], e)
      PROVE  Skips(past[v], d)
    <2>1. d + 1 \in Nat /\ d + 1 # 0
        OBVIOUS
    <2>2. CASE v.kind = "scalar"
        <3>1. past[v] = <<"1">>
            BY <1>1, <2>2, InlineCases
        <3> QED
            BY <3>1, EntrySkipped
    <2>3. CASE v.kind = "map"
        <3>1. past[v] = Braced(Entry)
            BY <1>1, <2>3, InlineCases
        <3>2. SkipsBefore(Entry, d + 1) /\ Entry \in Texts
            BY <2>1, EntrySkipped, FixedTexts, SkipsBoth
        <3> QED
            BY <3>1, <3>2, BracedSkipped
    <2>4. CASE v.kind = "list"
        <3> DEFINE texts == [i \in DOMAIN v.elems |-> past[v.elems[i]]]
        <3>1. IsListOf(v, Values)
              /\ \A i \in DOMAIN v.elems : /\ v.elems[i] \in Values
                                           /\ Rank[v.elems[i]] < Rank[v]
                                           /\ past[v.elems[i]] \in Texts
            BY <1>1, <2>4, ValueShape
        <3>2. DOMAIN v.elems = 1..Len(v.elems) /\ Len(v.elems) \in Nat
            BY <3>1 DEF IsListOf
        <3>3. texts \in [1..Len(v.elems) -> Texts]
            BY <3>1, <3>2
        <3>4. \A i \in DOMAIN v.elems : Skips(texts[i], d + 1)
            BY <1>2, <2>1, <3>1
        <3>5. past[v] = <<"[">> \o Separated(texts) \o <<"]">>
            <4>1. InlineStep(past, v) = <<"[">> \o Separated(texts) \o <<"]">>
                BY <2>4, InlineCases
            <4> HIDE DEF texts
            <4> QED
                BY <1>1, <4>1
        <3> HIDE DEF texts
        <3>6. texts \in Seq(Texts) /\ Len(texts) = Len(v.elems)
            BY <3>2, <3>3, FunctionIsSeq
        <3>7. \A k \in 1..Len(texts) : Skips(texts[k], d + 1)
            BY <3>2, <3>4, <3>6
        <3>8. Separated(texts) \in Texts /\ Skips(Separated(texts), d + 1)
            BY <2>1, <3>6, <3>7, SeparatedTyped, SeparatedSkipped
        <3> QED
            BY <3>5, <3>8, ListSkipped
    <2> QED
        BY <2>2, <2>3, <2>4, ValueShape
<1>3. \A v \in Bad : \E u \in Bad : Rank[u] < Rank[v]
    <2> SUFFICES ASSUME NEW v \in Bad, \A u \in Bad : ~(Rank[u] < Rank[v]) PROVE FALSE
        OBVIOUS
    <2>1. v \in Values /\ ~\A d \in Nat : Skips(past[v], d)
        OBVIOUS
    <2>2. \A u \in Values : Rank[u] < Rank[v] => \A e \in Nat : Skips(past[u], e)
        OBVIOUS
    <2> QED
        BY <2>1, <2>2, <1>2
<1>4. Bad = {}
    <2>1. Bad \in SUBSET Values
        OBVIOUS
    <2> HIDE DEF Bad
    <2> QED
        BY <2>1, <1>3, RankTyped, NoLeast
<1> QED
    BY <1>4 DEF past

------------------------------------------------------------------------------
(***************************************************************************)
(* Keys are read.                                                          *)
(***************************************************************************)
(* The key at i is read as the name, up to its end.                        *)
KeyAt(b, i, key, name) ==
    /\ tomlKeyPart(b, i).name = name
    /\ tomlKeyPart(b, i).next = i + Len(key)

(* The text key is read as the name, wherever no bare mark follows it. *)
IsKey(key, name) ==
    /\ Len(key) >= 1
    /\ key[1] \in Bare \cup {DQ, SQ}
    /\ \A b \in Texts : \A i :
          Holds(b, i, key) /\ At(b, i + Len(key), Marks \ Bare) => KeyAt(b, i, key, name)

(* Sequences are equal when they agree. *)
LEMMA SameText ==
    ASSUME NEW s \in Texts, NEW t \in Texts, Len(s) = Len(t), \A k \in 1..Len(s) : s[k] = t[k]
    PROVE  s = t
    BY SeqEqual DEF Texts

(* The stretch of a block in which a text stands is the text.              *)
LEMMA StretchIs ==
    ASSUME NEW b \in Texts, NEW t \in Texts, NEW i, Holds(b, i, t), NEW j, j = i + Len(t)
    PROVE  SubSeq(b, i, j - 1) = t
<1> DEFINE s == SubSeq(b, i, j - 1)
           n == Len(t)
<1>1. i \in Positions(b) /\ j \in Positions(b)
    BY HoldsAt
<1>2. n \in Nat /\ Len(b) \in Nat /\ b \in Seq(Marks)
    BY TextIs
<1>3. s \in Texts
    BY <1>1, <1>2, StretchTyped DEF Texts
<1>4. /\ i \in 1..(Len(b) + 1) /\ j - 1 \in (i - 1)..Len(b) /\ (j - 1) - i + 1 = n /\ i \in Nat
    BY <1>1, <1>2 DEF Positions
<1>5. Len(s) = (j - 1) - i + 1 /\ \A k \in 1..((j - 1) - i + 1) : s[k] = b[i + k - 1]
    BY <1>2, <1>4, SubSeqProperties
<1>6. Len(s) = n /\ \A k \in 1..n : s[k] = b[i + k - 1]
    BY <1>4, <1>5
<1>7. \A k \in 1..n : b[i + k - 1] = t[k]
    BY DEF Holds
<1> HIDE DEF s, n
<1>8. \A k \in 1..Len(s) : s[k] = t[k]
    BY <1>6, <1>7
<1>9. s = t
    BY <1>3, <1>6, <1>8, SameText DEF n
<1> QED
    BY <1>9 DEF s

(* A bare key. *)
LEMMA BareKey ==
    ASSUME NEW name \in Texts, name # <<>>, ToSet(name) \subseteq Bare
    PROVE  IsKey(name, name)
<1> DEFINE n == Len(name)
<1>1. n \in Nat /\ n # 0 /\ \A k \in 1..n : name[k] \in Bare
    <2>1. n # 0
        BY EmptySeq DEF Texts
    <2>2. \A k \in 1..n : name[k] \in ToSet(name)
        BY ToSetIs DEF Texts
    <2> QED
        BY <2>1, <2>2, TextIs
<1>2. n >= 1 /\ name[1] \in Bare
    BY <1>1
<1>3. Bare \cap {DQ, SQ} = {} /\ Bare \subseteq Marks
    BY BareMarks, AreMarks
<1>4. ASSUME NEW b \in Texts, NEW i, Holds(b, i, name), At(b, i + n, Marks \ Bare)
      PROVE  KeyAt(b, i, name, name)
    <2> DEFINE j == i + n
    <2>1. i \in Positions(b) /\ j \in Positions(b) /\ b \in Seq(Marks)
          /\ \A k \in 1..n : i + k - 1 \in 1..Len(b) /\ b[i + k - 1] = name[k]
        BY <1>4, HoldsAt, TextIs
    <2>2. i \in Nat /\ Len(b) \in Nat
        BY <1>4, TextIs DEF Holds
    <2> HIDE DEF n
    <2>3. \A m \in i..(j - 1) : b[m] \notin Marks \ Bare
        <3> SUFFICES ASSUME NEW m \in i..(j - 1) PROVE b[m] \in Bare
            OBVIOUS
        <3>1. m - i + 1 \in 1..n /\ i + (m - i + 1) - 1 = m
            BY <1>1, <2>2
        <3> QED
            BY <1>1, <2>1, <3>1
    <2>4. j \in i..(Len(b) + 1) /\ b[j] \in Marks \ Bare
        BY <1>1, <1>4, <2>1, <2>2 DEF At, Positions
    <2>5. IsUpTo(j, b, i, Marks \ Bare)
        BY <2>3, <2>4 DEF IsUpTo
    <2> HIDE DEF j
    <2>6. UpTo(b, i, Marks \ Bare) = j
        BY <2>1, <2>5, UpToOnly
    <2>7. SubSeq(b, i, j - 1) = name
        BY <1>4, StretchIs DEF j, n
    <2>8. b[i] \in Bare /\ i <= Len(b)
        <3>1. 1 \in 1..n /\ i + 1 - 1 = i
            BY <1>1, <2>2
        <3> QED
            BY <1>1, <2>1, <2>2, <3>1
    <2>9. ~At(b, i, {DQ}) /\ ~At(b, i, {SQ})
        BY <1>3, <2>8 DEF At
    <2>10. tomlKeyPart(b, i) = [name |-> name, next |-> j]
        BY <2>6, <2>7, <2>9 DEF tomlKeyPart, BarePart
    <2> QED
        BY <2>10 DEF KeyAt, j, n
<1> QED
    BY <1>2, <1>4 DEF IsKey

(* Where the parts of a quoted text stand. *)
LEMMA QuotedStands ==
    ASSUME NEW b \in Texts, NEW content \in Texts, NEW quote \in {DQ, SQ}, NEW i,
           Holds(b, i, Quoted(content, quote))
    PROVE  /\ i \in 1..Len(b) /\ i \in Positions(b) /\ b[i] = quote
           /\ i + 1 \in Positions(b) /\ Holds(b, i + 1, content)
           /\ i + 1 + Len(content) \in 1..Len(b) /\ i + 1 + Len(content) \in Positions(b)
           /\ b[i + 1 + Len(content)] = quote
           /\ i + Len(Quoted(content, quote)) = (i + 1 + Len(content)) + 1
<1> DEFINE q == <<quote>>
           qc == q \o content
           t == Quoted(content, quote)
           n == Len(content)
<1>1. quote \in Marks
    BY AreMarks
<1>2. q \in Texts
    BY <1>1, ShortTexts DEF Texts
<1>3. qc \in Texts
    BY <1>2, ConcatTyped
<1>4. t = qc \o q
    BY DEF Quoted
<1> HIDE DEF q, qc, t
<1>5. Holds(b, i, qc) /\ Holds(b, i + Len(qc), q) /\ i + Len(t) = (i + Len(qc)) + Len(q)
    <2>1. Holds(b, i, qc \o q)
        BY <1>4 DEF t
    <2> QED
        BY <2>1, <1>2, <1>3, <1>4, HoldsConcat
<1>6. Holds(b, i, q) /\ Holds(b, i + Len(q), content) /\ i + Len(qc) = (i + Len(q)) + n
    <2>1. Holds(b, i, q \o content)
        BY <1>5 DEF qc
    <2> QED
        BY <2>1, <1>2, HoldsConcat DEF qc
<1>7. i \in 1..Len(b) /\ b[i] = quote /\ i + Len(q) = i + 1 /\ i \in Positions(b)
      /\ i + 1 \in Positions(b)
    BY <1>1, <1>6, HoldsMark DEF q
<1> DEFINE j == i + Len(qc)
<1>8. j \in 1..Len(b) /\ b[j] = quote /\ j + Len(q) = j + 1 /\ j \in Positions(b)
    BY <1>1, <1>5, HoldsMark DEF q
<1>9. j = i + 1 + n /\ Holds(b, i + 1, content)
    BY <1>6, <1>7
<1>10. i + Len(t) = j + 1
    BY <1>5, <1>8
<1> HIDE DEF j, n
<1> QED
    BY <1>7, <1>8, <1>9, <1>10 DEF t, n

(* The first mark of a quoted text. *)
LEMMA QuotedStarts ==
    ASSUME NEW content \in Texts, NEW quote \in {DQ, SQ}
    PROVE  /\ Quoted(content, quote) \in Texts
           /\ Len(Quoted(content, quote)) >= 1
           /\ Quoted(content, quote)[1] = quote
<1>1. quote \in Marks
    BY AreMarks
<1> DEFINE t == Quoted(content, quote)
<1>2. t \in Texts
    BY <1>1, QuotedTyped
<1> DEFINE q == <<quote>>
           qc == q \o content
<1>3. q \in Texts /\ Len(q) = 1 /\ q[1] = quote
    BY <1>1, ShortTexts DEF Texts
<1>4. t = qc \o q
    BY DEF Quoted
<1> HIDE DEF q, t
<1>5. qc \in Texts /\ Len(qc) = Len(q) + Len(content) /\ \A k \in 1..Len(q) : qc[k] = q[k]
    BY <1>3, ConcatIs
<1> HIDE DEF qc
<1>6. Len(t) = Len(qc) + Len(q) /\ \A k \in 1..Len(qc) : t[k] = qc[k]
    BY <1>3, <1>4, <1>5, ConcatIs
<1>7. Len(content) \in Nat
    BY TextIs
<1>8. 1 \in 1..Len(q) /\ 1 \in 1..Len(qc) /\ Len(t) >= 1
    BY <1>3, <1>5, <1>6, <1>7
<1> QED
    BY <1>2, <1>3, <1>5, <1>6, <1>8 DEF t

(* A key in the quotes of a literal string. *)
LEMMA LiteralKey ==
    ASSUME NEW name \in Texts, SQ \notin ToSet(name), LF \notin ToSet(name)
    PROVE  IsKey(Quoted(name, SQ), name)
<1> DEFINE n == Len(name)
           key == Quoted(name, SQ)
<1>1. n \in Nat /\ \A k \in 1..n : name[k] \notin {SQ, LF}
    <2>1. \A k \in 1..n : name[k] \in ToSet(name)
        BY ToSetIs DEF Texts
    <2> QED
        BY <2>1, TextIs
<1>2. Len(key) >= 1 /\ key[1] = SQ
    BY QuotedStarts
<1>3. SQ # DQ
    BY MarksDiffer
<1> HIDE DEF key
<1>4. ASSUME NEW b \in Texts, NEW i, Holds(b, i, key)
      PROVE  KeyAt(b, i, key, name)
    <2> DEFINE j == i + 1 + n
    <2>1. /\ i \in 1..Len(b) /\ b[i] = SQ
          /\ i + 1 \in Positions(b) /\ Holds(b, i + 1, name)
          /\ j \in 1..Len(b) /\ b[j] = SQ
          /\ i + Len(key) = j + 1
        BY <1>4, QuotedStands DEF key
    <2>2. i \in Nat /\ Len(b) \in Nat /\ b \in Seq(Marks) /\ n \in Nat
        BY <2>1, TextIs
    <2>3. \A k \in 1..n : b[(i + 1) + k - 1] = name[k]
        BY <2>1 DEF Holds
    <2> HIDE DEF n
    <2>4. \A m \in (i + 1)..(j - 1) : b[m] \notin {SQ, LF}
        <3> SUFFICES ASSUME NEW m \in (i + 1)..(j - 1) PROVE b[m] \notin {SQ, LF}
            OBVIOUS
        <3>1. m - i \in 1..n /\ (i + 1) + (m - i) - 1 = m
            BY <2>2
        <3>2. b[m] = name[m - i]
            BY <2>3, <3>1
        <3> QED
            BY <1>1, <3>1, <3>2
    <2>5. j \in (i + 1)..(Len(b) + 1) /\ b[j] \in {SQ, LF} /\ j = (i + 1) + n
        BY <2>1, <2>2
    <2> HIDE DEF j
    <2>6. IsUpTo(j, b, i + 1, {SQ, LF})
        BY <2>4, <2>5 DEF IsUpTo
    <2>7. UpTo(b, i + 1, {SQ, LF}) = j
        BY <2>1, <2>2, <2>6, UpToOnly
    <2>8. SubSeq(b, i + 1, j - 1) = name
        <3> DEFINE p == i + 1
        <3>1. Holds(b, p, name) /\ j = p + Len(name)
            BY <2>1, <2>5 DEF n
        <3> HIDE DEF p
        <3>2. SubSeq(b, p, j - 1) = name
            BY <3>1, StretchIs
        <3> QED
            BY <3>2 DEF p
    <2>9. At(b, i, {SQ}) /\ ~At(b, i, {DQ}) /\ At(b, j, {SQ})
        BY <1>3, <2>1, <2>2 DEF At
    <2>10. tomlKeyPart(b, i) = [name |-> name, next |-> j + 1]
        BY <2>7, <2>8, <2>9 DEF tomlKeyPart, LiteralPart, PastQuote
    <2> QED
        BY <2>1, <2>10 DEF KeyAt
<1> QED
    BY <1>2, <1>4 DEF IsKey, key

------------------------------------------------------------------------------
(* The text t of a basic string, and what it spells.                       *)
Spells(t, name) ==
    \A b \in Texts : \A i : Holds(b, i, t) =>
        /\ BasicPast(b)[i].name = name \o BasicPast(b)[i + Len(t)].name
        /\ BasicPast(b)[i].next = BasicPast(b)[i + Len(t)].next

(* The ways to write a mark in a basic string.                             *)
Ways(mark) == {Escaped(mark)} \cup IF mark = "a" THEN {<<BS, Coded>>} ELSE {}

(* What is read from a position on has a name. *)
LEMMA BasicNames ==
    ASSUME NEW b \in Texts, NEW j \in Positions(b)
    PROVE  BasicPast(b)[j].name \in Texts /\ BasicPast(b)[j] = BasicStep(b, BasicPast(b), j)
<1>1. BasicPast(b)[j] = BasicStep(b, BasicPast(b), j) /\ BasicPast(b)[j] \in BasicType(b, j)
    BY BasicEquation DEF Texts
<1> QED
    BY <1>1 DEF BasicType, Parts, Texts

(* The equation of a mark that does not end the key. *)
LEMMA BasicOnward ==
    ASSUME NEW b \in Texts, NEW j \in Positions(b), At(b, j, Marks \ {DQ, LF}),
           NEW one, BasicOne(b, j) = one
    PROVE  /\ BasicPast(b)[j].name = one.name \o BasicPast(b)[one.next].name
           /\ BasicPast(b)[j].next = BasicPast(b)[one.next].next
<1> DEFINE past == BasicPast(b)
           here == past[j]
<1>1. here = BasicStep(b, past, j)
    BY BasicNames
<1> HIDE DEF past
<1>2. BasicStep(b, past, j) = [name |-> one.name \o past[one.next].name,
                               next |-> past[one.next].next]
    BY Zenon DEF BasicStep
<1> HIDE DEF here
<1>3. here = [name |-> one.name \o past[one.next].name, next |-> past[one.next].next]
    BY <1>1, <1>2
<1>4. here.name = one.name \o past[one.next].name /\ here.next = past[one.next].next
    BY ONLY <1>3
<1> QED
    BY <1>4 DEF here, past

(* An empty text spells an empty name. *)
LEMMA SpellsNothing ==
    Spells(<<>>, <<>>)
<1>1. ASSUME NEW b \in Texts, NEW i, Holds(b, i, <<>>)
      PROVE  /\ BasicPast(b)[i].name = <<>> \o BasicPast(b)[i + Len(<<>>)].name
             /\ BasicPast(b)[i].next = BasicPast(b)[i + Len(<<>>)].next
    <2>1. i \in Positions(b) /\ i \in Nat
        BY <1>1, HoldsAt, FixedTexts DEF Holds
    <2>2. i + Len(<<>>) = i
        BY <2>1
    <2>3. BasicPast(b)[i].name \in Texts
        BY <2>1, BasicNames
    <2>4. <<>> \o BasicPast(b)[i].name = BasicPast(b)[i].name
        BY <2>3, ConcatEmptySeq DEF Texts
    <2> QED
        BY <2>2, <2>4
<1> QED
    BY <1>1 DEF Spells

(* Two texts spell the names of both. *)
LEMMA SpellsConcat ==
    ASSUME NEW s \in Texts, NEW t \in Texts, NEW m \in Texts, NEW n \in Texts,
           Spells(s, m), Spells(t, n)
    PROVE  Spells(s \o t, m \o n)
<1>1. ASSUME NEW b \in Texts, NEW i, Holds(b, i, s \o t)
      PROVE  /\ BasicPast(b)[i].name = (m \o n) \o BasicPast(b)[i + Len(s \o t)].name
             /\ BasicPast(b)[i].next = BasicPast(b)[i + Len(s \o t)].next
    <2> DEFINE j == i + Len(s)
               k == i + Len(s \o t)
    <2>1. Holds(b, i, s) /\ Holds(b, j, t) /\ k = j + Len(t)
        BY <1>1, HoldsConcat
    <2>2. k \in Positions(b)
        <3>1. j + Len(t) \in Positions(b)
            <4> HIDE DEF j
            <4> QED
                BY <2>1, HoldsAt
        <3> QED
            BY <2>1, <3>1
    <2>3. BasicPast(b)[i].name = m \o BasicPast(b)[j].name
          /\ BasicPast(b)[i].next = BasicPast(b)[j].next
        BY <2>1 DEF Spells
    <2> HIDE DEF j, k
    <2>4. BasicPast(b)[j].name = n \o BasicPast(b)[k].name
          /\ BasicPast(b)[j].next = BasicPast(b)[k].next
        BY <2>1 DEF Spells
    <2>5. BasicPast(b)[k].name \in Texts
        BY <2>2, BasicNames
    <2> DEFINE r == BasicPast(b)[k].name
    <2>6. (m \o n) \o r = m \o (n \o r)
        BY <2>5, Regroup
    <2>7. BasicPast(b)[i].name = (m \o n) \o r /\ BasicPast(b)[i].next = BasicPast(b)[k].next
        BY <2>3, <2>4, <2>6
    <2> QED
        BY <2>7 DEF k
<1> QED
    BY <1>1 DEF Spells

(* A mark spells itself, and an escape what it stands for.                 *)
LEMMA SpellsMark ==
    ASSUME NEW mark \in Marks \ {DQ, BS, LF}
    PROVE  Spells(<<mark>>, <<mark>>)
<1>1. ASSUME NEW b \in Texts, NEW i, Holds(b, i, <<mark>>)
      PROVE  /\ BasicPast(b)[i].name = <<mark>> \o BasicPast(b)[i + Len(<<mark>>)].name
             /\ BasicPast(b)[i].next = BasicPast(b)[i + Len(<<mark>>)].next
    <2>1. i \in 1..Len(b) /\ b[i] = mark /\ i + Len(<<mark>>) = i + 1 /\ i \in Positions(b)
        BY <1>1, HoldsMark
    <2>2. At(b, i, Marks \ {DQ, LF}) /\ b[i] # BS
        BY <2>1 DEF At
    <2>4. BasicOne(b, i) = [name |-> <<mark>>, next |-> i + 1]
        BY <2>1, <2>2 DEF BasicOne
    <2>5. /\ BasicPast(b)[i].name = BasicOne(b, i).name \o BasicPast(b)[BasicOne(b, i).next].name
          /\ BasicPast(b)[i].next = BasicPast(b)[BasicOne(b, i).next].next
        BY <2>1, <2>2, BasicOnward
    <2> QED
        BY <2>1, <2>4, <2>5
<1> QED
    BY <1>1 DEF Spells

(* Two marks in a block. *)
LEMMA HoldsTwo ==
    ASSUME NEW b \in Texts, NEW x \in Marks, NEW y \in Marks, NEW i, Holds(b, i, <<x, y>>)
    PROVE  /\ i \in 1..Len(b) /\ i + 1 \in 1..Len(b) /\ i \in Positions(b)
           /\ b[i] = x /\ b[i + 1] = y
           /\ i + Len(<<x, y>>) = i + 2 /\ i + 2 \in Positions(b)
           /\ <<x, y>> \in Texts
<1> DEFINE t == <<x, y>>
<1>1. t \in Texts
    BY ShortTexts DEF Texts
<1>2. Len(t) = 2 /\ t[1] = x /\ t[2] = y
    OBVIOUS
<1> HIDE DEF t
<1>3. i \in Nat /\ i >= 1 /\ i + 2 <= Len(b) + 1 /\ Len(b) \in Nat
    BY <1>2, TextIs DEF Holds, t
<1>4. \A k \in 1..2 : b[i + k - 1] = t[k]
    BY <1>2 DEF Holds, t
<1>5. i + 1 - 1 = i /\ i + 2 - 1 = i + 1
    BY <1>3
<1>6. b[i] = x /\ b[i + 1] = y
    <2>1. b[i + 1 - 1] = x /\ b[i + 2 - 1] = y
        BY <1>2, <1>4
    <2> QED
        BY <2>1, <1>5
<1>7. i \in 1..Len(b) /\ i + 1 \in 1..Len(b) /\ i \in Positions(b) /\ i + 2 \in Positions(b)
    BY <1>3 DEF Positions
<1> QED
    BY <1>1, <1>2, <1>6, <1>7 DEF t

(* What an escape spells. *)
LEMMA EscapeNames ==
    ASSUME NEW b \in Texts, NEW i \in 1..Len(b), i # Len(b), NEW x, NEW name,
           b[i + 1] = x,
           \/ x \in {DQ, BS} /\ name = <<x>>
           \/ x = Coded /\ name = <<"a">>
    PROVE  tomlEscape(b, i) = [name |-> name, next |-> i + 2]
<1>1. DQ # Coded /\ BS # Coded
    BY MarksDiffer
<1>2. CASE x \in {DQ, BS}
    BY Zenon, <1>1, <1>2 DEF tomlEscape
<1>3. CASE x = Coded
    <2>1. b[i + 1] \notin {DQ, BS}
        BY <1>1, <1>3
    <2>2. name = <<"a">>
        BY <1>1, <1>3
    <2> QED
        BY Zenon, <1>3, <2>1, <2>2 DEF tomlEscape
<1> QED
    BY <1>2, <1>3

(* An escape spells one mark. *)
LEMMA SpellsEscape ==
    ASSUME NEW x \in Marks, NEW name \in Texts,
           \/ x \in {DQ, BS} /\ name = <<x>>
           \/ x = Coded /\ name = <<"a">>
    PROVE  Spells(<<BS, x>>, name)
<1>1. ASSUME NEW b \in Texts, NEW i, Holds(b, i, <<BS, x>>)
      PROVE  /\ BasicPast(b)[i].name = name \o BasicPast(b)[i + Len(<<BS, x>>)].name
             /\ BasicPast(b)[i].next = BasicPast(b)[i + Len(<<BS, x>>)].next
    <2>1. BS \in Marks /\ BS # DQ /\ BS # LF
        BY AreMarks, MarksDiffer
    <2>2. /\ i \in 1..Len(b) /\ i + 1 \in 1..Len(b) /\ i \in Positions(b)
          /\ b[i] = BS /\ b[i + 1] = x
          /\ i + Len(<<BS, x>>) = i + 2
        BY <1>1, <2>1, HoldsTwo
    <2>3. i # Len(b) /\ i <= Len(b)
        BY <2>2, TextIs
    <2>4. tomlEscape(b, i) = [name |-> name, next |-> i + 2]
        BY <2>2, <2>3, EscapeNames
    <2>5. At(b, i, Marks \ {DQ, LF})
        BY <2>1, <2>2, <2>3 DEF At
    <2>6. BasicOne(b, i) = [name |-> name, next |-> i + 2]
        BY <2>2, <2>4 DEF BasicOne
    <2>8. /\ BasicPast(b)[i].name = BasicOne(b, i).name \o BasicPast(b)[BasicOne(b, i).next].name
          /\ BasicPast(b)[i].next = BasicPast(b)[BasicOne(b, i).next].next
        BY <2>2, <2>5, BasicOnward
    <2> QED
        BY <2>2, <2>6, <2>8
<1> QED
    BY <1>1 DEF Spells

(* A mark is spelled by each of the ways to write it. *)
LEMMA SpellsWays ==
    ASSUME NEW mark \in Marks \ {LF}, NEW way \in Ways(mark)
    PROVE  way \in Texts /\ Spells(way, <<mark>>)
<1>1. BS \in Marks /\ Coded \in Marks
    BY AreMarks
<1>2. <<mark>> \in Texts /\ <<BS, mark>> \in Texts /\ <<BS, Coded>> \in Texts
    BY <1>1, ShortTexts DEF Texts
<1>3. CASE way = Escaped(mark)
    <2>1. CASE mark \in {DQ, BS}
        BY <1>2, <1>3, <2>1, SpellsEscape DEF Escaped
    <2>2. CASE mark \notin {DQ, BS}
        BY <1>2, <1>3, <2>2, SpellsMark DEF Escaped
    <2> QED
        BY <2>1, <2>2
<1>4. CASE mark = "a" /\ way = <<BS, Coded>>
    BY <1>1, <1>2, <1>4, SpellsEscape
<1> QED
    BY <1>3, <1>4 DEF Ways

(* A name is the sequence of its marks. *)
LEMMA FrontGrows ==
    ASSUME NEW name \in Texts, NEW k \in 1..Len(name)
    PROVE  /\ SubSeq(name, 1, k) = SubSeq(name, 1, k - 1) \o <<name[k]>>
           /\ SubSeq(name, 1, k - 1) \in Texts
           /\ <<name[k]>> \in Texts
<1> DEFINE s == SubSeq(name, 1, k)
           r == SubSeq(name, 1, k - 1)
           x == <<name[k]>>
<1>1. Len(name) \in Nat /\ \A i \in 1..Len(name) : name[i] \in Marks
    BY TextIs
<1>2. (\A i \in 1..k : name[i] \in Marks) /\ (\A i \in 1..(k - 1) : name[i] \in Marks)
      /\ k \in Nat /\ k - 1 \in Nat
    BY <1>1
<1>3. s \in Texts /\ Len(s) = k /\ \A i \in 1..k : s[i] = name[i]
    <2>1. /\ SubSeq(name, 1, k) \in Seq(Marks)
          /\ Len(SubSeq(name, 1, k)) = IF 1 <= k THEN k - 1 + 1 ELSE 0
          /\ \A i \in 1..(k - 1 + 1) : SubSeq(name, 1, k)[i] = name[1 + i - 1]
        BY <1>2, SubSeqProperties
    <2>2. k - 1 + 1 = k /\ 1 <= k /\ \A i \in 1..k : 1 + i - 1 = i
        BY <1>2
    <2> QED
        BY <2>1, <2>2 DEF Texts
<1>4. r \in Texts /\ Len(r) = k - 1 /\ \A i \in 1..(k - 1) : r[i] = name[i]
    <2> DEFINE m == k - 1
    <2>0. m \in Nat /\ \A i \in 1..m : name[i] \in Marks
        BY <1>2
    <2> HIDE DEF m
    <2>1. /\ SubSeq(name, 1, m) \in Seq(Marks)
          /\ Len(SubSeq(name, 1, m)) = IF 1 <= m THEN m - 1 + 1 ELSE 0
          /\ \A i \in 1..(m - 1 + 1) : SubSeq(name, 1, m)[i] = name[1 + i - 1]
        BY <2>0, SubSeqProperties
    <2>2. m - 1 + 1 = m /\ (IF 1 <= m THEN m ELSE 0) = m /\ \A i \in 1..m : 1 + i - 1 = i
        BY <2>0
    <2> QED
        BY <2>1, <2>2 DEF Texts, m
<1>5. x \in Texts /\ Len(x) = 1 /\ x[1] = name[k]
    BY <1>1, ShortTexts DEF Texts
<1> HIDE DEF s, r, x
<1>6. /\ r \o x \in Texts /\ Len(r \o x) = Len(r) + Len(x)
      /\ \A i \in 1..Len(r) : (r \o x)[i] = r[i]
      /\ \A i \in 1..Len(x) : (r \o x)[Len(r) + i] = x[i]
    BY <1>4, <1>5, ConcatIs
<1> DEFINE rx == r \o x
<1> HIDE DEF rx
<1>7. /\ rx \in Texts /\ Len(rx) = k
      /\ \A i \in 1..(k - 1) : rx[i] = name[i]
    BY <1>2, <1>4, <1>5, <1>6 DEF rx
<1>8. rx[k] = name[k]
    <2>1. 1 \in 1..Len(x)
        BY <1>5
    <2>2. rx[Len(r) + 1] = x[1]
        BY <1>6, <2>1 DEF rx
    <2>3. Len(r) + 1 = k
        BY <1>2, <1>4
    <2> QED
        BY <1>5, <2>2, <2>3
<1>9. \A i \in 1..k : s[i] = rx[i]
    <2> SUFFICES ASSUME NEW i \in 1..k PROVE s[i] = rx[i]
        OBVIOUS
    <2>1. i = k \/ i \in 1..(k - 1)
        BY <1>2
    <2> QED
        BY <1>3, <1>7, <1>8, <2>1
<1>10. s = rx
    BY <1>3, <1>7, <1>9, SameText
<1> QED
    BY <1>4, <1>5, <1>10 DEF s, r, x, rx

------------------------------------------------------------------------------
(* A name written one way or another, mark for mark. *)
IsWay(way, name) ==
    /\ way \in [1..Len(name) -> Texts]
    /\ \A k \in 1..Len(name) : way[k] \in Ways(name[k])

(* So is a name, mark for mark. *)
LEMMA WaySpells ==
    ASSUME NEW name \in Texts, LF \notin ToSet(name), NEW way, IsWay(way, name)
    PROVE  FlattenSeq(way) \in Texts /\ Spells(FlattenSeq(way), name)
<1> DEFINE n == Len(name)
           front(k) == SubSeq(name, 1, k)
           Bad == {k \in 0..n : ~Spells(Joined(way, k), front(k))}
<1>1. n \in Nat /\ \A k \in 1..n : name[k] \in Marks \ {LF}
    <2>1. \A k \in 1..n : name[k] \in ToSet(name)
        BY ToSetIs DEF Texts
    <2> QED
        BY <2>1, TextIs
<1>2. way \in Seq(Texts) /\ Len(way) = n
    BY <1>1, FunctionIsSeq DEF IsWay
<1>3. /\ Joined(way, 0) = <<>>
      /\ \A k \in 0..n : Joined(way, k) \in Texts
      /\ \A k \in 1..n : Joined(way, k) = Joined(way, k - 1) \o way[k] /\ way[k] \in Texts
      /\ FlattenSeq(way) = Joined(way, n)
    BY <1>2, JoinedIs DEF Texts
<1>4. \A k \in 1..n : way[k] \in Ways(name[k])
    BY DEF IsWay
<1>5. front(0) = <<>>
    BY SubSeqEmpty
<1>6. \A k \in 1..n : /\ front(k) = front(k - 1) \o <<name[k]>>
                      /\ front(k - 1) \in Texts /\ <<name[k]>> \in Texts
    BY FrontGrows
<1>7. front(n) = name
    <2>1. Holds(name, 1, name)
        BY HoldsWhole
    <2>2. 1 + n = 1 + Len(name) /\ (1 + n) - 1 = n
        BY <1>1
    <2> DEFINE j == 1 + n
    <2>3. j = 1 + Len(name) /\ j - 1 = n
        BY <2>2
    <2> HIDE DEF j, n
    <2>4. SubSeq(name, 1, j - 1) = name
        BY <2>1, <2>3, StretchIs
    <2> QED
        BY <2>3, <2>4
<1> HIDE DEF n, front
<1>8. 0 \notin Bad
    BY <1>3, <1>5, SpellsNothing
<1>9. \A k \in Bad : k - 1 \in Bad
    <2> SUFFICES ASSUME NEW k \in Bad PROVE k - 1 \in Bad
        OBVIOUS
    <2>1. k \in 0..n /\ ~Spells(Joined(way, k), front(k)) /\ k # 0
        BY <1>8
    <2>2. k \in 1..n /\ k - 1 \in 0..n
        BY <1>1, <2>1
    <2>3. Joined(way, k) = Joined(way, k - 1) \o way[k] /\ Joined(way, k - 1) \in Texts
        BY <1>3, <2>2
    <2>4. way[k] \in Texts /\ Spells(way[k], <<name[k]>>)
        BY <1>1, <1>4, <2>2, SpellsWays
    <2>5. front(k) = front(k - 1) \o <<name[k]>> /\ front(k - 1) \in Texts /\ <<name[k]>> \in Texts
        BY <1>6, <2>2
    <2>6. Spells(Joined(way, k - 1), front(k - 1)) => Spells(Joined(way, k), front(k))
        BY <2>3, <2>4, <2>5, SpellsConcat
    <2> QED
        BY <2>1, <2>2, <2>6
<1>10. Bad = {}
    <2>1. Bad \in SUBSET (0..n)
        OBVIOUS
    <2> HIDE DEF Bad
    <2> QED
        BY <1>1, <1>8, <1>9, <2>1, Ascending
<1>11. n \in 0..n
    BY <1>1
<1>12. Spells(Joined(way, n), front(n))
    BY <1>10, <1>11
<1> QED
    BY <1>3, <1>7, <1>11, <1>12

(* A key in the quotes of a basic string. *)
LEMMA BasicKey ==
    ASSUME NEW content \in Texts, NEW name \in Texts, Spells(content, name)
    PROVE  IsKey(Quoted(content, DQ), name)
<1> DEFINE n == Len(content)
           key == Quoted(content, DQ)
<1>1. Len(key) >= 1 /\ key[1] = DQ
    BY QuotedStarts
<1> HIDE DEF key
<1>2. ASSUME NEW b \in Texts, NEW i, Holds(b, i, key)
      PROVE  KeyAt(b, i, key, name)
    <2> DEFINE j == i + 1 + n
               p == i + 1
    <2>1. /\ i \in 1..Len(b) /\ b[i] = DQ /\ i <= Len(b)
          /\ p \in Positions(b) /\ Holds(b, p, content)
          /\ j \in 1..Len(b) /\ j \in Positions(b) /\ b[j] = DQ
          /\ i + Len(key) = j + 1 /\ j = p + n
        <3>1. i \in 1..Len(b) => i <= Len(b)
            BY TextIs
        <3> QED
            BY <1>2, <3>1, QuotedStands DEF key
    <2> HIDE DEF j, p, n
    <2>2. /\ BasicPast(b)[p].name = name \o BasicPast(b)[j].name
          /\ BasicPast(b)[p].next = BasicPast(b)[j].next
        BY <2>1 DEF Spells, n
    <2>3. BasicPast(b)[j] = BasicStep(b, BasicPast(b), j)
        BY <2>1, BasicNames
    <2>4. ~At(b, j, Marks \ {DQ, LF}) /\ At(b, j, {DQ}) /\ At(b, i, {DQ})
        <3>1. j <= Len(b)
            BY <2>1, TextIs
        <3> QED
            BY <2>1, <3>1 DEF At
    <2>5. PastQuote(b, j, DQ) = j + 1
        BY <2>4 DEF PastQuote
    <2> DEFINE past == BasicPast(b)
    <2> HIDE DEF past
    <2>6. BasicStep(b, past, j) = [name |-> <<>>, next |-> j + 1]
        BY <2>4, <2>5 DEF BasicStep
    <2>7. past[j] = [name |-> <<>>, next |-> j + 1]
        BY <2>3, <2>6 DEF past
    <2>8. name \o <<>> = name
        BY ConcatEmptySeq DEF Texts
    <2>9. past[p].name = name /\ past[p].next = j + 1
        BY <2>2, <2>7, <2>8 DEF past
    <2>10. BasicPart(b, i) = past[p]
        BY BasicUnfolded DEF past, p
    <2>11. tomlKeyPart(b, i) = past[p]
        BY <2>4, <2>10 DEF tomlKeyPart
    <2> QED
        BY <2>1, <2>9, <2>11 DEF KeyAt
<1> QED
    BY <1>1, <1>2 DEF IsKey, key

(* The spellings of a name are read as it. *)
LEMMA SpellingIs ==
    ASSUME NEW name, NEW key \in Spellings(name)
    PROVE  \/ key = name /\ name # <<>> /\ ToSet(name) \subseteq Bare
           \/ key = Quoted(name, SQ) /\ SQ \notin ToSet(name)
           \/ \E way : /\ way = [i \in DOMAIN name |-> way[i]]
                       /\ \A i \in DOMAIN name : way[i] \in Ways(name[i])
                       /\ key = Quoted(FlattenSeq(way), DQ)
    BY DEF Spellings, Ways

(* The ways that Spellings enumerates are ways in this sense. *)
LEMMA WaysTyped ==
    ASSUME NEW name \in Texts, LF \notin ToSet(name), NEW way,
           way = [i \in DOMAIN name |-> way[i]],
           \A i \in DOMAIN name : way[i] \in Ways(name[i])
    PROVE  IsWay(way, name)
<1>1. DOMAIN name = 1..Len(name) /\ \A k \in 1..Len(name) : name[k] \in Marks
    BY TextIs
<1>2. \A k \in 1..Len(name) : name[k] \in Marks \ {LF}
    BY <1>1 DEF ToSet
<1>3. \A k \in 1..Len(name) : way[k] \in Ways(name[k]) /\ way[k] \in Texts
    BY <1>1, <1>2, SpellsWays
<1>4. way \in [1..Len(name) -> Texts]
    BY <1>1, <1>3
<1> QED
    BY <1>3, <1>4 DEF IsWay

(* Every spelling of a name is read as the name. *)
LEMMA SpellingIsKey ==
    ASSUME NEW name \in Texts, LF \notin ToSet(name), NEW key \in Spellings(name)
    PROVE  key \in Texts /\ IsKey(key, name)
<1>1. CASE key = name /\ name # <<>> /\ ToSet(name) \subseteq Bare
    BY <1>1, BareKey
<1>2. CASE key = Quoted(name, SQ) /\ SQ \notin ToSet(name)
    BY <1>2, LiteralKey, QuotedStarts
<1>3. ASSUME NEW way, way = [i \in DOMAIN name |-> way[i]],
             \A i \in DOMAIN name : way[i] \in Ways(name[i]),
             key = Quoted(FlattenSeq(way), DQ)
      PROVE  key \in Texts /\ IsKey(key, name)
    <2>1. IsWay(way, name)
        BY <1>3, WaysTyped
    <2>2. FlattenSeq(way) \in Texts /\ Spells(FlattenSeq(way), name)
        BY <2>1, WaySpells
    <2> QED
        BY <1>3, <2>2, BasicKey, QuotedStarts
<1> QED
    BY <1>1, <1>2, <1>3, SpellingIs

(* The encoder writes one of the spellings. *)
LEMMA EncodedIsKey ==
    ASSUME NEW name \in Texts, LF \notin ToSet(name)
    PROVE  EncodeKey(name) \in Texts /\ IsKey(EncodeKey(name), name)
<1> DEFINE way == [i \in DOMAIN name |-> Escaped(name[i])]
<1>1. way = [i \in DOMAIN name |-> way[i]] /\ \A i \in DOMAIN name : way[i] \in Ways(name[i])
    BY DEF Ways
<1>2. EncodeKey(name) = IF name # <<>> /\ ToSet(name) \subseteq Bare THEN name
                        ELSE IF SQ \notin ToSet(name) THEN Quoted(name, SQ)
                        ELSE Quoted(FlattenSeq(way), DQ)
    BY DEF EncodeKey
<1> HIDE DEF way
<1>3. IsWay(way, name)
    BY <1>1, WaysTyped
<1>4. FlattenSeq(way) \in Texts /\ Spells(FlattenSeq(way), name)
    BY <1>3, WaySpells
<1>5. IsKey(Quoted(FlattenSeq(way), DQ), name)
    BY <1>4, BasicKey
<1>6. SQ \notin ToSet(name) => IsKey(Quoted(name, SQ), name)
    BY LiteralKey
<1>7. name # <<>> /\ ToSet(name) \subseteq Bare => IsKey(name, name)
    BY BareKey
<1> QED
    BY <1>2, <1>5, <1>6, <1>7, EncodeKeyTyped

------------------------------------------------------------------------------
(***************************************************************************)
(* What follows a key, and the ends of lines.                              *)
(***************************************************************************)
IsTail(tail) ==
    /\ Len(tail) >= 1
    /\ tail[1] \in Marks \ Bare
    /\ \A b \in Texts : \A i : Holds(b, i, tail) => DottedPast(b)[i] = i + Len(tail)

(* The first mark of a text that stands in a block. *)
LEMMA HoldsFirst ==
    ASSUME NEW b \in Texts, NEW t \in Texts, NEW i, Holds(b, i, t), Len(t) >= 1
    PROVE  /\ i \in 1..Len(b) /\ i \in Positions(b) /\ b[i] = t[1]
           /\ \A marks : t[1] \in marks => At(b, i, marks)
<1>1. Len(t) \in Nat /\ Len(b) \in Nat /\ i \in Nat /\ i >= 1
    BY TextIs DEF Holds
<1>2. 1 \in 1..Len(t) /\ i + 1 - 1 = i
    BY <1>1
<1>3. \A k \in 1..Len(t) : i + k - 1 \in 1..Len(b) /\ i + k - 1 \in Positions(b)
                            /\ b[i + k - 1] = t[k]
    BY HoldsAt
<1>4. i \in 1..Len(b) /\ i \in Positions(b) /\ b[i] = t[1]
    BY <1>2, <1>3
<1>5. i <= Len(b)
    BY <1>1, <1>4
<1> QED
    BY <1>4, <1>5 DEF At

(* The equation of tomlDottedKey at a position. *)
LEMMA DottedHere ==
    ASSUME NEW b \in Texts, NEW i \in Positions(b)
    PROVE  DottedPast(b)[i] = DottedStep(b, DottedPast(b), i)
    BY DottedEquation DEF Texts

(* The equals sign is one. *)
LEMMA EqualsTail ==
    IsTail(<<"=">>) /\ <<"=">> \in Texts
<1> DEFINE t == <<"=">>
<1>1. t \in Texts
    BY FixedTexts
<1>2. Len(t) = 1 /\ t[1] = "="
    OBVIOUS
<1> HIDE DEF t
<1>3. "=" \in Marks \ Bare /\ "=" # SP
    BY AreMarks, BareMarks DEF SP
<1>4. ASSUME NEW b \in Texts, NEW i, Holds(b, i, t)
      PROVE  DottedPast(b)[i] = i + Len(t)
    <2>1. i \in Positions(b) /\ b[i] = "=" /\ At(b, i, {"="})
        BY <1>1, <1>2, <1>4, HoldsFirst
    <2>2. ~At(b, i, {SP})
        BY <1>3, <2>1 DEF At
    <2>3. DottedPast(b)[i] = DottedStep(b, DottedPast(b), i)
        BY <2>1, DottedHere
    <2>4. DottedStep(b, DottedPast(b), i) = i + 1
        BY <2>1, <2>2 DEF DottedStep
    <2> QED
        BY <1>2, <2>3, <2>4
<1>5. IsTail(t)
    BY <1>2, <1>3, <1>4 DEF IsTail
<1> QED
    BY <1>1, <1>5 DEF t

(* A space before one makes one. *)
LEMMA SpacedTail ==
    ASSUME NEW tail \in Texts, IsTail(tail)
    PROVE  IsTail(<<SP>> \o tail) /\ <<SP>> \o tail \in Texts
<1> DEFINE s == <<SP>>
           t == s \o tail
<1>1. s \in Texts
    BY FixedTexts
<1>2. SP \in Marks \ Bare
    BY AreMarks, BareMarks
<1>3. Len(s) = 1 /\ s[1] = SP
    OBVIOUS
<1>4. \A b \in Texts : \A i : Holds(b, i, s) => i \in Positions(b) /\ At(b, i, {SP}) /\ i + Len(s) = i + 1
    <2> SUFFICES ASSUME NEW b \in Texts, NEW i, Holds(b, i, s)
                 PROVE  i \in Positions(b) /\ At(b, i, {SP}) /\ i + Len(s) = i + 1
        OBVIOUS
    <2>1. i \in 1..Len(b) /\ b[i] = SP /\ i + Len(s) = i + 1 /\ i \in Positions(b)
        BY <1>2, HoldsMark
    <2>2. i <= Len(b)
        BY <2>1, TextIs
    <2> QED
        BY <2>1, <2>2 DEF At
<1> HIDE DEF s
<1>5. t \in Texts /\ Len(t) = Len(s) + Len(tail) /\ \A k \in 1..Len(s) : t[k] = s[k]
    BY <1>1, ConcatIs
<1>6. Len(t) >= 1 /\ t[1] \in Marks \ Bare
    <2>1. 1 \in 1..Len(s) /\ Len(tail) \in Nat
        BY <1>3, TextIs
    <2> QED
        BY <1>2, <1>3, <1>5, <2>1
<1>7. ASSUME NEW b \in Texts, NEW i, Holds(b, i, t)
      PROVE  DottedPast(b)[i] = i + Len(t)
    <2>1. Holds(b, i, s) /\ Holds(b, i + Len(s), tail) /\ i + Len(t) = (i + Len(s)) + Len(tail)
        BY <1>1, <1>7, HoldsConcat
    <2>2. DottedPast(b)[i + Len(s)] = (i + Len(s)) + Len(tail)
        BY <2>1 DEF IsTail
    <2>3. i \in Positions(b) /\ At(b, i, {SP}) /\ i + Len(s) = i + 1
        BY <1>4, <2>1
    <2>4. DottedPast(b)[i] = DottedStep(b, DottedPast(b), i)
        BY <2>3, DottedHere
    <2>5. DottedStep(b, DottedPast(b), i) = DottedPast(b)[i + 1]
        BY <2>3 DEF DottedStep
    <2> QED
        BY <2>1, <2>2, <2>3, <2>4, <2>5
<1> HIDE DEF t
<1>8. IsTail(t)
    BY <1>6, <1>7 DEF IsTail
<1> QED
    BY <1>5, <1>8 DEF t, s

(* Another part of the key, after a dot.                                   *)
LEMMA DottedTail ==
    ASSUME NEW inner \in Texts, NEW name, IsKey(inner, name), NEW tail \in Texts, IsTail(tail)
    PROVE  IsTail(<<".">> \o (inner \o tail)) /\ <<".">> \o (inner \o tail) \in Texts
<1> DEFINE s == <<".">>
           it == inner \o tail
           t == s \o it
<1>1. s \in Texts /\ it \in Texts
    BY FixedTexts, ConcatTyped
<1>2. "." \in Marks \ Bare /\ "." # SP /\ "." # "="
    BY AreMarks, BareMarks DEF SP
<1>3. Len(s) = 1 /\ s[1] = "."
    OBVIOUS
<1> HIDE DEF s
<1>4. t \in Texts /\ Len(t) = Len(s) + Len(it) /\ \A k \in 1..Len(s) : t[k] = s[k]
    BY <1>1, ConcatIs
<1>5. Len(t) >= 1 /\ t[1] \in Marks \ Bare
    <2>1. 1 \in 1..Len(s) /\ Len(it) \in Nat
        BY <1>1, <1>3, TextIs
    <2> QED
        BY <1>2, <1>3, <1>4, <2>1
<1>6. Len(inner) >= 1 /\ inner[1] \in Bare \cup {DQ, SQ} /\ Len(inner) \in Nat
    BY TextIs DEF IsKey
<1>7. inner[1] \in Marks \ {SP}
    BY <1>6, AreMarks, BareMarks, MarksDiffer
<1>8. ASSUME NEW b \in Texts, NEW i, Holds(b, i, t)
      PROVE  DottedPast(b)[i] = i + Len(t)
    <2> DEFINE j == i + 1
               k == j + Len(inner)
    <2>1. Holds(b, i, s) /\ Holds(b, i + Len(s), it) /\ i + Len(t) = (i + Len(s)) + Len(it)
        <3> HIDE DEF it
        <3> QED
            BY <1>1, <1>8, HoldsConcat
    <2>2. i \in Positions(b) /\ i \in 1..Len(b) /\ b[i] = "." /\ At(b, i, {"."})
        <3>1. /\ i \in Positions(b) /\ i \in 1..Len(b) /\ b[i] = s[1]
              /\ \A marks : s[1] \in marks => At(b, i, marks)
            <4>1. Len(s) >= 1
                BY <1>3
            <4>2. Holds(b, i, s)
                BY <2>1
            <4> QED
                BY ONLY b \in Texts, <1>1, <4>1, <4>2, HoldsFirst
        <3> QED
            BY <1>3, <3>1
    <2>3. Holds(b, j, it) /\ i + Len(t) = j + Len(it) /\ j \in Nat
        BY <1>3, <2>1, <2>2
    <2> HIDE DEF j
    <2>4. Holds(b, j, inner) /\ Holds(b, k, tail) /\ j + Len(it) = k + Len(tail)
        BY <2>3, HoldsConcat
    <2> HIDE DEF it
    <2>5. j \in 1..Len(b) /\ j \in Positions(b) /\ b[j] = inner[1]
        BY <1>6, <2>4, HoldsFirst
    <2>6. At(b, k, Marks \ Bare) /\ k \in Positions(b)
        <3> HIDE DEF k
        <3> QED
            BY <2>4, HoldsFirst DEF IsTail
    <2>7. KeyAt(b, j, inner, name)
        BY <2>4, <2>6 DEF IsKey, k
    <2>8. PastBlanks(b, j) = j
        <3>1. j \in j..(Len(b) + 1) /\ \A l \in j..(j - 1) : b[l] \notin Marks \ {SP}
            BY <2>3, <2>5, TextIs
        <3>2. IsUpTo(j, b, j, Marks \ {SP})
            BY <1>7, <2>5, <3>1 DEF IsUpTo
        <3> QED
            BY <2>5, <3>2, UpToOnly DEF PastBlanks, Texts
    <2>9. DottedNext(b, i) = k /\ PastBlanks(b, i + 1) = j
        BY <2>7, <2>8 DEF DottedNext, KeyAt, j, k
    <2>10. k # j
        BY <1>6, <2>3 DEF k
    <2> HIDE DEF k
    <2>11. DottedPast(b)[k] = k + Len(tail)
        BY <2>4 DEF IsTail
    <2>12. ~At(b, i, {SP}) /\ ~At(b, i, {"="})
        BY <1>2, <2>2 DEF At
    <2>13. DottedPast(b)[i] = DottedStep(b, DottedPast(b), i)
        BY <2>2, DottedHere
    <2>14. DottedStep(b, DottedPast(b), i) = DottedPast(b)[k]
        BY <2>2, <2>9, <2>10, <2>12 DEF DottedStep
    <2> QED
        BY <2>3, <2>4, <2>11, <2>13, <2>14
<1> HIDE DEF t
<1>9. IsTail(t)
    BY <1>5, <1>8 DEF IsTail
<1> QED
    BY <1>4, <1>9 DEF t, s, it

(* A key is read up to its value. *)
LEMMA KeyRead ==
    ASSUME NEW key \in Texts, NEW name, IsKey(key, name), NEW tail \in Texts, IsTail(tail),
           NEW b \in Texts, NEW i, Holds(b, i, key \o tail)
    PROVE  /\ tomlDottedKey(b, i).name = name
           /\ tomlDottedKey(b, i).next = i + Len(key \o tail)
           /\ i \in 1..Len(b) /\ i \in Positions(b) /\ b[i] = key[1]
           /\ i + Len(key \o tail) \in Positions(b)
<1> DEFINE j == i + Len(key)
<1>1. Holds(b, i, key) /\ Holds(b, j, tail) /\ i + Len(key \o tail) = j + Len(tail)
    BY HoldsConcat
<1>2. Len(key) >= 1 /\ Len(key) \in Nat
    BY TextIs DEF IsKey
<1>3. i \in 1..Len(b) /\ i \in Positions(b) /\ b[i] = key[1] /\ i \in Nat
    <2> HIDE DEF j
    <2>1. i \in Nat
        BY <1>1 DEF Holds
    <2> QED
        BY <1>1, <1>2, <2>1, HoldsFirst
<1>4. j # i
    BY <1>2, <1>3
<1> HIDE DEF j
<1>5. At(b, j, Marks \ Bare)
    BY <1>1, HoldsFirst DEF IsTail
<1>6. tomlKeyPart(b, i).name = name /\ tomlKeyPart(b, i).next = j
    BY <1>1, <1>5 DEF IsKey, KeyAt, j
<1>7. DottedPast(b)[j] = j + Len(tail)
    BY <1>1 DEF IsTail
<1>8. tomlDottedKey(b, i) = [name |-> name, next |-> j + Len(tail)]
    BY <1>4, <1>6, <1>7, DottedUnfolded
<1>9. j + Len(tail) \in Positions(b)
    BY <1>1, HoldsAt
<1> QED
    BY <1>1, <1>3, <1>8, <1>9

(* The rest of a line, with the line feed that ends it. *)
IsRest(t) ==
    /\ Len(t) >= 1
    /\ t[Len(t)] = LF
    /\ \A k \in 1..(Len(t) - 1) : t[k] # LF

(* The rest of a line is passed over by tomlSkipLine. *)
LEMMA RestRead ==
    ASSUME NEW t \in Texts, IsRest(t), NEW b \in Texts, NEW i, Holds(b, i, t)
    PROVE  tomlSkipLine(b, i) = i + Len(t)
<1> DEFINE n == Len(t)
           j == i + n - 1
<1>1. n \in Nat /\ n >= 1 /\ i \in Nat /\ Len(b) \in Nat
    BY TextIs DEF IsRest, Holds
<1>2. i \in Positions(b) /\ \A k \in 1..n : i + k - 1 \in 1..Len(b) /\ b[i + k - 1] = t[k]
    BY HoldsAt
<1>3. t[n] = LF /\ \A k \in 1..(n - 1) : t[k] # LF
    BY DEF IsRest
<1> HIDE DEF n
<1>4. n \in 1..n /\ j = i + n - 1
    BY <1>1
<1>5. j \in 1..Len(b) /\ b[j] = LF
    BY <1>2, <1>3, <1>4
<1>6. j \in i..Len(b) /\ j + 1 = i + n
    BY <1>1, <1>4, <1>5
<1>7. \A k \in i..(j - 1) : b[k] # LF
    <2> SUFFICES ASSUME NEW k \in i..(j - 1) PROVE b[k] # LF
        OBVIOUS
    <2>1. k - i + 1 \in 1..(n - 1) /\ k - i + 1 \in 1..n /\ i + (k - i + 1) - 1 = k
        BY <1>1, <1>4
    <2> QED
        BY <1>2, <1>3, <2>1
<1> HIDE DEF j
<1>8. tomlSkipLine(b, i) = j + 1
    BY <1>2, <1>5, <1>6, <1>7, SkipLineTo DEF Texts
<1> QED
    BY <1>6, <1>8 DEF n

(* More marks before the rest of a line are part of it. *)
LEMMA RestConcat ==
    ASSUME NEW s \in Texts, \A k \in 1..Len(s) : s[k] # LF, NEW t \in Texts, IsRest(t)
    PROVE  s \o t \in Texts /\ IsRest(s \o t)
<1> DEFINE st == s \o t
           n == Len(s)
           m == Len(t)
<1>1. /\ st \in Texts /\ Len(st) = n + m
      /\ \A k \in 1..n : st[k] = s[k]
      /\ \A k \in 1..m : st[n + k] = t[k]
    BY ConcatIs
<1>2. n \in Nat /\ m \in Nat
    BY TextIs
<1>3. m >= 1 /\ t[m] = LF /\ \A k \in 1..(m - 1) : t[k] # LF
    BY DEF IsRest
<1>4. \A k \in 1..n : s[k] # LF
    OBVIOUS
<1> HIDE DEF st, n, m
<1>5. Len(st) >= 1 /\ m \in 1..m
    BY <1>1, <1>2, <1>3
<1>6. st[Len(st)] = LF
    BY <1>1, <1>3, <1>5
<1>7. ASSUME NEW k \in 1..(Len(st) - 1) PROVE st[k] # LF
    <2>1. CASE k \in 1..n
        BY <1>1, <1>4, <2>1
    <2>2. CASE k \notin 1..n
        <3>1. k - n \in 1..(m - 1) /\ k - n \in 1..m /\ n + (k - n) = k
            BY <1>1, <1>2, <2>2
        <3> QED
            BY <1>1, <1>3, <3>1
    <2> QED
        BY <2>1, <2>2
<1> QED
    BY <1>1, <1>5, <1>6, <1>7 DEF IsRest, st

(* The two ways in which a line ends. *)
LEMMA LineEndIs ==
    ASSUME NEW end \in LineEnds
    PROVE  end \in Texts /\ IsRest(end) /\ end[1] \in {LF, "#"} /\ Len(end) >= 1
<1> DEFINE lf == <<LF>>
           hash == <<"#">>
<1>1. lf \in Texts /\ hash \in Texts
    BY FixedTexts
<1>2. Len(lf) = 1 /\ lf[1] = LF
    OBVIOUS
<1>3. Len(hash) = 1 /\ hash[1] = "#"
    OBVIOUS
<1>4. end = lf \/ \E comment \in Comments : end = hash \o comment \o lf
    BY DEF LineEnds
<1> HIDE DEF lf, hash
<1>5. IsRest(lf)
    BY <1>2 DEF IsRest
<1>6. "#" # LF
    BY DEF LF
<1>7. ASSUME NEW comment \in Comments, end = hash \o comment \o lf
      PROVE  end \in Texts /\ IsRest(end) /\ end[1] \in {LF, "#"} /\ Len(end) >= 1
    <2>1. comment \in Texts /\ LF \notin ToSet(comment)
        BY TomlBlocksAssumption DEF Texts
    <2>2. \A k \in 1..Len(comment) : comment[k] # LF
        BY <2>1, ToSetIs DEF Texts
    <2>3. comment \o lf \in Texts /\ IsRest(comment \o lf)
        BY <1>1, <1>5, <2>1, <2>2, RestConcat
    <2> DEFINE rest == comment \o lf
    <2>4. end = hash \o rest
        BY <1>1, <1>7, <2>1, Regroup
    <2> HIDE DEF rest
    <2>5. rest \in Texts /\ IsRest(rest)
        BY <2>3 DEF rest
    <2>6. \A k \in 1..Len(hash) : hash[k] # LF
        BY <1>3, <1>6
    <2>7. end \in Texts /\ IsRest(end)
        BY <1>1, <2>4, <2>5, <2>6, RestConcat
    <2>8. \A k \in 1..Len(hash) : end[k] = hash[k]
        BY <1>1, <2>4, <2>5, ConcatIs
    <2>9. 1 \in 1..Len(hash)
        BY <1>3
    <2>10. end[1] = "#"
        BY <1>3, <2>8, <2>9
    <2> QED
        BY <2>7, <2>10 DEF IsRest
<1> QED
    BY <1>1, <1>2, <1>4, <1>5, <1>7

------------------------------------------------------------------------------
(***************************************************************************)
(* What the lexer makes of a line.                                         *)
(***************************************************************************)
(* A text gives the lexer these names, wherever it stands: before it a     *)
(* header has been seen or not, and after it likewise.                     *)
LineReads(text, names, past, after) ==
    \A b \in Texts : \A i :
        Holds(b, i, text) =>
            KeysPast(b)[i][past] = names \o KeysPast(b)[i + Len(text)][after]

(* The names found from a position on. *)
LEMMA KeysHere ==
    ASSUME NEW b \in Texts, NEW i \in Positions(b), NEW past \in BOOLEAN
    PROVE  /\ KeysPast(b)[i][past] \in NamesSeq
           /\ <<>> \o KeysPast(b)[i][past] = KeysPast(b)[i][past]
           /\ KeysPast(b)[i][past] = KeysGo(b, KeysPast(b), i, past)
<1>1. KeysPast(b)[i][past] \in NamesSeq /\ KeysPast(b)[i][past] = KeysGo(b, KeysPast(b), i, past)
    BY KeysFrom DEF Texts
<1> QED
    BY <1>1, ConcatEmptySeq DEF NamesSeq

(* No name, one name. *)
LEMMA NamesTyped ==
    /\ <<>> \in NamesSeq
    /\ \A name \in Texts : <<name>> \in NamesSeq
<1>1. <<>> \in NamesSeq
    BY EmptySeq DEF NamesSeq
<1>2. \A name \in Texts : <<name>> \in NamesSeq
    <2> SUFFICES ASSUME NEW name \in Seq(Marks) PROVE <<name>> \in Seq(Seq(Marks))
        BY DEF NamesSeq, Texts
    <2> QED
        BY PairTexts
<1> QED
    BY <1>1, <1>2

(* No text gives no names. *)
LEMMA NothingReads ==
    ASSUME NEW past \in BOOLEAN
    PROVE  LineReads(<<>>, <<>>, past, past)
<1> SUFFICES ASSUME NEW b \in Texts, NEW i, Holds(b, i, <<>>)
             PROVE  KeysPast(b)[i][past] = <<>> \o KeysPast(b)[i + Len(<<>>)][past]
    BY DEF LineReads
<1>1. <<>> \in Texts
    BY EmptySeq DEF Texts
<1>2. i \in Positions(b) /\ i \in Nat
    <2> DEFINE none == <<>>
    <2>1. none \in Texts /\ Holds(b, i, none)
        BY <1>1
    <2> HIDE DEF none
    <2>2. i \in Positions(b)
        BY <2>1, HoldsAt
    <2> QED
        BY <2>1, <2>2 DEF Holds
<1>3. i + Len(<<>>) = i
    BY <1>2
<1> QED
    BY <1>2, <1>3, KeysHere

(* One line after another. *)
LEMMA LinesRead ==
    ASSUME NEW s \in Texts, NEW t \in Texts, NEW m \in NamesSeq, NEW n \in NamesSeq,
           NEW p \in BOOLEAN, NEW q \in BOOLEAN, NEW r \in BOOLEAN,
           LineReads(s, m, p, q), LineReads(t, n, q, r)
    PROVE  LineReads(s \o t, m \o n, p, r)
<1> DEFINE st == s \o t
           mn == m \o n
<1> SUFFICES ASSUME NEW b \in Texts, NEW i, Holds(b, i, st)
             PROVE  KeysPast(b)[i][p] = mn \o KeysPast(b)[i + Len(st)][r]
    BY DEF LineReads
<1>1. st \in Texts
    BY ConcatTyped
<1>2. Holds(b, i, s) /\ Holds(b, i + Len(s), t) /\ i + Len(st) = (i + Len(s)) + Len(t)
    BY HoldsConcat
<1> DEFINE j == i + Len(s)
           k == j + Len(t)
           rest == KeysPast(b)[k][r]
<1> HIDE DEF st
<1>3. KeysPast(b)[i][p] = m \o KeysPast(b)[j][q]
    BY <1>2 DEF LineReads
<1>4. KeysPast(b)[j][q] = n \o rest
    BY <1>2 DEF LineReads
<1>5. k \in Positions(b)
    <2>1. Holds(b, j, t)
        BY <1>2
    <2> HIDE DEF j
    <2> QED
        BY <2>1, HoldsAt
<1>6. rest \in NamesSeq
    <2> HIDE DEF k
    <2> QED
        BY <1>5, KeysHere
<1>7. mn \o rest = m \o (n \o rest)
    <2> HIDE DEF rest
    <2> QED
        BY <1>6, ConcatAssociative DEF NamesSeq
<1> QED
    BY <1>2, <1>3, <1>4, <1>7

(* A blank gives no name. *)
LEMMA BlankReads ==
    ASSUME NEW mark \in {SP, LF}, NEW past \in BOOLEAN
    PROVE  <<mark>> \in Texts /\ LineReads(<<mark>>, <<>>, past, past)
<1>1. mark \in Marks
    BY AreMarks
<1>2. <<mark>> \in Texts
    BY <1>1, PairTexts DEF Texts
<1>3. ASSUME NEW b \in Texts, NEW i, Holds(b, i, <<mark>>)
      PROVE  KeysPast(b)[i][past] = <<>> \o KeysPast(b)[i + Len(<<mark>>)][past]
    <2>1. i \in 1..Len(b) /\ b[i] = mark /\ i + Len(<<mark>>) = i + 1
          /\ i \in Positions(b) /\ i + 1 \in Positions(b)
        BY <1>1, <1>3, HoldsMark
    <2>2. KeysPast(b)[i][past] = KeysGo(b, KeysPast(b), i, past)
        BY <2>1, KeysHere
    <2>3. b[i] \in {SP, LF}
        BY <2>1
    <2>4. KeysGo(b, KeysPast(b), i, past) = KeysPast(b)[i + 1][past]
        BY <2>1, <2>3, KeysAtBlank DEF Texts
    <2>5. <<>> \o KeysPast(b)[i + 1][past] = KeysPast(b)[i + 1][past]
        <3> DEFINE j == i + 1
        <3>1. j \in Positions(b)
            BY <2>1
        <3> HIDE DEF j
        <3>2. <<>> \o KeysPast(b)[j][past] = KeysPast(b)[j][past]
            BY <3>1, KeysHere
        <3> QED
            BY <3>2 DEF j
    <2> QED
        BY <2>1, <2>2, <2>4, <2>5
<1> QED
    BY <1>2, <1>3 DEF LineReads

(* Neither does the rest of a line that is empty or a comment. *)
LEMMA EndReads ==
    ASSUME NEW end \in Texts, IsRest(end), end[1] \in {LF, "#"}, NEW past \in BOOLEAN
    PROVE  LineReads(end, <<>>, past, past)
<1> SUFFICES ASSUME NEW b \in Texts, NEW i, Holds(b, i, end)
             PROVE  KeysPast(b)[i][past] = <<>> \o KeysPast(b)[i + Len(end)][past]
    BY DEF LineReads
<1> DEFINE j == i + Len(end)
<1>1. i \in 1..Len(b) /\ i \in Positions(b) /\ b[i] = end[1]
    BY HoldsFirst DEF IsRest
<1>2. j \in Positions(b)
    BY HoldsAt
<1>3. tomlSkipLine(b, i) = j
    BY RestRead
<1>4. KeysPast(b)[i][past] = KeysGo(b, KeysPast(b), i, past)
    BY <1>1, KeysHere
<1>5. <<>> \o KeysPast(b)[j][past] = KeysPast(b)[j][past]
    <2> HIDE DEF j
    <2> QED
        BY <1>2, KeysHere
<1>6. CASE b[i] = "#"
    <2>1. KeysGo(b, KeysPast(b), i, past) = KeysPast(b)[tomlSkipLine(b, i)][past]
        BY <1>1, <1>6, KeysAtComment DEF Texts
    <2> QED
        BY <1>3, <1>4, <1>5, <2>1
<1>7. CASE b[i] = LF
    <2>1. j = i + 1
        <3>1. Len(end) \in Nat /\ i \in Nat
            BY TextIs DEF Holds
        <3>2. CASE Len(end) = 1
            BY <3>2
        <3>3. CASE Len(end) # 1
            <4>1. Len(end) >= 1
                BY DEF IsRest
            <4>2. 1 \in 1..(Len(end) - 1)
                BY <3>1, <3>3, <4>1
            <4> QED
                BY <1>1, <1>7, <4>2 DEF IsRest
        <3> QED
            BY <3>2, <3>3
    <2>2. b[i] \in {SP, LF}
        BY <1>7
    <2>3. KeysGo(b, KeysPast(b), i, past) = KeysPast(b)[i + 1][past]
        BY <1>1, <2>2, KeysAtBlank DEF Texts
    <2> QED
        BY <1>4, <1>5, <2>1, <2>3
<1> QED
    BY <1>1, <1>6, <1>7

(* Marks that are none of the others. *)
LEMMA SomeMarks ==
    /\ {"#", "[", "]", ".", "=", ","} \cap {LF, SP, DQ, SQ, BS} = {}
    /\ (Bare \cup {DQ, SQ}) \cap LineMarks = {}
    /\ (Bare \cup {DQ, SQ}) \cap {SP, "["} = {}
<1>1. {"#", "[", "]", ".", "=", ","} \cap {LF, SP, DQ, SQ, BS} = {}
    BY DEF LF, SP, DQ, SQ, BS
<1>2. (Bare \cup {DQ, SQ}) \cap LineMarks = {}
    BY DEF Bare, LineMarks, LF, SP, DQ, SQ
<1>3. (Bare \cup {DQ, SQ}) \cap {SP, "["} = {}
    BY DEF Bare, SP, DQ, SQ
<1> QED
    BY <1>1, <1>2, <1>3

(* A key with its value gives the name of the key, or none in a table. *)
LEMMA KeyLineReads ==
    ASSUME NEW key \in Texts, NEW name \in Texts, IsKey(key, name),
           NEW tail \in Texts, IsTail(tail), NEW text \in Texts, SkipsBefore(text, 0),
           NEW end \in Texts, IsRest(end), end[1] \in {LF, "#"}, NEW past \in BOOLEAN
    PROVE  LineReads((key \o tail) \o (text \o end), IF past THEN <<>> ELSE <<name>>, past, past)
<1> DEFINE front == key \o tail
           back == text \o end
           line == front \o back
           names == IF past THEN <<>> ELSE <<name>>
<1>1. front \in Texts /\ back \in Texts
    BY ConcatTyped
<1> SUFFICES ASSUME NEW b \in Texts, NEW i, Holds(b, i, line)
             PROVE  KeysPast(b)[i][past] = names \o KeysPast(b)[i + Len(line)][past]
    BY DEF LineReads
<1> DEFINE j == i + Len(front)
           k == j + Len(text)
           l == k + Len(end)
<1>2. Holds(b, i, front) /\ Holds(b, j, back) /\ i + Len(line) = j + Len(back)
    <2> HIDE DEF front, back
    <2> QED
        BY <1>1, HoldsConcat
<1>3. /\ tomlDottedKey(b, i).name = name
      /\ tomlDottedKey(b, i).next = j
      /\ i \in 1..Len(b) /\ i \in Positions(b) /\ b[i] = key[1]
      /\ j \in Positions(b)
    BY <1>2, KeyRead
<1> HIDE DEF j, front
<1>4. Holds(b, j, text) /\ Holds(b, k, end) /\ j + Len(back) = l
    BY <1>2, HoldsConcat
<1> HIDE DEF k, back
<1>5. k \in 1..Len(b) /\ k \in Positions(b) /\ b[k] = end[1]
    BY <1>4, HoldsFirst DEF IsRest
<1>6. ValuePast(b)[j][0] = ValuePast(b)[k][0]
    <2>1. k <= Len(b) /\ b[k] \in Marks \ {DQ, SQ}
        <3>1. LF \in Marks \ {DQ, SQ} /\ "#" \in Marks \ {DQ, SQ}
            BY AreMarks, MarksDiffer, SomeMarks
        <3>2. k <= Len(b)
            BY <1>5, TextIs
        <3> QED
            BY <1>5, <3>1, <3>2
    <2>2. Unquoted(b, k)
        BY <2>1 DEF Unquoted, At
    <2> QED
        BY <1>4, <2>2 DEF SkipsBefore, k
<1>7. ValuePast(b)[k][0] = tomlSkipLine(b, k)
    <2>1. ValuePast(b)[k][0] = ValueGo(b, ValuePast(b), k, 0)
        BY <1>5, ValueFrom DEF Texts
    <2>2. b[k] \in {LF, "#"}
        BY <1>5
    <2>3. ValueGo(b, ValuePast(b), k, 0) = tomlSkipLine(b, k)
        BY <1>5, <2>2, ValueAtLineEnd DEF Texts
    <2> QED
        BY <2>1, <2>3
<1>8. tomlSkipLine(b, k) = l
    BY <1>4, RestRead
<1>9. tomlSkipValue(b, j) = l
    BY <1>6, <1>7, <1>8, ValueUnfolded
<1>10. b[i] \notin LineMarks
    <2>1. key[1] \in Bare \cup {DQ, SQ}
        BY DEF IsKey
    <2>2. (Bare \cup {DQ, SQ}) \cap LineMarks = {}
        BY SomeMarks
    <2> QED
        BY <1>3, <2>1, <2>2
<1>11. tomlDottedKey(b, i).next # NotAKey
    BY <1>3 DEF Positions, NotAKey
<1>12. KeysGo(b, KeysPast(b), i, past) =
         (IF past THEN <<>> ELSE <<tomlDottedKey(b, i).name>>)
            \o KeysPast(b)[tomlSkipValue(b, tomlDottedKey(b, i).next)][past]
    <2>1. b \in Seq(Marks)
        BY DEF Texts
    <2> QED
        BY ONLY <2>1, <1>3, <1>10, <1>11, KeysAtKey
<1>13. KeysPast(b)[i][past] = KeysGo(b, KeysPast(b), i, past)
    BY <1>3, KeysHere
<1> QED
    BY <1>2, <1>3, <1>4, <1>9, <1>12, <1>13

------------------------------------------------------------------------------
(***************************************************************************)
(* Headers.                                                                *)
(***************************************************************************)
(* Where the name of a header is looked for. *)
HeaderOpen(b, i) == IF At(b, i + 1, {"["}) THEN i + 2 ELSE i + 1

(* The marks before the name of a header: the name is found behind them. *)
IsOpen(open) ==
    /\ Len(open) >= 1
    /\ open[1] = "["
    /\ \A b \in Texts : \A i :
          Holds(b, i, open) /\ At(b, i + Len(open), Bare \cup {DQ, SQ}) =>
              PastBlanks(b, HeaderOpen(b, i)) = i + Len(open)

(* No blanks are skipped where none stand ... *)
LEMMA BlanksNone ==
    ASSUME NEW b \in Texts, NEW j \in 1..Len(b), b[j] # SP
    PROVE  PastBlanks(b, j) = j
<1>1. j \in Positions(b) /\ Len(b) \in Nat /\ b[j] \in Marks
    BY TextIs DEF Positions
<1>2. j \in j..(Len(b) + 1) /\ \A l \in j..(j - 1) : b[l] \notin Marks \ {SP}
    BY <1>1
<1>3. IsUpTo(j, b, j, Marks \ {SP})
    BY <1>1, <1>2 DEF IsUpTo
<1> QED
    BY <1>1, <1>3, UpToOnly DEF PastBlanks, Texts

(* ... and one where one stands. *)
LEMMA BlanksOne ==
    ASSUME NEW b \in Texts, NEW j \in 1..Len(b), b[j] = SP,
           NEW k \in 1..Len(b), k = j + 1, b[k] # SP
    PROVE  PastBlanks(b, j) = k
<1>1. j \in Positions(b) /\ Len(b) \in Nat /\ b[k] \in Marks
    BY TextIs DEF Positions
<1>2. k \in j..(Len(b) + 1) /\ \A l \in j..(k - 1) : b[l] \notin Marks \ {SP}
    BY <1>1
<1>3. IsUpTo(k, b, j, Marks \ {SP})
    BY <1>1, <1>2 DEF IsUpTo
<1> QED
    BY <1>1, <1>3, UpToOnly DEF PastBlanks, Texts

(* A mark of a block at a position. *)
LEMMA AtIs ==
    ASSUME NEW b \in Texts, NEW j, NEW marks, j \in Nat, j >= 1, At(b, j, marks)
    PROVE  j \in 1..Len(b) /\ b[j] \in marks
    BY TextIs DEF At

(* "[" *)
LEMMA OpensTable ==
    IsOpen(<<"[">>)
<1> DEFINE open == <<"[">>
<1>1. open \in Texts /\ "[" \in Marks
    BY FixedTexts, AreMarks
<1>2. Len(open) = 1 /\ open[1] = "["
    OBVIOUS
<1>3. ASSUME NEW b \in Texts, NEW i, Holds(b, i, open),
             At(b, i + Len(open), Bare \cup {DQ, SQ})
      PROVE  PastBlanks(b, HeaderOpen(b, i)) = i + Len(open)
    <2> DEFINE j == i + 1
    <2>1. i \in Nat /\ i >= 1 /\ i + Len(open) = j
        BY <1>2, <1>3 DEF Holds
    <2>2. j \in 1..Len(b) /\ b[j] \in Bare \cup {DQ, SQ}
        <3>1. j \in Nat /\ j >= 1 /\ At(b, j, Bare \cup {DQ, SQ})
            BY <1>3, <2>1
        <3> HIDE DEF j
        <3> QED
            BY <3>1, AtIs
    <2> HIDE DEF j
    <2>3. b[j] # SP /\ b[j] # "["
        BY <2>2, SomeMarks
    <2>4. HeaderOpen(b, i) = j
        BY <2>3 DEF HeaderOpen, At, j
    <2>5. PastBlanks(b, j) = j
        BY <2>2, <2>3, BlanksNone
    <2> QED
        BY <2>1, <2>4, <2>5
<1> HIDE DEF open
<1>4. IsOpen(open)
    BY <1>2, <1>3 DEF IsOpen
<1> QED
    BY <1>4 DEF open

(* "[[" *)
LEMMA OpensList ==
    IsOpen(<<"[", "[">>)
<1> DEFINE open == <<"[", "[">>
<1>1. "[" \in Marks
    BY AreMarks
<1>2. Len(open) = 2 /\ open[1] = "["
    OBVIOUS
<1>3. ASSUME NEW b \in Texts, NEW i, Holds(b, i, open),
             At(b, i + Len(open), Bare \cup {DQ, SQ})
      PROVE  PastBlanks(b, HeaderOpen(b, i)) = i + Len(open)
    <2> DEFINE j == i + 2
    <2>1. /\ i \in 1..Len(b) /\ i + 1 \in 1..Len(b) /\ b[i + 1] = "["
          /\ i + Len(open) = j
        BY <1>1, <1>3, HoldsTwo
    <2>2. j \in 1..Len(b) /\ b[j] \in Bare \cup {DQ, SQ}
        <3>1. j \in Nat /\ j >= 1 /\ At(b, j, Bare \cup {DQ, SQ})
            BY <1>3, <2>1
        <3> HIDE DEF j
        <3> QED
            BY <3>1, AtIs
    <2>3. At(b, i + 1, {"["})
        <3>1. i + 1 <= Len(b)
            BY <2>1, TextIs
        <3> QED
            BY <2>1, <3>1 DEF At
    <2>4. HeaderOpen(b, i) = j
        BY <2>3 DEF HeaderOpen
    <2> HIDE DEF j
    <2>5. b[j] # SP
        BY <2>2, SomeMarks
    <2>6. PastBlanks(b, j) = j
        BY <2>2, <2>5, BlanksNone
    <2> QED
        BY <2>1, <2>4, <2>6
<1> HIDE DEF open
<1>4. IsOpen(open)
    BY <1>2, <1>3 DEF IsOpen
<1> QED
    BY <1>4 DEF open

(* "[[ " *)
LEMMA OpensSpaced ==
    IsOpen(<<"[", "[", SP>>)
<1> DEFINE open == <<"[", "[", SP>>
<1>1. Len(open) = 3 /\ open[1] = "[" /\ open[2] = "[" /\ open[3] = SP
    OBVIOUS
<1> HIDE DEF open
<1>2. ASSUME NEW b \in Texts, NEW i, Holds(b, i, open),
             At(b, i + Len(open), Bare \cup {DQ, SQ})
      PROVE  PastBlanks(b, HeaderOpen(b, i)) = i + Len(open)
    <2> DEFINE j == i + 2
               k == i + 3
    <2>1. i \in Nat /\ i >= 1 /\ i + Len(open) = k /\ k = j + 1
        BY <1>1, <1>2 DEF Holds
    <2>2. k \in 1..Len(b) /\ b[k] \in Bare \cup {DQ, SQ}
        <3>1. k \in Nat /\ k >= 1 /\ At(b, k, Bare \cup {DQ, SQ})
            BY <1>2, <2>1
        <3> HIDE DEF k
        <3> QED
            BY <3>1, AtIs
    <2>3. b[i + 1] = "[" /\ b[j] = SP
        <3>1. \A n \in 1..Len(open) : b[i + n - 1] = open[n]
            BY <1>2 DEF Holds
        <3>2. 2 \in 1..Len(open) /\ 3 \in 1..Len(open) /\ i + 2 - 1 = i + 1 /\ i + 3 - 1 = j
            BY <1>1, <2>1
        <3> QED
            BY <1>1, <3>1, <3>2
    <2>4. Len(b) \in Nat
        BY TextIs
    <2>5. At(b, i + 1, {"["})
        <3>1. i + 1 <= Len(b)
            BY <2>1, <2>2, <2>4
        <3> QED
            BY <2>3, <3>1 DEF At
    <2>6. HeaderOpen(b, i) = j
        BY <2>5 DEF HeaderOpen
    <2>7. j \in 1..Len(b)
        BY <2>1, <2>2, <2>4
    <2> HIDE DEF j, k
    <2>8. b[k] # SP
        BY <2>2, SomeMarks
    <2>9. PastBlanks(b, j) = k
        BY <2>1, <2>2, <2>3, <2>7, <2>8, BlanksOne
    <2> QED
        BY <2>1, <2>6, <2>9
<1>3. IsOpen(open)
    BY <1>1, <1>2 DEF IsOpen
<1> QED
    BY <1>3 DEF open

(* A header gives its name, and what follows belongs to a table. *)
LEMMA HeaderLineReads ==
    ASSUME NEW open \in Texts, IsOpen(open), NEW key \in Texts, NEW name \in Texts,
           IsKey(key, name), NEW rest \in Texts, IsRest(rest), rest[1] \in Marks \ Bare,
           NEW past \in BOOLEAN
    PROVE  LineReads(open \o (key \o rest), <<name>>, past, TRUE)
<1> DEFINE back == key \o rest
           line == open \o back
<1>1. back \in Texts
    BY ConcatTyped
<1> SUFFICES ASSUME NEW b \in Texts, NEW i, Holds(b, i, line)
             PROVE  KeysPast(b)[i][past] = <<name>> \o KeysPast(b)[i + Len(line)][TRUE]
    BY DEF LineReads
<1> DEFINE j == i + Len(open)
           k == j + Len(key)
           l == k + Len(rest)
<1>2. Holds(b, i, open) /\ Holds(b, j, back) /\ i + Len(line) = j + Len(back)
    <2> HIDE DEF back
    <2> QED
        BY <1>1, HoldsConcat
<1>3. i \in 1..Len(b) /\ i \in Positions(b) /\ b[i] = "["
    BY <1>2, HoldsFirst DEF IsOpen
<1> HIDE DEF j
<1>4. Holds(b, j, key) /\ Holds(b, k, rest) /\ j + Len(back) = l
    BY <1>2, HoldsConcat
<1> HIDE DEF k, back
<1>5. At(b, j, Bare \cup {DQ, SQ})
    BY <1>4, HoldsFirst DEF IsKey
<1>6. At(b, k, Marks \ Bare)
    BY <1>4, HoldsFirst DEF IsRest
<1>7. tomlKeyPart(b, j).name = name /\ tomlKeyPart(b, j).next = k
    BY <1>4, <1>6 DEF IsKey, KeyAt, k
<1>8. PastBlanks(b, HeaderOpen(b, i)) = j
    BY <1>2, <1>5 DEF IsOpen, j
<1>9. tomlSkipLine(b, k) = l
    BY <1>4, RestRead
<1>10. tomlHeaderName(b, i) = [name |-> name, next |-> l]
    BY <1>7, <1>8, <1>9 DEF tomlHeaderName, HeaderOpen
<1>11. KeysGo(b, KeysPast(b), i, past) =
         <<tomlHeaderName(b, i).name>> \o KeysPast(b)[tomlHeaderName(b, i).next][TRUE]
    BY <1>3, KeysAtHeader DEF Texts
<1>12. KeysPast(b)[i][past] = KeysGo(b, KeysPast(b), i, past)
    BY <1>3, KeysHere
<1>13. i + Len(line) = l
    BY <1>2, <1>4
<1>14. tomlHeaderName(b, i).name = name /\ tomlHeaderName(b, i).next = l
    BY <1>10
<1> HIDE DEF l, line
<1> QED
    BY ONLY <1>11, <1>12, <1>13, <1>14

------------------------------------------------------------------------------
(***************************************************************************)
(* The lines an author may write.                                          *)
(***************************************************************************)
(* A name of the instance. *)
LEMMA NameIs ==
    ASSUME NEW name \in ToSet(Names)
    PROVE  name \in Texts /\ LF \notin ToSet(name)
<1>1. Names \in Seq(Texts)
    BY TomlBlocksAssumption DEF Texts
<1>2. PICK i \in 1..Len(Names) : name = Names[i]
    BY <1>1, ToSetIs
<1>3. DOMAIN Names = 1..Len(Names) /\ Names[i] \in Texts
    BY <1>1, <1>2, ToSetIs, ElementOfSeq
<1>4. \A j \in DOMAIN Names : LF \notin ToSet(Names[j])
    BY TomlBlocksAssumption
<1> QED
    BY <1>2, <1>3, <1>4

(* The front of two texts. *)
LEMMA FrontIs ==
    ASSUME NEW s \in Texts, NEW t \in Texts, Len(s) >= 1
    PROVE  (s \o t)[1] = s[1]
<1>1. 1 \in 1..Len(s)
    BY TextIs
<1> QED
    BY <1>1, ConcatIs

(* The inner names are bare keys. *)
LEMMA InnerIs ==
    ASSUME NEW inner \in InnerNames
    PROVE  /\ inner \in Texts /\ IsKey(inner, inner)
           /\ \A k \in 1..Len(inner) : inner[k] # LF
           /\ inner # NoInner
<1>1. PICK mark \in {"x", "y"} : inner = <<mark>>
    BY DEF InnerNames
<1>2. inner \in Texts
    BY <1>1, FixedTexts
<1>3. mark \in Bare /\ mark # LF
    BY DEF Bare, LF
<1>4. Len(inner) = 1 /\ inner[1] = mark
    BY <1>1
<1>5. inner # <<>>
    BY <1>1
<1>6. ToSet(inner) \subseteq Bare
    <2> SUFFICES ASSUME NEW x \in ToSet(inner) PROVE x \in Bare
        OBVIOUS
    <2>1. PICK k \in 1..Len(inner) : inner[k] = x
        BY <1>2, ToSetIs DEF Texts
    <2> QED
        BY <1>3, <1>4, <2>1
<1>7. IsKey(inner, inner)
    BY <1>2, <1>5, <1>6, BareKey
<1>8. \A k \in 1..Len(inner) : inner[k] # LF
    BY <1>3, <1>4
<1> QED
    BY <1>2, <1>5, <1>7, <1>8 DEF NoInner

(* Two marks, one after the other. *)
LEMMA PairIs ==
    ASSUME NEW x \in Marks, NEW y \in Marks
    PROVE  <<x>> \o <<y>> = <<x, y>>
<1> DEFINE s == <<x>>
           t == <<y>>
           st == s \o t
           xy == <<x, y>>
<1>1. s \in Texts /\ t \in Texts /\ xy \in Texts
    BY PairTexts DEF Texts
<1>2. Len(s) = 1 /\ s[1] = x
    OBVIOUS
<1>3. Len(t) = 1 /\ t[1] = y
    OBVIOUS
<1>4. Len(xy) = 2 /\ xy[1] = x /\ xy[2] = y
    OBVIOUS
<1> HIDE DEF s, t, xy
<1>5. /\ st \in Texts /\ Len(st) = Len(s) + Len(t)
      /\ \A k \in 1..Len(s) : st[k] = s[k]
      /\ \A k \in 1..Len(t) : st[Len(s) + k] = t[k]
    BY <1>1, ConcatIs
<1> HIDE DEF st
<1>6. Len(st) = 2 /\ st[1] = x /\ st[2] = y
    <2>1. 1 \in 1..Len(s) /\ 1 \in 1..Len(t) /\ Len(s) + 1 = 2
        BY <1>2, <1>3
    <2> QED
        BY <1>2, <1>3, <1>5, <2>1
<1>7. \A k \in 1..Len(st) : st[k] = xy[k]
    BY <1>4, <1>6
<1>8. st = xy
    BY <1>1, <1>4, <1>5, <1>6, <1>7, SameText
<1> QED
    BY <1>8 DEF st, s, t, xy

(* What stands between the key of a line and its value. *)
LEMMA TailIs ==
    ASSUME NEW inner \in {NoInner} \cup InnerNames, NEW key \in Texts
    PROVE  \E tail \in Texts :
               /\ IsTail(tail)
               /\ (key \o (IF inner = NoInner THEN <<>> ELSE <<SP, ".">> \o inner)) \o <<"=">>
                    = key \o tail
<1> DEFINE eq == <<"=">>
           dot == <<".">>
           sp == <<SP>>
<1>1. eq \in Texts /\ IsTail(eq)
    BY EqualsTail
<1>2. CASE inner = NoInner
    <2>1. key \o <<>> = key
        BY ConcatEmptySeq DEF Texts
    <2> QED
        BY <1>1, <1>2, <2>1
<1>3. CASE inner \in InnerNames
    <2>1. inner \in Texts /\ IsKey(inner, inner) /\ inner # NoInner
        BY <1>3, InnerIs
    <2> DEFINE part == dot \o (inner \o eq)
               tail == sp \o part
    <2>2. IsTail(part) /\ part \in Texts
        BY <1>1, <2>1, DottedTail
    <2>3. IsTail(tail) /\ tail \in Texts
        <3> HIDE DEF part
        <3> QED
            BY <2>2, SpacedTail
    <2>4. sp \o dot = <<SP, ".">>
        BY AreMarks, PairIs
    <2>5. sp \in Texts /\ dot \in Texts
        BY FixedTexts
    <2>6. (key \o ((sp \o dot) \o inner)) \o eq = key \o tail
        <3> HIDE DEF eq, sp, dot
        <3>1. (sp \o dot) \o inner = sp \o (dot \o inner) /\ dot \o inner \in Texts
            BY <2>1, <2>5, Regroup, ConcatTyped
        <3> DEFINE di == dot \o inner
                   sdi == sp \o di
        <3>2. sdi \in Texts
            BY <2>5, <3>1, ConcatTyped
        <3>3. (key \o sdi) \o eq = key \o (sdi \o eq)
            <4> HIDE DEF sdi
            <4> QED
                BY <1>1, <3>2, Regroup
        <3>4. sdi \o eq = sp \o (di \o eq)
            <4> HIDE DEF di
            <4> QED
                BY <1>1, <2>5, <3>1, Regroup
        <3>5. di \o eq = part
            BY <1>1, <2>1, <2>5, Regroup
        <3> QED
            BY <3>1, <3>3, <3>4, <3>5
    <2> HIDE DEF tail
    <2> QED
        BY <2>1, <2>3, <2>4, <2>6
<1> QED
    BY <1>2, <1>3

(* A line of a key, taken apart. *)
LEMMA KeyLineIs ==
    ASSUME NEW line \in KeyLines
    PROVE  \E name \in ToSet(Names) : \E key \in Spellings(name) :
           \E inner \in {NoInner} \cup InnerNames : \E value \in AuthorValues :
           \E scalar \in Scalars : \E gap \in Gaps : \E end \in LineEnds :
               line = KeyLine(name, key, inner, value, Spelled(value, scalar, gap), end)
<1>1. PICK named \in Keys, inner \in {NoInner} \cup InnerNames, valued \in ValueTexts,
           end \in LineEnds :
          line = KeyLine(named[1], named[2], inner, valued[1], valued[2], end)
    BY DEF KeyLines
<1>2. PICK name \in ToSet(Names) : named \in {name} \X Spellings(name)
    BY Zenon DEF Keys
<1>3. named[1] = name /\ named[2] \in Spellings(name)
    BY <1>2
<1>4. PICK value \in AuthorValues :
          valued \in {value} \X {Spelled(value, scalar, gap) : scalar \in Scalars, gap \in Gaps}
    <2>1. valued \in UNION {{v} \X {Spelled(v, scalar, gap) : scalar \in Scalars, gap \in Gaps} :
                              v \in AuthorValues}
        BY DEF ValueTexts
    <2> QED
        BY <2>1
<1>5. valued[1] = value
      /\ valued[2] \in {Spelled(value, scalar, gap) : scalar \in Scalars, gap \in Gaps}
    BY <1>4
<1>6. PICK scalar \in Scalars, gap \in Gaps : valued[2] = Spelled(value, scalar, gap)
    BY <1>5
<1> QED
    BY <1>1, <1>3, <1>5, <1>6

(* The value a line spells is skipped with it. *)
LEMMA SpelledIsSkipped ==
    ASSUME NEW value \in Values, NEW scalar \in Scalars, NEW gap \in Gaps
    PROVE  Spelled(value, scalar, gap) \in Texts /\ SkipsBefore(Spelled(value, scalar, gap), 0)
<1>1. scalar \in Texts /\ gap \in Texts /\ IsScalar(scalar) /\ IsGap(gap)
    BY TomlBlocksAssumption DEF Texts
<1>2. Spelled(value, scalar, gap) = SpelledPast(scalar, gap)[value]
    BY <1>1, SpelledIs
<1>3. Spelled(value, scalar, gap) \in Texts
    BY <1>1, SpelledIs
<1>4. SkipsBefore(SpelledPast(scalar, gap)[value], 0)
    BY <1>1, SpelledSkipped
<1> QED
    BY <1>2, <1>3, <1>4

(* Names that count: none inside a table. *)
LineNames(name, past) == IF past THEN <<>> ELSE <<name>>

(* A line of a key, as the lexer reads it. *)
LEMMA KeyLineRead ==
    ASSUME NEW line \in KeyLines
    PROVE  /\ line.name \in ToSet(Names)
           /\ line.value \in AuthorValues \cup {Map}
           /\ line.value \in Values
           /\ line.text \in Texts
           /\ \A past \in BOOLEAN : LineReads(line.text, LineNames(line.name, past), past, past)
<1>0. PICK name \in ToSet(Names) :
          \E key \in Spellings(name) : \E inner \in {NoInner} \cup InnerNames :
          \E value \in AuthorValues : \E scalar \in Scalars : \E gap \in Gaps : \E end \in LineEnds :
              line = KeyLine(name, key, inner, value, Spelled(value, scalar, gap), end)
    BY KeyLineIs
<1>1. PICK key \in Spellings(name), inner \in {NoInner} \cup InnerNames,
           value \in AuthorValues, scalar \in Scalars, gap \in Gaps, end \in LineEnds :
          line = KeyLine(name, key, inner, value, Spelled(value, scalar, gap), end)
    BY <1>0
<1> DEFINE text == Spelled(value, scalar, gap)
           x == IF inner = NoInner THEN <<>> ELSE <<SP, ".">> \o inner
           eq == <<"=">>
<1>2. name \in Texts /\ LF \notin ToSet(name)
    BY NameIs
<1>3. key \in Texts /\ IsKey(key, name)
    BY <1>2, SpellingIsKey
<1>4. PICK tail \in Texts : IsTail(tail) /\ (key \o x) \o eq = key \o tail
    BY <1>3, TailIs
<1>a. value \in Values
    BY TomlBlocksAssumption
<1>5. text \in Texts /\ SkipsBefore(text, 0)
    BY <1>a, SpelledIsSkipped
<1>6. end \in Texts /\ IsRest(end) /\ end[1] \in {LF, "#"}
    BY LineEndIs
<1>7. line.name = name /\ line.value = (IF inner = NoInner THEN value ELSE Map)
      /\ line.text = (((key \o x) \o eq) \o text) \o end
    BY <1>1 DEF KeyLine
<1> HIDE DEF text, x, eq
<1> DEFINE front == key \o tail
<1>8. front \in Texts
    BY <1>3, ConcatTyped
<1>9. (front \o text) \o end = front \o (text \o end) /\ text \o end \in Texts
    <2> HIDE DEF front
    <2> QED
        BY <1>5, <1>6, <1>8, Regroup, ConcatTyped
<1>10. line.text = front \o (text \o end)
    BY <1>4, <1>7, <1>9
<1>11. line.text \in Texts
    <2> DEFINE back == text \o end
    <2> HIDE DEF front, back
    <2>1. back \in Texts
        BY <1>9 DEF back
    <2>2. front \o back \in Texts
        BY <1>8, <2>1, ConcatTyped
    <2> QED
        BY <1>10, <2>2 DEF back
<1>12. ASSUME NEW past \in BOOLEAN
       PROVE  LineReads(line.text, LineNames(line.name, past), past, past)
    <2>1. LineReads((key \o tail) \o (text \o end), IF past THEN <<>> ELSE <<name>>, past, past)
        BY <1>2, <1>3, <1>4, <1>5, <1>6, KeyLineReads
    <2> QED
        BY <1>7, <1>10, <2>1 DEF LineNames
<1>13. line.value \in Values /\ line.value \in AuthorValues \cup {Map}
    BY <1>a, <1>7, SimpleValues
<1> QED
    BY <1>7, <1>11, <1>12, <1>13

(* What closes the name of a header: no name goes on there, and no line ends. *)
IsClose(f) ==
    /\ Len(f) >= 1
    /\ f[1] \in Marks \ Bare
    /\ \A k \in 1..Len(f) : f[k] # LF

(* With the end of the line it is the rest of a line. *)
LEMMA ClosedRest ==
    ASSUME NEW f \in Texts, IsClose(f), NEW end \in Texts, IsRest(end)
    PROVE  f \o end \in Texts /\ IsRest(f \o end) /\ (f \o end)[1] \in Marks \ Bare
    BY RestConcat, FrontIs DEF IsClose

(* More of the line may follow it. *)
LEMMA CloseConcat ==
    ASSUME NEW f \in Texts, IsClose(f), NEW g \in Texts, \A k \in 1..Len(g) : g[k] # LF
    PROVE  f \o g \in Texts /\ IsClose(f \o g)
<1> DEFINE fg == f \o g
           n == Len(f)
           m == Len(g)
<1>1. /\ fg \in Texts /\ Len(fg) = n + m
      /\ \A k \in 1..n : fg[k] = f[k]
      /\ \A k \in 1..m : fg[n + k] = g[k]
    BY ConcatIs
<1>2. n \in Nat /\ m \in Nat
    BY TextIs
<1>3. n >= 1 /\ \A k \in 1..n : f[k] # LF
    BY DEF IsClose
<1>4. \A k \in 1..m : g[k] # LF
    OBVIOUS
<1>5. fg[1] \in Marks \ Bare
    BY FrontIs DEF IsClose
<1> HIDE DEF fg, n, m
<1>6. ASSUME NEW k \in 1..Len(fg) PROVE fg[k] # LF
    <2>1. CASE k \in 1..n
        BY <1>1, <1>3, <2>1
    <2>2. CASE k \notin 1..n
        <3>1. k - n \in 1..m /\ n + (k - n) = k
            BY <1>1, <1>2, <2>2
        <3> QED
            BY <1>1, <1>4, <3>1
    <2> QED
        BY <2>1, <2>2
<1>7. Len(fg) >= 1
    BY <1>1, <1>2, <1>3
<1> QED
    BY <1>1, <1>5, <1>6, <1>7 DEF IsClose, fg

(* Closing brackets may follow the name, and so may a dot. *)
LEMMA CloseMarks ==
    /\ IsClose(<<"]">>) /\ IsClose(<<"]", "]">>) /\ IsClose(<<".">>)
<1>1. "]" \in Marks \ Bare /\ "]" # LF /\ "." \in Marks \ Bare /\ "." # LF
    BY AreMarks, BareMarks, SomeMarks
<1>2. IsClose(<<"]">>)
    <2> DEFINE f == <<"]">>
    <2>1. Len(f) = 1 /\ f[1] = "]"
        OBVIOUS
    <2> HIDE DEF f
    <2>2. IsClose(f)
        BY <1>1, <2>1 DEF IsClose
    <2> QED
        BY <2>2 DEF f
<1>3. IsClose(<<".">>)
    <2> DEFINE f == <<".">>
    <2>1. Len(f) = 1 /\ f[1] = "."
        OBVIOUS
    <2> HIDE DEF f
    <2>2. IsClose(f)
        BY <1>1, <2>1 DEF IsClose
    <2> QED
        BY <2>2 DEF f
<1>4. IsClose(<<"]", "]">>)
    <2> DEFINE f == <<"]", "]">>
    <2>1. Len(f) = 2 /\ f[1] = "]" /\ f[2] = "]"
        OBVIOUS
    <2> HIDE DEF f
    <2>2. IsClose(f)
        BY <1>1, <2>1 DEF IsClose
    <2> QED
        BY <2>2 DEF f
<1> QED
    BY <1>2, <1>3, <1>4

(* A header as it is written, and with its parts grouped as it is read. *)
HeaderText(o, k, y, c, e) == (((o \o k) \o y) \o c) \o e

(* The same, put together from its opening on. *)
HeaderParts(o, k, y, c, e) == o \o (k \o ((y \o c) \o e))

(* They are one text. *)
LEMMA HeaderGrouped ==
    ASSUME NEW o \in Texts, NEW k \in Texts, NEW y \in Texts, NEW c \in Texts, NEW e \in Texts
    PROVE  HeaderText(o, k, y, c, e) = HeaderParts(o, k, y, c, e)
<1> DEFINE ok == o \o k
           yc == y \o c
           r == yc \o e
<1>1. ok \in Texts /\ yc \in Texts
    BY ConcatTyped
<1>a. ok \in Texts
    BY <1>1
<1>b. yc \in Texts
    BY <1>1
<1>2. (ok \o y) \o c = ok \o yc
    <2> HIDE DEF ok
    <2> QED
        BY <1>a, Regroup, Zenon
<1>3. (ok \o yc) \o e = ok \o r
    <2> HIDE DEF ok, yc
    <2> QED
        BY <1>a, <1>b, Regroup, Zenon
<1>4. r \in Texts
    <2> HIDE DEF yc
    <2> QED
        BY <1>1, ConcatTyped
<1>5. ok \o r = o \o (k \o r)
    <2> HIDE DEF r
    <2> QED
        BY <1>4, Regroup
<1> QED
    BY <1>2, <1>3, <1>5 DEF HeaderText, HeaderParts

(* A line of a header, whatever opens and closes its name. *)
LEMMA HeaderRead ==
    ASSUME NEW o \in Texts, IsOpen(o), NEW name \in ToSet(Names), NEW key \in Spellings(name),
           NEW y \in Texts, NEW c \in Texts, IsClose(y \o c), NEW end \in LineEnds
    PROVE  /\ (((o \o key) \o y) \o c) \o end \in Texts
           /\ \A past \in BOOLEAN :
                LineReads((((o \o key) \o y) \o c) \o end, <<name>>, past, TRUE)
<1>1. name \in Texts /\ key \in Texts /\ IsKey(key, name)
    BY NameIs, SpellingIsKey
<1>2. end \in Texts /\ IsRest(end)
    BY LineEndIs
<1> DEFINE rest == (y \o c) \o end
           line == (((o \o key) \o y) \o c) \o end
<1>3. rest \in Texts /\ IsRest(rest) /\ rest[1] \in Marks \ Bare
    BY <1>2, ConcatTyped, ClosedRest
<1>4. line = o \o (key \o rest)
    <2>1. key \in Texts
        BY <1>1
    <2>2. end \in Texts
        BY <1>2
    <2>4. HeaderText(o, key, y, c, end) = HeaderParts(o, key, y, c, end)
        BY <2>1, <2>2, HeaderGrouped
    <2> QED
        BY <2>4, Zenon DEF HeaderText, HeaderParts
<1> HIDE DEF rest, line
<1>5. line \in Texts
    <2> DEFINE back == key \o rest
    <2>1. back \in Texts
        BY <1>1, <1>3, ConcatTyped
    <2> HIDE DEF back
    <2>2. o \o back \in Texts
        BY <2>1, ConcatTyped
    <2> QED
        BY <1>4, <2>2 DEF back
<1>6. \A past \in BOOLEAN : LineReads(line, <<name>>, past, TRUE)
    BY <1>1, <1>3, <1>4, HeaderLineReads
<1> QED
    BY <1>5, <1>6 DEF line

(* Lists of maps are values. *)
LEMMA MapLists ==
    List(<<Map>>) \in Values /\ List(<<Map, Map>>) \in Values
<1>1. Map \in Simple
    BY DEF Simple
<1>2. <<Map>> \in [1..1 -> Simple] /\ <<Map, Map>> \in [1..2 -> Simple] /\ 1 \in 0..2 /\ 2 \in 0..2
    <2> DEFINE s == <<Map>>
               t == <<Map, Map>>
    <2> HIDE DEF Map, Simple
    <2>1. s \in Seq(Simple) /\ Len(s) = 1
        BY <1>1, PairTexts
    <2>2. t \in Seq(Simple) /\ Len(t) = 2
        BY <1>1, PairTexts
    <2> HIDE DEF s, t
    <2>3. s \in [1..1 -> Simple]
        BY <2>1, LenProperties
    <2>4. t \in [1..2 -> Simple]
        BY <2>2, LenProperties
    <2> QED
        BY <2>3, <2>4 DEF s, t
<1>3. List(<<Map>>) \in FlatLists /\ List(<<Map, Map>>) \in FlatLists
    BY <1>2, FlatListIs
<1> QED
    BY <1>3 DEF Values

(* A header of the author, as the lexer reads it. *)
LEMMA HeaderLineRead ==
    ASSUME NEW line \in HeaderLines
    PROVE  /\ line.name \in ToSet(Names)
           /\ line.value \in {Map, List(<<Map>>)}
           /\ line.value \in Values
           /\ line.text \in Texts
           /\ \A past \in BOOLEAN : LineReads(line.text, <<line.name>>, past, TRUE)
<1> DEFINE table == <<"[">>
           list == <<"[", "[", SP>>
           close == <<"]">>
           twice == <<"]", "]">>
           x(inner) == IF inner = NoInner THEN <<>> ELSE <<".">> \o inner
<1>1. \/ \E named \in Keys, inner \in {NoInner} \cup InnerNames, end \in LineEnds :
            line = [name |-> named[1], inner |-> inner, value |-> Map,
                    text |-> (((table \o named[2]) \o x(inner)) \o close) \o end]
      \/ \E named \in Keys, end \in LineEnds :
            line = [name |-> named[1], inner |-> NoInner, value |-> List(<<Map>>),
                    text |-> ((list \o named[2]) \o twice) \o end]
    <2> DEFINE one(named, inner, end) ==
                   [name |-> named[1], inner |-> inner, value |-> Map,
                    text |-> (((table \o named[2]) \o x(inner)) \o close) \o end]
               two(named, end) ==
                   [name |-> named[1], inner |-> NoInner, value |-> List(<<Map>>),
                    text |-> ((list \o named[2]) \o twice) \o end]
               ones == {one(named, inner, end) :
                           named \in Keys, inner \in {NoInner} \cup InnerNames, end \in LineEnds}
               twos == {two(named, end) : named \in Keys, end \in LineEnds}
    <2>1. HeaderLines = ones \cup twos
        BY DEF HeaderLines
    <2>2. line \in ones => \E named \in Keys, inner \in {NoInner} \cup InnerNames, end \in LineEnds :
                                line = one(named, inner, end)
        <3> HIDE DEF one
        <3> QED
            OBVIOUS
    <2>3. line \in twos => \E named \in Keys, end \in LineEnds : line = two(named, end)
        <3> HIDE DEF two
        <3> QED
            OBVIOUS
    <2>4. line \in ones \/ line \in twos
        <3> HIDE DEF ones, twos
        <3> QED
            BY <2>1
    <2> HIDE DEF ones, twos
    <2> QED
        BY <2>2, <2>3, <2>4
<1>2. \A named \in Keys : named[1] \in ToSet(Names) /\ named[2] \in Spellings(named[1])
    <2> SUFFICES ASSUME NEW named \in Keys
                 PROVE  named[1] \in ToSet(Names) /\ named[2] \in Spellings(named[1])
        OBVIOUS
    <2>1. PICK name \in ToSet(Names) : named \in {name} \X Spellings(name)
        BY Zenon DEF Keys
    <2> QED
        BY <2>1
<1>3. table \in Texts /\ list \in Texts /\ close \in Texts /\ twice \in Texts
    BY FixedTexts
<1>4. IsOpen(table) /\ IsOpen(list) /\ IsClose(close) /\ IsClose(twice)
    BY OpensTable, OpensSpaced, CloseMarks
<1>5. \A inner \in {NoInner} \cup InnerNames : x(inner) \in Texts /\ IsClose(x(inner) \o close)
    <2> SUFFICES ASSUME NEW inner \in {NoInner} \cup InnerNames
                 PROVE  x(inner) \in Texts /\ IsClose(x(inner) \o close)
        OBVIOUS
    <2>1. CASE inner = NoInner
        <3>1. <<>> \o close = close /\ <<>> \in Texts
            BY <1>3, ConcatEmptySeq, EmptySeq DEF Texts
        <3> QED
            BY <1>4, <2>1, <3>1
    <2>2. CASE inner \in InnerNames
        <3>1. inner \in Texts /\ inner # NoInner /\ \A k \in 1..Len(inner) : inner[k] # LF
            BY <2>2, InnerIs
        <3> DEFINE dot == <<".">>
                   di == dot \o inner
        <3>2. dot \in Texts /\ IsClose(dot)
            BY FixedTexts, CloseMarks
        <3>3. di \in Texts /\ IsClose(di)
            BY <3>1, <3>2, CloseConcat
        <3>4. IsClose(di \o close)
            <4>1. \A k \in 1..Len(close) : close[k] # LF
                BY <1>4 DEF IsClose
            <4> HIDE DEF di, close
            <4> QED
                BY <1>3, <3>3, <4>1, CloseConcat
        <3>5. x(inner) = di
            BY <3>1
        <3> QED
            BY <3>3, <3>4, <3>5
    <2> QED
        BY <2>1, <2>2
<1>6. Map \in Values /\ List(<<Map>>) \in Values
    BY SimpleValues, MapLists
<1>7. ASSUME NEW named \in Keys, NEW inner \in {NoInner} \cup InnerNames, NEW end \in LineEnds,
             line = [name |-> named[1], inner |-> inner, value |-> Map,
                     text |-> (((table \o named[2]) \o x(inner)) \o close) \o end]
      PROVE  /\ line.name \in ToSet(Names)
             /\ line.value \in {Map, List(<<Map>>)}
             /\ line.value \in Values
             /\ line.text \in Texts
             /\ \A past \in BOOLEAN : LineReads(line.text, <<line.name>>, past, TRUE)
    <2>1. /\ line.name = named[1] /\ line.value = Map
          /\ line.text = (((table \o named[2]) \o x(inner)) \o close) \o end
        BY <1>7
    <2> DEFINE y == x(inner)
    <2>2. y \in Texts /\ IsClose(y \o close)
        BY <1>5
    <2>3. named[1] \in ToSet(Names) /\ named[2] \in Spellings(named[1])
        BY <1>2
    <2> HIDE DEF table, y, close, x
    <2>4. /\ (((table \o named[2]) \o y) \o close) \o end \in Texts
          /\ \A past \in BOOLEAN :
                LineReads((((table \o named[2]) \o y) \o close) \o end, <<named[1]>>, past, TRUE)
        BY <1>3, <1>4, <2>2, <2>3, HeaderRead
    <2> QED
        BY <1>6, <2>1, <2>3, <2>4 DEF y
<1>8. ASSUME NEW named \in Keys, NEW end \in LineEnds,
             line = [name |-> named[1], inner |-> NoInner, value |-> List(<<Map>>),
                     text |-> ((list \o named[2]) \o twice) \o end]
      PROVE  /\ line.name \in ToSet(Names)
             /\ line.value \in {Map, List(<<Map>>)}
             /\ line.value \in Values
             /\ line.text \in Texts
             /\ \A past \in BOOLEAN : LineReads(line.text, <<line.name>>, past, TRUE)
    <2>1. /\ line.name = named[1] /\ line.value = List(<<Map>>)
          /\ line.text = ((list \o named[2]) \o twice) \o end
        BY <1>8
    <2>3. named[1] \in ToSet(Names) /\ named[2] \in Spellings(named[1])
        BY <1>2
    <2> DEFINE y == <<>>
               ok == list \o named[2]
    <2>4. y \in Texts /\ y \o twice = twice
        BY <1>3, EmptySeq, ConcatEmptySeq DEF Texts
    <2>5. ok \in Texts
        BY <1>3, <2>3, NameIs, SpellingIsKey, ConcatTyped
    <2>6. ok \o y = ok
        <3> HIDE DEF ok
        <3> QED
            BY <2>5, ConcatEmptySeq DEF Texts
    <2> HIDE DEF list, y, twice
    <2>7. /\ (((list \o named[2]) \o y) \o twice) \o end \in Texts
          /\ \A past \in BOOLEAN :
                LineReads((((list \o named[2]) \o y) \o twice) \o end, <<named[1]>>, past, TRUE)
        BY <1>3, <1>4, <2>3, <2>4, HeaderRead
    <2> QED
        BY <1>6, <2>1, <2>3, <2>6, <2>7
<1> HIDE DEF x, table, list, close, twice
<1> QED
    BY <1>1, <1>7, <1>8

(* A comment or an empty line, indented or not. *)
LEMMA CommentRead ==
    ASSUME NEW end \in LineEnds, NEW indent \in {<<>>, <<SP>>}
    PROVE  /\ indent \o end \in Texts
           /\ \A past \in BOOLEAN : LineReads(indent \o end, <<>>, past, past)
<1>1. end \in Texts /\ IsRest(end) /\ end[1] \in {LF, "#"}
    BY LineEndIs
<1>2. indent \in Texts
    BY FixedTexts
<1>3. indent \o end \in Texts
    BY <1>1, <1>2, ConcatTyped
<1>4. ASSUME NEW past \in BOOLEAN PROVE LineReads(indent \o end, <<>>, past, past)
    <2>1. LineReads(end, <<>>, past, past)
        BY <1>1, EndReads
    <2>2. LineReads(indent, <<>>, past, past)
        <3>1. CASE indent = <<>>
            BY <3>1, NothingReads
        <3>2. CASE indent = <<SP>>
            BY <3>2, BlankReads
        <3> QED
            BY <3>1, <3>2
    <2> DEFINE none == <<>>
    <2>3. none \in NamesSeq /\ none \o none = none
        BY NamesTyped, ConcatEmptySeq DEF NamesSeq
    <2> HIDE DEF none
    <2>4. LineReads(indent, none, past, past) /\ LineReads(end, none, past, past)
        BY <2>1, <2>2 DEF none
    <2>5. LineReads(indent \o end, none \o none, past, past)
        BY <1>1, <1>2, <2>3, <2>4, LinesRead
    <2> QED
        BY <2>3, <2>5 DEF none
<1> QED
    BY <1>3, <1>4

------------------------------------------------------------------------------
(***************************************************************************)
(* The lines the encoder writes.                                           *)
(***************************************************************************)
Assign == <<SP, "=", SP>>

(* It is three texts. *)
LEMMA AssignIs ==
    Assign \in Texts /\ Assign = (<<SP>> \o <<"=">>) \o <<SP>>
<1> DEFINE s == <<SP>>
           e == <<"=">>
           se == s \o e
           ses == se \o s
<1>1. s \in Texts /\ e \in Texts /\ Assign \in Texts
    BY FixedTexts DEF Assign
<1>2. Len(s) = 1 /\ s[1] = SP /\ Len(e) = 1 /\ e[1] = "="
    OBVIOUS
<1>3. Len(Assign) = 3 /\ Assign[1] = SP /\ Assign[2] = "=" /\ Assign[3] = SP
    BY DEF Assign
<1> HIDE DEF s, e
<1>4. /\ se \in Texts /\ Len(se) = Len(s) + Len(e)
      /\ \A k \in 1..Len(s) : se[k] = s[k]
      /\ \A k \in 1..Len(e) : se[Len(s) + k] = e[k]
    BY <1>1, ConcatIs
<1> HIDE DEF se
<1>5. Len(se) = 2 /\ se[1] = SP /\ se[2] = "="
    <2>1. 1 \in 1..Len(s) /\ 1 \in 1..Len(e) /\ Len(s) + 1 = 2
        BY <1>2
    <2> QED
        BY <1>2, <1>4, <2>1
<1>6. /\ ses \in Texts /\ Len(ses) = Len(se) + Len(s)
      /\ \A k \in 1..Len(se) : ses[k] = se[k]
      /\ \A k \in 1..Len(s) : ses[Len(se) + k] = s[k]
    BY <1>1, <1>4, ConcatIs
<1> HIDE DEF ses
<1>7. Len(ses) = 3 /\ ses[1] = SP /\ ses[2] = "=" /\ ses[3] = SP
    <2>1. 1 \in 1..Len(se) /\ 2 \in 1..Len(se) /\ 1 \in 1..Len(s) /\ Len(se) + 1 = 3
        BY <1>2, <1>5
    <2> QED
        BY <1>2, <1>5, <1>6, <2>1
<1>8. \A k \in 1..Len(ses) : ses[k] = Assign[k]
    BY <1>3, <1>7
<1>9. ses = Assign
    BY <1>1, <1>3, <1>6, <1>7, <1>8, SameText
<1> QED
    BY <1>1, <1>9 DEF ses, se, s, e

(* "key = text" *)
AssignText(key, text) == ((key \o Assign) \o text) \o <<LF>>

(* A line feed ends a line. *)
LEMMA LineFeedEnds ==
    <<LF>> \in Texts /\ IsRest(<<LF>>) /\ <<LF>>[1] \in {LF, "#"}
<1>1. <<LF>> \in LineEnds
    BY Zenon DEF LineEnds
<1> QED
    BY <1>1, LineEndIs

(* Such a line gives the lexer its name, unless a table is open. *)
LEMMA AssignRead ==
    ASSUME NEW key \in Texts, NEW name \in Texts, IsKey(key, name), NEW text \in Texts,
           Skips(text, 0)
    PROVE  /\ AssignText(key, text) \in Texts
           /\ \A past \in BOOLEAN :
                LineReads(AssignText(key, text), LineNames(name, past), past, past)
<1> DEFINE sp == <<SP>>
           eq == <<"=">>
           lf == <<LF>>
           tail == sp \o eq
           value == sp \o text
           front == key \o tail
           back == value \o lf
<1>1. sp \in Texts /\ eq \in Texts /\ IsTail(eq)
    BY FixedTexts, EqualsTail
<1>2. tail \in Texts /\ IsTail(tail)
    BY <1>1, SpacedTail
<1>3. lf \in Texts /\ IsRest(lf) /\ lf[1] \in {LF, "#"}
    BY LineFeedEnds
<1>4. Skips(sp, 0)
    BY PlainMarks, SkipsMark
<1> HIDE DEF sp, eq, lf
<1>5. value \in Texts /\ Skips(value, 0)
    BY <1>1, <1>4, ConcatTyped, SkipsConcat
<1>6. SkipsBefore(value, 0)
    BY <1>5, SkipsBoth
<1> HIDE DEF tail
<1>7. front \in Texts
    BY <1>2, ConcatTyped
<1>8. AssignText(key, text) = front \o back
    <2>1. Assign = tail \o sp /\ Assign \in Texts
        BY AssignIs DEF tail, sp, eq
    <2>2. key \o (tail \o sp) = front \o sp
        BY <1>1, <1>2, Regroup
    <2> HIDE DEF front
    <2>3. (front \o sp) \o text = front \o (sp \o text)
        BY <1>1, <1>7, Regroup, Zenon
    <2>4. (front \o value) \o lf = front \o (value \o lf)
        <3>1. value \in Texts
            BY <1>5
        <3>2. lf \in Texts
            BY <1>3
        <3> HIDE DEF value
        <3> QED
            BY <1>7, <3>1, <3>2, Regroup, Zenon
    <2>5. AssignText(key, text) = ((key \o Assign) \o text) \o lf
        BY DEF AssignText, lf
    <2> QED
        BY <2>1, <2>2, <2>3, <2>4, <2>5
<1> HIDE DEF value
<1>9. back \in Texts
    BY <1>3, <1>5, ConcatTyped
<1>10. front \o back \in Texts
    <2> HIDE DEF front, back
    <2> QED
        BY <1>7, <1>9, ConcatTyped
<1>11. ASSUME NEW past \in BOOLEAN
       PROVE  LineReads(front \o back, IF past THEN <<>> ELSE <<name>>, past, past)
    BY <1>2, <1>3, <1>5, <1>6, KeyLineReads
<1> HIDE DEF front, back
<1> QED
    BY <1>8, <1>10, <1>11 DEF LineNames

(* The entry of every map. *)
LEMMA EntryIs ==
    Entry = (<<"x">> \o Assign) \o <<"1">>
<1> DEFINE x == <<"x">>
           one == <<"1">>
           xa == x \o Assign
           xao == xa \o one
<1>1. x \in Texts /\ one \in Texts /\ Entry \in Texts /\ Assign \in Texts
    BY FixedTexts, AssignIs
<1>2. Len(x) = 1 /\ x[1] = "x" /\ Len(one) = 1 /\ one[1] = "1"
    OBVIOUS
<1>3. Len(Assign) = 3 /\ Assign[1] = SP /\ Assign[2] = "=" /\ Assign[3] = SP
    BY DEF Assign
<1>4. /\ Len(Entry) = 5 /\ Entry[1] = "x" /\ Entry[2] = SP /\ Entry[3] = "="
      /\ Entry[4] = SP /\ Entry[5] = "1"
    BY DEF Entry
<1> HIDE DEF x, one
<1>5. /\ xa \in Texts /\ Len(xa) = Len(x) + Len(Assign)
      /\ \A k \in 1..Len(x) : xa[k] = x[k]
      /\ \A k \in 1..Len(Assign) : xa[Len(x) + k] = Assign[k]
    BY <1>1, ConcatIs
<1> HIDE DEF xa
<1>6. Len(xa) = 4 /\ xa[1] = "x" /\ xa[2] = SP /\ xa[3] = "=" /\ xa[4] = SP
    <2>1. 1 \in 1..Len(x) /\ 1 \in 1..Len(Assign) /\ 2 \in 1..Len(Assign) /\ 3 \in 1..Len(Assign)
          /\ Len(x) + 1 = 2 /\ Len(x) + 2 = 3 /\ Len(x) + 3 = 4
        BY <1>2, <1>3
    <2> QED
        BY <1>2, <1>3, <1>5, <2>1
<1>7. /\ xao \in Texts /\ Len(xao) = Len(xa) + Len(one)
      /\ \A k \in 1..Len(xa) : xao[k] = xa[k]
      /\ \A k \in 1..Len(one) : xao[Len(xa) + k] = one[k]
    BY <1>1, <1>5, ConcatIs
<1> HIDE DEF xao
<1>8. /\ Len(xao) = 5 /\ xao[1] = "x" /\ xao[2] = SP /\ xao[3] = "="
      /\ xao[4] = SP /\ xao[5] = "1"
    <2>1. 1 \in 1..Len(xa) /\ 2 \in 1..Len(xa) /\ 3 \in 1..Len(xa) /\ 4 \in 1..Len(xa)
          /\ 1 \in 1..Len(one) /\ Len(xa) + 1 = 5
        BY <1>2, <1>6
    <2> QED
        BY <1>2, <1>6, <1>7, <2>1
<1>9. \A k \in 1..Len(xao) : xao[k] = Entry[k]
    BY <1>4, <1>8
<1>10. xao = Entry
    <2>1. xao \in Texts /\ Entry \in Texts /\ Len(xao) = Len(Entry)
        BY <1>1, <1>4, <1>7, <1>8
    <2> QED
        BY ONLY <2>1, <1>9, SameText
<1> QED
    BY <1>10 DEF xao, xa, x, one

(* The entry of a table is no key of the top level. *)
LEMMA EntryRead ==
    /\ Entry \o <<LF>> \in Texts
    /\ LineReads(Entry \o <<LF>>, <<>>, TRUE, TRUE)
<1> DEFINE x == <<"x">>
           one == <<"1">>
<1>1. x \in Texts /\ one \in Texts
    BY FixedTexts
<1>2. IsKey(x, x)
    <2>1. x \in InnerNames
        BY Zenon DEF InnerNames
    <2> QED
        BY <2>1, InnerIs
<1>3. Skips(one, 0)
    BY EntrySkipped
<1>4. AssignText(x, one) = Entry \o <<LF>>
    BY EntryIs DEF AssignText
<1> HIDE DEF x, one
<1>5. /\ AssignText(x, one) \in Texts
      /\ \A past \in BOOLEAN : LineReads(AssignText(x, one), LineNames(x, past), past, past)
    BY <1>1, <1>2, <1>3, AssignRead
<1>6. LineReads(AssignText(x, one), LineNames(x, TRUE), TRUE, TRUE)
    BY <1>5
<1>7. LineNames(x, TRUE) = <<>>
    BY DEF LineNames
<1> QED
    BY <1>4, <1>5, <1>6, <1>7

(* A header and the entry below it. *)
TableText(o, key, c) == (((o \o key) \o c) \o Entry) \o <<LF>>

(* What it takes for a header to be read. *)
HeadsTable(o, key, name, c) ==
    /\ o \in Texts /\ IsOpen(o)
    /\ key \in Texts /\ name \in Texts /\ IsKey(key, name)
    /\ c \in Texts /\ IsRest(c) /\ c[1] \in Marks \ Bare

(* A header gives the lexer its name, wherever it stands. *)
LEMMA TableRead ==
    ASSUME NEW o, NEW key, NEW name, NEW c, HeadsTable(o, key, name, c)
    PROVE  /\ TableText(o, key, c) \in Texts
           /\ \A past \in BOOLEAN : LineReads(TableText(o, key, c), <<name>>, past, TRUE)
<1> DEFINE lf == <<LF>>
           line == o \o (key \o c)
           entry == Entry \o lf
<1>1. lf \in Texts /\ Entry \in Texts
    BY FixedTexts
<1>a. o \in Texts /\ key \in Texts /\ name \in Texts /\ c \in Texts
    BY DEF HeadsTable
<1>b. IsOpen(o) /\ IsKey(key, name) /\ IsRest(c) /\ c[1] \in Marks \ Bare
    BY DEF HeadsTable
<1>2. entry \in Texts /\ LineReads(entry, <<>>, TRUE, TRUE)
    BY EntryRead
<1> HIDE DEF lf
<1>3. line \in Texts
    <2> DEFINE kc == key \o c
    <2>1. kc \in Texts
        BY <1>a, ConcatTyped
    <2> HIDE DEF kc
    <2>2. o \o kc \in Texts
        BY <1>a, <2>1, ConcatTyped
    <2> QED
        BY <2>2 DEF kc
<1>4. TableText(o, key, c) = line \o entry
    <2>1. (o \o key) \o c = line
        BY <1>a, Regroup
    <2>2. (line \o Entry) \o lf = line \o entry
        <3> HIDE DEF line
        <3> QED
            BY <1>1, <1>3, Regroup
    <2>3. TableText(o, key, c) = (((o \o key) \o c) \o Entry) \o lf
        BY DEF TableText, lf
    <2> QED
        BY <2>1, <2>2, <2>3
<1>5. line \o entry \in Texts
    <2> HIDE DEF line, entry
    <2> QED
        BY <1>2, <1>3, ConcatTyped
<1>6. ASSUME NEW past \in BOOLEAN PROVE LineReads(line \o entry, <<name>>, past, TRUE)
    <2> DEFINE none == <<>>
               named == <<name>>
    <2>1. LineReads(line, named, past, TRUE)
        BY <1>a, <1>b, HeaderLineReads
    <2>2. none \in NamesSeq /\ named \in NamesSeq
        BY <1>a, NamesTyped
    <2>3. named \o none = named
        BY <2>2, ConcatEmptySeq DEF NamesSeq
    <2>4. LineReads(entry, none, TRUE, TRUE)
        BY <1>2
    <2> HIDE DEF none, named, line, entry
    <2>5. LineReads(line \o entry, named \o none, past, TRUE)
        BY <1>2, <1>3, <2>1, <2>2, <2>4, LinesRead
    <2> QED
        BY <2>3, <2>5 DEF named
<1> HIDE DEF line, entry
<1> QED
    BY <1>4, <1>5, <1>6

(* A key joins the keys that are recorded, unless it is one of them. *)
WithName(known, name) == IF name \in ToSet(known) THEN known ELSE Append(known, name)

(* Names that add one key to those before them. *)
Adds(names, name) ==
    \A front \in NamesSeq : Recorded(front \o names) = WithName(Recorded(front), name)

(* A name adds itself. *)
LEMMA AddsOne ==
    ASSUME NEW name \in Texts
    PROVE  Adds(<<name>>, name)
<1> SUFFICES ASSUME NEW front \in NamesSeq
             PROVE  Recorded(front \o <<name>>) = WithName(Recorded(front), name)
    BY DEF Adds
<1>1. front \in Seq(Texts)
    BY DEF NamesSeq, Texts
<1>2. front \o <<name>> = Append(front, name)
    BY <1>1, AppendIsConcat
<1>3. ToSet(Recorded(front)) = ToSet(front)
    BY <1>1, RecordedIs
<1>4. Recorded(Append(front, name)) =
        IF name \in ToSet(front) THEN Recorded(front) ELSE Append(Recorded(front), name)
    BY <1>1, RecordedAppend
<1> QED
    BY <1>2, <1>3, <1>4 DEF WithName

(* A key that is added twice is there once. *)
LEMMA WithNameTwice ==
    ASSUME NEW known \in NamesSeq, NEW name \in Texts
    PROVE  WithName(WithName(known, name), name) = WithName(known, name)
<1>1. CASE name \in ToSet(known)
    BY <1>1 DEF WithName
<1>2. CASE name \notin ToSet(known)
    <2> DEFINE more == Append(known, name)
    <2>1. WithName(known, name) = more
        BY <1>2 DEF WithName
    <2>2. known \in Seq(Texts)
        BY DEF NamesSeq, Texts
    <2>3. more \in Seq(Texts) /\ Len(more) = Len(known) + 1 /\ more[Len(known) + 1] = name
          /\ Len(known) \in Nat
        BY <2>2, AppendProperties
    <2> HIDE DEF more
    <2>4. name \in ToSet(more)
        <3>1. Len(known) + 1 \in 1..Len(more)
            BY <2>3
        <3> QED
            BY <2>3, <3>1, ToSetIs
    <2>5. WithName(more, name) = more
        BY <2>4 DEF WithName
    <2> QED
        BY <2>1, <2>5
<1> QED
    BY <1>1, <1>2

(* Names that add a key, followed by names that add it, add it. *)
LEMMA AddsTwice ==
    ASSUME NEW m \in NamesSeq, NEW n \in NamesSeq, NEW name \in Texts, Adds(m, name), Adds(n, name)
    PROVE  m \o n \in NamesSeq /\ Adds(m \o n, name)
<1>1. m \o n \in NamesSeq
    BY ConcatProperties DEF NamesSeq
<1>2. ASSUME NEW front \in NamesSeq
      PROVE  Recorded(front \o (m \o n)) = WithName(Recorded(front), name)
    <2> DEFINE fm == front \o m
    <2>1. fm \in NamesSeq
        BY ConcatProperties DEF NamesSeq
    <2>2. front \o (m \o n) = fm \o n
        BY ConcatAssociative DEF NamesSeq
    <2>3. Recorded(fm) = WithName(Recorded(front), name)
        BY DEF Adds
    <2> HIDE DEF fm
    <2>4. Recorded(fm \o n) = WithName(Recorded(fm), name)
        BY <2>1 DEF Adds
    <2>5. Recorded(front) \in NamesSeq
        BY RecordedIs DEF NamesSeq
    <2>6. WithName(WithName(Recorded(front), name), name) = WithName(Recorded(front), name)
        BY <2>5, WithNameTwice
    <2> QED
        BY <2>2, <2>3, <2>4, <2>6
<1> QED
    BY <1>1, <1>2 DEF Adds

(* A text that gives the lexer one key, or none. *)
Writes(text, name, past, after, counted) ==
    \E names \in NamesSeq :
        /\ LineReads(text, names, past, after)
        /\ counted => Adds(names, name)
        /\ ~counted => names = <<>>

(* A text that gives the lexer one name adds that key. *)
LEMMA NamedWrites ==
    ASSUME NEW text, NEW name \in Texts, NEW past, NEW after, LineReads(text, <<name>>, past, after)
    PROVE  Writes(text, name, past, after, TRUE)
<1>1. <<name>> \in NamesSeq
    BY NamesTyped
<1>2. Adds(<<name>>, name)
    BY AddsOne
<1> QED
    BY <1>1, <1>2 DEF Writes

(* Two tables of one name, one after the other, add one key. *)
LEMMA WritesTwice ==
    ASSUME NEW s \in Texts, NEW t \in Texts, NEW name \in Texts, NEW p \in BOOLEAN,
           Writes(s, name, p, TRUE, TRUE), Writes(t, name, TRUE, TRUE, TRUE)
    PROVE  Writes(s \o t, name, p, TRUE, TRUE)
<1>1. PICK m \in NamesSeq : LineReads(s, m, p, TRUE) /\ Adds(m, name)
    BY DEF Writes
<1>2. PICK n \in NamesSeq : LineReads(t, n, TRUE, TRUE) /\ Adds(n, name)
    BY DEF Writes
<1>3. m \o n \in NamesSeq /\ Adds(m \o n, name)
    BY <1>1, <1>2, AddsTwice
<1>4. LineReads(s \o t, m \o n, p, TRUE)
    BY <1>1, <1>2, LinesRead
<1> QED
    BY <1>3, <1>4 DEF Writes

(* The ends of headers. *)
LEMMA HeaderEnds ==
    /\ <<"]", LF>> \in Texts /\ IsRest(<<"]", LF>>) /\ <<"]", LF>>[1] \in Marks \ Bare
    /\ <<"]", "]", LF>> \in Texts /\ IsRest(<<"]", "]", LF>>)
    /\ <<"]", "]", LF>>[1] \in Marks \ Bare
<1> DEFINE one == <<"]", LF>>
           two == <<"]", "]", LF>>
<1>1. one \in Texts /\ two \in Texts
    BY FixedTexts
<1>2. "]" \in Marks \ Bare /\ "]" # LF
    BY AreMarks, BareMarks, SomeMarks
<1>3. Len(one) = 2 /\ one[1] = "]" /\ one[2] = LF
    OBVIOUS
<1>4. Len(two) = 3 /\ two[1] = "]" /\ two[2] = "]" /\ two[3] = LF
    OBVIOUS
<1> HIDE DEF one, two
<1>5. IsRest(one)
    BY <1>2, <1>3 DEF IsRest
<1>6. IsRest(two)
    BY <1>2, <1>4 DEF IsRest
<1> QED
    BY <1>1, <1>2, <1>3, <1>4, <1>5, <1>6 DEF one, two

(* How a field is written. *)
TableOf(name) == TableText(<<"[">>, EncodeKey(name), <<"]", LF>>)

(* One of the tables in a list of them. *)
ElementOf(name) == TableText(<<"[", "[">>, EncodeKey(name), <<"]", "]", LF>>)

(* What EncodeField writes: a line, a table, or a table for every          *)
(* element.                                                                *)
LEMMA FieldIs ==
    ASSUME NEW name, NEW value \in Values
    PROVE  /\ ~UnderHeader(value) =>
                EncodeField(name, value) = AssignText(EncodeKey(name), EncodeInline(value))
           /\ UnderHeader(value) /\ value.kind = "map" => EncodeField(name, value) = TableOf(name)
           /\ UnderHeader(value) /\ value.kind # "map" =>
                EncodeField(name, value) = FlattenSeq([i \in DOMAIN value.elems |-> ElementOf(name)])
<1>1. ASSUME ~UnderHeader(value)
      PROVE  EncodeField(name, value) = AssignText(EncodeKey(name), EncodeInline(value))
    <2>1. value.kind # "map"
        BY <1>1 DEF UnderHeader
    <2> QED
        BY <1>1, <2>1, Zenon DEF EncodeField, AssignText, Assign
<1>2. ASSUME UnderHeader(value), value.kind = "map"
      PROVE  EncodeField(name, value) = TableOf(name)
    BY <1>2, Zenon DEF EncodeField, TableOf, TableText
<1>3. ASSUME UnderHeader(value), value.kind # "map"
      PROVE  EncodeField(name, value) = FlattenSeq([i \in DOMAIN value.elems |-> ElementOf(name)])
    BY <1>3, Zenon DEF EncodeField, ElementOf, TableText
<1> QED
    BY <1>1, <1>2, <1>3

(* Each of these tables adds its name. *)
LEMMA TablesWrite ==
    ASSUME NEW name \in ToSet(Names)
    PROVE  /\ TableOf(name) \in Texts /\ ElementOf(name) \in Texts
           /\ \A past \in BOOLEAN : /\ Writes(TableOf(name), name, past, TRUE, TRUE)
                                    /\ Writes(ElementOf(name), name, past, TRUE, TRUE)
<1>1. name \in Texts /\ LF \notin ToSet(name)
    BY NameIs
<1> DEFINE key == EncodeKey(name)
           o == <<"[">>
           oo == <<"[", "[">>
           c == <<"]", LF>>
           cc == <<"]", "]", LF>>
<1>2. key \in Texts /\ IsKey(key, name)
    BY <1>1, EncodedIsKey
<1>3. o \in Texts /\ oo \in Texts
    BY FixedTexts
<1>4. IsOpen(o) /\ IsOpen(oo)
    BY OpensTable, OpensList
<1>5. c \in Texts /\ IsRest(c) /\ c[1] \in Marks \ Bare
    BY HeaderEnds
<1>6. cc \in Texts /\ IsRest(cc) /\ cc[1] \in Marks \ Bare
    BY HeaderEnds
<1>7. TableOf(name) = TableText(o, key, c) /\ ElementOf(name) = TableText(oo, key, cc)
    BY DEF TableOf, ElementOf
<1> HIDE DEF key, o, oo, c, cc
<1>8. /\ TableText(o, key, c) \in Texts
      /\ \A past \in BOOLEAN : LineReads(TableText(o, key, c), <<name>>, past, TRUE)
    <2>1. c \in Texts
        BY <1>5
    <2>2. IsRest(c)
        BY <1>5
    <2>3. c[1] \in Marks \ Bare
        BY <1>5
    <2>4. o \in Texts
        BY <1>3
    <2>5. IsOpen(o)
        BY <1>4
    <2>6. name \in Texts
        BY <1>1
    <2>7. key \in Texts
        BY <1>2
    <2>8. IsKey(key, name)
        BY <1>2
    <2> QED
        BY ONLY <2>1, <2>2, <2>3, <2>4, <2>5, <2>6, <2>7, <2>8, TableRead DEF HeadsTable
<1>9. /\ TableText(oo, key, cc) \in Texts
      /\ \A past \in BOOLEAN : LineReads(TableText(oo, key, cc), <<name>>, past, TRUE)
    <2>1. cc \in Texts
        BY <1>6
    <2>2. IsRest(cc)
        BY <1>6
    <2>3. cc[1] \in Marks \ Bare
        BY <1>6
    <2>4. oo \in Texts
        BY <1>3
    <2>5. IsOpen(oo)
        BY <1>4
    <2>6. name \in Texts
        BY <1>1
    <2>7. key \in Texts
        BY <1>2
    <2>8. IsKey(key, name)
        BY <1>2
    <2> QED
        BY ONLY <2>1, <2>2, <2>3, <2>4, <2>5, <2>6, <2>7, <2>8, TableRead DEF HeadsTable
<1> QED
    BY <1>1, <1>7, <1>8, <1>9, NamedWrites

(* A list of maps is one table after another, under one name. *)
LEMMA ListWrites ==
    ASSUME NEW name \in ToSet(Names), NEW value \in Values, UnderHeader(value),
           value.kind # "map"
    PROVE  /\ EncodeField(name, value) \in Texts
           /\ \A past \in BOOLEAN : Writes(EncodeField(name, value), name, past, TRUE, TRUE)
<1> DEFINE t == ElementOf(name)
           s == [i \in DOMAIN value.elems |-> t]
<1>1. name \in Texts
    BY NameIs
<1>2. EncodeField(name, value) = FlattenSeq(s)
    BY FieldIs
<1>3. t \in Texts /\ \A past \in BOOLEAN : Writes(t, name, past, TRUE, TRUE)
    BY TablesWrite
<1>4. value.kind = "list" /\ value.elems # <<>>
    BY DEF UnderHeader
<1>5. DOMAIN value.elems = 1..Len(value.elems) /\ Len(value.elems) \in 0..2
      /\ value.elems \in Seq(Values)
    BY <1>4, ValueShape DEF IsListOf
<1>6. Len(value.elems) \in 1..2
    <2>1. Len(value.elems) # 0
        BY <1>4, <1>5, EmptySeq
    <2> QED
        BY <1>5, <2>1
<1> DEFINE n == Len(value.elems)
<1>7. s = [i \in 1..n |-> t] /\ n \in 1..2
    BY <1>5, <1>6
<1> HIDE DEF s, n, t
<1>8. s \in Seq(Texts) /\ Len(s) = n /\ \A i \in 1..n : s[i] = t
    BY <1>3, <1>7
<1>9. /\ FlattenSeq(s) = Joined(s, n) /\ Joined(s, 0) = <<>>
      /\ \A i \in 1..n : Joined(s, i) = Joined(s, i - 1) \o t
    <2>1. s \in Seq(Seq(Marks))
        BY <1>8 DEF Texts
    <2>2. /\ Joined(s, 0) = <<>>
          /\ \A i \in 1..Len(s) : Joined(s, i) = Joined(s, i - 1) \o s[i] /\ s[i] \in Seq(Marks)
          /\ FlattenSeq(s) = Joined(s, Len(s))
        BY <2>1, JoinedIs
    <2> QED
        BY <1>8, <2>2
<1>10. Joined(s, 1) = t
    <2>1. 1 \in 1..n /\ 1 - 1 = 0
        BY <1>7
    <2>2. <<>> \o t = t
        BY <1>3, ConcatEmptySeq DEF Texts
    <2> QED
        BY <1>9, <2>1, <2>2
<1>11. CASE n = 1
    BY <1>2, <1>3, <1>9, <1>10, <1>11
<1>12. CASE n = 2
    <2>1. 2 \in 1..n /\ 2 - 1 = 1
        BY <1>12
    <2>2. FlattenSeq(s) = t \o t
        BY <1>9, <1>10, <1>12, <2>1
    <2>3. t \o t \in Texts
        BY <1>3, ConcatTyped
    <2>4. ASSUME NEW past \in BOOLEAN PROVE Writes(t \o t, name, past, TRUE, TRUE)
        BY <1>1, <1>3, WritesTwice
    <2> QED
        BY <1>2, <2>2, <2>3, <2>4
<1>13. n = 1 \/ n = 2
    BY <1>7
<1> QED
    BY <1>11, <1>12, <1>13

(* A field, as the lexer reads it: its name counts under a header of its   *)
(* own, and as long as there is no other header before it.                 *)
LEMMA FieldWrites ==
    ASSUME NEW name \in ToSet(Names), NEW value \in Values
    PROVE  /\ EncodeField(name, value) \in Texts
           /\ \A past \in BOOLEAN :
                Writes(EncodeField(name, value), name, past, past \/ UnderHeader(value),
                       UnderHeader(value) \/ ~past)
<1>1. name \in Texts /\ LF \notin ToSet(name)
    BY NameIs
<1>2. CASE ~UnderHeader(value)
    <2> DEFINE key == EncodeKey(name)
               text == EncodeInline(value)
               line == AssignText(key, text)
    <2>1. key \in Texts /\ IsKey(key, name)
        BY <1>1, EncodedIsKey
    <2>2. text \in Texts /\ Skips(text, 0)
        <3>1. text = InlinePast[value]
            BY InlineUnfolded
        <3>2. text \in Texts
            BY EncodeInlineTyped
        <3>3. Skips(InlinePast[value], 0)
            BY InlineSkipped
        <3> QED
            BY <3>1, <3>2, <3>3
    <2>3. EncodeField(name, value) = line
        BY <1>2, FieldIs
    <2> HIDE DEF key, text
    <2>4. /\ line \in Texts
          /\ \A past \in BOOLEAN : LineReads(line, LineNames(name, past), past, past)
        BY <1>1, <2>1, <2>2, AssignRead
    <2> HIDE DEF line
    <2>5. ASSUME NEW past \in BOOLEAN PROVE Writes(line, name, past, past, ~past)
        <3>1. CASE past = TRUE
            <4>1. LineReads(line, <<>>, TRUE, TRUE)
                BY <2>4, <3>1 DEF LineNames
            <4> QED
                BY <3>1, <4>1, NamesTyped DEF Writes
        <3>2. CASE past = FALSE
            <4>1. LineReads(line, <<name>>, FALSE, FALSE)
                BY <2>4, <3>2 DEF LineNames
            <4>2. Writes(line, name, FALSE, FALSE, TRUE)
                BY <1>1, <4>1, NamedWrites
            <4> QED
                BY <3>2, <4>2
        <3> QED
            BY <3>1, <3>2
    <2>6. ASSUME NEW past \in BOOLEAN
          PROVE  /\ (past \/ UnderHeader(value)) = past
                 /\ (UnderHeader(value) \/ ~past) = ~past
        BY <1>2
    <2> QED
        BY <2>3, <2>4, <2>5, <2>6
<1>3. CASE UnderHeader(value)
    <2>1. ASSUME NEW past \in BOOLEAN
          PROVE  /\ (past \/ UnderHeader(value)) = TRUE
                 /\ (UnderHeader(value) \/ ~past) = TRUE
        BY <1>3
    <2>2. /\ EncodeField(name, value) \in Texts
          /\ \A past \in BOOLEAN : Writes(EncodeField(name, value), name, past, TRUE, TRUE)
        <3>1. CASE value.kind = "map"
            <4>1. EncodeField(name, value) = TableOf(name)
                BY <1>3, <3>1, FieldIs
            <4> QED
                BY <4>1, TablesWrite
        <3>2. CASE value.kind # "map"
            BY <1>3, <3>2, ListWrites
        <3> QED
            BY <3>1, <3>2
    <2> QED
        BY <2>1, <2>2
<1> QED
    BY <1>2, <1>3

------------------------------------------------------------------------------
(***************************************************************************)
(* The block the encoder writes.                                           *)
(***************************************************************************)
(* The texts of the fields, the names that count among them, and whether   *)
(* one of the first k is written under a header.                           *)
TextsOf(wanted, order) == [i \in DOMAIN order |-> EncodeField(order[i], wanted[order[i]])]

(* The names that count: those of tables, and of lines before all          *)
(* tables.                                                                 *)
CountedIn(wanted, order) ==
    {name \in ToSet(order) :
        \/ UnderHeader(wanted[name])
        \/ \A i \in DOMAIN order :
              UnderHeader(wanted[order[i]]) =>
                  \E j \in DOMAIN order : order[j] = name /\ j < i}

(* For each field its name, if it counts. *)
PiecesOf(wanted, order) ==
    [i \in DOMAIN order |->
        IF order[i] \in CountedIn(wanted, order) THEN <<order[i]>> ELSE <<>>]

(* Whether a table is among the first k fields. *)
PastAt(wanted, order, k) == \E i \in 1..k : UnderHeader(wanted[order[i]])

(* An order in which the fields of a block may be written. *)
IsOrder(order, wanted) ==
    /\ order \in NamesSeq
    /\ Distinct(order)
    /\ ToSet(order) \subseteq ToSet(Names)
    /\ \A name \in ToSet(order) : wanted[name] \in Values

(* What is known of each of them. *)
LEMMA OrderIs ==
    ASSUME NEW order, NEW wanted, IsOrder(order, wanted)
    PROVE  /\ Len(order) \in Nat /\ DOMAIN order = 1..Len(order)
           /\ \A i \in 1..Len(order) : /\ order[i] \in ToSet(order)
                                       /\ order[i] \in ToSet(Names)
                                       /\ order[i] \in Texts
                                       /\ wanted[order[i]] \in Values
           /\ \A i, j \in 1..Len(order) : order[i] = order[j] => i = j
<1>1. order \in Seq(Texts)
    BY DEF IsOrder, NamesSeq, Texts
<1>2. Len(order) \in Nat /\ DOMAIN order = 1..Len(order)
    BY <1>1, ToSetIs
<1>3. \A i \in 1..Len(order) : order[i] \in ToSet(order)
    BY <1>1, ToSetIs
<1>4. \A i \in 1..Len(order) : order[i] \in Texts
    BY <1>1, <1>2
<1>5. \A i, j \in 1..Len(order) : order[i] = order[j] => i = j
    BY <1>2 DEF IsOrder, Distinct
<1> QED
    BY <1>2, <1>3, <1>4, <1>5 DEF IsOrder

(* A name counts under its own header, or before every other one. *)
LEMMA CountedIs ==
    ASSUME NEW order, NEW wanted, IsOrder(order, wanted), NEW k \in 1..Len(order)
    PROVE  order[k] \in CountedIn(wanted, order) <=>
             UnderHeader(wanted[order[k]]) \/ ~PastAt(wanted, order, k - 1)
<1> DEFINE under(i) == UnderHeader(wanted[order[i]])
           early == \A i \in DOMAIN order :
                        under(i) => \E j \in DOMAIN order : order[j] = order[k] /\ j < i
<1>1. /\ Len(order) \in Nat /\ DOMAIN order = 1..Len(order)
      /\ order[k] \in ToSet(order)
      /\ \A i, j \in 1..Len(order) : order[i] = order[j] => i = j
    BY OrderIs
<1>2. order[k] \in CountedIn(wanted, order) <=> under(k) \/ early
    BY <1>1 DEF CountedIn
<1>3. PastAt(wanted, order, k - 1) <=> \E i \in 1..(k - 1) : under(i)
    BY DEF PastAt
<1> HIDE DEF under
<1>4. ASSUME ~under(k), early PROVE ~\E i \in 1..(k - 1) : under(i)
    <2> SUFFICES ASSUME NEW i \in 1..(k - 1), under(i) PROVE FALSE
        OBVIOUS
    <2>1. i \in DOMAIN order
        BY <1>1
    <2>2. PICK j \in DOMAIN order : order[j] = order[k] /\ j < i
        BY <1>4, <2>1
    <2>3. j = k
        BY <1>1, <2>2
    <2> QED
        BY <1>1, <2>2, <2>3
<1>5. ASSUME ~under(k), ~\E i \in 1..(k - 1) : under(i) PROVE early
    <2> SUFFICES ASSUME NEW i \in DOMAIN order, under(i)
                 PROVE  \E j \in DOMAIN order : order[j] = order[k] /\ j < i
        OBVIOUS
    <2>1. i # k /\ i \notin 1..(k - 1)
        BY <1>5
    <2>2. k < i
        BY <1>1, <2>1
    <2> QED
        BY <1>1, <2>2
<1> HIDE DEF early
<1>6. order[k] \in CountedIn(wanted, order) <=> under(k) \/ ~PastAt(wanted, order, k - 1)
    BY <1>2, <1>3, <1>4, <1>5
<1> QED
    BY <1>6 DEF under

(* A table opens with the first field that is one. *)
LEMMA PastGrows ==
    ASSUME NEW order, NEW wanted, NEW k \in Nat, k >= 1
    PROVE  /\ PastAt(wanted, order, k) =
                (PastAt(wanted, order, k - 1) \/ UnderHeader(wanted[order[k]]))
           /\ PastAt(wanted, order, k) \in BOOLEAN
           /\ PastAt(wanted, order, k - 1) \in BOOLEAN
<1>1. 1..k = 1..(k - 1) \cup {k}
    OBVIOUS
<1>2. PastAt(wanted, order, k) <=>
        (PastAt(wanted, order, k - 1) \/ UnderHeader(wanted[order[k]]))
    BY <1>1 DEF PastAt
<1>3. PastAt(wanted, order, k) \in BOOLEAN /\ PastAt(wanted, order, k - 1) \in BOOLEAN
    BY DEF PastAt
<1> QED
    BY <1>2, <1>3

(* What the lexer makes of the first k fields. *)
ReadUpTo(wanted, order, k) ==
    /\ \A x \in ToSet(Joined(PiecesOf(wanted, order), k)) : \E i \in 1..k : order[i] = x
    /\ \E names \in NamesSeq :
          /\ LineReads(Joined(TextsOf(wanted, order), k), names, FALSE, PastAt(wanted, order, k))
          /\ Recorded(names) = Joined(PiecesOf(wanted, order), k)

(* The texts and the names that count, one for each field. *)
LEMMA OrderJoins ==
    ASSUME NEW order, NEW wanted, IsOrder(order, wanted)
    PROVE  /\ TextsOf(wanted, order) \in Seq(Texts)
           /\ Len(TextsOf(wanted, order)) = Len(order)
           /\ PiecesOf(wanted, order) \in Seq(NamesSeq)
           /\ Len(PiecesOf(wanted, order)) = Len(order)
           /\ \A i \in 1..Len(order) :
                /\ TextsOf(wanted, order)[i] = EncodeField(order[i], wanted[order[i]])
                /\ PiecesOf(wanted, order)[i] =
                     IF order[i] \in CountedIn(wanted, order) THEN <<order[i]>> ELSE <<>>
<1> DEFINE n == Len(order)
           text(i) == EncodeField(order[i], wanted[order[i]])
           piece(i) == IF order[i] \in CountedIn(wanted, order) THEN <<order[i]>> ELSE <<>>
<1>1. /\ n \in Nat /\ DOMAIN order = 1..n
      /\ \A i \in 1..n : /\ order[i] \in ToSet(Names) /\ order[i] \in Texts
                         /\ wanted[order[i]] \in Values
    BY OrderIs
<1>2. \A i \in 1..n : text(i) \in Texts
    BY <1>1, FieldWrites
<1>3. \A i \in 1..n : piece(i) \in NamesSeq
    BY <1>1, NamesTyped
<1>4. TextsOf(wanted, order) = [i \in 1..n |-> text(i)]
    BY <1>1 DEF TextsOf
<1>5. PiecesOf(wanted, order) = [i \in 1..n |-> piece(i)]
    BY <1>1 DEF PiecesOf
<1> HIDE DEF n, text, piece
<1>6. TextsOf(wanted, order) \in Seq(Texts) /\ Len(TextsOf(wanted, order)) = n
      /\ \A i \in 1..n : TextsOf(wanted, order)[i] = text(i)
    BY <1>1, <1>2, <1>4
<1>7. PiecesOf(wanted, order) \in Seq(NamesSeq) /\ Len(PiecesOf(wanted, order)) = n
      /\ \A i \in 1..n : PiecesOf(wanted, order)[i] = piece(i)
    BY <1>1, <1>3, <1>5
<1> QED
    BY <1>6, <1>7 DEF n, text, piece

(* Before the first field there is nothing to read. *)
LEMMA ReadNone ==
    ASSUME NEW order, NEW wanted, IsOrder(order, wanted)
    PROVE  ReadUpTo(wanted, order, 0)
<1> DEFINE none == <<>>
<1>1. Joined(TextsOf(wanted, order), 0) = none /\ Joined(PiecesOf(wanted, order), 0) = none
    BY DEF Joined
<1>2. none \in NamesSeq /\ none \in Seq(Texts)
    BY NamesTyped DEF NamesSeq, Texts
<1>3. ToSet(none) = {}
    <2>1. Len(none) = 0
        OBVIOUS
    <2> HIDE DEF none
    <2> SUFFICES ASSUME NEW x \in ToSet(none) PROVE FALSE
        OBVIOUS
    <2>2. none \in Seq(Texts)
        BY <1>2
    <2>3. PICK i \in 1..Len(none) : none[i] = x
        BY <2>2, ToSetIs
    <2> QED
        BY <2>1, <2>3
<1>4. Recorded(none) = none
    <2>1. Recorded(none) \in Seq(Texts) /\ ToSet(Recorded(none)) = {}
        BY <1>2, <1>3, RecordedIs
    <2>2. Len(Recorded(none)) = 0
        <3> DEFINE r == Recorded(none)
        <3> HIDE DEF r
        <3>1. r \in Seq(Texts) /\ ToSet(r) = {}
            BY <2>1 DEF r
        <3>2. Len(r) \in Nat /\ 1 \notin 1..Len(r)
            BY <3>1, ToSetIs
        <3> QED
            BY <3>2 DEF r
    <2> QED
        BY <2>1, <2>2, EmptySeq
<1>5. ~PastAt(wanted, order, 0)
    BY DEF PastAt
<1>6. PastAt(wanted, order, 0) = FALSE
    BY <1>5 DEF PastAt
<1>7. LineReads(none, none, FALSE, FALSE)
    BY NothingReads
<1> HIDE DEF none
<1> QED
    BY <1>1, <1>2, <1>3, <1>4, <1>6, <1>7 DEF ReadUpTo

(* Every field adds its name where it counts, and nothing where it does    *)
(* not.                                                                    *)
LEMMA ReadNext ==
    ASSUME NEW order, NEW wanted, IsOrder(order, wanted), NEW k \in 1..Len(order),
           ReadUpTo(wanted, order, k - 1)
    PROVE  ReadUpTo(wanted, order, k)
<1> DEFINE name == order[k]
           value == wanted[name]
           text == EncodeField(name, value)
           before == Joined(TextsOf(wanted, order), k - 1)
           known == Joined(PiecesOf(wanted, order), k - 1)
           p == PastAt(wanted, order, k - 1)
           q == PastAt(wanted, order, k)
           under == UnderHeader(value)
           counted == under \/ ~p
           piece == IF counted THEN <<name>> ELSE <<>>
<1>1. /\ Len(order) \in Nat
      /\ name \in ToSet(Names) /\ name \in Texts /\ value \in Values
      /\ \A i, j \in 1..Len(order) : order[i] = order[j] => i = j
    BY OrderIs
<1>2. k \in Nat /\ k >= 1 /\ k - 1 \in 0..Len(order) /\ 1..k = 1..(k - 1) \cup {k}
    BY <1>1
<1>3. name \in CountedIn(wanted, order) <=> counted
    BY CountedIs
<1>4. /\ Joined(TextsOf(wanted, order), k) = before \o text
      /\ before \in Texts
    <2>1. TextsOf(wanted, order) \in Seq(Seq(Marks)) /\ Len(TextsOf(wanted, order)) = Len(order)
          /\ TextsOf(wanted, order)[k] = text
        BY OrderJoins DEF Texts
    <2>2. /\ Joined(TextsOf(wanted, order), k - 1) \in Seq(Marks)
          /\ Joined(TextsOf(wanted, order), k) =
               Joined(TextsOf(wanted, order), k - 1) \o TextsOf(wanted, order)[k]
        BY <1>2, <2>1, JoinedIs
    <2> QED
        BY <2>1, <2>2 DEF Texts
<1>5. /\ Joined(PiecesOf(wanted, order), k) = known \o piece
      /\ known \in NamesSeq
    <2>1. PiecesOf(wanted, order) \in Seq(Seq(Texts)) /\ Len(PiecesOf(wanted, order)) = Len(order)
        BY OrderJoins DEF Texts, NamesSeq
    <2>2. PiecesOf(wanted, order)[k] = piece
        BY <1>3, OrderJoins
    <2>3. /\ Joined(PiecesOf(wanted, order), k - 1) \in Seq(Texts)
          /\ Joined(PiecesOf(wanted, order), k) =
               Joined(PiecesOf(wanted, order), k - 1) \o PiecesOf(wanted, order)[k]
        BY <1>2, <2>1, JoinedIs
    <2> QED
        BY <2>2, <2>3 DEF Texts, NamesSeq
<1>6. q = (p \/ under) /\ p \in BOOLEAN /\ q \in BOOLEAN
    BY <1>2, PastGrows
<1>7. text \in Texts /\ Writes(text, name, p, p \/ under, counted)
    <2> HIDE DEF p, name, value
    <2> QED
        BY <1>1, <1>6, FieldWrites
<1>8. /\ \A x \in ToSet(known) : \E i \in 1..(k - 1) : order[i] = x
      /\ \E names \in NamesSeq : LineReads(before, names, FALSE, p) /\ Recorded(names) = known
    BY DEF ReadUpTo
<1>9. PICK names \in NamesSeq : LineReads(before, names, FALSE, p) /\ Recorded(names) = known
    BY <1>8
<1>10. PICK new \in NamesSeq :
           /\ LineReads(text, new, p, p \/ under)
           /\ counted => Adds(new, name)
           /\ ~counted => new = <<>>
    BY <1>7 DEF Writes
<1>11. name \notin ToSet(known)
    <2> SUFFICES ASSUME name \in ToSet(known) PROVE FALSE
        OBVIOUS
    <2>1. PICK i \in 1..(k - 1) : order[i] = order[k]
        BY <1>8
    <2>2. i \in 1..Len(order) /\ k \in 1..Len(order) /\ i # k
        BY <1>2
    <2> QED
        BY <1>1, <2>1, <2>2
<1>12. names \o new \in NamesSeq
    BY ConcatProperties DEF NamesSeq
<1>13. LineReads(before \o text, names \o new, FALSE, q)
    <2> HIDE DEF before, text, p, q, under
    <2>1. LineReads(text, new, p, q)
        BY <1>6, <1>10
    <2> QED
        BY <1>4, <1>6, <1>7, <1>9, <2>1, LinesRead
<1>14. Recorded(names \o new) = known \o piece
    <2> HIDE DEF known, name, under, p
    <2>1. CASE counted
        <3>1. Recorded(names \o new) = WithName(known, name)
            BY <1>9, <1>10, <2>1 DEF Adds
        <3>2. WithName(known, name) = Append(known, name)
            BY <1>11 DEF WithName
        <3>3. Append(known, name) = known \o <<name>>
            BY <1>1, <1>5, AppendIsConcat DEF NamesSeq, Texts
        <3> QED
            BY <2>1, <3>1, <3>2, <3>3
    <2>2. CASE ~counted
        <3>1. names \o <<>> = names /\ known \o <<>> = known
            BY <1>5, ConcatEmptySeq DEF NamesSeq
        <3> QED
            BY <1>9, <1>10, <2>2, <3>1
    <2> QED
        BY <2>1, <2>2
<1>15. ASSUME NEW x \in ToSet(known \o piece) PROVE \E i \in 1..k : order[i] = x
    <2>1. CASE counted
        <3> DEFINE more == Append(known, name)
        <3> HIDE DEF known
        <3>1. known \in Seq(Texts) /\ name \in Texts
            BY <1>1, <1>5 DEF NamesSeq, Texts
        <3>2. known \o piece = more
            BY <2>1, <3>1, AppendIsConcat
        <3>3. /\ more \in Seq(Texts) /\ Len(more) = Len(known) + 1 /\ more[Len(known) + 1] = name
              /\ \A i \in 1..Len(known) : more[i] = known[i]
              /\ Len(known) \in Nat
            BY <3>1, AppendProperties
        <3> HIDE DEF more
        <3>4. PICK l \in 1..Len(more) : more[l] = x
            <4>1. x \in ToSet(more) /\ more \in Seq(Texts)
                BY <3>2, <3>3
            <4> QED
                BY ONLY <4>1, ToSetIs
        <3>5. CASE l = Len(known) + 1
            BY <1>2, <3>3, <3>4, <3>5
        <3>6. CASE l # Len(known) + 1
            <4>1. l \in 1..Len(known)
                BY <3>3, <3>6
            <4>2. x \in ToSet(known)
                BY <3>1, <3>3, <3>4, <4>1, ToSetIs
            <4>3. PICK i \in 1..(k - 1) : order[i] = x
                BY <1>8, <4>2 DEF known
            <4> QED
                BY <1>2, <4>3
        <3> QED
            BY <3>5, <3>6
    <2>2. CASE ~counted
        <3>1. known \o <<>> = known
            BY <1>5, ConcatEmptySeq DEF NamesSeq
        <3>2. x \in ToSet(known)
            BY <1>15, <2>2, <3>1
        <3>3. PICK i \in 1..(k - 1) : order[i] = x
            BY <1>8, <3>2
        <3> QED
            BY <1>2, <3>3
    <2> QED
        BY <2>1, <2>2
<1> HIDE DEF name, value, text, before, known, p, q, under, counted, piece
<1>16. LineReads(Joined(TextsOf(wanted, order), k), names \o new, FALSE, PastAt(wanted, order, k))
    BY <1>4, <1>13 DEF q
<1>17. Recorded(names \o new) = Joined(PiecesOf(wanted, order), k)
    BY <1>5, <1>14
<1>18. \A x \in ToSet(Joined(PiecesOf(wanted, order), k)) : \E i \in 1..k : order[i] = x
    BY <1>5, <1>15
<1> QED
    BY <1>12, <1>16, <1>17, <1>18 DEF ReadUpTo

(* The lexer finds in a block that is written what the decoder makes of it. *)
LEMMA EncodeReads ==
    ASSUME NEW order, NEW wanted, IsOrder(order, wanted)
    PROVE  /\ tomlEncode(wanted, order) \in Texts
           /\ \E names \in NamesSeq, past \in BOOLEAN :
                /\ LineReads(tomlEncode(wanted, order), names, FALSE, past)
                /\ Recorded(names) = TopLevelOf(wanted, order)
<1> DEFINE n == Len(order)
           Bad == {k \in 0..n : ~ReadUpTo(wanted, order, k)}
<1>1. n \in Nat
    BY OrderIs
<1>2. Bad \in SUBSET (0..n) /\ 0 \notin Bad
    BY ReadNone
<1>3. \A k \in Bad : k - 1 \in Bad
    <2> SUFFICES ASSUME NEW k \in Bad PROVE k - 1 \in Bad
        OBVIOUS
    <2>1. k \in 1..n /\ k - 1 \in 0..n
        BY <1>1, <1>2
    <2>2. ReadUpTo(wanted, order, k - 1) => ReadUpTo(wanted, order, k)
        BY <2>1, ReadNext
    <2> QED
        BY <2>1, <2>2
<1>4. Bad = {}
    <2> HIDE DEF Bad, n
    <2> QED
        BY <1>1, <1>2, <1>3, Ascending
<1>5. ReadUpTo(wanted, order, n)
    <2>1. n \in 0..n
        BY <1>1
    <2> QED
        BY <1>4, <2>1
<1>6. tomlEncode(wanted, order) = Joined(TextsOf(wanted, order), n)
      /\ Joined(TextsOf(wanted, order), n) \in Texts
    <2>1. TextsOf(wanted, order) \in Seq(Seq(Marks)) /\ Len(TextsOf(wanted, order)) = n
        BY OrderJoins DEF Texts
    <2>2. FlattenSeq(TextsOf(wanted, order)) = Joined(TextsOf(wanted, order), n)
          /\ Joined(TextsOf(wanted, order), n) \in Seq(Marks)
        <3>1. n \in 0..n
            BY <1>1
        <3> HIDE DEF n
        <3> QED
            BY <2>1, <3>1, JoinedIs
    <2> QED
        BY <2>2 DEF tomlEncode, TextsOf, Texts
<1>7. TopLevelOf(wanted, order) = Joined(PiecesOf(wanted, order), n)
    <2>1. PiecesOf(wanted, order) \in Seq(Seq(Texts)) /\ Len(PiecesOf(wanted, order)) = n
        BY OrderJoins DEF Texts, NamesSeq
    <2>2. FlattenSeq(PiecesOf(wanted, order)) = Joined(PiecesOf(wanted, order), n)
        BY <2>1, JoinedIs
    <2>3. TopLevelOf(wanted, order) = Kept(order, CountedIn(wanted, order))
        BY Zenon DEF TopLevelOf, CountedIn
    <2>4. Kept(order, CountedIn(wanted, order)) = FlattenSeq(PiecesOf(wanted, order))
        BY Zenon DEF Kept, PiecesOf
    <2> QED
        BY <2>2, <2>3, <2>4
<1>8. PICK names \in NamesSeq :
          /\ LineReads(Joined(TextsOf(wanted, order), n), names, FALSE, PastAt(wanted, order, n))
          /\ Recorded(names) = Joined(PiecesOf(wanted, order), n)
    BY <1>5 DEF ReadUpTo
<1>9. PastAt(wanted, order, n) \in BOOLEAN
    BY DEF PastAt
<1> QED
    BY <1>6, <1>7, <1>8, <1>9

------------------------------------------------------------------------------
(***************************************************************************)
(* The order in which the fields are written.                              *)
(***************************************************************************)
(* One sequence after another, none of whose members it has. *)
LEMMA ConcatOrder ==
    ASSUME NEW A, NEW s \in Seq(A), NEW t \in Seq(A)
    PROVE  /\ s \o t \in Seq(A)
           /\ ToSet(s \o t) = ToSet(s) \cup ToSet(t)
           /\ Distinct(s) /\ Distinct(t) /\ ToSet(s) \cap ToSet(t) = {} => Distinct(s \o t)
           /\ \A x, y : Precedes(s, x, y) => Precedes(s \o t, x, y)
           /\ \A x, y : Precedes(t, x, y) => Precedes(s \o t, x, y)
           /\ \A x \in ToSet(s), y \in ToSet(t) : Precedes(s \o t, x, y)
<1> DEFINE st == s \o t
           n == Len(s)
           m == Len(t)
<1>1. st \in Seq(A) /\ Len(st) = n + m
    BY ConcatProperties
<1>2. n \in Nat /\ m \in Nat /\ DOMAIN s = 1..n /\ DOMAIN t = 1..m /\ DOMAIN st = 1..(n + m)
    BY <1>1, LenProperties
<1>3. \A k \in 1..n : st[k] = s[k] /\ k \in 1..(n + m)
    BY <1>2, ConcatProperties
<1>4. \A k \in 1..m : st[n + k] = t[k] /\ n + k \in 1..(n + m)
    BY <1>2, ConcatProperties
<1>5. /\ \A x : x \in ToSet(s) <=> \E i \in 1..n : s[i] = x
      /\ \A x : x \in ToSet(t) <=> \E i \in 1..m : t[i] = x
      /\ \A x : x \in ToSet(st) <=> \E i \in 1..(n + m) : st[i] = x
    <2>1. \A x : x \in ToSet(s) <=> \E i \in 1..n : s[i] = x
        BY ToSetIs
    <2>2. \A x : x \in ToSet(t) <=> \E i \in 1..m : t[i] = x
        BY ToSetIs
    <2>3. \A x : x \in ToSet(st) <=> \E i \in 1..Len(st) : st[i] = x
        <3> HIDE DEF st
        <3> QED
            BY <1>1, ToSetIs
    <2> QED
        BY <1>1, <2>1, <2>2, <2>3
<1> HIDE DEF st, n, m
<1>6. \A k \in 1..(n + m) : k \in 1..n \/ (k - n \in 1..m /\ n + (k - n) = k)
    BY <1>2
<1>7. ToSet(st) = ToSet(s) \cup ToSet(t)
    <2>1. ASSUME NEW x \in ToSet(st) PROVE x \in ToSet(s) \cup ToSet(t)
        <3>1. PICK k \in 1..(n + m) : st[k] = x
            BY <1>5
        <3> QED
            BY <1>3, <1>4, <1>5, <1>6, <3>1
    <2>2. ASSUME NEW x \in ToSet(s) \cup ToSet(t) PROVE x \in ToSet(st)
        BY <1>3, <1>4, <1>5
    <2> QED
        BY <2>1, <2>2
<1>8. ASSUME Distinct(s), Distinct(t), ToSet(s) \cap ToSet(t) = {} PROVE Distinct(st)
    <2> SUFFICES ASSUME NEW i \in 1..(n + m), NEW j \in 1..(n + m), st[i] = st[j] PROVE i = j
        BY <1>2 DEF Distinct
    <2>1. CASE i \in 1..n /\ j \in 1..n
        BY <1>2, <1>3, <1>8, <2>1 DEF Distinct
    <2>2. CASE i \notin 1..n /\ j \notin 1..n
        <3>1. i - n \in 1..m /\ j - n \in 1..m /\ n + (i - n) = i /\ n + (j - n) = j
            BY <1>6, <2>2
        <3>2. t[i - n] = t[j - n]
            BY <1>4, <3>1
        <3>3. i - n = j - n
            BY <1>2, <1>8, <3>1, <3>2 DEF Distinct
        <3> QED
            BY <3>1, <3>3
    <2>3. CASE i \in 1..n /\ j \notin 1..n
        <3>1. st[i] \in ToSet(s)
            BY <1>3, <1>5, <2>3
        <3>2. j - n \in 1..m /\ n + (j - n) = j
            BY <1>6, <2>3
        <3>3. st[j] \in ToSet(t)
            BY <1>4, <1>5, <3>2
        <3> QED
            BY <1>8, <3>1, <3>3
    <2>4. CASE i \notin 1..n /\ j \in 1..n
        <3>1. st[j] \in ToSet(s)
            BY <1>3, <1>5, <2>4
        <3>2. i - n \in 1..m /\ n + (i - n) = i
            BY <1>6, <2>4
        <3>3. st[i] \in ToSet(t)
            BY <1>4, <1>5, <3>2
        <3> QED
            BY <1>8, <3>1, <3>3
    <2> QED
        BY <2>1, <2>2, <2>3, <2>4
<1>9. ASSUME NEW x, NEW y, Precedes(s, x, y) PROVE Precedes(st, x, y)
    <2>1. PICK i, j \in 1..n : i < j /\ s[i] = x /\ s[j] = y
        BY <1>2, <1>9 DEF Precedes
    <2> QED
        BY <1>2, <1>3, <2>1 DEF Precedes
<1>10. ASSUME NEW x, NEW y, Precedes(t, x, y) PROVE Precedes(st, x, y)
    <2>1. PICK i, j \in 1..m : i < j /\ t[i] = x /\ t[j] = y
        BY <1>2, <1>10 DEF Precedes
    <2>2. n + i \in DOMAIN st /\ n + j \in DOMAIN st /\ n + i < n + j
        BY <1>2, <1>4, <2>1
    <2>3. st[n + i] = x /\ st[n + j] = y
        BY <1>4, <2>1
    <2> QED
        BY <2>2, <2>3 DEF Precedes
<1>11. ASSUME NEW x \in ToSet(s), NEW y \in ToSet(t) PROVE Precedes(st, x, y)
    <2>1. PICK i \in 1..n : s[i] = x
        BY <1>5
    <2>2. PICK j \in 1..m : t[j] = y
        BY <1>5
    <2>3. i \in DOMAIN st /\ n + j \in DOMAIN st /\ i < n + j
        BY <1>2, <1>3, <1>4
    <2>4. st[i] = x /\ st[n + j] = y
        BY <1>3, <1>4, <2>1, <2>2
    <2> QED
        BY <2>3, <2>4 DEF Precedes
<1> QED
    BY <1>1, <1>7, <1>8, <1>9, <1>10, <1>11 DEF st

(* The names of the instance, each once. *)
LEMMA NamesAre ==
    Names \in Seq(Texts) /\ Distinct(Names)
    BY TomlBlocksAssumption DEF Texts, Distinct

(* orderedKeys: every field once, the authored ones first.                 *)
LEMMA OrderedKeysAre ==
    ASSUME NEW wanted, DOMAIN wanted \subseteq ToSet(Names),
           NEW authored \in Seq(Texts), Distinct(authored)
    PROVE  /\ orderedKeys(wanted, authored) \in Seq(Texts)
           /\ ToSet(orderedKeys(wanted, authored)) = DOMAIN wanted
           /\ Distinct(orderedKeys(wanted, authored))
           /\ \A one, other \in DOMAIN wanted :
                /\ one \in ToSet(authored)
                /\ other \in ToSet(authored) => Precedes(authored, one, other)
                => Precedes(orderedKeys(wanted, authored), one, other)
<1> DEFINE d == DOMAIN wanted
           old == Kept(authored, d)
           new == Kept(Names, d \ ToSet(authored))
<1>1. /\ old \in Seq(Texts) /\ ToSet(old) = ToSet(authored) \cap d /\ Distinct(old)
      /\ \A x, y \in d : Precedes(authored, x, y) => Precedes(old, x, y)
    BY KeptIs
<1>2. /\ new \in Seq(Texts) /\ ToSet(new) = ToSet(Names) \cap (d \ ToSet(authored))
      /\ Distinct(new)
    BY NamesAre, KeptIs
<1>3. orderedKeys(wanted, authored) = old \o new
    BY DEF orderedKeys
<1> HIDE DEF old, new
<1>4. /\ old \o new \in Seq(Texts)
      /\ ToSet(old \o new) = ToSet(old) \cup ToSet(new)
      /\ Distinct(old) /\ Distinct(new) /\ ToSet(old) \cap ToSet(new) = {} => Distinct(old \o new)
      /\ \A x, y : Precedes(old, x, y) => Precedes(old \o new, x, y)
      /\ \A x \in ToSet(old), y \in ToSet(new) : Precedes(old \o new, x, y)
    BY <1>1, <1>2, ConcatOrder
<1>5. ToSet(old \o new) = d
    BY <1>1, <1>2, <1>4
<1>6. Distinct(old \o new)
    BY <1>1, <1>2, <1>4
<1>7. ASSUME NEW one \in d, NEW other \in d, one \in ToSet(authored),
             other \in ToSet(authored) => Precedes(authored, one, other)
      PROVE  Precedes(old \o new, one, other)
    <2>1. CASE other \in ToSet(authored)
        BY <1>1, <1>4, <1>7, <2>1
    <2>2. CASE other \notin ToSet(authored)
        BY <1>1, <1>2, <1>4, <1>7, <2>2
    <2> QED
        BY <2>1, <2>2
<1> QED
    BY <1>3, <1>4, <1>5, <1>6, <1>7

(* tomlKeyOrder: the same, the tables behind the rest. *)
LEMMA KeyOrderIs ==
    ASSUME NEW wanted, DOMAIN wanted \subseteq ToSet(Names),
           NEW authored \in Seq(Texts), Distinct(authored)
    PROVE  /\ tomlKeyOrder(wanted, authored) \in Seq(Texts)
           /\ ToSet(tomlKeyOrder(wanted, authored)) = DOMAIN wanted
           /\ Distinct(tomlKeyOrder(wanted, authored))
           /\ \A one, other \in DOMAIN wanted :
                ~isTOMLTable(wanted[one]) /\ isTOMLTable(wanted[other]) =>
                    Precedes(tomlKeyOrder(wanted, authored), one, other)
           /\ \A one, other \in DOMAIN wanted :
                /\ isTOMLTable(wanted[one]) <=> isTOMLTable(wanted[other])
                /\ one \in ToSet(authored)
                /\ other \in ToSet(authored) => Precedes(authored, one, other)
                => Precedes(tomlKeyOrder(wanted, authored), one, other)
<1> DEFINE d == DOMAIN wanted
           all == orderedKeys(wanted, authored)
           tables == {name \in d : isTOMLTable(wanted[name])}
           front == Kept(all, d \ tables)
           back == Kept(all, tables)
<1>1. /\ all \in Seq(Texts) /\ ToSet(all) = d /\ Distinct(all)
      /\ \A one, other \in d :
            /\ one \in ToSet(authored)
            /\ other \in ToSet(authored) => Precedes(authored, one, other)
            => Precedes(all, one, other)
    BY OrderedKeysAre
<1>2. tomlKeyOrder(wanted, authored) = front \o back
    BY DEF tomlKeyOrder
<1> HIDE DEF all
<1>3. /\ front \in Seq(Texts) /\ ToSet(front) = ToSet(all) \cap (d \ tables)
      /\ (Distinct(all) => Distinct(front))
      /\ \A x, y \in d \ tables : Precedes(all, x, y) => Precedes(front, x, y)
    <2> HIDE DEF tables
    <2> QED
        BY <1>1, KeptIs
<1>4. /\ back \in Seq(Texts) /\ ToSet(back) = ToSet(all) \cap tables
      /\ (Distinct(all) => Distinct(back))
      /\ \A x, y \in tables : Precedes(all, x, y) => Precedes(back, x, y)
    <2> HIDE DEF tables
    <2> QED
        BY <1>1, KeptIs
<1> HIDE DEF front, back
<1>5. /\ front \o back \in Seq(Texts)
      /\ ToSet(front \o back) = ToSet(front) \cup ToSet(back)
      /\ Distinct(front) /\ Distinct(back) /\ ToSet(front) \cap ToSet(back) = {}
            => Distinct(front \o back)
      /\ \A x, y : Precedes(front, x, y) => Precedes(front \o back, x, y)
      /\ \A x, y : Precedes(back, x, y) => Precedes(front \o back, x, y)
      /\ \A x \in ToSet(front), y \in ToSet(back) : Precedes(front \o back, x, y)
    BY <1>3, <1>4, ConcatOrder
<1>6. tables \subseteq d /\ \A x \in d : x \in tables <=> isTOMLTable(wanted[x])
    OBVIOUS
<1> HIDE DEF tables
<1>7. ToSet(front \o back) = d
    BY <1>1, <1>3, <1>4, <1>5, <1>6
<1>8. Distinct(front \o back)
    BY <1>1, <1>3, <1>4, <1>5
<1>9. ASSUME NEW one \in d, NEW other \in d,
             ~isTOMLTable(wanted[one]), isTOMLTable(wanted[other])
      PROVE  Precedes(front \o back, one, other)
    <2>1. one \in ToSet(front) /\ other \in ToSet(back)
        BY <1>1, <1>3, <1>4, <1>6, <1>9
    <2> QED
        BY <1>5, <2>1
<1>10. ASSUME NEW one \in d, NEW other \in d,
              isTOMLTable(wanted[one]) <=> isTOMLTable(wanted[other]),
              one \in ToSet(authored),
              other \in ToSet(authored) => Precedes(authored, one, other)
       PROVE  Precedes(front \o back, one, other)
    <2>1. Precedes(all, one, other)
        BY <1>1, <1>10
    <2>2. (one \in tables /\ other \in tables) \/ (one \in d \ tables /\ other \in d \ tables)
        BY <1>6, <1>10
    <2>3. Precedes(front, one, other) \/ Precedes(back, one, other)
        BY <1>3, <1>4, <2>1, <2>2
    <2> QED
        BY <1>5, <2>3
<1> QED
    BY <1>2, <1>5, <1>7, <1>8, <1>9, <1>10

(* A sequence without repetitions is as long as its members are many. *)
LEMMA DistinctCount ==
    ASSUME NEW A, NEW s \in Seq(A), Distinct(s)
    PROVE  IsFiniteSet(ToSet(s)) /\ Cardinality(ToSet(s)) = Len(s)
<1> DEFINE n == Len(s)
           f == [i \in 1..n |-> s[i]]
<1>1. n \in Nat /\ DOMAIN s = 1..n /\ \A x : x \in ToSet(s) <=> \E i \in 1..n : s[i] = x
    BY ToSetIs
<1>2. \A i, j \in 1..n : s[i] = s[j] => i = j
    BY <1>1 DEF Distinct
<1> HIDE DEF n
<1>3. f \in Bijection(1..n, ToSet(s))
    <2>1. f \in [1..n -> ToSet(s)]
        BY <1>1
    <2>2. \A i, j \in 1..n : f[i] = f[j] => i = j
        BY <1>2
    <2>3. \A x \in ToSet(s) : \E i \in 1..n : f[i] = x
        BY <1>1
    <2> HIDE DEF f
    <2> QED
        BY <2>1, <2>2, <2>3 DEF Bijection, Injection, Surjection, IsInjective
<1>4. IsFiniteSet(1..n) /\ Cardinality(1..n) = n
    BY <1>1, FS_Interval
<1>5. IsFiniteSet(ToSet(s)) /\ Cardinality(ToSet(s)) = Cardinality(1..n)
    <2> HIDE DEF f
    <2> QED
        BY <1>3, <1>4, FS_Bijection DEF ExistsBijection
<1> QED
    BY <1>4, <1>5 DEF n

------------------------------------------------------------------------------
(***************************************************************************)
(* The invariant of the block and its lexer.                               *)
(***************************************************************************)
(* The lexer reads the block, wherever it stands, as names of which the    *)
(* first occurrences are the keys, and knows whether a header was seen.    *)
BlockReads ==
    /\ block \in Texts
    /\ \E names \in NamesSeq, past \in BOOLEAN :
          /\ LineReads(block, names, FALSE, past)
          /\ Recorded(names) = keys
          /\ lines # Closed => past = inTable

(* The inductive invariant. *)
IInv == TypeOK /\ BlockReads

(* The keys of a block are its names, each once, as the lexer finds them.  *)
LEMMA BlockKeys ==
    ASSUME BlockReads
    PROVE  /\ keys \in Seq(Texts) /\ Distinct(keys)
           /\ tomlTopLevelKeys(block) = keys
<1>1. PICK names \in NamesSeq, past \in BOOLEAN :
          LineReads(block, names, FALSE, past) /\ Recorded(names) = keys
    BY DEF BlockReads
<1>2. block \in Texts /\ Len(block) \in Nat
    BY TextIs DEF BlockReads
<1>3. names \in Seq(Texts)
    BY DEF NamesSeq, Texts
<1>4. keys \in Seq(Texts) /\ Distinct(keys)
    BY <1>1, <1>3, RecordedIs
<1> DEFINE end == 1 + Len(block)
<1>5. end \in Positions(block) /\ end > Len(block)
    BY <1>2 DEF Positions
<1>6. KeysPast(block)[1][FALSE] = names \o KeysPast(block)[end][past]
    BY <1>1, <1>2, HoldsWhole DEF LineReads
<1> HIDE DEF end
<1>7. KeysPast(block)[end][past] = <<>>
    <2>1. KeysPast(block)[end][past] = KeysGo(block, KeysPast(block), end, past)
        BY <1>2, <1>5, KeysHere
    <2>2. KeysGo(block, KeysPast(block), end, past) = <<>>
        BY <1>5, Zenon DEF KeysGo
    <2> QED
        BY <2>1, <2>2
<1>8. KeysPast(block)[1][FALSE] = names
    BY <1>3, <1>6, <1>7, ConcatEmptySeq
<1>9. tomlTopLevelKeys(block) = keys
    BY <1>1, <1>8, KeysUnfolded
<1> QED
    BY <1>4, <1>9

(* No names are recorded of none. *)
LEMMA RecordedNone ==
    Recorded(<<>>) = <<>>
<1> DEFINE none == <<>>
           r == Recorded(none)
<1>1. none \in Seq(Texts) /\ Len(none) = 0
    BY EmptySeq
<1> HIDE DEF none
<1>2. r \in Seq(Texts) /\ ToSet(r) = ToSet(none)
    BY <1>1, RecordedIs
<1> HIDE DEF r
<1>3. Len(r) \in Nat /\ \A x : x \in ToSet(r) <=> \E i \in 1..Len(r) : r[i] = x
    BY <1>2, ToSetIs
<1>4. \A x : x \in ToSet(none) <=> \E i \in 1..Len(none) : none[i] = x
    BY <1>1, ToSetIs
<1>5. 1 \notin 1..Len(r)
    BY <1>1, <1>2, <1>3, <1>4
<1>6. Len(r) = 0
    BY <1>3, <1>5
<1>7. r = <<>>
    BY <1>2, <1>6, EmptySeq
<1> QED
    BY <1>7 DEF r, none

(* It holds of an empty block. *)
LEMMA InitIInv ==
    ASSUME Init
    PROVE  IInv
<1> DEFINE none == <<>>
<1>1. /\ block = none /\ keys = none /\ inTable = FALSE /\ headed = {} /\ lines = 0
      /\ DOMAIN fields = {} /\ DOMAIN asked = {}
    BY DEF Init
<1>2. none \in Seq(Marks) /\ none \in NamesSeq /\ Len(none) = 0 /\ none \in Seq(Texts)
    BY EmptySeq, NamesTyped
<1>3. LineReads(none, none, FALSE, FALSE)
    BY NothingReads
<1>4. Recorded(none) = none
    BY RecordedNone
<1> HIDE DEF none
<1>5. ToSet(none) = {}
    <2> SUFFICES ASSUME NEW x \in ToSet(none) PROVE FALSE
        OBVIOUS
    <2>1. PICK i \in 1..Len(none) : none[i] = x
        BY <1>2, ToSetIs
    <2> QED
        BY <1>2, <2>1
<1>6. Cardinality({}) = 0
    BY FS_EmptySet
<1>7. TypeOK
    <2>1. block \in Seq(Marks) /\ ToSet(keys) = DOMAIN fields
        BY <1>1, <1>2, <1>5
    <2>2. Len(keys) = Cardinality(DOMAIN fields)
        BY <1>1, <1>2, <1>6
    <2>3. lines \in {Closed} \cup 0..MaxLines
        BY <1>1, TomlBlocksAssumption
    <2>4. inTable \in BOOLEAN /\ headed \subseteq DOMAIN fields
        BY <1>1
    <2>5. /\ \A name \in DOMAIN fields : name \in ToSet(Names) /\ fields[name] \in Values
          /\ \A name \in DOMAIN asked : name \in ToSet(Names) /\ asked[name] \in Values
        BY <1>1
    <2> QED
        BY <2>1, <2>2, <2>3, <2>4, <2>5 DEF TypeOK
<1>8. BlockReads
    BY <1>1, <1>2, <1>3, <1>4 DEF BlockReads, Texts
<1> QED
    BY <1>7, <1>8 DEF IInv

(* A line of the author: it gives the lexer the names that join the keys.  *)
LEMMA AuthorStep ==
    ASSUME IInv, MayWrite, NEW text \in Texts, NEW new \in NamesSeq, AppendLine(text),
           inTable' \in BOOLEAN, LineReads(text, new, inTable, inTable'),
           \A front \in NamesSeq : Recorded(front) = keys => Recorded(front \o new) = keys',
           ToSet(keys') = DOMAIN fields',
           \A name \in DOMAIN fields' : name \in ToSet(Names) /\ fields'[name] \in Values,
           \A name \in DOMAIN asked' : name \in ToSet(Names) /\ asked'[name] \in Values,
           headed' \subseteq DOMAIN fields'
    PROVE  IInv'
<1>1. TypeOK /\ BlockReads
    BY DEF IInv
<1>2. block' = block \o text /\ lines' = lines + 1
    BY DEF AppendLine
<1>3. lines \in 0..(MaxLines - 1) /\ MaxLines \in Nat
    BY TomlBlocksAssumption DEF MayWrite
<1>4. lines # Closed /\ lines' \in {Closed} \cup 0..MaxLines
    BY <1>2, <1>3 DEF Closed
<1>5. PICK names \in NamesSeq, past \in BOOLEAN :
          LineReads(block, names, FALSE, past) /\ Recorded(names) = keys /\ past = inTable
    BY <1>1, <1>4 DEF BlockReads
<1>6. block \in Texts /\ inTable \in BOOLEAN
    BY <1>1 DEF BlockReads, TypeOK
<1>7. block' \in Texts
    BY <1>2, <1>6, ConcatTyped
<1>8. names \o new \in NamesSeq
    BY ConcatProperties DEF NamesSeq
<1>9. LineReads(block \o text, names \o new, FALSE, inTable')
    BY <1>5, <1>6, LinesRead
<1>10. Recorded(names \o new) = keys'
    BY <1>5
<1>11. BlockReads'
    BY <1>2, <1>7, <1>8, <1>9, <1>10 DEF BlockReads
<1>12. Len(keys') = Cardinality(DOMAIN fields')
    <2>1. names \o new \in Seq(Texts)
        BY <1>8 DEF NamesSeq, Texts
    <2>2. keys' \in Seq(Texts) /\ Distinct(keys')
        BY <1>10, <2>1, RecordedIs
    <2> QED
        BY <2>2, DistinctCount
<1>13. TypeOK'
    BY <1>4, <1>7, <1>12 DEF TypeOK, Texts
<1> QED
    BY <1>11, <1>13 DEF IInv

(* A field that is defined joins the keys and the fields. *)
LEMMA DefineIs ==
    ASSUME IInv, NEW name \in ToSet(Names), NEW value \in Values, Define(name, value)
    PROVE  /\ \A front \in NamesSeq :
                Recorded(front) = keys => Recorded(front \o <<name>>) = keys'
           /\ ToSet(keys') = DOMAIN fields'
           /\ DOMAIN fields' = DOMAIN fields \cup {name}
           /\ \A n \in DOMAIN fields' : n \in ToSet(Names) /\ fields'[n] \in Values
           /\ \A n \in DOMAIN asked' : n \in ToSet(Names) /\ asked'[n] \in Values
<1>1. keys \in Seq(Texts) /\ name \in Texts
    BY BlockKeys, NameIs DEF IInv
<1>2. /\ ToSet(keys) = DOMAIN fields
      /\ \A n \in DOMAIN fields : n \in ToSet(Names) /\ fields[n] \in Values
    BY DEF IInv, TypeOK
<1>3. /\ keys' = (IF name \in DOMAIN fields THEN keys ELSE Append(keys, name))
      /\ fields' = [n \in DOMAIN fields \cup {name} |-> IF n = name THEN value ELSE fields[n]]
      /\ asked' = fields'
    BY DEF Define, With
<1>4. keys' = WithName(keys, name)
    BY <1>2, <1>3 DEF WithName
<1>5. \A front \in NamesSeq : Recorded(front) = keys => Recorded(front \o <<name>>) = keys'
    BY <1>1, <1>4, AddsOne DEF Adds
<1>6. DOMAIN fields' = DOMAIN fields \cup {name}
    BY <1>3
<1>7. \A n \in DOMAIN fields' : n \in ToSet(Names) /\ fields'[n] \in Values
    BY <1>2, <1>3
<1>8. ToSet(keys') = DOMAIN fields'
    <2>1. CASE name \in DOMAIN fields
        BY <1>2, <1>3, <1>6, <2>1
    <2>2. CASE name \notin DOMAIN fields
        <3> DEFINE one == <<name>>
        <3>1. one \in Seq(Texts) /\ Len(one) = 1 /\ one[1] = name
            BY <1>1
        <3>2. keys' = keys \o one
            BY <1>1, <1>3, <2>2, AppendIsConcat
        <3> HIDE DEF one
        <3>3. ToSet(keys \o one) = ToSet(keys) \cup ToSet(one)
            BY <1>1, <3>1, ConcatOrder
        <3>4. \A x : x \in ToSet(one) <=> x = name
            BY <3>1, ToSetIs
        <3>5. ToSet(one) = {name}
            BY <3>4
        <3> QED
            BY <1>2, <1>6, <3>2, <3>3, <3>5
    <2> QED
        BY <2>1, <2>2
<1> QED
    BY <1>3, <1>5, <1>6, <1>7, <1>8

(* Names that are not added change nothing. *)
LEMMA NoNames ==
    /\ <<>> \in NamesSeq
    /\ \A front \in NamesSeq : front \o <<>> = front
    BY NamesTyped, ConcatEmptySeq DEF NamesSeq

(* The lines that fit are lines. *)
LEMMA FittingLines ==
    ASSUME IInv, NEW n \in FreshLengths
    PROVE  FittingKeyLines[n] \subseteq KeyLines /\ FittingHeaderLines[n] \subseteq HeaderLines
<1>1. Len(block) \in Nat /\ MaxMarks \in Nat
    BY TextIs, TomlBlocksAssumption DEF IInv, BlockReads
<1>2. n \in 1..MaxMarks
    BY <1>1 DEF FreshLengths
<1> QED
    BY <1>2 DEF FittingKeyLines, FittingHeaderLines, Fitting

(* A key of the top level keeps it: its line adds its name. *)
LEMMA WriteKeyIInv ==
    ASSUME IInv, WriteKey
    PROVE  IInv'
<1>1. MayWrite /\ ~inTable /\ inTable' = inTable /\ headed' = headed
    BY DEF WriteKey
<1>2. PICK n \in FreshLengths :
          \E line \in FittingKeyLines[n] : Define(line.name, line.value) /\ AppendLine(line.text)
    BY DEF WriteKey
<1>3. PICK line \in FittingKeyLines[n] : Define(line.name, line.value) /\ AppendLine(line.text)
    BY <1>2
<1>4. line \in KeyLines
    BY FittingLines
<1> DEFINE name == line.name
           value == line.value
           text == line.text
<1>5. /\ name \in ToSet(Names) /\ value \in Values /\ text \in Texts
      /\ \A past \in BOOLEAN : LineReads(text, LineNames(name, past), past, past)
    BY <1>4, KeyLineRead
<1>6. Define(name, value) /\ AppendLine(text)
    BY <1>3
<1> HIDE DEF name, value, text
<1>7. inTable = FALSE
    BY <1>1 DEF IInv, TypeOK
<1>8. LineReads(text, <<name>>, inTable, inTable')
    BY <1>1, <1>5, <1>7 DEF LineNames
<1>9. /\ \A front \in NamesSeq :
            Recorded(front) = keys => Recorded(front \o <<name>>) = keys'
      /\ ToSet(keys') = DOMAIN fields'
      /\ DOMAIN fields' = DOMAIN fields \cup {name}
      /\ \A m \in DOMAIN fields' : m \in ToSet(Names) /\ fields'[m] \in Values
      /\ \A m \in DOMAIN asked' : m \in ToSet(Names) /\ asked'[m] \in Values
    BY <1>5, <1>6, DefineIs
<1>10. headed' \subseteq DOMAIN fields'
    BY <1>1, <1>9 DEF IInv, TypeOK
<1>11. <<name>> \in NamesSeq
    BY <1>5, NameIs, NamesTyped
<1>12. inTable' \in BOOLEAN
    BY <1>1, <1>7
<1> QED
    BY <1>1, <1>5, <1>6, <1>8, <1>9, <1>10, <1>11, <1>12, AuthorStep

(* Lines that add no name. *)
LEMMA SilentStep ==
    ASSUME IInv, MayWrite, NEW text \in Texts, AppendLine(text),
           LineReads(text, <<>>, inTable, inTable),
           UNCHANGED <<keys, fields, asked, inTable, headed>>
    PROVE  IInv'
<1>1. /\ keys' = keys /\ fields' = fields /\ asked' = asked
      /\ inTable' = inTable /\ headed' = headed
    OBVIOUS
<1> DEFINE none == <<>>
<1>2. none \in NamesSeq /\ \A front \in NamesSeq : front \o none = front
    BY NoNames
<1>3. LineReads(text, none, inTable, inTable')
    BY <1>1
<1> HIDE DEF none
<1>4. \A front \in NamesSeq : Recorded(front) = keys => Recorded(front \o none) = keys'
    BY <1>1, <1>2
<1>5. /\ ToSet(keys') = DOMAIN fields'
      /\ \A name \in DOMAIN fields' : name \in ToSet(Names) /\ fields'[name] \in Values
      /\ \A name \in DOMAIN asked' : name \in ToSet(Names) /\ asked'[name] \in Values
      /\ headed' \subseteq DOMAIN fields' /\ inTable' \in BOOLEAN
    BY <1>1 DEF IInv, TypeOK
<1> QED
    BY <1>2, <1>3, <1>4, <1>5, AuthorStep

(* A key of a table keeps it: its line adds nothing. *)
LEMMA WriteTableKeyIInv ==
    ASSUME IInv, WriteTableKey
    PROVE  IInv'
<1>1. MayWrite /\ inTable /\ UNCHANGED <<keys, fields, asked, inTable, headed>>
    BY DEF WriteTableKey
<1>2. PICK n \in FreshLengths : \E line \in FittingKeyLines[n] : AppendLine(line.text)
    BY DEF WriteTableKey
<1>3. PICK line \in FittingKeyLines[n] : AppendLine(line.text)
    BY <1>2
<1>4. line \in KeyLines
    BY FittingLines
<1> DEFINE text == line.text
           name == line.name
<1>5. text \in Texts /\ \A past \in BOOLEAN : LineReads(text, LineNames(name, past), past, past)
    BY <1>4, KeyLineRead
<1>6. AppendLine(text)
    BY <1>3
<1> HIDE DEF text, name
<1>7. inTable = TRUE
    BY <1>1 DEF IInv, TypeOK
<1>8. LineReads(text, <<>>, inTable, inTable)
    BY <1>5, <1>7 DEF LineNames
<1> QED
    BY <1>1, <1>5, <1>6, <1>8, SilentStep

(* So does a comment. *)
LEMMA WriteCommentIInv ==
    ASSUME IInv, WriteComment
    PROVE  IInv'
<1>1. MayWrite /\ UNCHANGED <<keys, fields, asked, inTable, headed>>
    BY DEF WriteComment
<1>2. PICK end \in LineEnds, indent \in {<<>>, <<SP>>} : AppendLine(indent \o end)
    BY DEF WriteComment
<1> DEFINE text == indent \o end
<1>3. text \in Texts /\ \A past \in BOOLEAN : LineReads(text, <<>>, past, past)
    BY CommentRead
<1>4. AppendLine(text)
    BY <1>2
<1> HIDE DEF text
<1>5. LineReads(text, <<>>, inTable, inTable)
    BY <1>3 DEF IInv, TypeOK
<1> QED
    BY <1>1, <1>3, <1>4, <1>5, SilentStep

(* What a header makes of its field. *)
HeaderValue(line) ==
    IF line.name \notin DOMAIN fields THEN line.value
    ELSE IF line.inner # NoInner THEN fields[line.name]
    ELSE List(<<Map, Map>>)

(* A header keeps it: its line adds its name and opens a table. *)
LEMMA WriteHeaderIInv ==
    ASSUME IInv, WriteHeader
    PROVE  IInv'
<1>1. MayWrite /\ inTable' = TRUE
    BY DEF WriteHeader
<1>2. PICK n \in FreshLengths :
          \E line \in FittingHeaderLines[n] :
              /\ Define(line.name, HeaderValue(line)) /\ AppendLine(line.text)
              /\ headed' = headed \cup {line.name}
    BY DEF WriteHeader, HeaderValue
<1>3. PICK line \in FittingHeaderLines[n] :
          /\ Define(line.name, HeaderValue(line)) /\ AppendLine(line.text)
          /\ headed' = headed \cup {line.name}
    BY <1>2
<1>4. line \in HeaderLines
    BY FittingLines
<1> DEFINE name == line.name
           text == line.text
           value == HeaderValue(line)
<1>5. /\ name \in ToSet(Names) /\ line.value \in Values /\ text \in Texts
      /\ \A past \in BOOLEAN : LineReads(text, <<name>>, past, TRUE)
    BY <1>4, HeaderLineRead
<1>6. value \in Values
    BY <1>5, MapLists DEF IInv, TypeOK, HeaderValue
<1>7. Define(name, value) /\ AppendLine(text) /\ headed' = headed \cup {name}
    BY <1>3
<1> HIDE DEF name, value, text
<1>8. inTable \in BOOLEAN /\ inTable' \in BOOLEAN
    BY <1>1 DEF IInv, TypeOK
<1>9. LineReads(text, <<name>>, inTable, inTable')
    BY <1>1, <1>5, <1>8
<1>10. /\ \A front \in NamesSeq :
             Recorded(front) = keys => Recorded(front \o <<name>>) = keys'
       /\ ToSet(keys') = DOMAIN fields'
       /\ DOMAIN fields' = DOMAIN fields \cup {name}
       /\ \A m \in DOMAIN fields' : m \in ToSet(Names) /\ fields'[m] \in Values
       /\ \A m \in DOMAIN asked' : m \in ToSet(Names) /\ asked'[m] \in Values
    BY <1>5, <1>6, <1>7, DefineIs
<1>11. headed' \subseteq DOMAIN fields'
    BY <1>7, <1>10 DEF IInv, TypeOK
<1>12. <<name>> \in NamesSeq
    BY <1>5, NameIs, NamesTyped
<1> QED
    BY <1>1, <1>5, <1>7, <1>8, <1>9, <1>10, <1>11, <1>12, AuthorStep

------------------------------------------------------------------------------
(***************************************************************************)
(* Edits.                                                                  *)
(***************************************************************************)
(* The fields a caller asks for. *)
IsWanted(wanted) ==
    /\ wanted = [name \in DOMAIN wanted |-> wanted[name]]
    /\ \A name \in DOMAIN wanted : name \in ToSet(Names) /\ wanted[name] \in Values

(* The order in which they are written. *)
OrderOf(wanted) == tomlKeyOrder(wanted, tomlTopLevelKeys(block))

(* The keys that are read back. *)
ReadOf(wanted) == TopLevelOf(wanted, OrderOf(wanted))

(* What an edit does to the variables. *)
LEMMA EncodeIs ==
    ASSUME NEW wanted, Encode(wanted)
    PROVE  /\ block' = tomlEncode(wanted, OrderOf(wanted))
           /\ keys' = ReadOf(wanted)
           /\ fields' = [name \in ToSet(ReadOf(wanted)) |-> wanted[name]]
           /\ asked' = wanted
           /\ inTable' = FALSE /\ headed' = {} /\ lines' = Closed
    BY DEF Encode, OrderOf, ReadOf

(* The order of an edit, and the keys that are read back. *)
LEMMA WantedOrder ==
    ASSUME IInv, NEW wanted, IsWanted(wanted)
    PROVE  /\ OrderOf(wanted) \in Seq(Texts)
           /\ ToSet(OrderOf(wanted)) = DOMAIN wanted
           /\ Distinct(OrderOf(wanted))
           /\ IsOrder(OrderOf(wanted), wanted)
           /\ ReadOf(wanted) = Kept(OrderOf(wanted), CountedIn(wanted, OrderOf(wanted)))
           /\ ReadOf(wanted) \in Seq(Texts)
           /\ ToSet(ReadOf(wanted)) = CountedIn(wanted, OrderOf(wanted))
           /\ CountedIn(wanted, OrderOf(wanted)) \subseteq DOMAIN wanted
           /\ Distinct(ReadOf(wanted))
<1> DEFINE order == OrderOf(wanted)
           counted == CountedIn(wanted, order)
<1>1. tomlTopLevelKeys(block) \in Seq(Texts) /\ Distinct(tomlTopLevelKeys(block))
    BY BlockKeys DEF IInv
<1>2. DOMAIN wanted \subseteq ToSet(Names)
    BY DEF IsWanted
<1>3. order \in Seq(Texts) /\ ToSet(order) = DOMAIN wanted /\ Distinct(order)
    BY <1>1, <1>2, KeyOrderIs DEF OrderOf
<1> HIDE DEF order
<1>4. IsOrder(order, wanted)
    BY <1>3 DEF IsOrder, IsWanted, NamesSeq, Texts
<1>5. ReadOf(wanted) = Kept(order, counted)
    BY Zenon DEF ReadOf, TopLevelOf, CountedIn, order
<1>6. counted \subseteq DOMAIN wanted
    BY <1>3 DEF CountedIn
<1> HIDE DEF counted
<1>7. /\ Kept(order, counted) \in Seq(Texts)
      /\ ToSet(Kept(order, counted)) = ToSet(order) \cap counted
      /\ Distinct(order) => Distinct(Kept(order, counted))
    BY <1>3, KeptIs
<1> QED
    BY <1>3, <1>4, <1>5, <1>6, <1>7 DEF order, counted

(* An edit keeps the invariant: what the encoder writes is read as         *)
(* TopLevelOf says.                                                        *)
LEMMA EncodeIInv ==
    ASSUME IInv, NEW wanted, IsWanted(wanted), Encode(wanted)
    PROVE  IInv'
<1> DEFINE order == OrderOf(wanted)
           read == ReadOf(wanted)
           text == tomlEncode(wanted, order)
<1>1. /\ block' = text /\ keys' = read
      /\ fields' = [name \in ToSet(read) |-> wanted[name]]
      /\ asked' = wanted
      /\ inTable' = FALSE /\ headed' = {} /\ lines' = Closed
    BY EncodeIs
<1>2. /\ IsOrder(order, wanted)
      /\ read \in Seq(Texts) /\ Distinct(read) /\ ToSet(read) \subseteq DOMAIN wanted
    BY WantedOrder
<1>3. read = TopLevelOf(wanted, order)
    BY DEF ReadOf
<1>4. /\ text \in Texts
      /\ \E names \in NamesSeq, past \in BOOLEAN :
            LineReads(text, names, FALSE, past) /\ Recorded(names) = read
    <2> HIDE DEF order
    <2> QED
        BY <1>2, <1>3, EncodeReads
<1> HIDE DEF order, read, text
<1>5. BlockReads'
    BY <1>1, <1>4 DEF BlockReads
<1>6. DOMAIN fields' = ToSet(read)
      /\ \A name \in ToSet(read) : fields'[name] = wanted[name]
    BY <1>1
<1>7. Cardinality(ToSet(read)) = Len(read)
    BY <1>2, DistinctCount
<1>8. TypeOK'
    <2>1. block' \in Seq(Marks)
        BY <1>1, <1>4 DEF Texts
    <2>2. ToSet(keys') = DOMAIN fields' /\ Len(keys') = Cardinality(DOMAIN fields')
        BY <1>1, <1>6, <1>7
    <2>3. \A name \in DOMAIN fields' : name \in ToSet(Names) /\ fields'[name] \in Values
        BY <1>2, <1>6 DEF IsWanted
    <2>4. \A name \in DOMAIN asked' : name \in ToSet(Names) /\ asked'[name] \in Values
        BY <1>1 DEF IsWanted
    <2>5. inTable' \in BOOLEAN /\ headed' \subseteq DOMAIN fields' /\ lines' \in {Closed} \cup 0..MaxLines
        BY <1>1
    <2> QED
        BY <2>1, <2>2, <2>3, <2>4, <2>5 DEF TypeOK
<1> QED
    BY <1>5, <1>8 DEF IInv

(* What a caller asks for is fields. *)
LEMMA SetWanted ==
    ASSUME IInv, NEW name \in EditKeys, NEW value \in EditValues
    PROVE  IsWanted(With(name, value))
<1>1. name \in ToSet(Names) /\ value \in Values
    BY TomlBlocksAssumption
<1>2. \A n \in DOMAIN fields : n \in ToSet(Names) /\ fields[n] \in Values
    BY DEF IInv, TypeOK
<1> DEFINE d == DOMAIN fields \cup {name}
           f == [n \in d |-> IF n = name THEN value ELSE fields[n]]
<1>3. DOMAIN f = d /\ \A n \in d : f[n] = IF n = name THEN value ELSE fields[n]
    OBVIOUS
<1>4. f = [n \in DOMAIN f |-> f[n]]
    OBVIOUS
<1>5. \A n \in DOMAIN f : n \in ToSet(Names) /\ f[n] \in Values
    BY <1>1, <1>2, <1>3
<1> HIDE DEF f
<1>6. IsWanted(f)
    BY <1>4, <1>5 DEF IsWanted
<1> QED
    BY <1>6 DEF With, f

(* The fields without one are fields to ask for. *)
LEMMA RemoveWanted ==
    ASSUME IInv, NEW name
    PROVE  IsWanted([n \in DOMAIN fields \ {name} |-> fields[n]])
<1> DEFINE f == [n \in DOMAIN fields \ {name} |-> fields[n]]
<1>1. \A n \in DOMAIN fields : n \in ToSet(Names) /\ fields[n] \in Values
    BY DEF IInv, TypeOK
<1>2. f = [n \in DOMAIN f |-> f[n]]
    OBVIOUS
<1>3. \A n \in DOMAIN f : n \in ToSet(Names) /\ f[n] \in Values
    BY <1>1
<1> HIDE DEF f
<1>4. IsWanted(f)
    BY <1>2, <1>3 DEF IsWanted
<1> QED
    BY <1>4 DEF f

(* Every edit encodes some fields that were asked for. *)
LEMMA EditIs ==
    ASSUME IInv, SetField \/ RemoveField
    PROVE  \E wanted : IsWanted(wanted) /\ Encode(wanted)
<1>1. ASSUME SetField PROVE \E wanted : IsWanted(wanted) /\ Encode(wanted)
    <2>1. PICK name \in EditKeys, value \in EditValues : Encode(With(name, value))
        BY <1>1 DEF SetField
    <2> QED
        BY <2>1, SetWanted
<1>2. ASSUME RemoveField PROVE \E wanted : IsWanted(wanted) /\ Encode(wanted)
    <2>1. PICK name \in EditKeys \cap DOMAIN fields :
              Encode([n \in DOMAIN fields \ {name} |-> fields[n]])
        BY <1>2 DEF RemoveField
    <2> QED
        BY <2>1, RemoveWanted
<1> QED
    BY <1>1, <1>2

(* Every step keeps the invariant. *)
LEMMA NextIInv ==
    IInv /\ [Next]_vars => IInv'
<1> SUFFICES ASSUME IInv, [Next]_vars PROVE IInv'
    OBVIOUS
<1>1. CASE WriteKey
    BY <1>1, WriteKeyIInv
<1>2. CASE WriteTableKey
    BY <1>2, WriteTableKeyIInv
<1>3. CASE WriteHeader
    BY <1>3, WriteHeaderIInv
<1>4. CASE WriteComment
    BY <1>4, WriteCommentIInv
<1>5. CASE SetField \/ RemoveField
    BY <1>5, EditIs, EncodeIInv
<1>6. CASE UNCHANGED vars
    BY <1>6 DEF vars, IInv, TypeOK, BlockReads
<1> QED
    BY <1>1, <1>2, <1>3, <1>4, <1>5, <1>6 DEF Next

(* The fields of a block are as many as its keys, and every value is one   *)
(* of TOML's (tomlTopLevelKeys, encode).                                   *)
THEOREM TypesAreKept ==
    Spec => []TypeOK
<1>1. Init => IInv
    BY InitIInv
<1>2. IInv => TypeOK
    BY DEF IInv
<1> QED
    BY <1>1, <1>2, NextIInv, PTL DEF Spec

(* The lexer reports the keys of every block of the module, once each and  *)
(* in order: for all names, scalars, comments and gaps that TOML allows,   *)
(* and blocks of every length (tomlTopLevelKeys).                          *)
THEOREM LexerIsRight ==
    Spec => []LexerFindsTheAuthoredOrder
<1>1. Init => IInv
    BY InitIInv
<1>2. IInv => LexerFindsTheAuthoredOrder
    BY BlockKeys DEF IInv, LexerFindsTheAuthoredOrder
<1> QED
    BY <1>1, <1>2, NextIInv, PTL DEF Spec

------------------------------------------------------------------------------
(***************************************************************************)
(* What is read back, and in which order.                                  *)
(***************************************************************************)
(* One step does not move the keys that stay. *)
KeepsOrderOfKeys ==
    lines' = Closed =>
        \A one, other \in ToSet(keys') :
            /\ isTOMLTable(fields'[one]) = isTOMLTable(fields'[other])
            /\ one \in ToSet(keys)
            /\ other \in ToSet(keys) => Precedes(keys, one, other)
            /\ one # other
            => Precedes(keys', one, other)

(* An edit does not. *)
LEMMA EncodeOrder ==
    ASSUME IInv, NEW wanted, IsWanted(wanted), Encode(wanted)
    PROVE  KeepsOrderOfKeys
<1> DEFINE order == OrderOf(wanted)
           read == ReadOf(wanted)
           counted == CountedIn(wanted, order)
<1>1. keys' = read /\ fields' = [name \in ToSet(read) |-> wanted[name]]
    BY EncodeIs
<1>2. /\ order \in Seq(Texts) /\ read = Kept(order, counted)
      /\ ToSet(read) = counted /\ counted \subseteq DOMAIN wanted
    BY WantedOrder
<1>3. keys \in Seq(Texts) /\ Distinct(keys) /\ tomlTopLevelKeys(block) = keys
    BY BlockKeys DEF IInv
<1>4. DOMAIN wanted \subseteq ToSet(Names)
    BY DEF IsWanted
<1>5. \A one, other \in DOMAIN wanted :
          /\ isTOMLTable(wanted[one]) <=> isTOMLTable(wanted[other])
          /\ one \in ToSet(keys)
          /\ other \in ToSet(keys) => Precedes(keys, one, other)
          => Precedes(order, one, other)
    BY <1>3, <1>4, KeyOrderIs DEF OrderOf
<1> HIDE DEF order, counted, read
<1>6. \A x, y \in counted : Precedes(order, x, y) => Precedes(Kept(order, counted), x, y)
    BY <1>2, KeptIs
<1> SUFFICES ASSUME NEW one \in ToSet(keys'), NEW other \in ToSet(keys'),
                    isTOMLTable(fields'[one]) = isTOMLTable(fields'[other]),
                    one \in ToSet(keys),
                    other \in ToSet(keys) => Precedes(keys, one, other)
             PROVE  Precedes(keys', one, other)
    BY DEF KeepsOrderOfKeys
<1>7. /\ one \in counted /\ other \in counted
      /\ one \in DOMAIN wanted /\ other \in DOMAIN wanted
      /\ fields'[one] = wanted[one] /\ fields'[other] = wanted[other]
    BY <1>1, <1>2
<1>8. Precedes(order, one, other)
    BY <1>5, <1>7
<1> QED
    BY <1>1, <1>2, <1>6, <1>7, <1>8

(* No step does. *)
LEMMA NextOrder ==
    ASSUME IInv, [Next]_vars
    PROVE  [KeepsOrderOfKeys]_vars
<1>1. CASE SetField \/ RemoveField
    BY <1>1, EditIs, EncodeOrder
<1>2. CASE WriteKey \/ WriteTableKey \/ WriteHeader \/ WriteComment
    <2>1. lines \in 0..(MaxLines - 1) /\ lines' = lines + 1
        BY <1>2 DEF WriteKey, WriteTableKey, WriteHeader, WriteComment, MayWrite, AppendLine
    <2>2. lines' # Closed
        BY <2>1, TomlBlocksAssumption DEF Closed
    <2> QED
        BY <2>2 DEF KeepsOrderOfKeys
<1>3. CASE UNCHANGED vars
    BY <1>3
<1> QED
    BY <1>1, <1>2, <1>3 DEF Next

(* An edit moves no field past another that is a table as it is, or is     *)
(* none as it is not (tomlKeyOrder, orderedKeys).                          *)
THEOREM OrderIsKept ==
    Spec => EditsKeepTheAuthoredOrder
<1>1. Init => IInv
    BY InitIInv
<1>2. IInv /\ [Next]_vars => [KeepsOrderOfKeys]_vars
    BY NextOrder
<1>3. EditsKeepTheAuthoredOrder <=> [][KeepsOrderOfKeys]_vars
    BY DEF EditsKeepTheAuthoredOrder, KeepsOrderOfKeys
<1> QED
    BY <1>1, <1>2, <1>3, NextIInv, PTL DEF Spec

(* Every value that is given is a table to tomlKeyOrder exactly when the   *)
(* library writes it under a header.                                       *)
ValuesAgree ==
    \A value \in AuthorValues \cup EditValues : isTOMLTable(value) = UnderHeader(value)

(* Every field is a table to tomlKeyOrder exactly when the library         *)
(* writes it under a header.                                               *)
Agrees(values) == \A name \in DOMAIN values : isTOMLTable(values[name]) = UnderHeader(values[name])

(* The inductive invariant of what is read back. *)
ReadBackInv == IInv /\ Agrees(fields) /\ WrittenBlocksReadBack

(* The values headers make agree, whatever the instance. *)
LEMMA MapsAgree ==
    \A value \in {Map, List(<<Map>>), List(<<Map, Map>>)} :
        isTOMLTable(value) = UnderHeader(value)
<1>1. isTOMLTable(Map) = TRUE /\ UnderHeader(Map) = TRUE
    BY SimpleValues, TableIs DEF UnderHeader
<1>2. ASSUME NEW elems, List(elems) \in Values, elems # <<>>, elems[1] = Map,
             \A i \in DOMAIN elems : elems[i] = Map
      PROVE  isTOMLTable(List(elems)) = UnderHeader(List(elems))
    <2> DEFINE value == List(elems)
    <2>1. value.kind = "list" /\ value.elems = elems
        BY ListIs
    <2>2. value \in Values
        BY <1>2
    <2> HIDE DEF value
    <2>3. isTOMLTable(value) = TRUE
        BY <1>1, <1>2, <2>1, <2>2, TableIs
    <2>4. UnderHeader(value) = TRUE
        BY <1>2, <2>1, SimpleValues DEF UnderHeader
    <2> QED
        BY <2>3, <2>4 DEF value
<1>3. isTOMLTable(List(<<Map>>)) = UnderHeader(List(<<Map>>))
    <2> DEFINE elems == <<Map>>
    <2>1. elems # <<>> /\ elems[1] = Map /\ \A i \in DOMAIN elems : elems[i] = Map
        BY DEF Map
    <2>2. List(elems) \in Values
        BY MapLists
    <2> HIDE DEF elems
    <2>3. isTOMLTable(List(elems)) = UnderHeader(List(elems))
        BY <1>2, <2>1, <2>2
    <2> QED
        BY <2>3 DEF elems
<1>4. isTOMLTable(List(<<Map, Map>>)) = UnderHeader(List(<<Map, Map>>))
    <2> DEFINE elems == <<Map, Map>>
    <2>1. elems # <<>> /\ elems[1] = Map /\ \A i \in DOMAIN elems : elems[i] = Map
        BY DEF Map
    <2>2. List(elems) \in Values
        BY MapLists
    <2> HIDE DEF elems
    <2>3. isTOMLTable(List(elems)) = UnderHeader(List(elems))
        BY <1>2, <2>1, <2>2
    <2> QED
        BY <2>3 DEF elems
<1> QED
    BY <1>1, <1>3, <1>4

(* Nothing that is written ends up in the table of another field. *)
LEMMA AllCounted ==
    ASSUME IInv, NEW wanted, IsWanted(wanted), Agrees(wanted)
    PROVE  ToSet(ReadOf(wanted)) = DOMAIN wanted
<1> DEFINE order == OrderOf(wanted)
<1>1. /\ order \in Seq(Texts) /\ ToSet(order) = DOMAIN wanted /\ Distinct(order)
      /\ ToSet(ReadOf(wanted)) = CountedIn(wanted, order)
      /\ CountedIn(wanted, order) \subseteq DOMAIN wanted
    BY WantedOrder
<1>2. DOMAIN order = 1..Len(order) /\ \A i \in 1..Len(order) : order[i] \in ToSet(order)
    BY <1>1, ToSetIs
<1>3. \A one, other \in DOMAIN wanted :
          ~isTOMLTable(wanted[one]) /\ isTOMLTable(wanted[other]) => Precedes(order, one, other)
    <2>1. tomlTopLevelKeys(block) \in Seq(Texts) /\ Distinct(tomlTopLevelKeys(block))
        BY BlockKeys DEF IInv
    <2>2. DOMAIN wanted \subseteq ToSet(Names)
        BY DEF IsWanted
    <2> QED
        BY <2>1, <2>2, KeyOrderIs DEF OrderOf
<1> HIDE DEF order
<1>4. ASSUME NEW name \in DOMAIN wanted PROVE name \in CountedIn(wanted, order)
    <2>1. CASE UnderHeader(wanted[name])
        BY <1>1, <2>1 DEF CountedIn
    <2>2. CASE ~UnderHeader(wanted[name])
        <3> SUFFICES ASSUME NEW i \in DOMAIN order, UnderHeader(wanted[order[i]])
                     PROVE  \E j \in DOMAIN order : order[j] = name /\ j < i
            BY <1>1 DEF CountedIn
        <3>1. order[i] \in DOMAIN wanted
            BY <1>1, <1>2
        <3>2. ~isTOMLTable(wanted[name]) /\ isTOMLTable(wanted[order[i]])
            BY <2>2, <3>1 DEF Agrees
        <3>3. Precedes(order, name, order[i])
            BY <1>3, <3>1, <3>2
        <3>4. PICK j, k \in DOMAIN order : j < k /\ order[j] = name /\ order[k] = order[i]
            BY <3>3 DEF Precedes
        <3>5. k = i
            BY <1>1, <3>4 DEF Distinct
        <3> QED
            BY <3>4, <3>5
    <2> QED
        BY <2>1, <2>2
<1> QED
    BY <1>1, <1>4 DEF order

(* An edit of such fields is read back as it was asked for. *)
LEMMA EncodeReadsBack ==
    ASSUME IInv, NEW wanted, IsWanted(wanted), Agrees(wanted), Encode(wanted)
    PROVE  Agrees(fields)' /\ WrittenBlocksReadBack'
<1>1. fields' = [name \in ToSet(ReadOf(wanted)) |-> wanted[name]] /\ asked' = wanted
    BY EncodeIs
<1>2. ToSet(ReadOf(wanted)) = DOMAIN wanted
    BY AllCounted
<1>3. fields' = wanted
    BY <1>1, <1>2 DEF IsWanted
<1> QED
    BY <1>1, <1>3 DEF Agrees, WrittenBlocksReadBack

(* One more such value keeps them so. *)
LEMMA WithAgrees ==
    ASSUME Agrees(fields), NEW name, NEW value, isTOMLTable(value) = UnderHeader(value)
    PROVE  Agrees(With(name, value))
<1> DEFINE d == DOMAIN fields \cup {name}
           f == [n \in d |-> IF n = name THEN value ELSE fields[n]]
<1>1. DOMAIN f = d /\ \A n \in d : f[n] = IF n = name THEN value ELSE fields[n]
    OBVIOUS
<1> HIDE DEF f
<1>2. Agrees(f)
    BY <1>1 DEF Agrees
<1> QED
    BY <1>2 DEF With, f

(* So does a line of the author. *)
LEMMA DefineReadsBack ==
    ASSUME Agrees(fields), NEW name, NEW value, isTOMLTable(value) = UnderHeader(value),
           Define(name, value)
    PROVE  Agrees(fields)' /\ WrittenBlocksReadBack'
<1>1. fields' = With(name, value) /\ asked' = fields'
    BY DEF Define
<1>2. Agrees(With(name, value))
    BY WithAgrees
<1> QED
    BY <1>1, <1>2 DEF WrittenBlocksReadBack, Agrees

(* Every step keeps the invariant. *)
LEMMA NextReadsBack ==
    ASSUME ValuesAgree, ReadBackInv, [Next]_vars
    PROVE  ReadBackInv'
<1>1. IInv /\ Agrees(fields) /\ WrittenBlocksReadBack
    BY DEF ReadBackInv
<1>2. IInv'
    BY <1>1, NextIInv
<1>3. CASE WriteKey
    <2>1. PICK n \in FreshLengths :
              \E line \in FittingKeyLines[n] : Define(line.name, line.value)
        BY <1>3 DEF WriteKey
    <2>2. PICK line \in FittingKeyLines[n] : Define(line.name, line.value)
        BY <2>1
    <2>3. line.value \in AuthorValues \cup {Map}
        BY <1>1, FittingLines, KeyLineRead
    <2>4. isTOMLTable(line.value) = UnderHeader(line.value)
        BY <2>3, MapsAgree DEF ValuesAgree
    <2> QED
        BY <1>1, <1>2, <2>2, <2>4, DefineReadsBack DEF ReadBackInv
<1>4. CASE WriteHeader
    <2>1. PICK n \in FreshLengths :
              \E line \in FittingHeaderLines[n] : Define(line.name, HeaderValue(line))
        BY <1>4 DEF WriteHeader, HeaderValue
    <2>2. PICK line \in FittingHeaderLines[n] : Define(line.name, HeaderValue(line))
        BY <2>1
    <2>3. line.value \in {Map, List(<<Map>>)}
        BY <1>1, FittingLines, HeaderLineRead
    <2>4. isTOMLTable(HeaderValue(line)) = UnderHeader(HeaderValue(line))
        BY <1>1, <2>3, MapsAgree DEF Agrees, HeaderValue
    <2> QED
        BY <1>1, <1>2, <2>2, <2>4, DefineReadsBack DEF ReadBackInv
<1>5. CASE WriteTableKey \/ WriteComment \/ UNCHANGED vars
    <2>1. fields' = fields /\ asked' = asked
        BY <1>5 DEF WriteTableKey, WriteComment, vars
    <2> QED
        BY <1>1, <1>2, <2>1 DEF ReadBackInv, Agrees, WrittenBlocksReadBack
<1>6. CASE SetField
    <2>1. PICK name \in EditKeys, value \in EditValues : Encode(With(name, value))
        BY <1>6 DEF SetField
    <2>2. Agrees(With(name, value))
        BY <1>1, WithAgrees DEF ValuesAgree
    <2>3. IsWanted(With(name, value))
        BY <1>1, SetWanted
    <2> QED
        BY <1>1, <1>2, <2>1, <2>2, <2>3, EncodeReadsBack DEF ReadBackInv
<1>7. CASE RemoveField
    <2>1. PICK name \in EditKeys \cap DOMAIN fields :
              Encode([n \in DOMAIN fields \ {name} |-> fields[n]])
        BY <1>7 DEF RemoveField
    <2> DEFINE f == [n \in DOMAIN fields \ {name} |-> fields[n]]
    <2>2. Agrees(f)
        BY <1>1 DEF Agrees
    <2>3. IsWanted(f)
        BY <1>1, RemoveWanted
    <2>4. Encode(f)
        BY <2>1
    <2> HIDE DEF f
    <2> QED
        BY <1>1, <1>2, <2>2, <2>3, <2>4, EncodeReadsBack DEF ReadBackInv
<1> QED
    BY <1>3, <1>4, <1>5, <1>6, <1>7 DEF Next

(* A block that is written decodes to the fields that were asked for,      *)
(* where isTOMLTable says of every value given how the library writes it   *)
(* (encode, tomlKeyOrder).                                                 *)
THEOREM WrittenReadBack ==
    ValuesAgree => (Spec => []WrittenBlocksReadBack)
<1> SUFFICES ASSUME ValuesAgree PROVE Spec => []WrittenBlocksReadBack
    OBVIOUS
<1>1. Init => ReadBackInv
    <2> SUFFICES ASSUME Init PROVE ReadBackInv
        OBVIOUS
    <2>1. DOMAIN fields = {} /\ fields = asked
        BY DEF Init
    <2> QED
        BY <2>1, InitIInv DEF ReadBackInv, Agrees, WrittenBlocksReadBack
<1>2. ReadBackInv /\ [Next]_vars => ReadBackInv'
    BY NextReadsBack
<1>3. ReadBackInv => WrittenBlocksReadBack
    BY DEF ReadBackInv
<1> QED
    BY <1>1, <1>2, <1>3, PTL DEF Spec
==============================================================================
