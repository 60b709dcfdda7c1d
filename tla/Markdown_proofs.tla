--------------------------- MODULE Markdown_proofs ---------------------------
(***************************************************************************)
(* Theorems about Markdown, for files of any length and content, for any   *)
(* limits and for any number of edits and rewrites.                        *)
(*                                                                         *)
(* A file is partitioned into five slots by Scan, and concatenated from    *)
(* five slots by Bytes: that an unedited file, or an unedited block, comes *)
(* out as it went in is a matter of the slots being the same.  That every  *)
(* file of the cycle can be read so far at all needs the types of what an  *)
(* edit makes Bytes write, and for these the order of the keys to exist.   *)
(***************************************************************************)
EXTENDS Markdown, SequenceTheorems, FiniteSetTheorems, WellFoundedInduction, TLAPS

(* A set of positions that is not empty has a first one.                   *)
LEMMA LeastOfPositions ==
    ASSUME NEW S \in SUBSET Nat, S # {}
    PROVE  Least(S) \in S /\ \A y \in S : Least(S) <= y
<1>1. PICK x \in S : \A y \in S : <<y, x>> \notin OpToRel(<, Nat)
    BY WFMin, NatLessThanWellFounded
<1>2. \A y \in S : ~ (y < x)
    BY <1>1, Zenon DEF OpToRel
<1>3. \A y \in S : x <= y
    BY <1>2
<1> QED
    BY <1>3 DEF Least

(* A line ends after it starts, and within the text.                       *)
LEMMA NextLineBounds ==
    ASSUME NEW text \in Seq(Marks), NEW i \in 1..(Len(text) + 1)
    PROVE  /\ NextLine(text, i) \in i..(Len(text) + 1)
           /\ i <= Len(text) => NextLine(text, i) > i
<1> DEFINE ends == {j \in i..Len(text) : IsLineEnd(text[j])}
<1>1. CASE ends = {}
    BY <1>1 DEF NextLine
<1>2. CASE ends # {}
    <2>1. Least(ends) \in ends
        <3>1. ends \in SUBSET Nat
            BY LenProperties
        <3> QED
            BY <1>2, <3>1, LeastOfPositions
    <2>2. NextLine(text, i) = Least(ends) + 1
        BY <1>2 DEF NextLine
    <2> QED
        BY <2>1, <2>2
<1> QED
    BY <1>1, <1>2

(* A text cut at three places is the concatenation of its four pieces.     *)
LEMMA FourPieces ==
    ASSUME NEW text \in Seq(Marks),
           NEW a \in 1..(Len(text) + 1),
           NEW b \in a..(Len(text) + 1),
           NEW c \in b..(Len(text) + 1)
    PROVE  /\ SubSeq(text, 1, a - 1) \in Seq(Marks)
           /\ SubSeq(text, a, b - 1) \in Seq(Marks)
           /\ SubSeq(text, b, c - 1) \in Seq(Marks)
           /\ SubSeq(text, c, Len(text)) \in Seq(Marks)
           /\ text = SubSeq(text, 1, a - 1) \o SubSeq(text, a, b - 1)
                        \o SubSeq(text, b, c - 1) \o SubSeq(text, c, Len(text))
<1>1. /\ SubSeq(text, 1, a - 1) \in Seq(Marks)
      /\ SubSeq(text, a, b - 1) \in Seq(Marks)
      /\ SubSeq(text, b, c - 1) \in Seq(Marks)
      /\ SubSeq(text, c, Len(text)) \in Seq(Marks)
    <2>1. \A i \in 1..Len(text) : text[i] \in Marks
        BY ElementOfSeq
    <2> QED
        BY <2>1, SubSeqProperties
<1>2. SubSeq(text, 1, a - 1) \o SubSeq(text, a, b - 1) = SubSeq(text, 1, b - 1)
    <2>1. /\ 1 \in 1..(Len(text) + 1) /\ a - 1 \in 0..Len(text)
          /\ b - 1 \in (a - 1)..Len(text) /\ (a - 1) + 1 = a
        OBVIOUS
    <2>2. SubSeq(text, 1, a - 1) \o SubSeq(text, (a - 1) + 1, b - 1) = SubSeq(text, 1, b - 1)
        BY ONLY <2>1, text \in Seq(Marks), ConcatAdjacentSubSeq
    <2> QED
        BY <2>1, <2>2
<1>3. SubSeq(text, 1, b - 1) \o SubSeq(text, b, c - 1) = SubSeq(text, 1, c - 1)
    <2>1. /\ 1 \in 1..(Len(text) + 1) /\ b - 1 \in 0..Len(text)
          /\ c - 1 \in (b - 1)..Len(text) /\ (b - 1) + 1 = b
        OBVIOUS
    <2>2. SubSeq(text, 1, b - 1) \o SubSeq(text, (b - 1) + 1, c - 1) = SubSeq(text, 1, c - 1)
        BY ONLY <2>1, text \in Seq(Marks), ConcatAdjacentSubSeq
    <2> QED
        BY <2>1, <2>2
<1>4. SubSeq(text, 1, c - 1) \o SubSeq(text, c, Len(text)) = text
    <2> DEFINE k == c - 1
    <2>1. /\ 1 \in 1..(Len(text) + 1) /\ k \in 0..Len(text)
          /\ Len(text) \in k..Len(text) /\ k + 1 = c
        OBVIOUS
    <2> HIDE DEF k
    <2>2. SubSeq(text, 1, k) \o SubSeq(text, k + 1, Len(text)) = SubSeq(text, 1, Len(text))
        BY ONLY <2>1, 1 - 1 = 0, text \in Seq(Marks), ConcatAdjacentSubSeq
    <2>3. SubSeq(text, 1, k) \o SubSeq(text, c, Len(text)) = text
        BY <2>1, <2>2, SubSeqFull
    <2> QED
        BY <2>3 DEF k
<1> QED
    BY <1>1, <1>2, <1>3, <1>4

(***************************************************************************)
(* What Scan makes of a file: a partition of it into five slots, of which  *)
(* the block has the shape its format calls for.                           *)
(***************************************************************************)
MarkOf(layout) == IF layout.bom THEN <<Mark("bom")>> ELSE <<>>

Fenced(p) ==
    /\ p.format \in {"yaml", "toml"}
    /\ p.layout.open # <<>>
    /\ p.raw = <<>> \/ EndsInLine(p.raw)

Braced(p) ==
    /\ p.format = "json"
    /\ p.layout.open = <<>>
    /\ p.raw # <<>>
    /\ EndsInLine(p.raw) \/ p.layout.close # <<>> \/ p.body = <<>>

Bare(p) ==
    p.format = "none" /\ p.layout = ZeroLayout /\ p.raw = <<>>

Partition(data, p) ==
    /\ p.layout.bom \in BOOLEAN
    /\ p.layout.open \in Seq(Marks)
    /\ p.raw \in Seq(Marks)
    /\ p.layout.close \in Seq(Marks)
    /\ p.body \in Seq(Marks)
    /\ MarkOf(p.layout) \o p.layout.open \o p.raw \o p.layout.close \o p.body = data
    /\ Fenced(p) \/ Braced(p) \/ Bare(p)

(* The slots of a file without its byte-order mark.                        *)
Slots(rest, bom, p) ==
    /\ p.layout.bom = bom
    /\ p.layout.open \in Seq(Marks) /\ p.raw \in Seq(Marks)
    /\ p.layout.close \in Seq(Marks) /\ p.body \in Seq(Marks)
    /\ rest = p.layout.open \o p.raw \o p.layout.close \o p.body

(* A fenced block: the opening line, the block, the closing line, the      *)
(* rest.  The block is empty or ends where the closing line starts.        *)
LEMMA ScanDelimitedParts ==
    ASSUME NEW rest \in Seq(Marks), rest # <<>>, NEW bom \in BOOLEAN,
           NEW format \in {"yaml", "toml"},
           ScanDelimited(rest, bom, format).ok
    PROVE  /\ Slots(rest, bom, ScanDelimited(rest, bom, format))
           /\ Fenced(ScanDelimited(rest, bom, format))
<1> DEFINE start == NextLine(rest, 1)
           closers == {i \in LineStarts(rest, start) :
                           IsDelimiterLine(rest, i, Fences[format])}
           at == Least(closers)
           next == NextLine(rest, at)
           p == ScanDelimited(rest, bom, format)
<1>1. start \in 2..(Len(rest) + 1)
    BY NextLineBounds
<1>2. closers # {}
    BY DEF ScanDelimited, Rejected
<1>3. at \in closers
    <2>1. closers \in SUBSET Nat
        BY <1>1 DEF LineStarts
    <2> QED
        BY <1>2, <2>1, LeastOfPositions
<1>4. at \in start..Len(rest) /\ (at = start \/ IsLineEnd(rest[at - 1]))
    BY <1>3 DEF LineStarts
<1>5. next \in (at + 1)..(Len(rest) + 1)
    <2>1. at \in 1..(Len(rest) + 1) /\ at <= Len(rest)
        BY <1>1, <1>4
    <2> HIDE DEF at
    <2> QED
        BY <2>1, NextLineBounds
<1>6. p = Parts([bom |-> bom, open |-> SubSeq(rest, 1, start - 1),
                 close |-> SubSeq(rest, at, next - 1)],
                format, SubSeq(rest, start, at - 1), SubSeq(rest, next, Len(rest)))
    BY <1>2 DEF ScanDelimited, Rejected
<1> HIDE DEF start, closers, at, next, p
<1>7. /\ p.layout.bom = bom /\ p.format = format
      /\ p.layout.open = SubSeq(rest, 1, start - 1)
      /\ p.raw = SubSeq(rest, start, at - 1)
      /\ p.layout.close = SubSeq(rest, at, next - 1)
      /\ p.body = SubSeq(rest, next, Len(rest))
    BY <1>6 DEF Parts
<1>8. /\ start \in 1..(Len(rest) + 1) /\ at \in start..(Len(rest) + 1)
      /\ next \in at..(Len(rest) + 1)
    BY <1>1, <1>4, <1>5
<1>9. \A i \in 1..Len(rest) : rest[i] \in Marks
    BY ElementOfSeq
<1>10. p.layout.open # <<>>
    <2>1. Len(SubSeq(rest, 1, start - 1)) = start - 1
        BY <1>1, <1>9, SubSeqProperties
    <2> QED
        BY <1>1, <1>7, <2>1
<1>11. p.raw = <<>> \/ EndsInLine(p.raw)
    <2>1. CASE at = start
        BY <1>1, <1>7, <2>1, SubSeqEmpty
    <2>2. CASE at # start
        <3>1. /\ Len(SubSeq(rest, start, at - 1)) = at - start
              /\ SubSeq(rest, start, at - 1)[at - start] = rest[at - 1]
            BY <1>1, <1>4, <1>9, <2>2, SubSeqProperties
        <3> QED
            BY <1>1, <1>4, <1>7, <2>2, <3>1 DEF EndsInLine
    <2> QED
        BY <2>1, <2>2
<1>12. /\ p.layout.open \in Seq(Marks) /\ p.raw \in Seq(Marks)
       /\ p.layout.close \in Seq(Marks) /\ p.body \in Seq(Marks)
       /\ rest = p.layout.open \o p.raw \o p.layout.close \o p.body
    <2>1. /\ SubSeq(rest, 1, start - 1) \in Seq(Marks)
          /\ SubSeq(rest, start, at - 1) \in Seq(Marks)
          /\ SubSeq(rest, at, next - 1) \in Seq(Marks)
          /\ SubSeq(rest, next, Len(rest)) \in Seq(Marks)
          /\ rest = SubSeq(rest, 1, start - 1) \o SubSeq(rest, start, at - 1)
                        \o SubSeq(rest, at, next - 1) \o SubSeq(rest, next, Len(rest))
        BY ONLY <1>8, rest \in Seq(Marks), FourPieces
    <2> QED
        BY <1>7, <2>1, Zenon
<1> QED
    BY <1>7, <1>10, <1>11, <1>12, Zenon DEF Fenced, Slots, p

(* A JSON block: the object, the rest of its last line, the rest.  Where   *)
(* that line has nothing after the object, the file ends.                  *)
LEMMA ScanJSONParts ==
    ASSUME NEW rest \in Seq(Marks), NEW bom \in BOOLEAN,
           NEW end \in 2..Len(rest)
    PROVE  /\ Slots(rest, bom, ScanJSON(rest, bom, end))
           /\ Braced(ScanJSON(rest, bom, end))
<1> DEFINE next == NextLine(rest, end + 1)
           p == ScanJSON(rest, bom, end)
<1>1. /\ next \in (end + 1)..(Len(rest) + 1)
      /\ end + 1 <= Len(rest) => next > end + 1
    BY NextLineBounds
<1>2. p = Parts([bom |-> bom, open |-> <<>>, close |-> SubSeq(rest, end + 1, next - 1)],
                "json", SubSeq(rest, 1, end), SubSeq(rest, next, Len(rest)))
    BY DEF ScanJSON
<1> HIDE DEF next, p
<1>3. /\ p.ok /\ p.layout.bom = bom /\ p.format = "json"
      /\ p.layout.open = <<>>
      /\ p.raw = SubSeq(rest, 1, end)
      /\ p.layout.close = SubSeq(rest, end + 1, next - 1)
      /\ p.body = SubSeq(rest, next, Len(rest))
    BY <1>2 DEF Parts
<1>4. \A i \in 1..Len(rest) : rest[i] \in Marks
    BY ElementOfSeq
<1>5. p.raw # <<>>
    <2>1. Len(SubSeq(rest, 1, end)) = end
        BY <1>4, SubSeqProperties
    <2> QED
        BY <1>3, <2>1
<1>6. p.layout.close # <<>> \/ p.body = <<>>
    <2>1. CASE end + 1 <= Len(rest)
        <3>1. Len(SubSeq(rest, end + 1, next - 1)) = next - 1 - end
            BY <1>1, <1>4, <2>1, SubSeqProperties
        <3>2. Len(p.layout.close) > 0
            BY <1>1, <1>3, <2>1, <3>1
        <3> QED
            BY <3>2
    <2>2. CASE end + 1 > Len(rest)
        BY <1>1, <1>3, <2>2, SubSeqEmpty
    <2> QED
        BY <2>1, <2>2
<1>7. /\ SubSeq(rest, 1, end) \in Seq(Marks)
      /\ SubSeq(rest, end + 1, next - 1) \in Seq(Marks)
      /\ SubSeq(rest, next, Len(rest)) \in Seq(Marks)
      /\ rest = <<>> \o SubSeq(rest, 1, end)
                     \o SubSeq(rest, end + 1, next - 1) \o SubSeq(rest, next, Len(rest))
    <2> DEFINE start == 1
               at == end + 1
    <2>1. /\ start \in 1..(Len(rest) + 1) /\ at \in start..(Len(rest) + 1)
          /\ next \in at..(Len(rest) + 1)
        BY <1>1
    <2>2. at - 1 = end /\ start - 1 = 0
        OBVIOUS
    <2> HIDE DEF start, at
    <2>3. /\ SubSeq(rest, start, at - 1) \in Seq(Marks)
          /\ SubSeq(rest, at, next - 1) \in Seq(Marks)
          /\ SubSeq(rest, next, Len(rest)) \in Seq(Marks)
          /\ rest = SubSeq(rest, 1, start - 1) \o SubSeq(rest, start, at - 1)
                        \o SubSeq(rest, at, next - 1) \o SubSeq(rest, next, Len(rest))
        BY ONLY <2>1, rest \in Seq(Marks), FourPieces
    <2>4. SubSeq(rest, 1, 0) = <<>>
        BY SubSeqEmpty
    <2> QED
        BY <2>2, <2>3, <2>4, Zenon DEF start, at
<1>8. <<>> \in Seq(Marks)
    BY EmptySeq
<1> QED
    BY <1>3, <1>5, <1>6, <1>7, <1>8, Zenon DEF Braced, Slots, p

(* A byte-order mark before the four slots of the rest of a file.          *)
LEMMA ConcatOfMarks == \A s, t \in Seq(Marks) : s \o t \in Seq(Marks)
BY ConcatProperties

(* Concatenation of marks is associative. *)
LEMMA ConcatReassociates ==
    \A s, t, u \in Seq(Marks) : (s \o t) \o u = s \o (t \o u)
BY ConcatAssociative

MarkLast(m, o, r, c, b) ==
    m \o o \o r \o c \o b = m \o (o \o r \o c \o b)

(* A piece in front of four others: added one by one, or before the four at
   once. *)
LEMMA MarkBeforeSlots ==
    ASSUME NEW m \in Seq(Marks), NEW o \in Seq(Marks), NEW r \in Seq(Marks),
           NEW c \in Seq(Marks), NEW b \in Seq(Marks)
    PROVE  MarkLast(m, o, r, c, b)
<1>1. o \o r \in Seq(Marks) /\ o \o r \o c \in Seq(Marks)
    BY ConcatOfMarks
<1>2. m \o o \o r = m \o (o \o r)
    BY ConcatReassociates
<1>3. m \o (o \o r) \o c = m \o (o \o r \o c)
    <2> DEFINE x == o \o r
    <2>1. x \in Seq(Marks)
        BY <1>1
    <2> HIDE DEF x
    <2>2. (m \o x) \o c = m \o (x \o c)
        BY ONLY m \in Seq(Marks), x \in Seq(Marks), c \in Seq(Marks), ConcatReassociates
    <2> QED
        BY <2>2, Zenon DEF x
<1>4. m \o (o \o r \o c) \o b = m \o (o \o r \o c \o b)
    <2> DEFINE x == o \o r \o c
    <2>1. x \in Seq(Marks)
        BY <1>1
    <2> HIDE DEF x
    <2>2. (m \o x) \o b = m \o (x \o b)
        BY ONLY m \in Seq(Marks), x \in Seq(Marks), b \in Seq(Marks), ConcatReassociates
    <2> QED
        BY <2>2, Zenon DEF x
<1> QED
    BY <1>2, <1>3, <1>4, Zenon DEF MarkLast

(* Scan assigns every byte of a file to one of five slots, in their order  *)
(* (doc.go, "The concatenation identity").                                 *)
LEMMA ScanPartitions ==
    ASSUME NEW data \in Seq(Marks), Scan(data).ok
    PROVE  Partition(data, Scan(data))
<1> DEFINE bom == data # <<>> /\ data[1].is = "bom"
           rest == IF bom THEN Tail(data) ELSE data
           mark == IF bom THEN <<Mark("bom")>> ELSE <<>>
           opened == {f \in DOMAIN Fences : IsDelimiterLine(rest, 1, Fences[f])}
           end == CHOOSE e \in ObjectEnds(rest) : TRUE
           format == CHOOSE f \in opened : TRUE
<1>1. bom \in BOOLEAN
    OBVIOUS
<1>2. rest \in Seq(Marks) /\ mark \in Seq(Marks) /\ mark \o rest = data
    <2>1. CASE bom
        <3>1. data[1] = Mark("bom")
            <4>1. data[1] \in Marks
                BY <2>1, ElementOfSeq, EmptySeq
            <4>2. data[1] \notin [is: {"yaml", "toml", "json"}, key: Nat, value: Nat,
                                  style: {"plain", "quoted"}]
                BY <2>1
            <4>3. PICK is : data[1] = Mark(is)
                BY <4>1, <4>2, Zenon DEF Marks
            <4> QED
                BY <2>1, <4>3 DEF Mark
        <3>2. <<Mark("bom")>> \in Seq(Marks)
            <4>1. Mark("bom") \in Marks
                BY Zenon DEF Marks
            <4> HIDE DEF Marks
            <4> QED
                BY <4>1
        <3>3. Tail(data) \in Seq(Marks)
            BY <2>1, HeadTailProperties
        <3>4. data = <<data[1]>> \o SubSeq(data, 2, Len(data))
            <4>1. 1 \in 1..Len(data) /\ Len(data) \in 1..Len(data)
                BY <2>1, EmptySeq, LenProperties
            <4> QED
                BY <4>1, SubSeqRecursiveFirst, SubSeqFull
        <3>5. Tail(data) = SubSeq(data, 2, Len(data))
            BY <2>1, TailIsSubSeq
        <3> QED
            BY <2>1, <3>1, <3>2, <3>3, <3>4, <3>5, Zenon
    <2>2. CASE ~bom
        BY <2>2, ConcatEmptySeq, EmptySeq
    <2> QED
        BY <2>1, <2>2
<1> HIDE DEF bom, rest, mark
<1>3. ASSUME NEW p, p.ok, Scan(data) = p, Slots(rest, bom, p), Fenced(p) \/ Braced(p)
      PROVE  Partition(data, p)
    <2>1. MarkOf(p.layout) = mark
        BY <1>3 DEF MarkOf, mark, Slots
    <2>2. mark \o p.layout.open \o p.raw \o p.layout.close \o p.body = data
        <3>1. mark \o p.layout.open \o p.raw \o p.layout.close \o p.body
                  = mark \o (p.layout.open \o p.raw \o p.layout.close \o p.body)
            <4>1. /\ mark \in Seq(Marks) /\ p.layout.open \in Seq(Marks)
                  /\ p.raw \in Seq(Marks) /\ p.layout.close \in Seq(Marks)
                  /\ p.body \in Seq(Marks)
                BY <1>2, <1>3 DEF Slots
            <4>2. MarkLast(mark, p.layout.open, p.raw, p.layout.close, p.body)
                BY ONLY <4>1, MarkBeforeSlots, SMT
            <4> QED
                BY <4>2, Zenon DEF MarkLast
        <3> QED
            BY <1>2, <1>3, <3>1, Zenon DEF Slots
    <2> QED
        BY <1>1, <1>3, <2>1, <2>2, Zenon DEF Partition, Slots
<1>4. ASSUME NEW p, RejectNUL(p).ok
      PROVE  p.ok /\ RejectNUL(p) = p
    BY <1>4 DEF RejectNUL, Rejected
<1>5. CASE rest # <<>> /\ rest[1].is = "{" /\ ObjectEnds(rest) # {}
    <2>1. end \in 2..Len(rest)
        BY <1>5 DEF ObjectEnds
    <2>2. Scan(data) = RejectNUL(ScanJSON(rest, bom, end))
        BY <1>5 DEF Scan, bom, rest
    <2> HIDE DEF end
    <2>3. Scan(data) = ScanJSON(rest, bom, end) /\ ScanJSON(rest, bom, end).ok
        BY <1>4, <2>2
    <2>4. /\ Slots(rest, bom, ScanJSON(rest, bom, end))
          /\ Braced(ScanJSON(rest, bom, end))
        BY <1>1, <1>2, <2>1, ScanJSONParts, Zenon
    <2> QED
        BY <1>3, <2>3, <2>4, Zenon
<1>6. CASE ~ (rest # <<>> /\ rest[1].is = "{" /\ ObjectEnds(rest) # {}) /\ opened = {}
    <2>1. Scan(data) = Parts(ZeroLayout, "none", <<>>, data)
        BY <1>6 DEF Scan, bom, rest
    <2>2. <<>> \o <<>> \o <<>> \o <<>> \o data = data
        BY ConcatEmptySeq, EmptySeq
    <2> DEFINE p == Scan(data)
    <2>3. /\ p.layout = ZeroLayout /\ p.format = "none" /\ p.raw = <<>> /\ p.body = data
          /\ p.layout.bom = FALSE /\ p.layout.open = <<>> /\ p.layout.close = <<>>
        BY <2>1 DEF Parts, ZeroLayout
    <2> HIDE DEF p
    <2>4. MarkOf(p.layout) = <<>>
        BY <2>3 DEF MarkOf
    <2>5. Partition(data, p)
        BY <2>2, <2>3, <2>4, EmptySeq, Zenon DEF Partition, Bare
    <2> QED
        BY <2>5 DEF p
<1>7. CASE ~ (rest # <<>> /\ rest[1].is = "{" /\ ObjectEnds(rest) # {}) /\ opened # {}
    <2>1. format \in {"yaml", "toml"} /\ IsDelimiterLine(rest, 1, Fences[format])
        BY <1>7 DEF Fences
    <2>2. rest # <<>>
        BY <1>2, <2>1, EmptySeq DEF IsDelimiterLine
    <2>3. Scan(data) = RejectNUL(ScanDelimited(rest, bom, format))
        BY <1>7 DEF Scan, bom, rest
    <2> HIDE DEF format
    <2>4. /\ Scan(data) = ScanDelimited(rest, bom, format)
          /\ ScanDelimited(rest, bom, format).ok
        BY <1>4, <2>3
    <2>5. /\ Slots(rest, bom, ScanDelimited(rest, bom, format))
          /\ Fenced(ScanDelimited(rest, bom, format))
        BY <1>1, <1>2, <2>1, <2>2, <2>4, ScanDelimitedParts, Zenon
    <2> QED
        BY <1>3, <2>4, <2>5, Zenon
<1> QED
    BY <1>5, <1>6, <1>7

(***************************************************************************)
(* What Parse hands out, and what Bytes makes of it.                       *)
(***************************************************************************)

(* An empty block says nothing.                                            *)
LEMMA EmptyBlockHasNoFields ==
    ASSUME NEW format \in {"yaml", "toml"}, Decode(<<>>, format).ok
    PROVE  Decode(<<>>, format).fields = NoFields
<1>1. EntriesOf(<<>>, format) = {}
    BY EmptySeq DEF EntriesOf, Positions
<1>2. Decode(<<>>, format).fields
          = [k \in {<<>>[i].key : i \in EntriesOf(<<>>, format)} |->
                <<>>[Greatest({i \in EntriesOf(<<>>, format) : <<>>[i].key = k})].value]
    BY Zenon DEF Decode, Rejected
<1> QED
    BY <1>1, <1>2 DEF NoFields

(* What Parse accepts is what Scan found, decoded.                         *)
LEMMA ParseAccepts ==
    ASSUME NEW data, Parse(data).ok
    PROVE  /\ Scan(data).ok
           /\ Scan(data).format = "none" =>
                  Parse(data) = Document(Content("none", <<>>, NoFields, Scan(data).body),
                                         Scan(data).layout)
           /\ Scan(data).format # "none" =>
                  /\ Decode(Scan(data).raw, Scan(data).format).ok
                  /\ Parse(data) =
                         Document(Content(Scan(data).format, Scan(data).raw,
                                          Decode(Scan(data).raw, Scan(data).format).fields,
                                          Scan(data).body),
                                  Scan(data).layout)
                  /\ Valid(Parse(data).content)
<1> DEFINE p == Scan(data)
           decoded == Decode(p.raw, p.format)
           content == Content(p.format, p.raw, decoded.fields, p.body)
           bare == Document(Content("none", <<>>, NoFields, p.body), p.layout)
           parsed == Document(content, p.layout)
<1>1. Parse(data) =
          IF ~p.ok THEN Rejected
          ELSE IF p.format = "none" THEN bare
          ELSE IF LineCount(p.raw) > MaxFrontMatterLines \/ ~decoded.ok THEN Rejected
          ELSE IF ~Valid(content) THEN Rejected
          ELSE parsed
    BY Zenon DEF Parse
<1>2. ~Rejected.ok
    BY DEF Rejected
<1>3. parsed.content = content
    BY DEF Document
<1> HIDE DEF p, decoded, content, bare, parsed
<1>4. /\ p.ok
      /\ p.format = "none" => Parse(data) = bare
      /\ p.format # "none" => decoded.ok /\ Valid(content) /\ Parse(data) = parsed
    BY <1>1, <1>2
<1> QED
    BY <1>3, <1>4, Zenon DEF p, decoded, content, bare, parsed

(* The block of a file that was only read is the block that was read.      *)
LEMMA AuthoredBlock ==
    ASSUME NEW p, Fenced(p) \/ Braced(p), Decode(p.raw, p.format).ok, NEW ending, NEW body
    PROVE  FrontMatterBlock(Content(p.format, p.raw, Decode(p.raw, p.format).fields, body),
                            ending)
               = [ok |-> TRUE, block |-> p.raw]
<1> DEFINE fields == Decode(p.raw, p.format).fields
           content == Content(p.format, p.raw, fields, body)
<1>1. /\ content.format = p.format /\ content.raw = p.raw /\ content.fields = fields
      /\ p.format # "none"
    BY DEF Content, Fenced, Braced
<1> HIDE DEF content
<1>2. CASE p.raw = <<>>
    <2>1. p.format \in {"yaml", "toml"}
        BY <1>2 DEF Fenced, Braced
    <2>2. fields = NoFields
        BY <1>2, <2>1, EmptyBlockHasNoFields
    <2> HIDE DEF fields
    <2>3. FrontMatterBlock(content, ending) = [ok |-> TRUE, block |-> <<>>]
        BY <1>1, <1>2, <2>1, <2>2 DEF FrontMatterBlock
    <2> QED
        BY <1>2, <2>3, Zenon DEF content, fields
<1>3. CASE p.raw # <<>>
    <2>1. Decode(content.raw, content.format).fields = content.fields
        BY <1>1
    <2>2. FrontMatterBlock(content, ending) = [ok |-> TRUE, block |-> content.raw]
        BY <1>1, <1>3, <2>1 DEF FrontMatterBlock, FieldsEqual
    <2> QED
        BY <1>1, <2>2, Zenon DEF content
<1> QED
    BY <1>2, <1>3

(* And nothing has to be added to end its last line.                       *)
LEMMA AuthoredBlockEnds ==
    ASSUME NEW p, Fenced(p) \/ Braced(p)
    PROVE  TerminateBlock(p.raw, p.layout, p.body) = p.raw
BY DEF TerminateBlock, Fenced, Braced

(* The shape of a file that has front matter is used as it is: the zero    *)
(* layout, which asks for the default one, is the default of JSON.         *)
LEMMA ShapeIsKept ==
    ASSUME NEW p, Fenced(p) \/ Braced(p)
    PROVE  (IF p.layout = ZeroLayout THEN DefaultLayout(p.format) ELSE p.layout) = p.layout
<1>1. CASE Fenced(p)
    BY <1>1 DEF Fenced, ZeroLayout
<1>2. CASE Braced(p)
    BY <1>2 DEF Braced, DefaultLayout, Fences
<1> QED
    BY <1>1, <1>2

(* Bytes concatenates the slots when the block needs no change.            *)
LEMMA BytesConcatenates ==
    ASSUME NEW content, NEW layout, NEW block,
           Valid(content),
           ~ (content.format = "none" /\ BodyOpensFrontMatter(content.body)),
           (IF layout = ZeroLayout THEN DefaultLayout(content.format) ELSE layout) = layout,
           FrontMatterBlock(content, LineEnding(layout)) = [ok |-> TRUE, block |-> block],
           TerminateBlock(block, layout, content.body) = block
    PROVE  Bytes(content, layout)
               = [ok |-> TRUE,
                  data |-> MarkOf(layout) \o layout.open \o block \o layout.close
                               \o content.body]
<1> DEFINE shape == IF layout = ZeroLayout THEN DefaultLayout(content.format) ELSE layout
           encoded == FrontMatterBlock(content, LineEnding(shape))
           refused == \/ ~Valid(content)
                      \/ content.format = "none" /\ BodyOpensFrontMatter(content.body)
           data == MarkOf(shape) \o shape.open
                       \o TerminateBlock(encoded.block, shape, content.body)
                       \o shape.close \o content.body
<1>1. Bytes(content, layout)
          = IF refused \/ ~encoded.ok THEN Rejected ELSE [ok |-> TRUE, data |-> data]
    BY Zenon DEF Bytes, MarkOf
<1>2. ~refused
    OBVIOUS
<1>3. shape = layout
    OBVIOUS
<1>4. encoded = [ok |-> TRUE, block |-> block]
    BY <1>3
<1> HIDE DEF shape, encoded, refused
<1>5. encoded.ok /\ encoded.block = block
    BY <1>4
<1>6. data = MarkOf(layout) \o layout.open \o block \o layout.close \o content.body
    BY <1>3, <1>5, Zenon
<1> HIDE DEF data
<1> QED
    BY <1>1, <1>2, <1>5, <1>6, Zenon

(* A file that has no front matter is its body, and does not open one.     *)
LEMMA BareFile ==
    ASSUME NEW data \in Seq(Marks), Scan(data).ok, Scan(data).format = "none"
    PROVE  Bytes(Content("none", <<>>, NoFields, Scan(data).body), Scan(data).layout)
               = [ok |-> TRUE, data |-> data]
<1> DEFINE p == Scan(data)
           content == Content("none", <<>>, NoFields, p.body)
<1>1. Partition(data, p)
    BY ScanPartitions, Zenon
<1>2. p.layout = ZeroLayout /\ p.raw = <<>> /\ p.body \in Seq(Marks)
    BY <1>1, "none" \notin {"yaml", "toml", "json"}, p.format = "none"
       DEF Partition, Bare, Fenced, Braced
<1>3. p.body = data
    <2>1. /\ p.layout.open = <<>> /\ p.layout.close = <<>> /\ MarkOf(p.layout) = <<>>
        BY <1>2 DEF ZeroLayout, MarkOf
    <2>2. MarkOf(p.layout) \o p.layout.open \o p.raw \o p.layout.close \o p.body = data
        BY <1>1, Zenon DEF Partition
    <2>3. <<>> \o <<>> \o <<>> \o <<>> \o p.body = data
        BY <1>2, <2>1, <2>2
    <2> HIDE DEF p
    <2>4. <<>> \o <<>> \o <<>> \o <<>> \o p.body = p.body
        BY <1>2, ConcatEmptySeq, EmptySeq
    <2> QED
        BY <2>3, <2>4
<1>4. p.ok /\ p.format = "none"
    OBVIOUS
<1> HIDE DEF p
<1>5. /\ content.format = "none" /\ content.raw = <<>> /\ content.fields = NoFields
      /\ content.body = data
    BY <1>3 DEF Content
<1> HIDE DEF content
<1>6. Valid(content)
    BY <1>5 DEF Valid, NoFields
<1>7. ~BodyOpensFrontMatter(content.body)
    BY <1>4, <1>5 DEF BodyOpensFrontMatter, p
<1>8. DefaultLayout(content.format) = ZeroLayout
    BY <1>5 DEF DefaultLayout, Fences
<1>9. FrontMatterBlock(content, LineEnding(ZeroLayout)) = [ok |-> TRUE, block |-> <<>>]
    BY <1>5 DEF FrontMatterBlock
<1>10. TerminateBlock(<<>>, ZeroLayout, content.body) = <<>>
    BY DEF TerminateBlock
<1>11. Bytes(content, ZeroLayout)
           = [ok |-> TRUE, data |-> <<>> \o <<>> \o <<>> \o <<>> \o content.body]
    <2>1. /\ MarkOf(ZeroLayout) = <<>> /\ ZeroLayout.open = <<>> /\ ZeroLayout.close = <<>>
        BY DEF ZeroLayout, MarkOf
    <2>2. Bytes(content, ZeroLayout)
              = [ok |-> TRUE,
                 data |-> MarkOf(ZeroLayout) \o ZeroLayout.open \o <<>>
                              \o ZeroLayout.close \o content.body]
        BY <1>6, <1>7, <1>8, <1>9, <1>10, BytesConcatenates
    <2> QED
        BY <2>1, <2>2, Zenon
<1>12. <<>> \o <<>> \o <<>> \o <<>> \o data = data
    BY ConcatEmptySeq, EmptySeq
<1> QED
    BY <1>2, <1>5, <1>11, <1>12, Zenon DEF content, p

(* A file that has front matter, with the block that was read in it, is    *)
(* the concatenation of its slots again.                                   *)
LEMMA ParsedFile ==
    ASSUME NEW data \in Seq(Marks), Parse(data).ok, Scan(data).format # "none"
    PROVE  Bytes(Parse(data).content, Parse(data).layout) = [ok |-> TRUE, data |-> data]
<1> DEFINE p == Scan(data)
           content == Content(p.format, p.raw, Decode(p.raw, p.format).fields, p.body)
<1>1. /\ p.ok /\ Decode(p.raw, p.format).ok
      /\ Parse(data) = Document(content, p.layout)
      /\ Valid(Parse(data).content)
    BY ParseAccepts, Zenon
<1>2. Parse(data).content = content /\ Parse(data).layout = p.layout
    BY <1>1 DEF Document
<1>3. Partition(data, p)
    BY <1>1, ScanPartitions, Zenon
<1>4. p.format # "none"
    OBVIOUS
<1> HIDE DEF p
<1>5. Fenced(p) \/ Braced(p)
    BY <1>3, <1>4, Zenon DEF Partition, Bare
<1>6. content.format = p.format /\ content.body = p.body
    BY DEF Content
<1>7. \A ending : FrontMatterBlock(content, ending) = [ok |-> TRUE, block |-> p.raw]
    BY <1>1, <1>5, AuthoredBlock, Zenon
<1>8. TerminateBlock(p.raw, p.layout, p.body) = p.raw
    BY <1>5, AuthoredBlockEnds
<1>9. (IF p.layout = ZeroLayout THEN DefaultLayout(p.format) ELSE p.layout) = p.layout
    BY <1>5, ShapeIsKept
<1>10. Valid(content)
    BY <1>1, <1>2
<1> HIDE DEF content
<1>11. Bytes(content, p.layout)
           = [ok |-> TRUE,
              data |-> MarkOf(p.layout) \o p.layout.open \o p.raw \o p.layout.close
                           \o p.body]
    <2>1. ~ (content.format = "none" /\ BodyOpensFrontMatter(content.body))
        BY <1>4, <1>6
    <2>2. FrontMatterBlock(content, LineEnding(p.layout)) = [ok |-> TRUE, block |-> p.raw]
        BY <1>7
    <2>3. Bytes(content, p.layout)
              = [ok |-> TRUE,
                 data |-> MarkOf(p.layout) \o p.layout.open \o p.raw \o p.layout.close
                              \o content.body]
        BY <1>6, <1>8, <1>9, <1>10, <2>1, <2>2, BytesConcatenates
    <2> QED
        BY <1>6, <2>3
<1> QED
    BY <1>2, <1>3, <1>11, Zenon DEF Partition

(* A file that parses is written back byte for byte, for files of any      *)
(* length and any content, and for any limits (doc.go, "The concatenation  *)
(* identity").                                                             *)
THEOREM UneditedVerbatim ==
    stored \in Seq(Marks) => UneditedIsVerbatim
<1> SUFFICES ASSUME stored \in Seq(Marks), Parse(stored).ok
             PROVE  Bytes(Parse(stored).content, Parse(stored).layout)
                        = [ok |-> TRUE, data |-> stored]
    BY DEF UneditedIsVerbatim
<1>1. CASE Scan(stored).format = "none"
    <2> DEFINE content == Content("none", <<>>, NoFields, Scan(stored).body)
    <2>1. Scan(stored).ok /\ Parse(stored) = Document(content, Scan(stored).layout)
        BY <1>1, ParseAccepts
    <2>2. Parse(stored).content = content /\ Parse(stored).layout = Scan(stored).layout
        BY <2>1 DEF Document
    <2>3. Bytes(content, Scan(stored).layout) = [ok |-> TRUE, data |-> stored]
        BY <1>1, <2>1, BareFile
    <2> QED
        BY <2>2, <2>3, Zenon
<1>2. CASE Scan(stored).format # "none"
    BY <1>2, ParsedFile
<1> QED
    BY <1>1, <1>2

(***************************************************************************)
(* The order of the keys.                                                  *)
(***************************************************************************)

(* A finite set with a strict total order can be listed in that order:     *)
(* every element stands after those that precede it.                       *)
LEMMA ListedInOrder ==
    ASSUME NEW D, IsFiniteSet(D), NEW R,
           \A x \in D : <<x, x>> \notin R,
           \A x, y, z \in D : <<x, y>> \in R /\ <<y, z>> \in R => <<x, z>> \in R,
           \A x, y \in D : x = y \/ <<x, y>> \in R \/ <<y, x>> \in R
    PROVE  \E keys \in [1..Cardinality(D) -> D] :
               \A i, j \in 1..Cardinality(D) : i < j => <<keys[i], keys[j]>> \in R
<1> DEFINE n == Cardinality(D)
           Below(x) == {y \in D : <<y, x>> \in R}
           rank == [x \in D |-> Cardinality(Below(x)) + 1]
<1>1. n \in Nat
    BY FS_CardinalityType
<1>2. ASSUME NEW x \in D
      PROVE  IsFiniteSet(Below(x)) /\ Cardinality(Below(x)) \in Nat
    <2>1. Below(x) \in SUBSET D
        OBVIOUS
    <2>2. IsFiniteSet(Below(x))
        BY <2>1, FS_Subset
    <2> QED
        BY <2>2, FS_CardinalityType
<1>3. ASSUME NEW x \in D, NEW y \in D, <<x, y>> \in R
      PROVE  rank[x] < rank[y]
    <2>1. x \notin Below(x) /\ Below(x) \cup {x} \in SUBSET Below(y)
        BY <1>3
    <2>2. Cardinality(Below(x) \cup {x}) = Cardinality(Below(x)) + 1
        BY <1>2, <2>1, FS_AddElement
    <2>3. Cardinality(Below(x) \cup {x}) <= Cardinality(Below(y))
        BY <1>2, <2>1, FS_Subset
    <2> HIDE DEF Below
    <2> QED
        BY <1>2, <2>2, <2>3
<1>4. ASSUME NEW x \in D
      PROVE  rank[x] \in 1..n
    <2>1. x \notin Below(x) /\ Below(x) \cup {x} \in SUBSET D
        OBVIOUS
    <2>2. Cardinality(Below(x) \cup {x}) = Cardinality(Below(x)) + 1
        BY <1>2, <2>1, FS_AddElement
    <2>3. Cardinality(Below(x) \cup {x}) <= n
        BY <2>1, FS_Subset
    <2> HIDE DEF Below, n
    <2> QED
        BY <1>1, <1>2, <2>2, <2>3
<1>5. rank \in Injection(D, 1..n)
    <2>1. ASSUME NEW x \in D, NEW y \in D, rank[x] = rank[y]
          PROVE  x = y
        <3> HIDE DEF rank, n, Below
        <3>1. rank[x] \in Int /\ rank[y] \in Int
            BY <1>4
        <3>2. <<x, y>> \notin R
            BY <1>3, <2>1, <3>1
        <3>3. <<y, x>> \notin R
            BY <1>3, <2>1, <3>1
        <3> QED
            BY <3>2, <3>3
    <2>2. rank \in [D -> 1..n]
        BY <1>4
    <2> HIDE DEF rank, n
    <2> QED
        BY <2>1, <2>2 DEF Injection, IsInjective
<1>6. rank \in Surjection(D, 1..n)
    <2>1. IsFiniteSet(1..n) /\ Cardinality(1..n) = n
        BY <1>1, FS_Interval
    <2> HIDE DEF rank
    <2> QED
        BY <1>5, <2>1, FS_Injection
<1>7. \A i \in 1..n : \E x \in D : rank[x] = i
    BY <1>6 DEF Surjection
<1> DEFINE keys == [i \in 1..n |-> CHOOSE x \in D : rank[x] = i]
<1> HIDE DEF rank, n
<1>8. \A i \in 1..n : keys[i] \in D /\ rank[keys[i]] = i
    BY <1>7
<1>9. keys \in [1..n -> D]
    BY <1>7
<1> HIDE DEF keys
<1>10. ASSUME NEW i \in 1..n, NEW j \in 1..n, i < j
       PROVE  <<keys[i], keys[j]>> \in R
    <2>1. keys[i] # keys[j]
        BY <1>8, <1>10
    <2>2. <<keys[j], keys[i]>> \notin R
        BY <1>3, <1>8, <1>10
    <2> QED
        BY <1>8, <2>1, <2>2
<1> QED
    BY <1>9, <1>10 DEF n

(* The marks of the entries of a block, and the place of each key.         *)
LEMMA EntriesArePositions ==
    ASSUME NEW raw \in Seq(Marks), NEW format
    PROVE  /\ EntriesOf(raw, format) \subseteq 1..Len(raw)
           /\ \A i \in EntriesOf(raw, format) : raw[i].is \in {format, "json"}
BY DEF EntriesOf, Positions

(* An authored key has its place in the block, and stands there. *)
LEMMA PlacesOfKeys ==
    ASSUME NEW raw \in Seq(Marks), NEW format, NEW k \in Authored(raw, format)
    PROVE  PlaceOf(k, raw, format) \in Nat /\ raw[PlaceOf(k, raw, format)].key = k
<1> DEFINE places == {i \in EntriesOf(raw, format) : raw[i].key = k}
<1>1. places \in SUBSET Nat /\ places # {}
    BY EntriesArePositions, LenProperties DEF Authored
<1> HIDE DEF places
<1>2. Least(places) \in places
    BY <1>1, LeastOfPositions
<1> QED
    BY <1>1, <1>2 DEF PlaceOf, places

(* The keys of a document can be listed as orderedKeys has it: those of    *)
(* the authored block first, in its order, and the others sorted.          *)
LEMMA KeysAreOrdered ==
    ASSUME NEW fields, IsFiniteSet(DOMAIN fields), DOMAIN fields \subseteq Nat,
           NEW raw \in Seq(Marks), NEW format
    PROVE  LET keys == OrderedKeys(fields, raw, format)
           IN /\ keys \in [1..Cardinality(DOMAIN fields) -> DOMAIN fields]
              /\ \A i, j \in DOMAIN keys : i < j => Precedes(keys[i], keys[j], raw, format)
<1> DEFINE D == DOMAIN fields
           R == {p \in D \X D : Precedes(p[1], p[2], raw, format)}
           Place(k) == PlaceOf(k, raw, format)
           authored == Authored(raw, format)
<1>1. \A k \in authored : Place(k) \in Nat /\ raw[Place(k)].key = k
    BY PlacesOfKeys
<1>2. \A k, l \in D : <<k, l>> \in R <=> IF k \in authored
                                        THEN l \in authored => Place(k) < Place(l)
                                        ELSE l \notin authored /\ k < l
    BY DEF Precedes
<1> HIDE DEF D, R, Place, authored
<1>3. D \subseteq Nat /\ IsFiniteSet(D)
    BY DEF D
<1>4. \A x \in D : <<x, x>> \notin R
    BY <1>1, <1>2, <1>3
<1>5. ASSUME NEW x \in D, NEW y \in D, NEW z \in D, <<x, y>> \in R, <<y, z>> \in R
      PROVE  <<x, z>> \in R
    <2>1. CASE x \in authored /\ z \in authored
        BY <1>1, <1>2, <1>3, <1>5, <2>1
    <2>2. CASE x \in authored /\ z \notin authored
        BY <1>2, <1>5, <2>2
    <2>3. CASE x \notin authored
        BY <1>2, <1>3, <1>5, <2>3
    <2> QED
        BY <2>1, <2>2, <2>3
<1>6. ASSUME NEW x \in D, NEW y \in D, x # y
      PROVE  <<x, y>> \in R \/ <<y, x>> \in R
    <2>1. CASE x \in authored /\ y \in authored
        <3>1. Place(x) # Place(y)
            BY <1>1, <1>6, <2>1
        <3> QED
            BY <1>1, <1>2, <2>1, <3>1
    <2>2. CASE ~ (x \in authored /\ y \in authored)
        BY <1>2, <1>3, <1>6, <2>2
    <2> QED
        BY <2>1, <2>2
<1>7. \E keys \in [1..Cardinality(D) -> D] :
          \A i, j \in 1..Cardinality(D) : i < j => <<keys[i], keys[j]>> \in R
    BY <1>3, <1>4, <1>5, <1>6, ListedInOrder
<1>8. \E keys \in [1..Cardinality(D) -> D] :
          \A i, j \in DOMAIN keys : i < j => Precedes(keys[i], keys[j], raw, format)
    BY <1>7 DEF R
<1> QED
    BY <1>8, Zenon DEF OrderedKeys, D

(***************************************************************************)
(* What is decoded and encoded is made of marks.                           *)
(***************************************************************************)

(* What the marks of a block say: a key, a value and a style.              *)
LEMMA MarksSay ==
    ASSUME NEW m \in Marks
    PROVE  /\ m.key \in Nat /\ m.value \in Nat
           /\ m.is \in {"yaml", "toml", "json"} => m.style \in {"plain", "quoted"}
<1>1. CASE m \in [is: {"yaml", "toml", "json"}, key: Nat, value: Nat,
                  style: {"plain", "quoted"}]
    BY <1>1
<1>2. CASE \E is \in {"bom", "---", "+++", "lf", "crlf", "blank", "{", "}",
                      "nul", "prose"} : m = Mark(is)
    <2>1. PICK is \in {"bom", "---", "+++", "lf", "crlf", "blank", "{", "}",
                       "nul", "prose"} : m = Mark(is)
        BY <1>2
    <2>2. m.key = EmptyKey /\ m.value = Nil /\ m.is = is
        BY <2>1 DEF Mark
    <2>3. m.is \notin {"yaml", "toml", "json"}
        BY <2>2
    <2>4. m.key \in Nat /\ m.value \in Nat
        <3>1. EmptyKey \in Nat /\ Nil \in Nat
            BY DEF EmptyKey, Nil
        <3> QED
            BY <2>2, <3>1, Zenon
    <2> QED
        BY <2>3, <2>4, Zenon
<1> QED
    BY <1>1, <1>2, Zenon DEF Marks

(* The marks that are not entries. *)
LEMMA PlainMarks ==
    \A is \in {"bom", "---", "+++", "lf", "crlf", "blank", "{", "}", "nul", "prose"} :
        Mark(is) \in Marks
BY Zenon DEF Marks

(* An entry of any format is a mark. *)
LEMMA EntriesAreMarks ==
    ASSUME NEW format \in {"yaml", "toml", "json"}, NEW key \in Nat, NEW value \in Nat,
           NEW style \in {"plain", "quoted"}
    PROVE  Entry(format, key, value, style) \in Marks
<1>1. Entry(format, key, value, style) \in [is: {"yaml", "toml", "json"}, key: Nat,
                                            value: Nat, style: {"plain", "quoted"}]
    BY DEF Entry
<1> QED
    BY <1>1, Zenon DEF Marks

(* A set of positions that is not empty and has a bound has a last one.    *)
LEMMA GreatestOfPositions ==
    ASSUME NEW S \in SUBSET Nat, S # {}, NEW n \in Nat, \A x \in S : x <= n
    PROVE  Greatest(S) \in S
<1> DEFINE bounds == {c \in Nat : \A x \in S : x <= c}
           b == Least(bounds)
<1>1. b \in bounds /\ \A y \in bounds : b <= y
    <2>1. bounds \in SUBSET Nat /\ bounds # {}
        OBVIOUS
    <2> HIDE DEF bounds
    <2> QED
        BY <2>1, LeastOfPositions
<1> HIDE DEF b
<1>2. b \in S
    <2> SUFFICES ASSUME b \notin S PROVE FALSE
        OBVIOUS
    <2>1. \A x \in S : x < b
        BY <1>1
    <2>2. b - 1 \in bounds
        <3>1. b \in Nat /\ b > 0
            <4>1. b \in Nat
                BY <1>1
            <4>2. PICK x \in S : x < b
                BY <2>1
            <4> QED
                BY <4>1, <4>2
        <3> QED
            BY <2>1, <3>1
    <2> QED
        BY <1>1, <2>2
<1> QED
    BY <1>1, <1>2 DEF Greatest

(* The fields of a document: finitely many keys, each with a value.        *)
AreFields(fields) ==
    /\ IsFiniteSet(DOMAIN fields)
    /\ DOMAIN fields \subseteq Nat
    /\ fields \in [DOMAIN fields -> Nat]

(* No front matter is a value of front matter. *)
LEMMA NoFieldsAreFields == AreFields(NoFields)
BY FS_EmptySet DEF NoFields, AreFields, Nil

(* What a block decodes to is one. *)
LEMMA DecodedFields ==
    ASSUME NEW raw \in Seq(Marks), NEW format, Decode(raw, format).ok
    PROVE  AreFields(Decode(raw, format).fields)
<1> DEFINE entries == EntriesOf(raw, format)
           keyOf == [i \in entries |-> raw[i].key]
           keys == {raw[i].key : i \in entries}
           last(k) == Greatest({i \in entries : raw[i].key = k})
           fields == [k \in keys |-> raw[last(k)].value]
<1>1. Decode(raw, format).fields = fields
    BY Zenon DEF Decode, Rejected
<1>2. entries \in SUBSET (1..Len(raw)) /\ \A i \in entries : raw[i] \in Marks
    BY EntriesArePositions, ElementOfSeq
<1> HIDE DEF entries
<1>3. IsFiniteSet(keys)
    <2>1. IsFiniteSet(entries)
        <3>1. IsFiniteSet(1..Len(raw))
            BY FS_Interval, LenProperties
        <3> QED
            BY <1>2, <3>1, FS_Subset
    <2>2. keyOf \in Surjection(entries, keys)
        BY DEF Surjection
    <2> HIDE DEF keyOf, keys
    <2> QED
        BY <2>1, <2>2, FS_Surjection
<1>4. keys \subseteq Nat
    BY <1>2, MarksSay
<1>5. ASSUME NEW k \in keys
      PROVE  raw[last(k)].value \in Nat
    <2> DEFINE S == {i \in entries : raw[i].key = k}
    <2>1. S \in SUBSET Nat /\ S # {} /\ Len(raw) \in Nat /\ \A x \in S : x <= Len(raw)
        <3>1. Len(raw) \in Nat
            BY LenProperties
        <3>2. \A x \in S : x \in 1..Len(raw)
            BY <1>2
        <3>3. S # {}
            BY <1>5
        <3> QED
            BY <3>1, <3>2, <3>3
    <2>2. Greatest(S) \in S
        <3> HIDE DEF S
        <3> QED
            BY <2>1, GreatestOfPositions
    <2> QED
        BY <1>2, <2>2, MarksSay
<1> HIDE DEF keys, last
<1> QED
    BY <1>1, <1>3, <1>4, <1>5 DEF AreFields

(* The lines of a re-encoded block.                                        *)
LEMMA LinesAreMarks ==
    ASSUME NEW fields, AreFields(fields), NEW raw \in Seq(Marks),
           NEW format \in {"yaml", "toml", "json"}
    PROVE  Lines(fields, raw, format) \in Seq(Marks)
<1> DEFINE keys == OrderedKeys(fields, raw, format)
           n == Cardinality(DOMAIN fields)
           Line(i) == LET key == keys[(i + 1) \div 2]
                      IN IF i % 2 = 0 THEN LF
                         ELSE Entry(format, key, fields[key],
                                    StyleOf(key, fields[key], raw, format))
<1>1. n \in Nat /\ keys \in [1..n -> DOMAIN fields]
    BY KeysAreOrdered, FS_CardinalityType DEF AreFields
<1> HIDE DEF keys, n
<1>2. Len(keys) = n
    BY <1>1
<1>3. ASSUME NEW key, NEW value
      PROVE  StyleOf(key, value, raw, format) \in {"plain", "quoted"}
    <2> DEFINE kept == {i \in EntriesOf(raw, format) : raw[i].key = key /\ raw[i].value = value}
    <2>1. CASE format = "yaml" /\ kept # {}
        <3>1. Least(kept) \in kept
            <4>1. kept \in SUBSET Nat
                BY EntriesArePositions, LenProperties
            <4> HIDE DEF kept
            <4> QED
                BY <2>1, <4>1, LeastOfPositions
        <3>2. raw[Least(kept)] \in Marks /\ raw[Least(kept)].is \in {"yaml", "json"}
            BY <2>1, <3>1, EntriesArePositions, ElementOfSeq
        <3>3. StyleOf(key, value, raw, format) = raw[Least(kept)].style
            BY <2>1 DEF StyleOf
        <3> QED
            BY <3>2, <3>3, MarksSay
    <2>2. CASE ~ (format = "yaml" /\ kept # {})
        BY <2>2 DEF StyleOf
    <2> QED
        BY <2>1, <2>2
<1>4. ASSUME NEW i \in 1..(2 * n)
      PROVE  Line(i) \in Marks
    <2>1. (i + 1) \div 2 \in 1..n
        BY <1>1
    <2>2. keys[(i + 1) \div 2] \in DOMAIN fields
        BY <1>1, <2>1
    <2>3. CASE i % 2 = 0
        BY <2>3, PlainMarks DEF LF
    <2>4. CASE i % 2 # 0
        <3> DEFINE key == keys[(i + 1) \div 2]
        <3>1. key \in Nat /\ fields[key] \in Nat
            BY <2>2 DEF AreFields
        <3> HIDE DEF key
        <3>2. Entry(format, key, fields[key], StyleOf(key, fields[key], raw, format)) \in Marks
            BY <1>3, <3>1, EntriesAreMarks
        <3> QED
            BY <2>4, <3>2, Zenon DEF key
    <2> QED
        BY <2>3, <2>4
<1>5. Lines(fields, raw, format) = [i \in 1..(2 * n) |-> Line(i)]
    BY <1>2, Zenon DEF Lines, keys
<1> HIDE DEF Line
<1>6. 2 * n \in Nat
    BY <1>1
<1> QED
    BY <1>4, <1>5, <1>6

(* A block that is encoded and given its line endings is made of marks. *)
LEMMA EncodedBlock ==
    ASSUME NEW fields, AreFields(fields), NEW raw \in Seq(Marks),
           NEW format \in {"yaml", "toml", "json"}, NEW ending \in Marks
    PROVE  ApplyLineEnding(Encode(fields, raw, format), ending) \in Seq(Marks)
<1> DEFINE lines == Lines(fields, raw, format)
           block == Encode(fields, raw, format)
<1>1. lines \in Seq(Marks)
    BY LinesAreMarks
<1>2. Mark("{") \in Marks /\ Mark("}") \in Marks /\ LF \in Marks
    BY PlainMarks DEF LF
<1> HIDE DEF lines
<1>3. block \in Seq(Marks)
    <2>1. /\ <<Mark("{"), LF>> \in Seq(Marks) /\ <<Mark("}")>> \in Seq(Marks)
          /\ <<Mark("{"), Mark("}"), LF>> \in Seq(Marks)
        <3> DEFINE a == Mark("{")
                   b == Mark("}")
        <3>1. a \in Marks /\ b \in Marks /\ LF \in Marks
            BY <1>2
        <3> HIDE DEF a, b
        <3>2. <<a, LF>> \in Seq(Marks) /\ <<b>> \in Seq(Marks) /\ <<a, b, LF>> \in Seq(Marks)
            BY <3>1
        <3> QED
            BY <3>2 DEF a, b
    <2>2. <<Mark("{"), LF>> \o lines \o <<Mark("}")>> \in Seq(Marks)
        BY <1>1, <2>1, ConcatOfMarks
    <2>3. block = IF format = "json" THEN <<Mark("{"), LF>> \o lines \o <<Mark("}")>>
                  ELSE IF format = "yaml" /\ fields = NoFields
                  THEN <<Mark("{"), Mark("}"), LF>>
                  ELSE lines
        BY DEF Encode, lines
    <2> QED
        BY <1>1, <2>1, <2>2, <2>3, Zenon
<1> HIDE DEF block
<1>4. /\ DOMAIN block = 1..Len(block) /\ Len(block) \in Nat
      /\ \A i \in DOMAIN block : block[i] \in Marks
    BY <1>3, LenProperties, ElementOfSeq
<1>5. ApplyLineEnding(block, ending)
          = [i \in 1..Len(block) |-> IF IsLineEnd(block[i]) THEN ending ELSE block[i]]
    BY <1>4 DEF ApplyLineEnding
<1> QED
    BY <1>4, <1>5 DEF block

(***************************************************************************)
(* Layouts, and the files that Bytes writes.                               *)
(***************************************************************************)
IsLayout(layout) ==
    layout.bom \in BOOLEAN /\ layout.open \in Seq(Marks) /\ layout.close \in Seq(Marks)

(* The default layouts are layouts, and a layout's line ending is a mark. *)
LEMMA LayoutsGiven ==
    /\ \A format \in Formats : IsLayout(DefaultLayout(format))
    /\ \A layout : IsLayout(layout) => LineEnding(layout) \in Marks
<1>1. /\ Mark("---") \in Marks /\ Mark("+++") \in Marks /\ LF \in Marks
    BY PlainMarks DEF LF
<1>2. ASSUME NEW format \in Formats
      PROVE  IsLayout(DefaultLayout(format))
    <2>1. CASE format \in {"yaml", "toml"}
        <3> DEFINE m == Mark(Fences[format])
        <3>1. m \in Marks
            BY <1>1, <2>1 DEF Fences
        <3>2. DefaultLayout(format) = [bom |-> FALSE, open |-> <<m, LF>>, close |-> <<m, LF>>]
            BY <2>1 DEF DefaultLayout, Fences
        <3> HIDE DEF m
        <3>3. <<m, LF>> \in Seq(Marks)
            BY <1>1, <3>1
        <3> QED
            BY <3>2, <3>3 DEF IsLayout
    <2>2. CASE format \notin {"yaml", "toml"}
        <3>1. DefaultLayout(format) = ZeroLayout
            BY <2>2 DEF DefaultLayout, Fences
        <3> QED
            BY <3>1, EmptySeq DEF IsLayout, ZeroLayout
    <2> QED
        BY <2>1, <2>2
<1>3. ASSUME NEW layout, IsLayout(layout)
      PROVE  LineEnding(layout) \in Marks
    <2>1. \A s \in Seq(Marks) : EndsInLine(s) => s[Len(s)] \in Marks
        BY LenProperties, ElementOfSeq, EmptySeq DEF EndsInLine
    <2> QED
        BY <1>1, <1>3, <2>1 DEF LineEnding, IsLayout
<1> QED
    BY <1>2, <1>3

(* The content a caller holds.                                             *)
IsContent(content) ==
    /\ content.format \in Formats
    /\ content.raw \in Seq(Marks)
    /\ content.body \in Seq(Marks)
    /\ AreFields(content.fields)
    /\ content = Content(content.format, content.raw, content.fields, content.body)

(* The front-matter block that Bytes writes is made of marks. *)
LEMMA BlocksAreMarks ==
    ASSUME NEW content, IsContent(content), NEW ending \in Marks,
           FrontMatterBlock(content, ending).ok
    PROVE  FrontMatterBlock(content, ending).block \in Seq(Marks)
<1> DEFINE encoded == ApplyLineEnding(
                          Encode(content.fields, content.raw, content.format), ending)
           written == FrontMatterBlock(content, ending)
           empty == IF content.format = "json" THEN <<Mark("{"), Mark("}")>> ELSE <<>>
<1>1. \/ written = [ok |-> TRUE, block |-> <<>>]
      \/ written = [ok |-> TRUE, block |-> empty]
      \/ written = [ok |-> TRUE, block |-> content.raw]
      \/ written = [ok |-> TRUE, block |-> encoded] /\ content.format # "none"
    BY Zenon DEF FrontMatterBlock, Rejected
<1>2. empty \in Seq(Marks)
    <2> DEFINE a == Mark("{")
               b == Mark("}")
    <2>1. a \in Marks /\ b \in Marks
        BY PlainMarks
    <2> HIDE DEF a, b
    <2>2. <<a, b>> \in Seq(Marks)
        BY <2>1
    <2> QED
        BY <2>2, EmptySeq, Zenon DEF a, b
<1>3. content.format # "none" => encoded \in Seq(Marks)
    BY EncodedBlock DEF IsContent, Formats
<1> HIDE DEF encoded, written, empty
<1>4. content.raw \in Seq(Marks) /\ <<>> \in Seq(Marks)
    BY EmptySeq DEF IsContent
<1>5. written.block \in Seq(Marks)
    <2>1. \A block : [ok |-> TRUE, block |-> block].block = block
        OBVIOUS
    <2> QED
        BY <1>1, <1>2, <1>3, <1>4, <2>1, Zenon
<1> QED
    BY <1>5 DEF written

(* So is the whole document it writes. *)
LEMMA BytesAreMarks ==
    ASSUME NEW content, IsContent(content), NEW layout, IsLayout(layout),
           Bytes(content, layout).ok
    PROVE  Bytes(content, layout).data \in Seq(Marks)
<1> DEFINE shape == IF layout = ZeroLayout THEN DefaultLayout(content.format) ELSE layout
           encoded == FrontMatterBlock(content, LineEnding(shape))
           refused == \/ ~Valid(content)
                      \/ content.format = "none" /\ BodyOpensFrontMatter(content.body)
           ended == TerminateBlock(encoded.block, shape, content.body)
           data == MarkOf(shape) \o shape.open \o ended \o shape.close \o content.body
<1>1. Bytes(content, layout)
          = IF refused \/ ~encoded.ok THEN Rejected ELSE [ok |-> TRUE, data |-> data]
    BY Zenon DEF Bytes, MarkOf
<1>2. IsLayout(shape)
    BY LayoutsGiven DEF IsContent
<1> HIDE DEF shape
<1>3. LineEnding(shape) \in Marks
    BY <1>2, LayoutsGiven
<1>4. encoded.ok /\ Bytes(content, layout).data = data
    <2> HIDE DEF refused, encoded, data
    <2> QED
        BY <1>1 DEF Rejected
<1>5. encoded.block \in Seq(Marks)
    BY <1>3, <1>4, BlocksAreMarks
<1> HIDE DEF encoded
<1>6. ended \in Seq(Marks)
    <2>1. Append(encoded.block, LineEnding(shape)) \in Seq(Marks)
        BY <1>3, <1>5, AppendProperties
    <2> QED
        BY <1>5, <2>1, Zenon DEF TerminateBlock
<1>7. MarkOf(shape) \in Seq(Marks)
    <2> DEFINE m == Mark("bom")
    <2>1. m \in Marks
        BY PlainMarks
    <2> HIDE DEF m
    <2>2. <<m>> \in Seq(Marks)
        BY <2>1
    <2> QED
        BY <2>2, EmptySeq, Zenon DEF MarkOf, m
<1> HIDE DEF ended
<1>8. data \in Seq(Marks)
    BY <1>2, <1>6, <1>7, ConcatOfMarks DEF IsLayout, IsContent
<1> QED
    BY <1>4, <1>8

(* What Parse hands out.                                                   *)
LEMMA ParsedContent ==
    ASSUME NEW data \in Seq(Marks), Parse(data).ok
    PROVE  /\ IsContent(Parse(data).content) /\ Valid(Parse(data).content)
           /\ IsLayout(Parse(data).layout)
           /\ Parse(data).content.raw = Scan(data).raw
           /\ Parse(data).content.format = Scan(data).format
           /\ Parse(data).layout = Scan(data).layout
<1> DEFINE p == Scan(data)
<1>1. p.ok
    BY ParseAccepts
<1>2. Partition(data, p)
    BY <1>1, ScanPartitions, Zenon
<1>3. IsLayout(p.layout) /\ p.raw \in Seq(Marks) /\ p.body \in Seq(Marks)
    BY <1>2, Zenon DEF Partition, IsLayout
<1>4. CASE p.format = "none"
    <2> DEFINE content == Content("none", <<>>, NoFields, p.body)
    <2>1. Parse(data) = Document(content, p.layout)
        BY <1>4, ParseAccepts
    <2>2. p.raw = <<>>
        BY <1>2, <1>4 DEF Partition, Fenced, Braced, Bare
    <2> HIDE DEF p
    <2>3. Parse(data).content = content /\ Parse(data).layout = p.layout
        BY <2>1 DEF Document
    <2>4. /\ content.format = "none" /\ content.raw = <<>> /\ content.fields = NoFields
          /\ content.body = p.body
        BY DEF Content
    <2>5. Valid(content)
        BY <2>4 DEF Valid, NoFields
    <2>6. IsContent(content)
        BY <1>3, <2>4, NoFieldsAreFields, EmptySeq DEF IsContent, Formats
    <2> HIDE DEF content
    <2> QED
        BY <1>3, <1>4, <2>2, <2>3, <2>4, <2>5, <2>6 DEF p
<1>5. CASE p.format # "none"
    <2> DEFINE fields == Decode(p.raw, p.format).fields
               content == Content(p.format, p.raw, fields, p.body)
    <2>1. /\ Decode(p.raw, p.format).ok /\ Parse(data) = Document(content, p.layout)
          /\ Valid(Parse(data).content)
        BY <1>5, ParseAccepts
    <2>2. p.format \in Formats
        BY <1>2, <1>5 DEF Partition, Fenced, Braced, Bare, Formats
    <2> HIDE DEF p
    <2>3. AreFields(fields)
        BY <1>3, <2>1, DecodedFields
    <2> HIDE DEF fields
    <2>4. Parse(data).content = content /\ Parse(data).layout = p.layout
        BY <2>1 DEF Document
    <2>5. /\ content.format = p.format /\ content.raw = p.raw /\ content.fields = fields
          /\ content.body = p.body
        BY DEF Content
    <2>6. IsContent(content)
        BY <1>3, <2>2, <2>3, <2>5 DEF IsContent
    <2> HIDE DEF content
    <2> QED
        BY <1>3, <2>1, <2>4, <2>5, <2>6 DEF p
<1> QED
    BY <1>4, <1>5

(* So is what a write into an existing document gives. *)
LEMMA SerializedIsMarks ==
    ASSUME NEW data \in Seq(Marks), NEW content, IsContent(content),
           SerializeInto(data, content).ok
    PROVE  SerializeInto(data, content).data \in Seq(Marks)
<1>1. IsLayout(ZeroLayout)
    BY EmptySeq DEF IsLayout, ZeroLayout
<1>2. CASE Parse(data).ok
    <2>1. SerializeInto(data, content) = Bytes(content, Parse(data).layout)
        BY <1>2, Zenon DEF SerializeInto
    <2> QED
        BY <1>2, <2>1, ParsedContent, BytesAreMarks
<1>3. CASE ~Parse(data).ok
    <2>1. SerializeInto(data, content) = Bytes(content, ZeroLayout)
        BY <1>3, Zenon DEF SerializeInto, Format
    <2> QED
        BY <1>1, <2>1, BytesAreMarks
<1> QED
    BY <1>2, <1>3

(***************************************************************************)
(* The cycle of a caller.                                                  *)
(***************************************************************************)

(* The invariant says of what is held that it is a content.                *)
LEMMA HeldTyped ==
    ASSUME MInv, held # NoContent
    PROVE  IsContent(held) /\ Valid(held)
BY DEF MInv, TypeOK, HeldIsContent, IsContent, AreFields

(* And for that it is enough to be one.                                    *)
LEMMA StaysTyped ==
    ASSUME stored' \in Seq(Marks), edits' \in 0..MaxEdits,
           held' # NoContent => /\ IsContent(held') /\ Valid(held')
                                /\ held'.raw # <<>> =>
                                       /\ Parse(stored').ok
                                       /\ held'.raw = Parse(stored').content.raw
                                       /\ held'.format = Parse(stored').content.format
    PROVE  MInv'
<1>1. TypeOK'
    BY Zenon DEF TypeOK, IsContent
<1>2. HeldIsContent'
    BY Zenon DEF HeldIsContent, IsContent, AreFields
<1>3. BlockIsTheStoredOne'
    BY Zenon DEF BlockIsTheStoredOne
<1> QED
    BY <1>1, <1>2, <1>3 DEF MInv

(* A format, a block, its values and a body make a content. *)
LEMMA ContentsTyped ==
    ASSUME NEW format \in Formats, NEW raw \in Seq(Marks), NEW body \in Seq(Marks),
           NEW fields, AreFields(fields)
    PROVE  IsContent(Content(format, raw, fields, body))
BY DEF IsContent, Content

(* Edits of fields, body and format leave a content that core accepts, and *)
(* the block as it was or none.                                            *)
LEMMA EditsKeepContents ==
    ASSUME MInv, held # NoContent, EditStep
    PROVE  IsContent(held') /\ Valid(held') /\ edits' \in 0..MaxEdits /\ stored' = stored
           /\ (held'.raw = <<>> \/ (held'.raw = held.raw /\ held'.format = held.format))
<1> DEFINE f == held.format
           r == held.raw
           F == held.fields
           b == held.body
<1>1. /\ held = Content(f, r, F, b) /\ AreFields(F)
      /\ f \in Formats /\ r \in Seq(Marks) /\ b \in Seq(Marks)
      /\ f = "none" => r = <<>> /\ F = NoFields
      /\ EmptyKey \notin DOMAIN F
    BY HeldTyped DEF IsContent, Valid
<1>2. \A c : Edit(c) => held' = c /\ edits' \in 0..MaxEdits /\ stored' = stored
    BY MarkdownAssumption DEF Edit, MInv, TypeOK
<1>3. /\ \A G : [held EXCEPT !.fields = G] = Content(f, r, G, b)
      /\ \A c : [held EXCEPT !.body = c] = Content(f, r, F, c)
    <2> HIDE DEF f, r, F, b
    <2> QED
        BY <1>1 DEF Content
<1> HIDE DEF f, r, F, b
<1>4. ASSUME NEW G, AreFields(G), EmptyKey \notin DOMAIN G, f # "none",
             Edit([held EXCEPT !.fields = G])
      PROVE  IsContent(held') /\ Valid(held') /\ held'.raw = r /\ held'.format = f
    <2>1. held' = Content(f, r, G, b)
        BY <1>2, <1>3, <1>4
    <2>2. IsContent(Content(f, r, G, b))
        BY <1>1, <1>4, ContentsTyped
    <2>3. Valid(Content(f, r, G, b))
        BY <1>4 DEF Valid, Content
    <2> QED
        BY <2>1, <2>2, <2>3 DEF Content
<1>5. ASSUME NEW key \in EditKeys, NEW value \in EditValues, SetField(key, value)
      PROVE  IsContent(held') /\ Valid(held') /\ held'.raw = r /\ held'.format = f
    <2> DEFINE G == [k \in DOMAIN F \cup {key} |-> IF k = key THEN value ELSE F[k]]
    <2>1. key \in Nat /\ key # EmptyKey /\ value \in Nat
        BY MarkdownAssumption
    <2>2. IsFiniteSet(DOMAIN F \cup {key})
        BY <1>1, FS_AddElement DEF AreFields
    <2>3. AreFields(G)
        BY <1>1, <2>1, <2>2 DEF AreFields
    <2>4. EmptyKey \notin DOMAIN G
        BY <1>1, <2>1
    <2>5. f # "none" /\ Edit([held EXCEPT !.fields = G])
        BY <1>5 DEF SetField, f, F
    <2> HIDE DEF G
    <2> QED
        BY <1>4, <2>3, <2>4, <2>5
<1>6. ASSUME NEW key \in EditKeys, RemoveField(key)
      PROVE  IsContent(held') /\ Valid(held') /\ held'.raw = r /\ held'.format = f
    <2> DEFINE G == [k \in DOMAIN F \ {key} |-> F[k]]
    <2>1. key \in DOMAIN F /\ Edit([held EXCEPT !.fields = G])
        BY <1>6 DEF RemoveField, F
    <2>2. f # "none"
        BY <1>1, <2>1 DEF NoFields
    <2>3. IsFiniteSet(DOMAIN F \ {key})
        BY <1>1, FS_RemoveElement DEF AreFields
    <2>4. AreFields(G) /\ EmptyKey \notin DOMAIN G
        BY <1>1, <2>3 DEF AreFields
    <2> HIDE DEF G
    <2> QED
        BY <1>4, <2>1, <2>2, <2>4
<1>7. ASSUME NEW body \in EditBodies, SetBody(body)
      PROVE  IsContent(held') /\ Valid(held') /\ held'.raw = r /\ held'.format = f
    <2>1. held' = Content(f, r, F, body)
        BY <1>2, <1>3, <1>7 DEF SetBody
    <2>2. IsContent(Content(f, r, F, body))
        BY <1>1, ContentsTyped, MarkdownAssumption
    <2>3. Valid(Content(f, r, F, body))
        BY <1>1 DEF Valid, Content
    <2> QED
        BY <2>1, <2>2, <2>3 DEF Content
<1>8. ASSUME NEW format \in EditFormats, SetFormat(format)
      PROVE  IsContent(held') /\ Valid(held') /\ held'.raw = <<>>
    <2> DEFINE G == IF format = "none" THEN NoFields ELSE F
    <2>1. held' = Content(format, <<>>, G, b)
        BY <1>2, <1>8 DEF SetFormat, F, b
    <2>2. AreFields(G) /\ EmptyKey \notin DOMAIN G /\ (format = "none" => G = NoFields)
        BY <1>1, NoFieldsAreFields DEF NoFields
    <2>3. format \in Formats
        BY MarkdownAssumption
    <2> HIDE DEF G
    <2>4. IsContent(Content(format, <<>>, G, b))
        BY <1>1, <2>2, <2>3, EmptySeq, ContentsTyped
    <2>5. Valid(Content(format, <<>>, G, b))
        BY <2>2 DEF Valid, Content
    <2> QED
        BY <2>1, <2>4, <2>5 DEF Content
<1>9. edits' \in 0..MaxEdits /\ stored' = stored
    BY <1>2 DEF EditStep, SetField, RemoveField, SetBody, SetFormat
<1> QED
    BY <1>5, <1>6, <1>7, <1>8, <1>9, Zenon DEF EditStep, f, r

(* The inductive invariant holds in every state of the specification. *)
LEMMA MInvHolds == Spec => []MInv
<1>1. Init => MInv
    <2>1. Init => 0 \in 0..MaxEdits
        BY MarkdownAssumption
    <2> QED
        BY <2>1, MarkdownAssumption
           DEF Init, MInv, TypeOK, HeldIsContent, BlockIsTheStoredOne
<1>2. MInv /\ [Next]_vars => MInv'
    <2> SUFFICES ASSUME MInv, [Next]_vars PROVE MInv'
        OBVIOUS
    <2>1. stored \in Seq(Marks) /\ edits \in 0..MaxEdits
        BY DEF MInv, TypeOK
    <2>2. CASE Get
        <3>1. stored' = stored /\ edits' = edits /\ held' = Parse(stored).content
              /\ Parse(stored).ok
            BY <2>2 DEF Get
        <3>2. IsContent(held') /\ Valid(held')
            BY <2>1, <3>1, ParsedContent
        <3> QED
            BY <2>1, <3>1, <3>2, StaysTyped
    <2>3. CASE \E body \in EditBodies : Compose(body)
        <3>1. PICK body \in EditBodies : Compose(body)
            BY <2>3
        <3>2. stored' = stored /\ edits' = edits /\ held' = Content("none", <<>>, NoFields, body)
            BY <3>1 DEF Compose
        <3>3. body \in Seq(Marks)
            BY MarkdownAssumption
        <3>4. IsContent(held') /\ Valid(held') /\ held'.raw = <<>>
            <4>1. IsContent(held')
                BY <3>2, <3>3, EmptySeq, NoFieldsAreFields, ContentsTyped DEF Formats
            <4> QED
                BY <3>2, <4>1 DEF Valid, Content, NoFields
        <3> QED
            BY <2>1, <3>2, <3>4, StaysTyped
    <2>4. CASE EditStep
        <3>1. held # NoContent
            BY <2>4 DEF EditStep
        <3>2. /\ IsContent(held') /\ Valid(held') /\ edits' \in 0..MaxEdits /\ stored' = stored
              /\ held'.raw = <<>> \/ (held'.raw = held.raw /\ held'.format = held.format)
            BY <2>4, <3>1, EditsKeepContents
        <3>3. held.raw # <<>> => /\ Parse(stored).ok
                                 /\ held.raw = Parse(stored).content.raw
                                 /\ held.format = Parse(stored).content.format
            BY <3>1 DEF MInv, BlockIsTheStoredOne
        <3> QED
            BY <2>1, <3>2, <3>3, StaysTyped
    <2>5. CASE Update
        <3>1. /\ held # NoContent /\ SerializeInto(stored, held).ok
              /\ stored' = SerializeInto(stored, held).data
              /\ held' = NoContent /\ edits' = edits
            BY <2>5 DEF Update
        <3>2. stored' \in Seq(Marks)
            BY <2>1, <3>1, HeldTyped, SerializedIsMarks
        <3> QED
            BY <2>1, <3>1, <3>2, StaysTyped
    <2>6. CASE Refuse
        <3>1. stored' = stored /\ edits' = edits /\ held' = NoContent
            BY <2>6 DEF Refuse
        <3> QED
            BY <2>1, <3>1, StaysTyped
    <2>7. CASE UNCHANGED vars
        BY <2>7 DEF vars, MInv, TypeOK, HeldIsContent, BlockIsTheStoredOne
    <2> QED
        BY <2>2, <2>3, <2>4, <2>5, <2>6, <2>7 DEF Next
<1> QED
    BY <1>1, <1>2, PTL DEF Spec

(* What a caller holds is always valid front matter and sequences of       *)
(* marks, and so is the file, however often it was edited and rewritten.   *)
THEOREM TypeCorrect == Spec => []TypeOK
<1>1. MInv => TypeOK
    BY DEF MInv
<1> QED
    BY <1>1, MInvHolds, PTL

(* Every file of the cycle, edited or repaired however often, is written   *)
(* back byte for byte if nothing is edited: the files that Bytes wrote are *)
(* no exception (doc.go, "The concatenation identity").                    *)
THEOREM AlwaysVerbatim == Spec => []UneditedIsVerbatim
<1>1. MInv => UneditedIsVerbatim
    BY UneditedVerbatim DEF MInv, TypeOK
<1> QED
    BY <1>1, MInvHolds, PTL

(* A text is the beginning of any text that continues it.                  *)
LEMMA BeginsWith ==
    ASSUME NEW front \in Seq(Marks), front # <<>>, NEW rest \in Seq(Marks)
    PROVE  SubSeq(front \o rest, 1, Len(front)) = front
<1>1. 1 \in 1..Len(front) /\ Len(front) \in 1..Len(front)
    BY EmptySeq, LenProperties
<1>2. SubSeq(front \o rest, 1, Len(front)) = SubSeq(front, 1, Len(front))
    BY <1>1, SubSeqOfConcat1
<1> QED
    BY <1>2, SubSeqFull

(* Six pieces, put together in two ways.                                   *)
Regrouped(m, o, r, t, c, b) ==
    m \o o \o (r \o t) \o c \o b = m \o o \o r \o (t \o c \o b)

(* The first three of six pieces as a front, the last three as the rest. *)
LEMMA FrontAndRest ==
    ASSUME NEW m \in Seq(Marks), NEW o \in Seq(Marks), NEW r \in Seq(Marks),
           NEW t \in Seq(Marks), NEW c \in Seq(Marks), NEW b \in Seq(Marks)
    PROVE  Regrouped(m, o, r, t, c, b)
<1> DEFINE mo == m \o o
           F == mo \o r
           tc == t \o c
<1>1. mo \in Seq(Marks)
    BY ConcatOfMarks
<1>2. tc \in Seq(Marks)
    BY ConcatOfMarks
<1> HIDE DEF mo
<1>3. F \in Seq(Marks)
    BY <1>1, ConcatOfMarks
<1>4. F \o t = mo \o (r \o t)
    BY ONLY <1>1, r \in Seq(Marks), t \in Seq(Marks), ConcatReassociates
<1> HIDE DEF F
<1>5. F \o t \o c = F \o tc
    BY ONLY <1>3, t \in Seq(Marks), c \in Seq(Marks), ConcatReassociates
<1> HIDE DEF tc
<1>6. F \o tc \o b = F \o (tc \o b)
    BY ONLY <1>2, <1>3, b \in Seq(Marks), ConcatReassociates
<1> QED
    BY <1>4, <1>5, <1>6, Zenon DEF Regrouped, F, mo, tc

(* A block with a terminator after it, or none.                            *)
LEMMA TerminatedBlock ==
    ASSUME NEW block \in Seq(Marks), NEW layout, IsLayout(layout), NEW body
    PROVE  \E tail \in Seq(Marks) : TerminateBlock(block, layout, body) = block \o tail
<1> DEFINE ending == LineEnding(layout)
<1>1. ending \in Marks
    BY LayoutsGiven
<1> HIDE DEF ending
<1>2. block \o <<>> = block /\ <<>> \in Seq(Marks)
    BY EmptySeq, ConcatEmptySeq
<1>3. Append(block, ending) = block \o <<ending>>
    BY <1>1, AppendIsConcat
<1>4. <<ending>> \in Seq(Marks)
    BY <1>1
<1>5. TerminateBlock(block, layout, body) \in {block, Append(block, ending)}
    BY Zenon DEF TerminateBlock, ending
<1> QED
    BY <1>2, <1>3, <1>4, <1>5, Zenon

(* The block that was read is the block that is written while it says what *)
(* the fields say, whatever became of the body.                            *)
LEMMA AuthoredBlockIsKept ==
    ASSUME NEW content, content.format # "none", content.raw # <<>>,
           Decode(content.raw, content.format).ok,
           Decode(content.raw, content.format).fields = content.fields, NEW ending
    PROVE  FrontMatterBlock(content, ending) = [ok |-> TRUE, block |-> content.raw]
BY DEF FrontMatterBlock, FieldsEqual

(* As long as the block a caller got still says what the fields say, an    *)
(* update moves nothing before the closing delimiter: an edit of the body  *)
(* is a diff of the body, and an edit that was undone is none at all.      *)
THEOREM MetadataStays == Spec => MetadataStaysPut
<1>1. ASSUME MInv, Next, stored' # stored, held.raw # <<>>,
             Decode(held.raw, held.format).fields = held.fields
      PROVE  SubSeq(stored', 1, Len(FrontOf(stored))) = FrontOf(stored)
    <2> DEFINE p == Scan(stored)
               layout == p.layout
               ending == LineEnding(layout)
               ended == TerminateBlock(held.raw, layout, held.body)
    <2>1. /\ held # NoContent /\ SerializeInto(stored, held).ok
          /\ stored' = SerializeInto(stored, held).data
        BY <1>1 DEF Next, Get, Compose, EditStep, SetField, RemoveField, SetBody,
                    SetFormat, Edit, Update, Refuse
    <2>2. stored \in Seq(Marks) /\ IsContent(held)
        BY <1>1, <2>1, HeldTyped DEF MInv, TypeOK
    <2>3. /\ Parse(stored).ok /\ held.raw = Parse(stored).content.raw
          /\ held.format = Parse(stored).content.format
        BY <1>1, <2>1 DEF MInv, BlockIsTheStoredOne
    <2>4. /\ held.raw = p.raw /\ held.format = p.format /\ Parse(stored).layout = layout
          /\ Parse(stored).content.raw = p.raw
          /\ IsLayout(layout)
        BY <2>2, <2>3, ParsedContent
    <2>5. Partition(stored, p)
        BY <2>2, <2>3, ParseAccepts, ScanPartitions, Zenon
    <2>6. Fenced(p) \/ Braced(p)
        BY <1>1, <2>4, <2>5, Zenon DEF Partition, Bare
    <2>7. p.format # "none"
        BY <2>6 DEF Fenced, Braced
    <2>8. Decode(held.raw, held.format).ok
        BY <2>3, <2>4, <2>7, ParseAccepts
    <2>9. (IF layout = ZeroLayout THEN DefaultLayout(held.format) ELSE layout) = layout
        BY <2>4, <2>6, ShapeIsKept
    <2>10. FrontOf(stored) = MarkOf(layout) \o layout.open \o held.raw
        BY <2>4, Zenon DEF FrontOf, MarkOf
    <2> HIDE DEF p, layout
    <2>11. FrontMatterBlock(held, ending) = [ok |-> TRUE, block |-> held.raw]
        BY <1>1, <2>4, <2>7, <2>8, AuthoredBlockIsKept
    <2>12. stored' = MarkOf(layout) \o layout.open \o ended \o layout.close \o held.body
        <3> DEFINE shape == IF layout = ZeroLayout THEN DefaultLayout(held.format) ELSE layout
                   encoded == FrontMatterBlock(held, LineEnding(shape))
                   refused == \/ ~Valid(held)
                              \/ held.format = "none" /\ BodyOpensFrontMatter(held.body)
                   data == MarkOf(shape) \o shape.open
                               \o TerminateBlock(encoded.block, shape, held.body)
                               \o shape.close \o held.body
        <3>1. SerializeInto(stored, held)
                  = IF refused \/ ~encoded.ok THEN Rejected ELSE [ok |-> TRUE, data |-> data]
            <4>1. SerializeInto(stored, held) = Bytes(held, layout)
                BY <2>3, <2>4, Zenon DEF SerializeInto
            <4> QED
                BY <4>1, Zenon DEF Bytes, MarkOf
        <3>2. shape = layout
            BY <2>9
        <3>3. encoded.block = held.raw
            BY <2>11, <3>2
        <3> HIDE DEF encoded, refused, shape
        <3>4. data = MarkOf(layout) \o layout.open \o ended \o layout.close \o held.body
            BY <3>2, <3>3, Zenon
        <3> HIDE DEF data, ended
        <3>5. ~Rejected.ok /\ [ok |-> TRUE, data |-> data].data = data
            BY DEF Rejected
        <3>6. SerializeInto(stored, held) = [ok |-> TRUE, data |-> data]
            BY <2>1, <3>1, <3>5, Zenon
        <3> QED
            BY <2>1, <3>4, <3>5, <3>6, Zenon
    <2>13. PICK tail \in Seq(Marks) : ended = held.raw \o tail
        <3>1. held.raw \in Seq(Marks)
            BY <2>2 DEF IsContent
        <3>2. IsLayout(layout)
            BY <2>4
        <3>3. \A body : \E tail \in Seq(Marks) :
                  TerminateBlock(held.raw, layout, body) = held.raw \o tail
            BY ONLY <3>1, <3>2, TerminatedBlock
        <3> QED
            BY <3>3
    <2> HIDE DEF ended
    <2>14. /\ MarkOf(layout) \in Seq(Marks) /\ layout.open \in Seq(Marks)
           /\ layout.close \in Seq(Marks) /\ held.raw \in Seq(Marks)
           /\ held.body \in Seq(Marks)
        <3> DEFINE m == Mark("bom")
        <3>1. m \in Marks
            BY PlainMarks
        <3> HIDE DEF m
        <3>2. <<m>> \in Seq(Marks)
            BY <3>1
        <3>3. MarkOf(layout) \in Seq(Marks)
            BY <3>2, EmptySeq, Zenon DEF MarkOf, m
        <3> QED
            BY <2>2, <2>4, <3>3 DEF IsLayout, IsContent
    <2>15. stored' = FrontOf(stored) \o (tail \o layout.close \o held.body)
        <3>1. Regrouped(MarkOf(layout), layout.open, held.raw, tail, layout.close, held.body)
            BY ONLY <2>14, tail \in Seq(Marks), FrontAndRest
        <3> QED
            BY <2>10, <2>12, <2>13, <3>1, Zenon DEF Regrouped
    <2>16. FrontOf(stored) \in Seq(Marks) /\ FrontOf(stored) # <<>>
        <3>1. MarkOf(layout) \o layout.open \in Seq(Marks)
            BY <2>14, ConcatOfMarks
        <3> DEFINE mo == MarkOf(layout) \o layout.open
        <3> HIDE DEF mo
        <3>2. mo \o held.raw \in Seq(Marks) /\ mo \o held.raw # <<>>
            BY <1>1, <2>14, <3>1, ConcatOfMarks, ConcatEqualIffEmpty DEF mo
        <3> QED
            BY <2>10, <3>2 DEF mo
    <2>17. tail \o layout.close \o held.body \in Seq(Marks)
        BY <2>13, <2>14, ConcatOfMarks
    <2> QED
        BY <2>15, <2>16, <2>17, BeginsWith
<1>2. MInv /\ [Next]_vars =>
          [stored' # stored /\ held.raw # <<>>
             /\ Decode(held.raw, held.format).fields = held.fields
           => SubSeq(stored', 1, Len(FrontOf(stored))) = FrontOf(stored)]_vars
    BY <1>1, Zenon
<1> QED
    BY <1>2, MInvHolds, PTL DEF Spec, MetadataStaysPut
==============================================================================
