---------------------- MODULE MarkdownReadBack_proofs ------------------------
(***************************************************************************)
(* What an update writes is read back, for files of any length, any keys,  *)
(* values, bodies and limits.  The proof goes around the circle: Scan      *)
(* finds in a file that is put together from suitable slots the very       *)
(* slots (ScanOfFile), the slots of a file that was scanned are suitable   *)
(* (ScannedShape), every block that Bytes writes is suitable and decodes   *)
(* to the fields it was written for (EncodedIsRewritten, WrittenBlock),    *)
(* and a terminator that Bytes adds makes the slots suitable again         *)
(* (TerminatedFile).                                                       *)
(***************************************************************************)
EXTENDS Markdown_proofs

(***************************************************************************)
(* Lines: where the next one starts, in a text and in a part of it.        *)
(***************************************************************************)

(* The next line starts after the first terminator.                        *)
LEMMA NextLineIs ==
    ASSUME NEW text \in Seq(Marks), NEW i \in 1..(Len(text) + 1), NEW n \in i..Len(text),
           IsLineEnd(text[n]), \A j \in i..(n - 1) : ~IsLineEnd(text[j])
    PROVE  NextLine(text, i) = n + 1
<1> DEFINE ends == {j \in i..Len(text) : IsLineEnd(text[j])}
<1>1. n \in ends /\ ends \in SUBSET Nat /\ Len(text) \in Nat
    BY LenProperties
<1>2. Least(ends) \in ends /\ \A y \in ends : Least(ends) <= y
    <2> HIDE DEF ends
    <2> QED
        BY <1>1, LeastOfPositions
<1>3. Least(ends) = n
    <2> DEFINE l == Least(ends)
    <2>1. l \in i..Len(text) /\ IsLineEnd(text[l]) /\ l <= n
        BY <1>1, <1>2
    <2> HIDE DEF l
    <2>2. ~(l \in i..(n - 1))
        BY <2>1
    <2> QED
        BY <1>1, <2>1, <2>2 DEF l
<1>4. NextLine(text, i) = Least(ends) + 1
    BY <1>1 DEF NextLine
<1> QED
    BY <1>3, <1>4

(* Without a terminator the line is the rest of the text.                  *)
LEMMA LastLineIs ==
    ASSUME NEW text \in Seq(Marks), NEW i \in 1..(Len(text) + 1),
           \A j \in i..Len(text) : ~IsLineEnd(text[j])
    PROVE  NextLine(text, i) = Len(text) + 1
BY DEF NextLine

(* A line has no terminator but its last mark, and one there if another    *)
(* line follows.                                                           *)
LEMMA NextLineMeans ==
    ASSUME NEW text \in Seq(Marks), NEW i \in 1..(Len(text) + 1)
    PROVE  /\ NextLine(text, i) \in i..(Len(text) + 1)
           /\ i <= Len(text) => NextLine(text, i) > i
           /\ \A j \in i..(NextLine(text, i) - 2) : ~IsLineEnd(text[j])
           /\ NextLine(text, i) <= Len(text) => IsLineEnd(text[NextLine(text, i) - 1])
<1> DEFINE ends == {j \in i..Len(text) : IsLineEnd(text[j])}
           n == NextLine(text, i)
<1>1. n \in i..(Len(text) + 1) /\ (i <= Len(text) => n > i) /\ Len(text) \in Nat
    BY NextLineBounds, LenProperties
<1>2. CASE ends = {}
    <2>1. n = Len(text) + 1
        BY <1>2 DEF NextLine
    <2> HIDE DEF n
    <2> QED
        BY <1>1, <1>2, <2>1 DEF n
<1>3. CASE ends # {}
    <2> DEFINE l == Least(ends)
    <2>1. ends \in SUBSET Nat
        BY <1>1
    <2>2. l \in ends /\ \A y \in ends : l <= y
        <3> HIDE DEF ends
        <3> QED
            BY <1>3, <2>1, LeastOfPositions
    <2>3. n = l + 1
        BY <1>3 DEF NextLine
    <2> HIDE DEF n, l
    <2>4. l \in i..Len(text) /\ IsLineEnd(text[l])
        BY <2>2
    <2>5. \A j \in i..(l - 1) : ~IsLineEnd(text[j])
        BY <1>1, <2>2, <2>4
    <2>6. n - 2 = l - 1 /\ n - 1 = l
        BY <1>1, <2>3, <2>4
    <2> QED
        BY <1>1, <2>3, <2>4, <2>5, <2>6 DEF n
<1> QED
    BY <1>2, <1>3

(* The four slots behind the byte-order mark, mark by mark.                *)
Laid(rest, o, r, c, b) ==
    /\ rest \in Seq(Marks)
    /\ Len(rest) = Len(o) + Len(r) + Len(c) + Len(b)
    /\ \A i \in 1..Len(o) : rest[i] = o[i]
    /\ \A i \in 1..Len(r) : rest[Len(o) + i] = r[i]
    /\ \A i \in 1..Len(c) : rest[Len(o) + Len(r) + i] = c[i]
    /\ \A i \in 1..Len(b) : rest[Len(o) + Len(r) + Len(c) + i] = b[i]

(* A concatenation of marks, mark by mark. *)
LEMMA ConcatByMarks ==
    ASSUME NEW s \in Seq(Marks), NEW t \in Seq(Marks)
    PROVE  /\ s \o t \in Seq(Marks)
           /\ Len(s) \in Nat /\ Len(t) \in Nat
           /\ Len(s \o t) = Len(s) + Len(t)
           /\ \A i \in 1..Len(s) : (s \o t)[i] = s[i]
           /\ \A i \in 1..Len(t) : (s \o t)[Len(s) + i] = t[i]
<1>1. Len(s) \in Nat /\ Len(t) \in Nat
    BY LenProperties
<1> QED
    BY <1>1, ConcatProperties

(* Slots that are concatenated are laid out so. *)
LEMMA LaidOut ==
    ASSUME NEW o \in Seq(Marks), NEW r \in Seq(Marks), NEW c \in Seq(Marks), NEW b \in Seq(Marks)
    PROVE  Laid(o \o r \o c \o b, o, r, c, b)
<1> DEFINE x == o \o r
           y == x \o c
           z == y \o b
<1>1. /\ x \in Seq(Marks) /\ Len(x) = Len(o) + Len(r)
      /\ \A i \in 1..Len(o) : x[i] = o[i]
      /\ \A i \in 1..Len(r) : x[Len(o) + i] = r[i]
    BY ConcatByMarks
<1> HIDE DEF x
<1>2. /\ y \in Seq(Marks) /\ Len(y) = Len(x) + Len(c)
      /\ \A i \in 1..Len(x) : y[i] = x[i]
      /\ \A i \in 1..Len(c) : y[Len(x) + i] = c[i]
    BY <1>1, ConcatByMarks
<1> HIDE DEF y
<1>3. /\ z \in Seq(Marks) /\ Len(z) = Len(y) + Len(b)
      /\ \A i \in 1..Len(y) : z[i] = y[i]
      /\ \A i \in 1..Len(b) : z[Len(y) + i] = b[i]
    BY <1>2, ConcatByMarks
<1> HIDE DEF z
<1>4. Len(o) \in Nat /\ Len(r) \in Nat /\ Len(c) \in Nat /\ Len(b) \in Nat
    BY LenProperties
<1>5. Laid(z, o, r, c, b)
    <2>1. \A i \in 1..Len(o) : z[i] = o[i]
        BY <1>1, <1>2, <1>3, <1>4
    <2>2. \A i \in 1..Len(r) : z[Len(o) + i] = r[i]
        BY <1>1, <1>2, <1>3, <1>4
    <2>3. \A i \in 1..Len(c) : z[Len(o) + Len(r) + i] = c[i]
        BY <1>1, <1>2, <1>3, <1>4
    <2>4. \A i \in 1..Len(b) : z[Len(o) + Len(r) + Len(c) + i] = b[i]
        BY <1>1, <1>2, <1>3, <1>4
    <2>5. Len(z) = Len(o) + Len(r) + Len(c) + Len(b)
        BY <1>1, <1>2, <1>3, <1>4
    <2> QED
        BY <1>3, <2>1, <2>2, <2>3, <2>4, <2>5 DEF Laid
<1> QED
    BY <1>5 DEF x, y, z

(* A piece of a text that agrees with another mark by mark is the other.   *)
LEMMA PieceIs ==
    ASSUME NEW text \in Seq(Marks), NEW piece \in Seq(Marks), NEW k \in Nat,
           k + Len(piece) <= Len(text), \A i \in 1..Len(piece) : text[k + i] = piece[i]
    PROVE  SubSeq(text, k + 1, k + Len(piece)) = piece
<1> DEFINE n == Len(piece)
           sub == SubSeq(text, k + 1, k + n)
<1>1. n \in Nat /\ Len(text) \in Nat
    BY LenProperties
<1>2. \A i \in 1..Len(text) : text[i] \in Marks
    BY ElementOfSeq
<1>3. \A i \in (k + 1)..(k + n) : text[i] \in Marks
    BY <1>1, <1>2
<1>4. /\ sub \in Seq(Marks)
      /\ Len(sub) = IF k + 1 <= k + n THEN (k + n) - (k + 1) + 1 ELSE 0
      /\ \A i \in 1 .. (k + n) - (k + 1) + 1 : sub[i] = text[k + 1 + i - 1]
    <2>1. k + 1 \in Int /\ k + n \in Int
        BY <1>1
    <2> HIDE DEF n
    <2> QED
        BY <1>3, <2>1, SubSeqProperties
<1>5. Len(sub) = n
    BY <1>1, <1>4
<1>6. \A i \in 1..n : sub[i] = piece[i]
    BY <1>1, <1>4
<1> QED
    BY <1>4, <1>5, <1>6, SeqEqual

(* The slots of a text that is laid out are its pieces. *)
LEMMA LaidSlots ==
    ASSUME NEW o \in Seq(Marks), NEW r \in Seq(Marks), NEW c \in Seq(Marks), NEW b \in Seq(Marks),
           NEW rest, Laid(rest, o, r, c, b)
    PROVE  /\ SubSeq(rest, 1, Len(o)) = o
           /\ SubSeq(rest, Len(o) + 1, Len(o) + Len(r)) = r
           /\ SubSeq(rest, Len(o) + Len(r) + 1, Len(o) + Len(r) + Len(c)) = c
           /\ SubSeq(rest, Len(o) + Len(r) + Len(c) + 1, Len(rest)) = b
<1>1. Len(o) \in Nat /\ Len(r) \in Nat /\ Len(c) \in Nat /\ Len(b) \in Nat /\ rest \in Seq(Marks)
    BY LenProperties DEF Laid
<1>2. SubSeq(rest, 0 + 1, 0 + Len(o)) = o
    BY <1>1, PieceIs DEF Laid
<1>3. SubSeq(rest, Len(o) + 1, Len(o) + Len(r)) = r
    BY <1>1, PieceIs DEF Laid
<1>4. SubSeq(rest, (Len(o) + Len(r)) + 1, (Len(o) + Len(r)) + Len(c)) = c
    <2> DEFINE k == Len(o) + Len(r)
    <2>1. k \in Nat /\ k + Len(c) <= Len(rest) /\ \A i \in 1..Len(c) : rest[k + i] = c[i]
        BY <1>1 DEF Laid
    <2> HIDE DEF k
    <2>2. SubSeq(rest, k + 1, k + Len(c)) = c
        BY <1>1, <2>1, PieceIs
    <2> QED
        BY <2>2 DEF k
<1>5. SubSeq(rest, Len(o) + Len(r) + Len(c) + 1, Len(o) + Len(r) + Len(c) + Len(b)) = b
    <2> DEFINE k == Len(o) + Len(r) + Len(c)
    <2>1. k \in Nat /\ k + Len(b) <= Len(rest) /\ \A i \in 1..Len(b) : rest[k + i] = b[i]
        BY <1>1 DEF Laid
    <2> HIDE DEF k
    <2>2. SubSeq(rest, k + 1, k + Len(b)) = b
        BY <1>1, <2>1, PieceIs
    <2> QED
        BY <2>2 DEF k
<1> QED
    BY <1>1, <1>2, <1>3, <1>4, <1>5 DEF Laid

(***************************************************************************)
(* A file put together from a fenced block.                                *)
(***************************************************************************)
IsFenceLine(line, fence) ==
    /\ line # <<>>
    /\ line[1].is = fence
    /\ \A j \in 2..Len(line) : IsSpace(line[j])
    /\ \A j \in 1..(Len(line) - 1) : ~IsLineEnd(line[j])

HoldsNoFence(block, fence) ==
    /\ block = <<>> \/ EndsInLine(block)
    /\ \A i \in LineStarts(block, 1) : ~IsDelimiterLine(block, i, fence)

(* What closes the block is not glued to what follows.                     *)
Apart(close, body) == EndsInLine(close) \/ body = <<>>

(* A line of a block that ends in a terminator is the same line wherever   *)
(* the block stands.                                                       *)
LEMMA LineOfBlock ==
    ASSUME NEW text \in Seq(Marks), NEW block \in Seq(Marks), NEW k \in Nat,
           k + Len(block) <= Len(text), \A i \in 1..Len(block) : text[k + i] = block[i],
           EndsInLine(block), NEW i \in 1..Len(block)
    PROVE  NextLine(text, k + i) = k + NextLine(block, i)
<1> DEFINE n == NextLine(block, i)
<1>1. /\ n \in (i + 1)..(Len(block) + 1)
      /\ \A j \in i..(n - 2) : ~IsLineEnd(block[j])
      /\ n <= Len(block) => IsLineEnd(block[n - 1])
      /\ Len(block) \in Nat /\ Len(text) \in Nat
    BY NextLineMeans, LenProperties
<1> HIDE DEF n
<1>2. IsLineEnd(block[n - 1])
    <2>1. n = Len(block) + 1 => n - 1 = Len(block)
        BY <1>1
    <2> QED
        BY <1>1, <2>1 DEF EndsInLine
<1>3. k + i \in 1..(Len(text) + 1) /\ k + n - 1 \in (k + i)..Len(text)
    BY <1>1
<1>4. IsLineEnd(text[k + n - 1])
    <2>1. n - 1 \in 1..Len(block) /\ k + (n - 1) = k + n - 1
        BY <1>1
    <2> QED
        BY <1>2, <2>1
<1>5. \A j \in (k + i)..((k + n - 1) - 1) : ~IsLineEnd(text[j])
    <2> TAKE j \in (k + i)..((k + n - 1) - 1)
    <2>1. j - k \in i..(n - 2) /\ j - k \in 1..Len(block) /\ k + (j - k) = j
        BY <1>1
    <2> QED
        BY <1>1, <2>1
<1>6. NextLine(text, k + i) = (k + n - 1) + 1
    <2> DEFINE p == k + i
               q == k + n - 1
    <2>1. /\ p \in 1..(Len(text) + 1) /\ q \in p..Len(text) /\ IsLineEnd(text[q])
          /\ \A j \in p..(q - 1) : ~IsLineEnd(text[j])
        BY <1>3, <1>4, <1>5
    <2> HIDE DEF p, q
    <2>2. NextLine(text, p) = q + 1
        BY <2>1, NextLineIs
    <2> QED
        BY <2>2 DEF p, q
<1> QED
    BY <1>1, <1>6 DEF n

(* A line that ends in a terminator, or with the text.                     *)
LEMMA LineEnds ==
    ASSUME NEW text \in Seq(Marks), NEW line \in Seq(Marks), NEW k \in Nat,
           k + Len(line) <= Len(text), \A i \in 1..Len(line) : text[k + i] = line[i],
           \A j \in 1..(Len(line) - 1) : ~IsLineEnd(line[j]),
           EndsInLine(line) \/ k + Len(line) = Len(text)
    PROVE  NextLine(text, k + 1) = k + Len(line) + 1
<1> DEFINE p == k + 1
           q == k + Len(line)
<1>1. Len(line) \in Nat /\ Len(text) \in Nat
    BY LenProperties
<1>2. p \in 1..(Len(text) + 1) /\ q \in Nat /\ q <= Len(text)
    BY <1>1
<1>3. \A j \in p..(q - 1) : ~IsLineEnd(text[j])
    <2> TAKE j \in p..(q - 1)
    <2>1. /\ j - k \in 1..(Len(line) - 1) /\ j - k \in 1..Len(line)
          /\ k + (j - k) = j
        BY <1>1
    <2>2. text[k + (j - k)] = line[j - k]
        BY <2>1
    <2> QED
        BY <2>1, <2>2
<1>4. CASE EndsInLine(line)
    <2>1. Len(line) \in 1..Len(line) /\ q \in p..Len(text)
        BY <1>1, <1>2, <1>4, EmptySeq DEF EndsInLine
    <2>2. IsLineEnd(text[q])
        BY <1>4, <2>1 DEF EndsInLine
    <2> HIDE DEF p, q
    <2>3. NextLine(text, p) = q + 1
        BY <1>2, <1>3, <2>1, <2>2, NextLineIs
    <2> QED
        BY <2>3 DEF p, q
<1>5. CASE ~EndsInLine(line)
    <2>1. q = Len(text)
        BY <1>5
    <2>2. \A j \in p..Len(text) : ~IsLineEnd(text[j])
        <3> TAKE j \in p..Len(text)
        <3>1. CASE j \in p..(q - 1)
            BY <1>3, <3>1
        <3>2. CASE j = q
            <4>1. Len(line) \in 1..Len(line) /\ line # <<>>
                BY <1>1, <3>2, EmptySeq
            <4> QED
                BY <1>5, <3>2, <4>1 DEF EndsInLine
        <3>3. j \in p..(q - 1) \/ j = q
            <4>1. \A i, l, m, h \in Nat : h \in l..i /\ m = i => h \in l..(m - 1) \/ h = m
                OBVIOUS
            <4>2. p \in Nat /\ j \in Nat
                BY <1>2
            <4> HIDE DEF p, q
            <4> QED
                BY <1>1, <1>2, <2>1, <4>1, <4>2
        <3> QED
            BY <3>1, <3>2, <3>3
    <2> HIDE DEF p, q
    <2>3. NextLine(text, p) = Len(text) + 1
        BY <1>2, <2>2, LastLineIs
    <2> QED
        BY <2>1, <2>3 DEF p, q
<1> QED
    BY <1>4, <1>5

(* The line a fence stands on, where it ends in a terminator or with the   *)
(* text.                                                                   *)
LEMMA FenceLineEnds ==
    ASSUME NEW text \in Seq(Marks), NEW line \in Seq(Marks), NEW k \in Nat, NEW fence,
           k + Len(line) <= Len(text), \A i \in 1..Len(line) : text[k + i] = line[i],
           IsFenceLine(line, fence), EndsInLine(line) \/ k + Len(line) = Len(text)
    PROVE  /\ NextLine(text, k + 1) = k + Len(line) + 1
           /\ IsDelimiterLine(text, k + 1, fence)
<1>1. Len(line) \in Nat \ {0} /\ Len(text) \in Nat
    BY LenProperties, EmptySeq DEF IsFenceLine
<1>2. NextLine(text, k + 1) = k + Len(line) + 1
    BY LineEnds DEF IsFenceLine
<1>3. k + 1 <= Len(text) /\ text[k + 1].is = fence
    BY <1>1 DEF IsFenceLine
<1>4. \A j \in (k + 2)..(k + Len(line)) : IsSpace(text[j])
    <2> TAKE j \in (k + 2)..(k + Len(line))
    <2>1. j - k \in 2..Len(line) /\ j - k \in 1..Len(line) /\ k + (j - k) = j
        BY <1>1
    <2> QED
        BY <2>1 DEF IsFenceLine
<1>5. (k + 1) + 1 = k + 2 /\ (k + Len(line) + 1) - 1 = k + Len(line)
    BY <1>1
<1> QED
    BY <1>2, <1>3, <1>4, <1>5, Zenon DEF IsDelimiterLine

(* Where the slots of a laid-out file end.                                 *)
LEMMA LaidLengths ==
    ASSUME NEW o \in Seq(Marks), NEW r \in Seq(Marks), NEW c \in Seq(Marks), NEW b \in Seq(Marks),
           NEW rest, Laid(rest, o, r, c, b)
    PROVE  /\ Len(o) \in Nat /\ Len(r) \in Nat /\ Len(c) \in Nat /\ Len(b) \in Nat
           /\ Len(rest) \in Nat /\ Len(o) + Len(r) \in Nat
           /\ Len(o) + Len(r) + Len(c) <= Len(rest)
           /\ Len(b) = 0 => Len(o) + Len(r) + Len(c) = Len(rest)
<1>1. Len(o) \in Nat /\ Len(r) \in Nat /\ Len(c) \in Nat /\ Len(b) \in Nat
    BY LenProperties
<1>2. Len(rest) = Len(o) + Len(r) + Len(c) + Len(b) /\ Len(rest) \in Nat
    BY LenProperties DEF Laid
<1>3. \A i, j, k, l, n \in Nat : n = i + j + k + l =>
          i + j \in Nat /\ i + j + k <= n /\ (l = 0 => i + j + k = n)
    OBVIOUS
<1> QED
    BY <1>1, <1>2, <1>3

(* The scan for the closing line finds the one the block was put before:   *)
(* no line of the block is taken for it.                                   *)
LEMMA FencedScan ==
    ASSUME NEW o \in Seq(Marks), NEW r \in Seq(Marks), NEW c \in Seq(Marks), NEW b \in Seq(Marks),
           NEW rest, Laid(rest, o, r, c, b), NEW bom, NEW format \in {"yaml", "toml"},
           IsFenceLine(o, Fences[format]), EndsInLine(o),
           HoldsNoFence(r, Fences[format]),
           IsFenceLine(c, Fences[format]), Apart(c, b)
    PROVE  /\ IsDelimiterLine(rest, 1, Fences[format])
           /\ ScanDelimited(rest, bom, format) =
                 IF Len(r) > MaxFrontMatterBytes THEN Rejected
                 ELSE Parts([bom |-> bom, open |-> o, close |-> c], format, r, b)
<1> DEFINE fence == Fences[format]
           start == NextLine(rest, 1)
           closers == {i \in LineStarts(rest, start) : IsDelimiterLine(rest, i, fence)}
           at == Least(closers)
           next == NextLine(rest, at)
           closing == Len(o) + Len(r) + 1
<1> HIDE DEF fence
<1>1. /\ rest \in Seq(Marks) /\ Len(rest) \in Nat
      /\ Len(o) \in Nat \ {0} /\ Len(r) \in Nat /\ Len(c) \in Nat \ {0} /\ Len(b) \in Nat
    BY LenProperties, EmptySeq DEF Laid, IsFenceLine
<1>2. start = Len(o) + 1 /\ IsDelimiterLine(rest, 1, fence)
    <2>1. /\ 0 \in Nat /\ 0 + Len(o) <= Len(rest)
          /\ \A i \in 1..Len(o) : rest[0 + i] = o[i]
        BY <1>1 DEF Laid
    <2>2. NextLine(rest, 0 + 1) = 0 + Len(o) + 1 /\ IsDelimiterLine(rest, 0 + 1, fence)
        BY <1>1, <2>1, FenceLineEnds DEF fence
    <2> QED
        BY <1>1, <2>2
<1>3. NextLine(rest, closing) = closing + Len(c) /\ IsDelimiterLine(rest, closing, fence)
    <2> DEFINE k == Len(o) + Len(r)
    <2>1. /\ k \in Nat /\ k + Len(c) <= Len(rest)
          /\ \A i \in 1..Len(c) : rest[k + i] = c[i]
          /\ EndsInLine(c) \/ k + Len(c) = Len(rest)
        <3>1. b = <<>> => Len(b) = 0
            OBVIOUS
        <3>2. k \in Nat /\ k + Len(c) <= Len(rest) /\ (Len(b) = 0 => k + Len(c) = Len(rest))
            BY LaidLengths
        <3>3. \A i \in 1..Len(c) : rest[k + i] = c[i]
            BY DEF Laid
        <3> HIDE DEF k
        <3> QED
            BY <3>1, <3>2, <3>3 DEF Apart
    <2> HIDE DEF k
    <2>2. NextLine(rest, k + 1) = k + Len(c) + 1 /\ IsDelimiterLine(rest, k + 1, fence)
        BY <1>1, <2>1, FenceLineEnds DEF fence
    <2> QED
        BY <1>1, <2>2 DEF k
<1>4. closing \in closers
    <2>1. closing \in start..Len(rest)
        BY <1>1, <1>2 DEF Laid
    <2>2. closing = start \/ IsLineEnd(rest[closing - 1])
        <3>1. CASE r = <<>>
            BY <1>1, <1>2, <3>1
        <3>2. CASE r # <<>>
            <4>1. Len(r) \in 1..Len(r) /\ IsLineEnd(r[Len(r)]) /\ closing - 1 = Len(o) + Len(r)
                BY <1>1, <3>2, EmptySeq DEF HoldsNoFence, EndsInLine
            <4> QED
                BY <4>1 DEF Laid
        <3> QED
            BY <3>1, <3>2
    <2> QED
        BY <1>3, <2>1, <2>2 DEF LineStarts
<1>5. \A i \in closers : closing <= i
    <2> SUFFICES ASSUME NEW i \in closers, i < closing PROVE FALSE
        BY <1>1, <1>2 DEF LineStarts
    <2> DEFINE m == i - Len(o)
    <2>1. /\ i \in start..Len(rest) /\ (i = start \/ IsLineEnd(rest[i - 1]))
          /\ IsDelimiterLine(rest, i, fence)
        BY DEF LineStarts
    <2>2. m \in 1..Len(r) /\ i = Len(o) + m /\ (m = 1 \/ m - 1 \in 1..Len(r))
        BY <1>1, <1>2, <2>1
    <2>3. m \in LineStarts(r, 1)
        <3>1. CASE i = start
            BY <1>1, <1>2, <2>2, <3>1 DEF LineStarts
        <3>2. CASE i # start
            <4>1. m - 1 \in 1..Len(r) /\ i - 1 = Len(o) + (m - 1)
                BY <1>1, <1>2, <2>1, <2>2, <3>2
            <4>2. rest[i - 1] = r[m - 1]
                BY <4>1 DEF Laid
            <4> QED
                BY <1>1, <2>1, <2>2, <3>2, <4>2 DEF LineStarts
        <3> QED
            BY <3>1, <3>2
    <2> HIDE DEF m
    <2>4. EndsInLine(r)
        BY <1>1, <2>2 DEF HoldsNoFence
    <2>5. NextLine(rest, Len(o) + m) = Len(o) + NextLine(r, m)
        <3> DEFINE k == Len(o)
        <3>1. k \in Nat /\ k + Len(r) <= Len(rest) /\ \A j \in 1..Len(r) : rest[k + j] = r[j]
            BY <1>1 DEF Laid
        <3>2. rest \in Seq(Marks) /\ m \in 1..Len(r)
            BY <1>1, <2>2
        <3> HIDE DEF k
        <3>3. NextLine(rest, k + m) = k + NextLine(r, m)
            BY ONLY <2>4, <3>1, <3>2, r \in Seq(Marks), LineOfBlock
        <3> QED
            BY <3>3 DEF k
    <2>6. NextLine(r, m) \in (m + 1)..(Len(r) + 1)
        BY <1>1, <2>2, NextLineMeans
    <2>7. IsDelimiterLine(r, m, fence)
        <3>1. m <= Len(r) /\ r[m].is = fence
            <4>1. rest[Len(o) + m] = r[m]
                BY <2>2 DEF Laid
            <4> QED
                BY <1>1, <2>1, <2>2, <4>1 DEF IsDelimiterLine
        <3>2. \A j \in (m + 1)..(NextLine(r, m) - 1) : IsSpace(r[j])
            <4> TAKE j \in (m + 1)..(NextLine(r, m) - 1)
            <4>1. j \in 1..Len(r) /\ Len(o) + j \in (i + 1)..(NextLine(rest, i) - 1)
                BY <1>1, <2>2, <2>5, <2>6
            <4>2. IsSpace(rest[Len(o) + j])
                BY <2>1, <4>1 DEF IsDelimiterLine
            <4> QED
                BY <4>1, <4>2 DEF Laid
        <3> QED
            BY <3>1, <3>2 DEF IsDelimiterLine
    <2> QED
        BY <2>3, <2>7 DEF HoldsNoFence, fence
<1>6. at = closing
    <2>1. closers \in SUBSET Nat /\ closers # {}
        <3>1. \A i \in closers : i \in start..Len(rest)
            BY DEF LineStarts
        <3>2. \A i \in start..Len(rest) : i \in Nat
            BY <1>1, <1>2
        <3> HIDE DEF closers, start
        <3> QED
            BY <1>4, <3>1, <3>2
    <2> HIDE DEF closers
    <2>2. at \in closers /\ \A y \in closers : at <= y
        BY <2>1, LeastOfPositions
    <2> HIDE DEF at
    <2>3. at \in Nat /\ closing \in Nat
        BY <1>1, <2>1, <2>2
    <2>4. at <= closing /\ closing <= at
        BY <1>4, <1>5, <2>2, Zenon
    <2>5. \A i, j \in Nat : i <= j /\ j <= i => i = j
        OBVIOUS
    <2> HIDE DEF closing
    <2> QED
        BY ONLY <2>3, <2>4, <2>5
<1>7. /\ start - 1 = Len(o) /\ at - 1 = Len(o) + Len(r) /\ at - start = Len(r)
      /\ next - 1 = Len(o) + Len(r) + Len(c)
      /\ next = Len(o) + Len(r) + Len(c) + 1
    BY <1>1, <1>2, <1>3, <1>6
<1>8. /\ SubSeq(rest, 1, start - 1) = o /\ SubSeq(rest, start, at - 1) = r
      /\ SubSeq(rest, at, next - 1) = c /\ SubSeq(rest, next, Len(rest)) = b
    <2>1. /\ SubSeq(rest, 1, Len(o)) = o
          /\ SubSeq(rest, Len(o) + 1, Len(o) + Len(r)) = r
          /\ SubSeq(rest, Len(o) + Len(r) + 1, Len(o) + Len(r) + Len(c)) = c
          /\ SubSeq(rest, Len(o) + Len(r) + Len(c) + 1, Len(rest)) = b
        BY LaidSlots
    <2> HIDE DEF start, at, next
    <2> QED
        BY <1>2, <1>6, <1>7, <2>1
<1>9. closers # {}
    BY <1>4
<1>10. ScanDelimited(rest, bom, format) =
          IF closers = {} \/ at - start > MaxFrontMatterBytes THEN Rejected
          ELSE Parts([bom |-> bom, open |-> SubSeq(rest, 1, start - 1),
                      close |-> SubSeq(rest, at, next - 1)],
                     format, SubSeq(rest, start, at - 1), SubSeq(rest, next, Len(rest)))
    BY DEF ScanDelimited, fence
<1> HIDE DEF closers, at, next, start
<1> QED
    BY <1>2, <1>7, <1>8, <1>9, <1>10 DEF fence

(* What may follow a JSON object on its last line.                         *)
RestOfLine(close) ==
    /\ \A j \in 1..Len(close) : IsSpace(close[j])
    /\ \A j \in 1..(Len(close) - 1) : ~IsLineEnd(close[j])

Opens(m) == m.is = "{"
Closes(m) == m.is = "}"
Inside(m) == m.is = "json" \/ IsSpace(m)

(* An object: a brace, what is inside, a brace.                            *)
LEMMA ObjectMeans ==
    ASSUME NEW text, NEW end
    PROVE  IsObject(text, end) <=> /\ Opens(text[1]) /\ Closes(text[end])
                                   /\ \A i \in 2..(end - 1) : Inside(text[i])
BY Zenon DEF IsObject, Opens, Closes, Inside

(* An empty slot.                                                          *)
Nothing(slot) == slot = <<>>

(* A block that is one object.                                             *)
Object(block) == Len(block) > 1 /\ IsObject(block, Len(block))

(* Braces are neither blank nor an entry.                                  *)
LEMMA BracesAreOutside ==
    ASSUME NEW m, Opens(m) \/ Closes(m)
    PROVE  ~Inside(m) /\ ~IsLineEnd(m)
BY Zenon DEF Opens, Closes, Inside, IsSpace, IsLineEnd

(* An object at the start of a file ends where the block it was put        *)
(* together from ends.                                                     *)
LEMMA BracedScan ==
    ASSUME NEW o \in Seq(Marks), NEW r \in Seq(Marks), NEW c \in Seq(Marks), NEW b \in Seq(Marks),
           NEW rest, Laid(rest, o, r, c, b), Nothing(o), NEW bom,
           Object(r), RestOfLine(c), Apart(c, b)
    PROVE  /\ rest # <<>> /\ Opens(rest[1])
           /\ ObjectEnds(rest) = IF Len(r) > MaxFrontMatterBytes THEN {} ELSE {Len(r)}
           /\ ScanJSON(rest, bom, Len(r))
                 = Parts([bom |-> bom, open |-> <<>>, close |-> c], "json", r, b)
<1>1. rest \in Seq(Marks)
    BY DEF Laid
<1>3. /\ Len(o) \in Nat /\ Len(r) \in Nat /\ Len(c) \in Nat /\ Len(b) \in Nat /\ Len(rest) \in Nat
      /\ Len(o) + Len(r) + Len(c) <= Len(rest)
      /\ Len(b) = 0 => Len(o) + Len(r) + Len(c) = Len(rest)
    BY LaidLengths
<1>13. /\ SubSeq(rest, Len(o) + 1, Len(o) + Len(r)) = r
       /\ SubSeq(rest, Len(o) + Len(r) + 1, Len(o) + Len(r) + Len(c)) = c
       /\ SubSeq(rest, Len(o) + Len(r) + Len(c) + 1, Len(rest)) = b
    BY LaidSlots
<1>14. Len(o) = 0
    BY DEF Nothing
<1> DEFINE n == Len(r)
           next == NextLine(rest, n + 1)
<1>2. /\ n \in Nat /\ n > 1 /\ Len(c) \in Nat /\ Len(b) \in Nat /\ Len(rest) \in Nat
      /\ n + Len(c) <= Len(rest)
      /\ Len(b) = 0 => n + Len(c) = Len(rest)
    <2>1. n > 1
        BY DEF Object
    <2>2. Len(o) + n + Len(c) = n + Len(c)
        BY <1>3, <1>14
    <2> QED
        BY <1>3, <2>1, <2>2
<1>0. IsObject(r, n)
    BY DEF Object
<1> HIDE DEF n
<1>4. /\ \A i \in 1..n : rest[i] = r[i]
      /\ \A i \in 1..Len(c) : rest[n + i] = c[i]
    <2>1. /\ \A i \in 1..n : rest[Len(o) + i] = r[i]
          /\ \A i \in 1..Len(c) : rest[Len(o) + n + i] = c[i]
        BY <1>1 DEF Laid, n
    <2>2. \A i \in Nat : Len(o) + i = i /\ Len(o) + n + i = n + i
        BY <1>14, <1>2
    <2>3. (\A i \in 1..n : i \in Nat) /\ (\A i \in 1..Len(c) : i \in Nat)
        BY <1>2
    <2> QED
        BY <2>1, <2>2, <2>3
<1>5. next = n + Len(c) + 1
    <2>1. EndsInLine(c) \/ n + Len(c) = Len(rest)
        <3>1. b = <<>> => Len(b) = 0
            OBVIOUS
        <3> QED
            BY <1>2, <3>1, Zenon DEF Apart
    <2> QED
        BY <1>1, <1>2, <1>4, <2>1, LineEnds DEF RestOfLine
<1>6. rest # <<>> /\ Opens(rest[1])
    <2>1. rest[1] = r[1] /\ Len(rest) > 0
        BY <1>2, <1>4
    <2>2. rest = <<>> => Len(rest) = 0
        OBVIOUS
    <2> QED
        BY <1>0, <1>2, <2>1, <2>2, ObjectMeans
<1>7. n \in 2..Len(rest) /\ IsObject(rest, n)
    BY <1>0, <1>2, <1>4, ObjectMeans
<1>8. \A i \in (n + 1)..(next - 1) : IsSpace(rest[i])
    <2> TAKE i \in (n + 1)..(next - 1)
    <2>1. i - n \in 1..Len(c) /\ n + (i - n) = i
        BY <1>2, <1>5
    <2> QED
        BY <1>4, <2>1 DEF RestOfLine
<1>9. ASSUME NEW e \in 2..Len(rest), IsObject(rest, e)
      PROVE  e = n
    <2>1. CASE e > n
        <3>1. n \in 2..(e - 1) /\ Closes(rest[n])
            BY <1>2, <1>7, <2>1, ObjectMeans
        <3> QED
            BY <1>9, <3>1, ObjectMeans, BracesAreOutside
    <2>2. CASE e < n
        <3>1. e \in 2..(n - 1) /\ Closes(rest[e])
            BY <1>2, <1>9, <2>2, ObjectMeans
        <3> QED
            BY <1>7, <3>1, ObjectMeans, BracesAreOutside
    <2> QED
        BY <1>2, <2>1, <2>2
<1>10. ObjectEnds(rest) = IF n > MaxFrontMatterBytes THEN {} ELSE {n}
    <2>1. MaxFrontMatterBytes \in Nat
        BY MarkdownAssumption
    <2>2. ASSUME NEW e \in ObjectEnds(rest) PROVE e = n /\ ~(n > MaxFrontMatterBytes)
        <3>1. e \in 2..Len(rest) /\ IsObject(rest, e) /\ e <= MaxFrontMatterBytes
            BY DEF ObjectEnds
        <3>2. e = n
            BY <1>9, <3>1
        <3> QED
            BY <1>2, <2>1, <3>1, <3>2
    <2>3. ~(n > MaxFrontMatterBytes) => n \in ObjectEnds(rest)
        <3>1. ~(n > MaxFrontMatterBytes) => n <= MaxFrontMatterBytes
            BY <1>2, <2>1
        <3> QED
            BY <1>7, <1>8, <3>1 DEF ObjectEnds
    <2> QED
        BY <2>2, <2>3
<1>11. /\ SubSeq(rest, 1, n) = r /\ SubSeq(rest, n + 1, next - 1) = c
       /\ SubSeq(rest, next, Len(rest)) = b
    <2>1. /\ SubSeq(rest, Len(o) + 1, Len(o) + n) = r
          /\ SubSeq(rest, Len(o) + n + 1, Len(o) + n + Len(c)) = c
          /\ SubSeq(rest, Len(o) + n + Len(c) + 1, Len(rest)) = b
        BY <1>13 DEF n
    <2>2. /\ Len(o) + 1 = 1 /\ Len(o) + n = n /\ Len(o) + n + 1 = n + 1
          /\ Len(o) + n + Len(c) = next - 1 /\ Len(o) + n + Len(c) + 1 = next
        BY <1>14, <1>2, <1>5
    <2> HIDE DEF next
    <2> QED
        BY <2>1, <2>2
<1>12. ScanJSON(rest, bom, n)
          = Parts([bom |-> bom, open |-> <<>>, close |-> SubSeq(rest, n + 1, next - 1)],
                  "json", SubSeq(rest, 1, n), SubSeq(rest, next, Len(rest)))
    BY DEF ScanJSON
<1> HIDE DEF next
<1> QED
    BY <1>6, <1>10, <1>11, <1>12 DEF n

NoNUL(block) == \A i \in 1..Len(block) : block[i].is # "nul"

(* The slots of a file with front matter between fences, and of one with a *)
(* JSON object.                                                            *)
FencedShape(format, o, r, c) ==
    /\ format \in {"yaml", "toml"}
    /\ IsFenceLine(o, Fences[format]) /\ EndsInLine(o)
    /\ HoldsNoFence(r, Fences[format])
    /\ IsFenceLine(c, Fences[format])

BracedShape(format, o, r, c) ==
    format = "json" /\ Nothing(o) /\ Object(r) /\ RestOfLine(c)

Shaped(format, o, r, c) ==
    NoNUL(r) /\ (FencedShape(format, o, r, c) \/ BracedShape(format, o, r, c))

(* The fences that the first line of a text is.                            *)
Openers(rest) == {f \in DOMAIN Fences : IsDelimiterLine(rest, 1, Fences[f])}

(* Scan once the byte-order mark is off.                                   *)
ScanRest(rest, bom, data) ==
    IF rest # <<>> /\ Opens(rest[1]) /\ ObjectEnds(rest) # {}
    THEN RejectNUL(ScanJSON(rest, bom, CHOOSE e \in ObjectEnds(rest) : TRUE))
    ELSE IF Openers(rest) = {} THEN Parts(ZeroLayout, "none", <<>>, data)
    ELSE RejectNUL(ScanDelimited(rest, bom, CHOOSE f \in Openers(rest) : TRUE))

(* A file is scanned behind its byte-order mark.                           *)
LEMMA ScanIsOfTheRest ==
    ASSUME NEW data
    PROVE  LET bom == data # <<>> /\ data[1].is = "bom"
           IN Scan(data) = ScanRest(IF bom THEN Tail(data) ELSE data, bom, data)
BY Zenon DEF Scan, ScanRest, Opens, Openers

(* The mark that Bytes puts first is the one that Scan takes off.          *)
LEMMA MarkIsTakenOff ==
    ASSUME NEW layout, layout.bom \in BOOLEAN, NEW rest \in Seq(Marks), rest # <<>>,
           rest[1].is # "bom"
    PROVE  Scan(MarkOf(layout) \o rest) = ScanRest(rest, layout.bom, MarkOf(layout) \o rest)
<1> DEFINE m == Mark("bom")
           data == MarkOf(layout) \o rest
           bom == data # <<>> /\ data[1].is = "bom"
<1>0. Scan(data) = ScanRest(IF bom THEN Tail(data) ELSE data, bom, data)
    BY ScanIsOfTheRest
<1>1. m \in Marks /\ m.is = "bom"
    BY PlainMarks DEF Mark
<1> HIDE DEF m
<1>2. CASE layout.bom
    <2>1. data = <<m>> \o rest
        BY <1>2, Zenon DEF MarkOf, m
    <2>2. <<m>> \in Seq(Marks) /\ Len(<<m>>) = 1 /\ <<m>>[1] = m
        BY <1>1
    <2>3. Len(rest) \in Nat
        BY LenProperties
    <2> DEFINE front == <<m>>
    <2> HIDE DEF front
    <2>4. front \in Seq(Marks) /\ Len(front) = 1 /\ front[1] = m /\ data = front \o rest
        BY <2>1, <2>2 DEF front
    <2>5. /\ data \in Seq(Marks) /\ Len(data) = 1 + Len(rest) /\ data[1] = m
          /\ \A i \in 1..Len(rest) : data[1 + i] = rest[i]
        <3>1. /\ front \o rest \in Seq(Marks) /\ Len(front \o rest) = Len(front) + Len(rest)
              /\ \A i \in 1..Len(front) : (front \o rest)[i] = front[i]
              /\ \A i \in 1..Len(rest) : (front \o rest)[Len(front) + i] = rest[i]
            BY <2>4, ConcatByMarks
        <3> HIDE DEF data
        <3> QED
            BY <2>4, <3>1
    <2> HIDE DEF data
    <2>6. data # <<>>
        <3>1. data = <<>> => Len(data) = 0
            OBVIOUS
        <3> QED
            BY <2>3, <2>5, <3>1
    <2>7. Tail(data) = rest
        <3>1. /\ Tail(data) \in Seq(Marks) /\ Len(Tail(data)) = Len(data) - 1
              /\ \A i \in 1..Len(Tail(data)) : Tail(data)[i] = data[i + 1]
            BY <2>5, <2>6, HeadTailProperties
        <3> DEFINE t == Tail(data)
        <3>2. t \in Seq(Marks) /\ Len(t) = Len(rest) /\ \A i \in 1..Len(rest) : t[i] = data[i + 1]
            BY <2>3, <2>5, <3>1
        <3> HIDE DEF t
        <3>3. \A i \in 1..Len(rest) : data[i + 1] = rest[i]
            BY <2>3, <2>5
        <3>4. t = rest
            BY <3>2, <3>3, SeqEqual
        <3> QED
            BY <3>4 DEF t
    <2>8. layout.bom = bom
        BY <1>1, <1>2, <2>5, <2>6
    <2> QED
        <3> HIDE DEF bom
        <3>1. Scan(data) = ScanRest(rest, layout.bom, data)
            BY <1>0, <1>2, <2>7, <2>8
        <3> QED
            BY <3>1 DEF data
<1>3. CASE ~layout.bom
    <2>1. data = rest
        BY <1>3, ConcatEmptySeq DEF MarkOf
    <2>2. layout.bom = bom
        BY <1>3, <2>1
    <2> HIDE DEF data, bom
    <2>3. Scan(data) = ScanRest(rest, layout.bom, data)
        BY <1>0, <1>3, <2>1, <2>2
    <2> QED
        BY <2>3 DEF data
<1> QED
    BY <1>2, <1>3

(* A block without a NUL is not rejected for one.                          *)
LEMMA NULIsNotThere ==
    ASSUME NEW layout, NEW format, NEW raw, NEW body, NoNUL(raw)
    PROVE  RejectNUL(Parts(layout, format, raw, body)) = Parts(layout, format, raw, body)
BY DEF RejectNUL, NoNUL, Parts

(* What was rejected has no NUL to be rejected for, and is not accepted.  *)
LEMMA RejectedStays == RejectNUL(Rejected) = Rejected /\ ~Rejected.ok
BY DEF RejectNUL, Rejected

(* No fence is a brace, a byte-order mark or the other fence.              *)
LEMMA FencesDiffer ==
    /\ DOMAIN Fences = {"yaml", "toml"}
    /\ \A f \in {"yaml", "toml"} :
           /\ Fences[f] # "bom" /\ Fences[f] # "nul"
           /\ \A m : m.is = Fences[f] => ~Opens(m) /\ ~Closes(m)
           /\ \A g \in {"yaml", "toml"} : Fences[f] = Fences[g] => f = g
<1>1. DOMAIN Fences = {"yaml", "toml"} /\ Fences["yaml"] = "---" /\ Fences["toml"] = "+++"
    BY DEF Fences
<1>2. /\ "---" # "+++" /\ "---" # "bom" /\ "+++" # "bom" /\ "---" # "nul" /\ "+++" # "nul"
      /\ "---" # "{" /\ "---" # "}" /\ "+++" # "{" /\ "+++" # "}"
    BY Zenon
<1>3. "yaml" # "toml"
    BY Zenon
<1> QED
    BY <1>1, <1>2, <1>3, Zenon DEF Opens, Closes

(* The file that Bytes puts together.                                      *)
FileOf(layout, block, body) ==
    MarkOf(layout) \o layout.open \o block \o layout.close \o body

(* Behind the mark of a file put together from slots of a shape that Scan  *)
(* knows, Scan finds the same slots.                                       *)
LEMMA ScanOfSlots ==
    ASSUME NEW o \in Seq(Marks), NEW r \in Seq(Marks), NEW c \in Seq(Marks), NEW b \in Seq(Marks),
           NEW rest, Laid(rest, o, r, c, b), NEW bom, NEW format, NEW data,
           Shaped(format, o, r, c), Apart(c, b)
    PROVE  /\ rest \in Seq(Marks) /\ rest # <<>> /\ rest[1].is # "bom"
           /\ ~(Len(r) > MaxFrontMatterBytes) =>
                  ScanRest(rest, bom, data)
                      = Parts([bom |-> bom, open |-> o, close |-> c], format, r, b)
           /\ Len(r) > MaxFrontMatterBytes =>
                  \/ ScanRest(rest, bom, data) = Rejected
                  \/ ScanRest(rest, bom, data) = Parts(ZeroLayout, "none", <<>>, data)
<1>1. CASE FencedShape(format, o, r, c)
    <2> DEFINE scanned == ScanDelimited(rest, bom, format)
    <2>1. format \in {"yaml", "toml"}
        BY <1>1 DEF FencedShape
    <2>2. /\ IsDelimiterLine(rest, 1, Fences[format])
          /\ scanned = IF Len(r) > MaxFrontMatterBytes THEN Rejected
                       ELSE Parts([bom |-> bom, open |-> o, close |-> c], format, r, b)
        BY <1>1, <2>1, FencedScan DEF FencedShape
    <2> HIDE DEF scanned
    <2>3. rest \in Seq(Marks)
        BY DEF Laid
    <2>4. 1 <= Len(rest) /\ rest[1].is = Fences[format]
        BY <2>2, Zenon DEF IsDelimiterLine
    <2>5. rest # <<>>
        <3>1. rest = <<>> => Len(rest) = 0
            OBVIOUS
        <3>2. Len(rest) \in Nat
            BY <2>3, LenProperties
        <3> QED
            BY <2>4, <3>1, <3>2
    <2>6. rest[1].is # "bom" /\ ~Opens(rest[1])
        BY <2>1, <2>4, FencesDiffer, Zenon
    <2>7. Openers(rest) = {format}
        <3>1. format \in Openers(rest)
            BY <2>1, <2>2, FencesDiffer, Zenon DEF Openers
        <3>2. ASSUME NEW f \in Openers(rest) PROVE f = format
            <4>1. f \in {"yaml", "toml"} /\ rest[1].is = Fences[f]
                BY FencesDiffer, Zenon DEF Openers, IsDelimiterLine
            <4> QED
                BY <2>1, <2>4, <4>1, FencesDiffer, Zenon
        <3> QED
            BY <3>1, <3>2
    <2>8. (CHOOSE f \in Openers(rest) : TRUE) = format
        BY <2>7
    <2>9. ScanRest(rest, bom, data) = RejectNUL(scanned)
        BY <2>6, <2>7, <2>8, Zenon DEF ScanRest, scanned
    <2>10. NoNUL(r)
        BY DEF Shaped
    <2>11. CASE Len(r) > MaxFrontMatterBytes
        BY <2>2, <2>3, <2>5, <2>6, <2>9, <2>11, RejectedStays
    <2>12. CASE ~(Len(r) > MaxFrontMatterBytes)
        BY <2>2, <2>3, <2>5, <2>6, <2>9, <2>10, <2>12, NULIsNotThere
    <2> QED
        BY <2>11, <2>12
<1>2. CASE BracedShape(format, o, r, c)
    <2>1. /\ rest # <<>> /\ Opens(rest[1])
          /\ ObjectEnds(rest) = IF Len(r) > MaxFrontMatterBytes THEN {} ELSE {Len(r)}
          /\ ScanJSON(rest, bom, Len(r))
                = Parts([bom |-> bom, open |-> <<>>, close |-> c], "json", r, b)
        BY <1>2, BracedScan DEF BracedShape
    <2>2. rest \in Seq(Marks) /\ rest[1].is # "bom"
        BY <2>1, Zenon DEF Laid, Opens
    <2>3. format = "json" /\ o = <<>> /\ NoNUL(r)
        BY <1>2 DEF BracedShape, Nothing, Shaped
    <2>4. Openers(rest) = {}
        <3>1. ASSUME NEW f \in Openers(rest) PROVE FALSE
            <4>1. f \in {"yaml", "toml"} /\ rest[1].is = Fences[f]
                BY FencesDiffer, Zenon DEF Openers, IsDelimiterLine
            <4> QED
                BY <2>1, <4>1, FencesDiffer, Zenon
        <3> QED
            BY <3>1
    <2>5. CASE Len(r) > MaxFrontMatterBytes
        <3>1. ObjectEnds(rest) = {}
            BY <2>1, <2>5
        <3>2. ScanRest(rest, bom, data) = Parts(ZeroLayout, "none", <<>>, data)
            BY <2>4, <3>1, Zenon DEF ScanRest
        <3> QED
            BY <2>1, <2>2, <2>5, <3>2, Zenon
    <2>6. CASE ~(Len(r) > MaxFrontMatterBytes)
        <3>1. ObjectEnds(rest) = {Len(r)}
            BY <2>1, <2>6
        <3>2. ObjectEnds(rest) # {} /\ (CHOOSE e \in ObjectEnds(rest) : TRUE) = Len(r)
            BY <3>1
        <3>3. ScanRest(rest, bom, data) = RejectNUL(ScanJSON(rest, bom, Len(r)))
            BY <2>1, <3>2, Zenon DEF ScanRest
        <3>4. ScanRest(rest, bom, data)
                  = Parts([bom |-> bom, open |-> <<>>, close |-> c], "json", r, b)
            BY <2>1, <2>3, <3>3, NULIsNotThere
        <3> QED
            BY <2>1, <2>2, <2>3, <2>6, <3>4, Zenon
    <2> QED
        BY <2>5, <2>6
<1> QED
    BY <1>1, <1>2, Zenon DEF Shaped

(* What Bytes puts together from slots of a shape that Scan knows, Scan    *)
(* takes apart into the same slots, if the block is not too large; and a   *)
(* block that is too large is never front matter.                          *)
LEMMA ScanOfFile ==
    ASSUME NEW layout, IsLayout(layout), layout = [bom |-> layout.bom, open |-> layout.open,
                                                   close |-> layout.close],
           NEW format, NEW r \in Seq(Marks), NEW b \in Seq(Marks),
           Shaped(format, layout.open, r, layout.close), Apart(layout.close, b)
    PROVE  /\ ~(Len(r) > MaxFrontMatterBytes) =>
                  Scan(FileOf(layout, r, b)) = Parts(layout, format, r, b)
           /\ Len(r) > MaxFrontMatterBytes =>
                  ~Scan(FileOf(layout, r, b)).ok \/ Scan(FileOf(layout, r, b)).format = "none"
<1> DEFINE o == layout.open
           c == layout.close
           m == MarkOf(layout)
           rest == o \o r \o c \o b
           data == m \o rest
<1>1. o \in Seq(Marks) /\ c \in Seq(Marks) /\ layout.bom \in BOOLEAN
    BY DEF IsLayout
<1>2. m \in Seq(Marks)
    <2>1. Mark("bom") \in Marks
        BY PlainMarks
    <2> DEFINE k == Mark("bom")
    <2> HIDE DEF k
    <2>2. <<k>> \in Seq(Marks)
        BY <2>1 DEF k
    <2> QED
        BY <2>2, EmptySeq, Zenon DEF MarkOf, k
<1>3. Shaped(format, o, r, c) /\ Apart(c, b)
    OBVIOUS
<1>4. Laid(rest, o, r, c, b)
    BY <1>1, LaidOut
<1>5. FileOf(layout, r, b) = data
    <2>1. MarkLast(m, o, r, c, b)
        <3> HIDE DEF m, o, c
        <3> QED
            BY <1>1, <1>2, MarkBeforeSlots
    <2> QED
        BY <2>1, Zenon DEF FileOf, MarkLast
<1>6. layout = [bom |-> layout.bom, open |-> o, close |-> c]
    OBVIOUS
<1> HIDE DEF o, c, m, rest, data
<1>7. /\ rest \in Seq(Marks) /\ rest # <<>> /\ rest[1].is # "bom"
      /\ ~(Len(r) > MaxFrontMatterBytes) =>
             ScanRest(rest, layout.bom, data) = Parts(layout, format, r, b)
      /\ Len(r) > MaxFrontMatterBytes =>
             \/ ScanRest(rest, layout.bom, data) = Rejected
             \/ ScanRest(rest, layout.bom, data) = Parts(ZeroLayout, "none", <<>>, data)
    BY <1>1, <1>3, <1>4, <1>6, ScanOfSlots
<1>8. Scan(data) = ScanRest(rest, layout.bom, data)
    <2>1. Scan(MarkOf(layout) \o rest) = ScanRest(rest, layout.bom, MarkOf(layout) \o rest)
        <3>1. rest \in Seq(Marks) /\ rest # <<>> /\ rest[1].is # "bom" /\ layout.bom \in BOOLEAN
            BY <1>1, <1>7
        <3> QED
            BY ONLY <3>1, MarkIsTakenOff
    <2> QED
        BY <2>1, Zenon DEF data, m
<1>9. ~Rejected.ok /\ Parts(ZeroLayout, "none", <<>>, data).format = "none"
    BY DEF Rejected, Parts
<1> QED
    BY <1>5, <1>7, <1>8, <1>9, Zenon

(***************************************************************************)
(* What the slots of a file that Scan took apart look like.                *)
(***************************************************************************)

(* A piece of a text, mark by mark.                                        *)
LEMMA PieceOfText ==
    ASSUME NEW text \in Seq(Marks), NEW from \in 1..(Len(text) + 1), NEW upto \in from..(Len(text) + 1)
    PROVE  /\ SubSeq(text, from, upto - 1) \in Seq(Marks)
           /\ Len(SubSeq(text, from, upto - 1)) = upto - from
           /\ \A i \in 1..(upto - from) : SubSeq(text, from, upto - 1)[i] = text[from + i - 1]
<1>1. Len(text) \in Nat
    BY LenProperties
<1>2. \A i \in 1..Len(text) : text[i] \in Marks
    BY ElementOfSeq
<1>3. from \in Int /\ upto - 1 \in Int /\ \A i \in from..(upto - 1) : text[i] \in Marks
    BY <1>1, <1>2
<1> DEFINE sub == SubSeq(text, from, upto - 1)
<1>4. /\ sub \in Seq(Marks)
      /\ Len(sub) = IF from <= upto - 1 THEN (upto - 1) - from + 1 ELSE 0
      /\ \A i \in 1 .. (upto - 1) - from + 1 : sub[i] = text[from + i - 1]
    <2> DEFINE n == upto - 1
    <2>1. from \in Int /\ n \in Int /\ \A i \in from..n : text[i] \in Marks
        BY <1>3
    <2> HIDE DEF n
    <2> QED
        BY ONLY <2>1, SubSeqProperties DEF n
<1>5. (upto - 1) - from + 1 = upto - from /\ (~(from <= upto - 1) => upto - from = 0)
    BY <1>1
<1> HIDE DEF sub
<1>6. Len(sub) = upto - from
    BY <1>4, <1>5
<1>7. \A i \in 1..(upto - from) : sub[i] = text[from + i - 1]
    BY <1>4, <1>5
<1> QED
    BY <1>4, <1>6, <1>7 DEF sub

(* A delimiter line of a text, by itself.                                  *)
LEMMA FenceLineRead ==
    ASSUME NEW text \in Seq(Marks), NEW i \in 1..Len(text), NEW fence,
           IsDelimiterLine(text, i, fence)
    PROVE  /\ IsFenceLine(SubSeq(text, i, NextLine(text, i) - 1), fence)
           /\ NextLine(text, i) <= Len(text) =>
                  EndsInLine(SubSeq(text, i, NextLine(text, i) - 1))
<1> DEFINE n == NextLine(text, i)
           line == SubSeq(text, i, n - 1)
<1>1. /\ n \in (i + 1)..(Len(text) + 1) /\ Len(text) \in Nat
      /\ \A j \in i..(n - 2) : ~IsLineEnd(text[j])
      /\ n <= Len(text) => IsLineEnd(text[n - 1])
    BY NextLineMeans, LenProperties
<1>2. text[i].is = fence /\ \A j \in (i + 1)..(n - 1) : IsSpace(text[j])
    BY Zenon DEF IsDelimiterLine
<1> HIDE DEF n
<1>3. line \in Seq(Marks) /\ Len(line) = n - i /\ \A j \in 1..(n - i) : line[j] = text[i + j - 1]
    BY <1>1, PieceOfText
<1> HIDE DEF line
<1>4. line # <<>>
    <2>1. line = <<>> => Len(line) = 0
        OBVIOUS
    <2> QED
        BY <1>1, <1>3, <2>1
<1>5. line[1].is = fence
    BY <1>1, <1>2, <1>3
<1>6. \A j \in 2..Len(line) : IsSpace(line[j])
    <2> TAKE j \in 2..Len(line)
    <2>1. j \in 1..(n - i) /\ i + j - 1 \in (i + 1)..(n - 1)
        BY <1>1, <1>3
    <2> QED
        BY <1>2, <1>3, <2>1
<1>7. \A j \in 1..(Len(line) - 1) : ~IsLineEnd(line[j])
    <2> TAKE j \in 1..(Len(line) - 1)
    <2>1. j \in 1..(n - i) /\ i + j - 1 \in i..(n - 2)
        BY <1>1, <1>3
    <2> QED
        BY <1>1, <1>3, <2>1
<1>8. n <= Len(text) => EndsInLine(line)
    <2>1. n - i \in 1..(n - i) /\ i + (n - i) - 1 = n - 1
        BY <1>1
    <2> QED
        BY <1>1, <1>3, <1>4, <2>1 DEF EndsInLine
<1> QED
    BY <1>4, <1>5, <1>6, <1>7, <1>8 DEF IsFenceLine, line, n

(* The block before the first line that closes it holds no such line.      *)
LEMMA BlockBeforeTheFence ==
    ASSUME NEW rest \in Seq(Marks), NEW start \in 1..Len(rest), NEW fence, NEW at \in start..Len(rest),
           at \in LineStarts(rest, start),
           \A i \in LineStarts(rest, start) : IsDelimiterLine(rest, i, fence) => at <= i
    PROVE  HoldsNoFence(SubSeq(rest, start, at - 1), fence)
<1> DEFINE raw == SubSeq(rest, start, at - 1)
<1>1. Len(rest) \in Nat
    BY LenProperties
<1>2. raw \in Seq(Marks) /\ Len(raw) = at - start /\ \A i \in 1..(at - start) : raw[i] = rest[start + i - 1]
    BY <1>1, PieceOfText
<1> HIDE DEF raw
<1>3. raw = <<>> \/ EndsInLine(raw)
    <2>1. CASE at = start
        <3>1. Len(raw) = 0
            BY <1>1, <1>2, <2>1
        <3> QED
            BY <1>2, <3>1, EmptySeq
    <2>2. CASE at # start
        <3>1. IsLineEnd(rest[at - 1])
            BY <2>2 DEF LineStarts
        <3>2. at - start \in 1..(at - start) /\ start + (at - start) - 1 = at - 1
            BY <1>1, <2>2
        <3>3. raw[Len(raw)] = rest[at - 1]
            BY <1>2, <3>2
        <3>4. raw # <<>>
            <4>1. raw = <<>> => Len(raw) = 0
                OBVIOUS
            <4> QED
                BY <1>2, <3>2, <4>1
        <3> QED
            BY <3>1, <3>3, <3>4 DEF EndsInLine
    <2> QED
        BY <2>1, <2>2
<1>4. ASSUME NEW i \in LineStarts(raw, 1), IsDelimiterLine(raw, i, fence)
      PROVE  FALSE
    <2> DEFINE k == start - 1
    <2>1. i \in 1..Len(raw) /\ (i = 1 \/ IsLineEnd(raw[i - 1]))
        BY DEF LineStarts
    <2>2. /\ k \in Nat /\ k + Len(raw) <= Len(rest)
          /\ \A j \in 1..Len(raw) : rest[k + j] = raw[j]
        <3>1. k \in Nat /\ k + Len(raw) <= Len(rest) /\ Len(raw) \in Nat
            BY <1>1, <1>2
        <3>2. \A j \in 1..Len(raw) : k + j = start + j - 1
            BY <3>1
        <3> QED
            BY <1>2, <3>1, <3>2
    <2>3. EndsInLine(raw)
        <3>1. raw = <<>> => Len(raw) = 0
            OBVIOUS
        <3> QED
            BY <1>3, <2>1, <3>1
    <2>4. k + i \in start..Len(rest) /\ k + i < at
        BY <1>1, <1>2, <2>1
    <2>5. k + i \in LineStarts(rest, start)
        <3>1. CASE i = 1
            BY <1>1, <2>4, <3>1 DEF LineStarts
        <3>2. CASE i # 1
            <4>1. i - 1 \in 1..Len(raw) /\ k + (i - 1) = (k + i) - 1 /\ IsLineEnd(raw[i - 1])
                BY <1>1, <1>2, <2>1, <3>2
            <4>2. IsLineEnd(rest[(k + i) - 1])
                BY <2>2, <4>1
            <4> QED
                BY <2>4, <4>2 DEF LineStarts
        <3> QED
            BY <3>1, <3>2
    <2> HIDE DEF k
    <2>6. NextLine(rest, k + i) = k + NextLine(raw, i)
        BY <1>2, <2>1, <2>2, <2>3, LineOfBlock
    <2>7. NextLine(raw, i) \in (i + 1)..(Len(raw) + 1) /\ Len(raw) \in Nat
        <3>1. raw \in Seq(Marks) /\ Len(raw) \in Nat
            BY <1>2, LenProperties
        <3>2. i \in 1..(Len(raw) + 1) /\ i <= Len(raw)
            BY <2>1, <3>1
        <3>3. /\ NextLine(raw, i) \in i..(Len(raw) + 1)
              /\ i <= Len(raw) => NextLine(raw, i) > i
            BY <3>1, <3>2, NextLineBounds
        <3> QED
            BY <3>1, <3>2, <3>3
    <2>8. IsDelimiterLine(rest, k + i, fence)
        <3>1. k + i <= Len(rest) /\ rest[k + i].is = fence
            <4>1. raw[i].is = fence
                BY <1>4, Zenon DEF IsDelimiterLine
            <4> QED
                BY <1>1, <2>1, <2>2, <2>4, <4>1
        <3>2. \A j \in ((k + i) + 1)..(NextLine(rest, k + i) - 1) : IsSpace(rest[j])
            <4> TAKE j \in ((k + i) + 1)..(NextLine(rest, k + i) - 1)
            <4>1. /\ j - k \in (i + 1)..(NextLine(raw, i) - 1) /\ j - k \in 1..Len(raw)
                  /\ k + (j - k) = j
                BY <2>1, <2>2, <2>6, <2>7
            <4>2. IsSpace(raw[j - k])
                BY <1>4, <4>1, Zenon DEF IsDelimiterLine
            <4> QED
                BY <2>2, <4>1, <4>2
        <3> QED
            BY <3>1, <3>2 DEF IsDelimiterLine
    <2>9. at <= k + i
        BY <2>5, <2>8
    <2> QED
        BY <1>1, <2>4, <2>9
<1> QED
    BY <1>3, <1>4 DEF HoldsNoFence, raw

(* The slots of a fenced file.                                             *)
LEMMA ScanDelimitedShape ==
    ASSUME NEW rest \in Seq(Marks), NEW bom, NEW format \in {"yaml", "toml"},
           IsDelimiterLine(rest, 1, Fences[format]),
           ScanDelimited(rest, bom, format).ok
    PROVE  LET p == ScanDelimited(rest, bom, format)
           IN /\ FencedShape(p.format, p.layout.open, p.raw, p.layout.close)
              /\ Apart(p.layout.close, p.body)
              /\ p.layout = [bom |-> bom, open |-> p.layout.open, close |-> p.layout.close]
<1> DEFINE fence == Fences[format]
           start == NextLine(rest, 1)
           closers == {i \in LineStarts(rest, start) : IsDelimiterLine(rest, i, fence)}
           at == Least(closers)
           next == NextLine(rest, at)
           open == SubSeq(rest, 1, start - 1)
           raw == SubSeq(rest, start, at - 1)
           close == SubSeq(rest, at, next - 1)
           body == SubSeq(rest, next, Len(rest))
           p == ScanDelimited(rest, bom, format)
<1>1. closers # {} /\ p = Parts([bom |-> bom, open |-> open, close |-> close], format, raw, body)
    BY DEF ScanDelimited, Rejected
<1> HIDE DEF fence
<1>2. Len(rest) \in Nat /\ 1 <= Len(rest)
    BY LenProperties DEF IsDelimiterLine
<1>3. start \in 1..(Len(rest) + 1) /\ start > 1
    BY <1>2, NextLineBounds
<1>4. closers \in SUBSET Nat
    <2>1. \A i \in closers : i \in start..Len(rest)
        BY DEF LineStarts
    <2>2. \A i \in start..Len(rest) : i \in Nat
        BY <1>2, <1>3
    <2> HIDE DEF closers, start
    <2> QED
        BY <2>1, <2>2
<1>5. at \in closers /\ \A i \in closers : at <= i
    <2> HIDE DEF closers
    <2> QED
        BY <1>1, <1>4, LeastOfPositions
<1> HIDE DEF at
<1>6. /\ at \in LineStarts(rest, start) /\ at \in start..Len(rest)
      /\ IsDelimiterLine(rest, at, fence)
      /\ \A i \in LineStarts(rest, start) : IsDelimiterLine(rest, i, fence) => at <= i
    BY <1>5 DEF LineStarts
<1>7. next \in at..(Len(rest) + 1) /\ at \in 1..Len(rest) /\ start \in 1..Len(rest)
    <2>1. at \in 1..Len(rest) /\ start \in 1..Len(rest) /\ at \in 1..(Len(rest) + 1)
        BY <1>2, <1>3, <1>6
    <2> QED
        BY <2>1, NextLineBounds
<1> HIDE DEF closers
<1>8. IsFenceLine(open, fence) /\ EndsInLine(open)
    <2>1. 1 \in 1..Len(rest) /\ start <= Len(rest) /\ IsDelimiterLine(rest, 1, fence)
        BY <1>2, <1>6, <1>7 DEF fence
    <2> QED
        BY <2>1, FenceLineRead
<1>9. IsFenceLine(close, fence) /\ (next <= Len(rest) => EndsInLine(close))
    BY <1>6, <1>7, FenceLineRead
<1> HIDE DEF next, start
<1>10. HoldsNoFence(raw, fence)
    BY <1>6, <1>7, BlockBeforeTheFence
<1>11. Apart(close, body)
    <2>1. CASE next <= Len(rest)
        BY <1>9, <2>1 DEF Apart
    <2>2. CASE ~(next <= Len(rest))
        <3>1. Len(rest) \in Int /\ next \in Int /\ Len(rest) < next
            BY <1>2, <1>7, <2>2
        <3>2. body = <<>>
            BY <3>1, SubSeqEmpty
        <3> QED
            BY <3>2 DEF Apart
    <2> QED
        BY <2>1, <2>2
<1> HIDE DEF open, raw, close, body, p
<1>12. /\ p.format = format /\ p.raw = raw /\ p.body = body
       /\ p.layout = [bom |-> bom, open |-> open, close |-> close]
    BY <1>1 DEF Parts
<1>13. p.layout.open = open /\ p.layout.close = close
    BY <1>12
<1>14. FencedShape(format, open, raw, close)
    BY <1>8, <1>9, <1>10 DEF FencedShape, fence
<1>15. /\ FencedShape(p.format, p.layout.open, p.raw, p.layout.close)
       /\ Apart(p.layout.close, p.body)
       /\ p.layout = [bom |-> bom, open |-> p.layout.open, close |-> p.layout.close]
    BY <1>11, <1>12, <1>13, <1>14
<1> QED
    BY <1>15 DEF p

(* The slots of a file with a JSON object.                                 *)
LEMMA ScanJSONShape ==
    ASSUME NEW rest \in Seq(Marks), NEW bom, NEW end \in ObjectEnds(rest)
    PROVE  LET p == ScanJSON(rest, bom, end)
           IN /\ BracedShape(p.format, p.layout.open, p.raw, p.layout.close)
              /\ Apart(p.layout.close, p.body)
              /\ p.layout = [bom |-> bom, open |-> p.layout.open, close |-> p.layout.close]
<1> DEFINE next == NextLine(rest, end + 1)
           open == <<>>
           raw == SubSeq(rest, 1, end)
           close == SubSeq(rest, end + 1, next - 1)
           body == SubSeq(rest, next, Len(rest))
           p == ScanJSON(rest, bom, end)
<1>1. p = Parts([bom |-> bom, open |-> open, close |-> close], "json", raw, body)
    BY DEF ScanJSON
<1>2. /\ end \in 2..Len(rest) /\ IsObject(rest, end)
      /\ \A i \in (end + 1)..(next - 1) : IsSpace(rest[i])
    BY Zenon DEF ObjectEnds
<1>3. Len(rest) \in Nat
    BY LenProperties
<1>4. /\ next \in (end + 1)..(Len(rest) + 1)
      /\ \A j \in (end + 1)..(next - 2) : ~IsLineEnd(rest[j])
      /\ next <= Len(rest) => next > end + 1 /\ IsLineEnd(rest[next - 1])
    <2> DEFINE i == end + 1
    <2>1. i \in 1..(Len(rest) + 1) /\ i \in Nat
        BY <1>2, <1>3
    <2> HIDE DEF i
    <2>2. /\ NextLine(rest, i) \in i..(Len(rest) + 1)
          /\ i <= Len(rest) => NextLine(rest, i) > i
          /\ \A j \in i..(NextLine(rest, i) - 2) : ~IsLineEnd(rest[j])
          /\ NextLine(rest, i) <= Len(rest) => IsLineEnd(rest[NextLine(rest, i) - 1])
        BY <2>1, NextLineMeans
    <2>3. NextLine(rest, i) <= Len(rest) => i <= Len(rest)
        BY <1>3, <2>1, <2>2
    <2> QED
        BY <2>2, <2>3 DEF i
<1> HIDE DEF next
<1>5. /\ raw \in Seq(Marks) /\ Len(raw) = end
      /\ \A i \in 1..end : raw[i] = rest[i]
    <2> DEFINE upto == end + 1
    <2>1. 1 \in 1..(Len(rest) + 1) /\ upto \in 1..(Len(rest) + 1) /\ upto - 1 = end
        BY <1>2, <1>3
    <2> HIDE DEF upto
    <2>2. /\ SubSeq(rest, 1, upto - 1) \in Seq(Marks)
          /\ Len(SubSeq(rest, 1, upto - 1)) = upto - 1
          /\ \A i \in 1..(upto - 1) : SubSeq(rest, 1, upto - 1)[i] = rest[1 + i - 1]
        BY <2>1, PieceOfText
    <2>3. \A i \in 1..end : 1 + i - 1 = i
        BY <1>2
    <2> QED
        BY <2>1, <2>2, <2>3
<1> HIDE DEF raw
<1>6. Object(raw)
    <2>1. end > 1 /\ 1 \in 1..end /\ end \in 1..end /\ \A i \in 2..(end - 1) : i \in 1..end
        BY <1>2
    <2>2. IsObject(raw, end)
        BY <1>2, <1>5, <2>1, ObjectMeans
    <2> QED
        BY <1>5, <2>1, <2>2 DEF Object
<1>7. /\ close \in Seq(Marks) /\ Len(close) = next - (end + 1)
      /\ \A i \in 1..(next - (end + 1)) : close[i] = rest[end + 1 + i - 1]
    <2> DEFINE from == end + 1
    <2>1. from \in 1..(Len(rest) + 1) /\ next \in from..(Len(rest) + 1)
        BY <1>2, <1>3, <1>4
    <2> HIDE DEF from
    <2>2. /\ SubSeq(rest, from, next - 1) \in Seq(Marks)
          /\ Len(SubSeq(rest, from, next - 1)) = next - from
          /\ \A i \in 1..(next - from) : SubSeq(rest, from, next - 1)[i] = rest[from + i - 1]
        BY <2>1, PieceOfText
    <2> QED
        BY <2>2 DEF from
<1> HIDE DEF close
<1>8. RestOfLine(close)
    <2>1. \A j \in 1..Len(close) : IsSpace(close[j])
        <3> TAKE j \in 1..Len(close)
        <3>1. j \in 1..(next - (end + 1)) /\ end + 1 + j - 1 \in (end + 1)..(next - 1)
            BY <1>2, <1>4, <1>7
        <3> QED
            BY <1>2, <1>7, <3>1
    <2>2. \A j \in 1..(Len(close) - 1) : ~IsLineEnd(close[j])
        <3> TAKE j \in 1..(Len(close) - 1)
        <3>1. j \in 1..(next - (end + 1)) /\ end + 1 + j - 1 \in (end + 1)..(next - 2)
            BY <1>2, <1>4, <1>7
        <3> QED
            BY <1>4, <1>7, <3>1
    <2> QED
        BY <2>1, <2>2 DEF RestOfLine
<1>9. Apart(close, body)
    <2>1. CASE next <= Len(rest)
        <3>1. next - (end + 1) \in 1..(next - (end + 1)) /\ end + 1 + (next - (end + 1)) - 1 = next - 1
            BY <1>2, <1>4, <2>1
        <3>2. IsLineEnd(close[Len(close)])
            BY <1>4, <1>7, <2>1, <3>1
        <3>3. close # <<>>
            <4>1. close = <<>> => Len(close) = 0
                OBVIOUS
            <4> QED
                BY <1>7, <3>1, <4>1
        <3> QED
            BY <3>2, <3>3 DEF EndsInLine, Apart
    <2>2. CASE ~(next <= Len(rest))
        <3>1. Len(rest) \in Int /\ next \in Int /\ Len(rest) < next
            BY <1>2, <1>3, <1>4, <2>2
        <3>2. body = <<>>
            BY <3>1, SubSeqEmpty
        <3> QED
            BY <3>2 DEF Apart
    <2> QED
        BY <2>1, <2>2
<1> HIDE DEF body, p
<1>10. /\ p.format = "json" /\ p.raw = raw /\ p.body = body
       /\ p.layout = [bom |-> bom, open |-> open, close |-> close]
    BY <1>1 DEF Parts
<1>11. Nothing(open)
    BY DEF Nothing
<1> HIDE DEF open
<1>12. p.layout.open = open /\ p.layout.close = close
    BY <1>10
<1>13. BracedShape(p.format, p.layout.open, p.raw, p.layout.close)
    BY <1>6, <1>8, <1>10, <1>11, <1>12 DEF BracedShape
<1>14. /\ Apart(p.layout.close, p.body)
       /\ p.layout = [bom |-> bom, open |-> p.layout.open, close |-> p.layout.close]
    BY <1>9, <1>10, <1>12
<1> QED
    BY <1>13, <1>14 DEF p

(* The slots of a scanned file that has front matter have the shape that   *)
(* ScanOfFile asks for.                                                    *)
LEMMA ScannedShape ==
    ASSUME NEW data \in Seq(Marks), Scan(data).ok, Scan(data).format # "none"
    PROVE  LET p == Scan(data)
           IN /\ Shaped(p.format, p.layout.open, p.raw, p.layout.close)
              /\ Apart(p.layout.close, p.body)
              /\ p.layout = [bom |-> p.layout.bom, open |-> p.layout.open,
                             close |-> p.layout.close]
<1> DEFINE bom == data # <<>> /\ data[1].is = "bom"
           rest == IF bom THEN Tail(data) ELSE data
           p == Scan(data)
           IsShape(q) == /\ FencedShape(q.format, q.layout.open, q.raw, q.layout.close)
                            \/ BracedShape(q.format, q.layout.open, q.raw, q.layout.close)
                         /\ Apart(q.layout.close, q.body)
                         /\ q.layout = [bom |-> bom, open |-> q.layout.open,
                                        close |-> q.layout.close]
<1>1. rest \in Seq(Marks)
    <2>1. CASE bom
        BY <2>1, HeadTailProperties
    <2>2. CASE ~bom
        BY <2>2
    <2> QED
        BY <2>1, <2>2
<1>2. p = ScanRest(rest, bom, data)
    BY ScanIsOfTheRest
<1> HIDE DEF bom, rest, p
<1>3. ASSUME NEW q, RejectNUL(q).ok
      PROVE  q.ok /\ RejectNUL(q) = q /\ NoNUL(q.raw)
    BY <1>3 DEF RejectNUL, Rejected, NoNUL
<1>4. p.ok /\ p.format # "none"
    BY DEF p
<1>5. IsShape(p) /\ NoNUL(p.raw)
    <2>1. CASE rest # <<>> /\ Opens(rest[1]) /\ ObjectEnds(rest) # {}
        <3> DEFINE end == CHOOSE e \in ObjectEnds(rest) : TRUE
                   q == ScanJSON(rest, bom, end)
        <3>1. end \in ObjectEnds(rest)
            BY <2>1
        <3>2. p = RejectNUL(q)
            BY <1>2, <2>1, Zenon DEF ScanRest
        <3> HIDE DEF end
        <3>3. IsShape(q)
            BY <1>1, <3>1, ScanJSONShape
        <3> HIDE DEF q, IsShape
        <3>4. p = q /\ NoNUL(q.raw)
            BY <1>3, <1>4, <3>2
        <3> QED
            BY <3>3, <3>4
    <2>2. CASE ~(rest # <<>> /\ Opens(rest[1]) /\ ObjectEnds(rest) # {})
        <3> DEFINE format == CHOOSE f \in Openers(rest) : TRUE
                   q == ScanDelimited(rest, bom, format)
        <3>1. Openers(rest) # {}
            <4>1. Parts(ZeroLayout, "none", <<>>, data).format = "none"
                BY DEF Parts
            <4> QED
                BY <1>2, <1>4, <2>2, <4>1, Zenon DEF ScanRest
        <3>2. p = RejectNUL(q)
            BY <1>2, <2>2, <3>1, Zenon DEF ScanRest
        <3>3. format \in {"yaml", "toml"} /\ IsDelimiterLine(rest, 1, Fences[format])
            <4>1. format \in Openers(rest)
                BY <3>1
            <4> HIDE DEF format
            <4> QED
                BY <4>1, FencesDiffer, Zenon DEF Openers
        <3> HIDE DEF format
        <3>4. q.ok /\ p = q /\ NoNUL(q.raw)
            <4> HIDE DEF q
            <4> QED
                BY <1>3, <1>4, <3>2
        <3>5. IsShape(q)
            BY <1>1, <3>3, <3>4, ScanDelimitedShape
        <3> HIDE DEF q, IsShape
        <3> QED
            BY <3>4, <3>5
    <2> QED
        BY <2>1, <2>2
<1>6. p.layout.bom = bom
    <2>1. [bom |-> bom, open |-> p.layout.open, close |-> p.layout.close].bom = bom
        OBVIOUS
    <2> QED
        BY <1>5, <2>1, Zenon
<1>7. /\ Shaped(p.format, p.layout.open, p.raw, p.layout.close)
      /\ Apart(p.layout.close, p.body)
      /\ p.layout = [bom |-> p.layout.bom, open |-> p.layout.open, close |-> p.layout.close]
    BY <1>5, <1>6, Zenon DEF Shaped
<1> QED
    BY <1>7 DEF p

(***************************************************************************)
(* What the encoders write, mark by mark, and what the decoders read.      *)
(***************************************************************************)

(* Every key is listed once.                                               *)
LEMMA KeysAreListed ==
    ASSUME NEW fields, AreFields(fields), NEW raw \in Seq(Marks), NEW format
    PROVE  LET keys == OrderedKeys(fields, raw, format)
               n == Cardinality(DOMAIN fields)
           IN /\ n \in Nat /\ keys \in [1..n -> DOMAIN fields]
              /\ \A i, j \in 1..n : keys[i] = keys[j] => i = j
              /\ \A k \in DOMAIN fields : \E i \in 1..n : keys[i] = k
<1> DEFINE keys == OrderedKeys(fields, raw, format)
           D == DOMAIN fields
           n == Cardinality(D)
<1>1. IsFiniteSet(D) /\ D \subseteq Nat /\ n \in Nat
    BY FS_CardinalityType DEF AreFields
<1>2. /\ keys \in [1..n -> D]
      /\ \A i, j \in 1..n : i < j => Precedes(keys[i], keys[j], raw, format)
    BY <1>1, KeysAreOrdered
<1> HIDE DEF keys, D, n
<1>3. \A k \in D : ~Precedes(k, k, raw, format)
    <2> TAKE k \in D
    <2>1. CASE k \in Authored(raw, format)
        BY <2>1, PlacesOfKeys DEF Precedes
    <2>2. CASE k \notin Authored(raw, format)
        BY <1>1, <2>2 DEF Precedes
    <2> QED
        BY <2>1, <2>2
<1>4. \A i, j \in 1..n : keys[i] = keys[j] => i = j
    <2> SUFFICES ASSUME NEW i \in 1..n, NEW j \in 1..n, keys[i] = keys[j], i # j
                 PROVE  FALSE
        OBVIOUS
    <2>1. i < j \/ j < i
        BY <1>1
    <2> QED
        BY <1>2, <1>3, <2>1
<1>5. keys \in Injection(1..n, D)
    BY <1>2, <1>4 DEF Injection, IsInjective
<1>6. Cardinality(1..n) = Cardinality(D)
    <2>1. Cardinality(1..n) = n
        BY <1>1, FS_Interval
    <2> QED
        BY <2>1 DEF n
<1>7. keys \in Surjection(1..n, D)
    BY <1>1, <1>5, <1>6, FS_Injection
<1>8. \A k \in D : \E i \in 1..n : keys[i] = k
    BY <1>7 DEF Surjection
<1> QED
    BY <1>1, <1>2, <1>4, <1>8 DEF keys, D, n

(* A natural number is odd or even.                                        *)
LEMMA OddOrEven ==
    ASSUME NEW n \in Nat, NEW i \in 1..(2 * n)
    PROVE  \E k \in 1..n : i = 2 * k - 1 \/ i = 2 * k
<1>1. (i + 1) \div 2 \in 1..n /\ (i = 2 * ((i + 1) \div 2) - 1 \/ i = 2 * ((i + 1) \div 2))
    OBVIOUS
<1> QED
    BY <1>1

(* The entries stand behind the first s marks of a block, in the order of  *)
(* the keys, each on a line of its own.                                    *)
EntryFor(key, fields, raw, format) ==
    Entry(format, key, fields[key], StyleOf(key, fields[key], raw, format))

ListedFrom(s, block, keys, n, fields, raw, format, ending) ==
    /\ block \in Seq(Marks) /\ n \in Nat /\ s \in Nat /\ s + 2 * n <= Len(block)
    /\ \A k \in 1..n : block[s + (2 * k - 1)] = EntryFor(keys[k], fields, raw, format)
    /\ \A k \in 1..n : block[s + 2 * k] = ending

(* The lines of a block. *)
LEMMA LinesAreListed ==
    ASSUME NEW fields, AreFields(fields), NEW raw \in Seq(Marks),
           NEW format \in {"yaml", "toml", "json"}
    PROVE  LET keys == OrderedKeys(fields, raw, format)
               n == Cardinality(DOMAIN fields)
               lines == Lines(fields, raw, format)
           IN /\ lines \in Seq(Marks) /\ Len(lines) = 2 * n
              /\ \A k \in 1..n : lines[2 * k - 1] = EntryFor(keys[k], fields, raw, format)
              /\ \A k \in 1..n : lines[2 * k] = LF
<1> DEFINE keys == OrderedKeys(fields, raw, format)
           n == Cardinality(DOMAIN fields)
           Line(i) == LET key == keys[(i + 1) \div 2]
                      IN IF i % 2 = 0 THEN LF ELSE EntryFor(key, fields, raw, format)
           lines == Lines(fields, raw, format)
<1>1. n \in Nat /\ keys \in [1..n -> DOMAIN fields]
    BY KeysAreListed
<1>2. lines \in Seq(Marks)
    BY LinesAreMarks
<1> HIDE DEF keys, n
<1>3. Len(keys) = n
    BY <1>1
<1>4. lines = [i \in 1..(2 * n) |-> Line(i)]
    BY <1>3, Zenon DEF Lines, EntryFor, keys
<1> HIDE DEF lines
<1>5. Len(lines) = 2 * n
    <2>1. DOMAIN lines = 1..(2 * n) /\ DOMAIN lines = 1..Len(lines) /\ Len(lines) \in Nat
        BY <1>2, <1>4, LenProperties
    <2> QED
        BY <1>1, <2>1
<1>6. ASSUME NEW k \in 1..n
      PROVE  lines[2 * k - 1] = EntryFor(keys[k], fields, raw, format) /\ lines[2 * k] = LF
    <2>1. /\ 2 * k - 1 \in 1..(2 * n) /\ 2 * k \in 1..(2 * n)
          /\ (2 * k) % 2 = 0 /\ (2 * k - 1) % 2 # 0 /\ ((2 * k - 1) + 1) \div 2 = k
        BY <1>1
    <2>2. lines[2 * k - 1] = Line(2 * k - 1) /\ lines[2 * k] = Line(2 * k)
        <3> HIDE DEF Line
        <3> QED
            BY <1>4, <2>1
    <2> QED
        BY <2>1, <2>2, Zenon
<1> QED
    BY <1>2, <1>5, <1>6 DEF lines, keys, n

(* Entries are not line ends.                                              *)
LEMMA EntriesSay ==
    ASSUME NEW format \in {"yaml", "toml", "json"}, NEW key, NEW fields, NEW raw
    PROVE  LET m == EntryFor(key, fields, raw, format)
           IN /\ m.is = format /\ m.key = key /\ m.value = fields[key]
              /\ m.style = StyleOf(key, fields[key], raw, format)
              /\ ~IsLineEnd(m) /\ ~IsSpace(m) /\ m.is \notin {"---", "+++", "nul"}
BY DEF EntryFor, Entry, IsLineEnd, IsSpace

(* Line ends replaced.                                                     *)
LEMMA EndingsApplied ==
    ASSUME NEW block \in Seq(Marks), NEW ending \in Marks
    PROVE  /\ ApplyLineEnding(block, ending) \in Seq(Marks)
           /\ Len(ApplyLineEnding(block, ending)) = Len(block)
           /\ \A i \in 1..Len(block) :
                  ApplyLineEnding(block, ending)[i] = IF IsLineEnd(block[i]) THEN ending ELSE block[i]
<1>1. Len(block) \in Nat /\ DOMAIN block = 1..Len(block)
    BY LenProperties
<1>2. \A i \in 1..Len(block) : (IF IsLineEnd(block[i]) THEN ending ELSE block[i]) \in Marks
    BY ElementOfSeq
<1>3. ApplyLineEnding(block, ending)
          = [i \in 1..Len(block) |-> IF IsLineEnd(block[i]) THEN ending ELSE block[i]]
    BY <1>1 DEF ApplyLineEnding
<1> QED
    BY <1>1, <1>2, <1>3

(* LF is a line end, and what stands for one too.                          *)
LEMMA LFEnds == LF \in Marks /\ IsLineEnd(LF)
BY PlainMarks DEF LF, Mark, IsLineEnd

(* A block of lines.                                                       *)
LEMMA LinesEncoded ==
    ASSUME NEW fields, AreFields(fields), NEW raw \in Seq(Marks),
           NEW format \in {"yaml", "toml", "json"}, NEW ending \in Marks
    PROVE  LET keys == OrderedKeys(fields, raw, format)
               n == Cardinality(DOMAIN fields)
               block == ApplyLineEnding(Lines(fields, raw, format), ending)
           IN /\ ListedFrom(0, block, keys, n, fields, raw, format, ending)
              /\ Len(block) = 2 * n
<1> DEFINE keys == OrderedKeys(fields, raw, format)
           n == Cardinality(DOMAIN fields)
           lines == Lines(fields, raw, format)
           block == ApplyLineEnding(lines, ending)
<1>1. n \in Nat
    BY KeysAreListed
<1>2. /\ lines \in Seq(Marks) /\ Len(lines) = 2 * n
      /\ \A k \in 1..n : lines[2 * k - 1] = EntryFor(keys[k], fields, raw, format)
      /\ \A k \in 1..n : lines[2 * k] = LF
    BY LinesAreListed
<1> HIDE DEF keys, n, lines
<1>3. /\ block \in Seq(Marks) /\ Len(block) = Len(lines)
      /\ \A i \in 1..Len(lines) : block[i] = IF IsLineEnd(lines[i]) THEN ending ELSE lines[i]
    BY <1>2, EndingsApplied
<1> HIDE DEF block
<1>4. ASSUME NEW k \in 1..n
      PROVE  /\ block[0 + (2 * k - 1)] = EntryFor(keys[k], fields, raw, format)
             /\ block[0 + 2 * k] = ending
    <2>1. /\ 2 * k - 1 \in 1..Len(lines) /\ 2 * k \in 1..Len(lines)
          /\ 0 + (2 * k - 1) = 2 * k - 1 /\ 0 + 2 * k = 2 * k
        BY <1>1, <1>2
    <2>2. ~IsLineEnd(EntryFor(keys[k], fields, raw, format))
        BY EntriesSay
    <2> QED
        BY <1>2, <1>3, <2>1, <2>2, LFEnds
<1>5. 0 + 2 * n <= Len(block) /\ Len(block) = 2 * n
    BY <1>1, <1>2, <1>3
<1>6. ListedFrom(0, block, keys, n, fields, raw, format, ending)
    BY <1>1, <1>3, <1>4, <1>5 DEF ListedFrom
<1> QED
    BY <1>5, <1>6 DEF keys, n, lines, block

(* A JSON object: the lines between two braces.                            *)
LEMMA ObjectEncoded ==
    ASSUME NEW fields, AreFields(fields), NEW raw \in Seq(Marks), NEW ending \in Marks,
           IsLineEnd(ending)
    PROVE  LET keys == OrderedKeys(fields, raw, "json")
               n == Cardinality(DOMAIN fields)
               block == ApplyLineEnding(Encode(fields, raw, "json"), ending)
           IN /\ ListedFrom(2, block, keys, n, fields, raw, "json", ending)
              /\ Len(block) = 2 * n + 3
              /\ Opens(block[1]) /\ block[2] = ending /\ Closes(block[2 * n + 3])
<1> DEFINE keys == OrderedKeys(fields, raw, "json")
           n == Cardinality(DOMAIN fields)
           lines == Lines(fields, raw, "json")
           front == <<Mark("{"), LF>>
           back == <<Mark("}")>>
           inner == front \o lines
           text == inner \o back
           block == ApplyLineEnding(text, ending)
<1>1. n \in Nat
    BY KeysAreListed
<1>2. /\ lines \in Seq(Marks) /\ Len(lines) = 2 * n
      /\ \A k \in 1..n : lines[2 * k - 1] = EntryFor(keys[k], fields, raw, "json")
      /\ \A k \in 1..n : lines[2 * k] = LF
    BY LinesAreListed
<1>3. /\ front \in Seq(Marks) /\ Len(front) = 2 /\ Opens(front[1]) /\ front[2] = LF
      /\ back \in Seq(Marks) /\ Len(back) = 1 /\ Closes(back[1])
    <2> DEFINE a == Mark("{")
               b == Mark("}")
    <2>1. a \in Marks /\ b \in Marks /\ LF \in Marks /\ Opens(a) /\ Closes(b)
        BY PlainMarks, LFEnds, Zenon DEF Mark, Opens, Closes
    <2> HIDE DEF a, b
    <2>2. /\ <<a, LF>> \in Seq(Marks) /\ Len(<<a, LF>>) = 2 /\ <<a, LF>>[1] = a /\ <<a, LF>>[2] = LF
          /\ <<b>> \in Seq(Marks) /\ Len(<<b>>) = 1 /\ <<b>>[1] = b
        BY <2>1
    <2> QED
        BY <2>1, <2>2 DEF a, b
<1>4. Encode(fields, raw, "json") = text
    BY DEF Encode
<1> HIDE DEF keys, n, lines, front, back
<1>5. /\ inner \in Seq(Marks) /\ Len(inner) = 2 + 2 * n
      /\ inner[1] = front[1] /\ inner[2] = LF
      /\ \A i \in 1..(2 * n) : inner[2 + i] = lines[i]
    <2>1. /\ inner \in Seq(Marks) /\ Len(inner) = Len(front) + Len(lines)
          /\ \A i \in 1..Len(front) : inner[i] = front[i]
          /\ \A i \in 1..Len(lines) : inner[Len(front) + i] = lines[i]
        BY <1>2, <1>3, ConcatByMarks
    <2> HIDE DEF inner
    <2>2. 1 \in 1..Len(front) /\ 2 \in 1..Len(front)
        BY <1>3
    <2> QED
        BY <1>2, <1>3, <2>1, <2>2
<1> HIDE DEF inner
<1>6. /\ text \in Seq(Marks) /\ Len(text) = 2 * n + 3
      /\ \A i \in 1..(2 + 2 * n) : text[i] = inner[i]
      /\ text[2 * n + 3] = back[1]
    <2>1. /\ text \in Seq(Marks) /\ Len(text) = Len(inner) + Len(back)
          /\ \A i \in 1..Len(inner) : text[i] = inner[i]
          /\ \A i \in 1..Len(back) : text[Len(inner) + i] = back[i]
        BY <1>3, <1>5, ConcatByMarks
    <2> HIDE DEF text
    <2>2. 1 \in 1..Len(back) /\ Len(inner) + 1 = 2 * n + 3 /\ Len(inner) + Len(back) = 2 * n + 3
        BY <1>1, <1>3, <1>5
    <2> QED
        BY <1>5, <2>1, <2>2
<1> HIDE DEF text
<1>7. /\ block \in Seq(Marks) /\ Len(block) = 2 * n + 3
      /\ \A i \in 1..(2 * n + 3) : block[i] = IF IsLineEnd(text[i]) THEN ending ELSE text[i]
    <2>1. /\ block \in Seq(Marks) /\ Len(block) = Len(text)
          /\ \A i \in 1..Len(text) : block[i] = IF IsLineEnd(text[i]) THEN ending ELSE text[i]
        BY <1>6, EndingsApplied
    <2> HIDE DEF block
    <2> QED
        BY <1>6, <2>1, Zenon
<1> HIDE DEF block
<1>8. block[1] = front[1] /\ Opens(block[1])
    <2>1. 1 \in 1..(2 + 2 * n) /\ 1 \in 1..(2 * n + 3)
        BY <1>1
    <2>2. text[1] = front[1]
        BY <1>5, <1>6, <2>1
    <2>3. ~IsLineEnd(front[1])
        BY <1>3, BracesAreOutside
    <2> QED
        BY <1>3, <1>7, <2>1, <2>2, <2>3
<1>9. block[2] = ending
    <2>1. 2 \in 1..(2 + 2 * n) /\ 2 \in 1..(2 * n + 3)
        BY <1>1
    <2>2. text[2] = LF
        BY <1>5, <1>6, <2>1
    <2> QED
        BY <1>7, <2>1, <2>2, LFEnds
<1>10. Closes(block[2 * n + 3])
    <2>1. 2 * n + 3 \in 1..(2 * n + 3)
        BY <1>1
    <2>2. ~IsLineEnd(back[1])
        BY <1>3, BracesAreOutside
    <2> QED
        BY <1>3, <1>6, <1>7, <2>1, <2>2
<1>11. ASSUME NEW k \in 1..n
       PROVE  /\ block[2 + (2 * k - 1)] = EntryFor(keys[k], fields, raw, "json")
              /\ block[2 + 2 * k] = ending
    <2>1. /\ 2 * k - 1 \in 1..(2 * n) /\ 2 * k \in 1..(2 * n)
          /\ 2 + (2 * k - 1) \in 1..(2 + 2 * n) /\ 2 + 2 * k \in 1..(2 + 2 * n)
          /\ 2 + (2 * k - 1) \in 1..(2 * n + 3) /\ 2 + 2 * k \in 1..(2 * n + 3)
        BY <1>1
    <2>2. ~IsLineEnd(EntryFor(keys[k], fields, raw, "json"))
        BY EntriesSay
    <2>3. text[2 + (2 * k - 1)] = lines[2 * k - 1] /\ text[2 + 2 * k] = lines[2 * k]
        BY <1>5, <1>6, <2>1
    <2> QED
        BY <1>2, <1>7, <2>1, <2>2, <2>3, LFEnds
<1>12. 2 \in Nat /\ 2 + 2 * n <= Len(block)
    BY <1>1, <1>7
<1>13. ListedFrom(2, block, keys, n, fields, raw, "json", ending)
    BY <1>1, <1>7, <1>11, <1>12 DEF ListedFrom
<1> QED
    BY <1>4, <1>7, <1>8, <1>9, <1>10, <1>13 DEF keys, n, block

(* Keys, each listed once, at places in the same order.                    *)
Placed(fields, keys, place, n) ==
    /\ n \in Nat /\ keys \in [1..n -> DOMAIN fields] /\ place \in [1..n -> Nat]
    /\ \A i, j \in 1..n : keys[i] = keys[j] => i = j
    /\ \A k \in DOMAIN fields : \E i \in 1..n : keys[i] = k
    /\ \A i, j \in 1..n : i < j => place[i] < place[j]

(* A block whose entries are the fields, one for each key, is read as the  *)
(* fields, and each key has its place where it is listed.                  *)
LEMMA EntriesAreRead ==
    ASSUME NEW block, NEW format, NEW fields, AreFields(fields),
           NEW keys, NEW place, NEW n, Placed(fields, keys, place, n),
           EntriesOf(block, format) = {place[k] : k \in 1..n},
           \A k \in 1..n : /\ block[place[k]].key = keys[k]
                           /\ block[place[k]].value = fields[keys[k]]
    PROVE  /\ IsMapping(block, format) => Decode(block, format) = [ok |-> TRUE, fields |-> fields]
           /\ \A k \in 1..n : PlaceOf(keys[k], block, format) = place[k]
<1> DEFINE entries == EntriesOf(block, format)
           last(k) == Greatest({i \in entries : block[i].key = k})
           read == [k \in {block[i].key : i \in entries} |-> block[last(k)].value]
<1>0. /\ n \in Nat /\ keys \in [1..n -> DOMAIN fields] /\ place \in [1..n -> Nat]
      /\ \A i, j \in 1..n : keys[i] = keys[j] => i = j
      /\ \A k \in DOMAIN fields : \E i \in 1..n : keys[i] = k
      /\ \A i, j \in 1..n : i < j => place[i] < place[j]
    BY DEF Placed
<1>1. entries = {place[k] : k \in 1..n}
    OBVIOUS
<1> HIDE DEF entries
<1>2. \A k \in 1..n : {i \in entries : block[i].key = keys[k]} = {place[k]}
    <2> TAKE k \in 1..n
    <2>1. place[k] \in entries /\ block[place[k]].key = keys[k]
        BY <1>1
    <2>2. \A i \in entries : block[i].key = keys[k] => i = place[k]
        <3> TAKE i \in entries
        <3>1. PICK l \in 1..n : i = place[l]
            BY <1>1
        <3>2. block[i].key = keys[l]
            BY <3>1
        <3> QED
            BY <1>0, <3>1, <3>2
    <2> QED
        BY <2>1, <2>2
<1>3. \A p \in Nat : Greatest({p}) = p /\ Least({p}) = p
    BY DEF Greatest, Least
<1>4. \A k \in 1..n : last(keys[k]) = place[k] /\ PlaceOf(keys[k], block, format) = place[k]
    <2> TAKE k \in 1..n
    <2>1. place[k] \in Nat
        BY <1>0
    <2>2. Greatest({i \in entries : block[i].key = keys[k]}) = place[k]
        BY <1>2, <1>3, <2>1
    <2>3. Least({i \in entries : block[i].key = keys[k]}) = place[k]
        BY <1>2, <1>3, <2>1
    <2> QED
        BY <2>2, <2>3, Zenon DEF PlaceOf, entries
<1>5. ~Repeats(block, format)
    <2> SUFFICES ASSUME NEW i \in entries, NEW j \in entries, i # j, block[i].key = block[j].key
                 PROVE  FALSE
        BY Zenon DEF Repeats, entries
    <2>1. PICK k \in 1..n : i = place[k]
        BY <1>1
    <2>2. PICK l \in 1..n : j = place[l]
        BY <1>1
    <2>3. keys[k] = keys[l]
        BY <2>1, <2>2
    <2> QED
        BY <1>0, <2>1, <2>2, <2>3
<1>6. read = fields
    <2>1. {block[i].key : i \in entries} = DOMAIN fields
        <3>1. \A i \in entries : block[i].key \in DOMAIN fields
            <4> TAKE i \in entries
            <4>1. PICK k \in 1..n : i = place[k]
                BY <1>1
            <4>2. block[i].key = keys[k]
                BY <4>1
            <4> QED
                BY <1>0, <4>2
        <3>2. \A k \in DOMAIN fields : \E i \in entries : block[i].key = k
            <4> TAKE k \in DOMAIN fields
            <4>1. PICK l \in 1..n : keys[l] = k
                BY <1>0
            <4>2. place[l] \in entries /\ block[place[l]].key = k
                BY <1>1, <4>1
            <4> QED
                BY <4>2
        <3> QED
            BY <3>1, <3>2
    <2>2. \A k \in DOMAIN fields : block[last(k)].value = fields[k]
        <3> TAKE k \in DOMAIN fields
        <3>1. PICK l \in 1..n : keys[l] = k
            BY <1>0
        <3>2. last(k) = place[l]
            BY <1>4, <3>1
        <3> QED
            BY <3>1, <3>2
    <2>3. fields = [k \in DOMAIN fields |-> fields[k]]
        BY DEF AreFields
    <2> HIDE DEF last
    <2> QED
        BY <2>1, <2>2, <2>3
<1>7. IsMapping(block, format) => Decode(block, format) = [ok |-> TRUE, fields |-> read]
    BY <1>5, Zenon DEF Decode, entries
<1> HIDE DEF read
<1> QED
    BY <1>4, <1>6, <1>7

(* A block whose marks are blank but for its YAML entries is no flow       *)
(* mapping.                                                                *)
LEMMA EntriesAreNoFlow ==
    ASSUME NEW block \in Seq(Marks), Significant(block) = Positions(block, "yaml")
    PROVE  ~IsFlowMapping(block)
<1> DEFINE marks == Significant(block)
           l == Least(marks)
           g == Greatest(marks)
           object == SubSeq(block, l, g)
<1> SUFFICES ASSUME Cardinality(marks) > 1, IsObject(object, Len(object)) PROVE FALSE
    BY Zenon DEF IsFlowMapping
<1>1. Len(block) \in Nat
    BY LenProperties
<1>2. marks \subseteq 1..Len(block) /\ \A i \in marks : block[i].is = "yaml"
    BY DEF Positions
<1> HIDE DEF marks
<1>3. marks # {}
    <2>1. marks = {} => Cardinality(marks) = 0
        BY FS_EmptySet
    <2> QED
        BY <2>1
<1>4. l \in marks /\ \A y \in marks : l <= y
    <2>1. marks \in SUBSET Nat
        BY <1>1, <1>2
    <2> QED
        BY <1>3, <2>1, LeastOfPositions
<1>5. g \in marks
    <2>1. marks \in SUBSET Nat /\ \A x \in marks : x <= Len(block)
        BY <1>1, <1>2
    <2> QED
        BY <1>1, <1>3, <2>1, GreatestOfPositions
<1> HIDE DEF l, g
<1>6. l \in 1..Len(block) /\ g \in l..Len(block)
    BY <1>1, <1>2, <1>4, <1>5
<1>7. object[1] = block[l]
    <2> DEFINE upto == g + 1
    <2>1. l \in 1..(Len(block) + 1) /\ upto \in l..(Len(block) + 1) /\ upto - 1 = g /\ 1 \in 1..(upto - l)
        BY <1>1, <1>6
    <2> HIDE DEF upto
    <2>2. SubSeq(block, l, upto - 1)[1] = block[l + 1 - 1]
        BY <2>1, PieceOfText
    <2>3. l + 1 - 1 = l
        BY <1>6
    <2> QED
        BY <2>1, <2>2, <2>3
<1>8. Opens(object[1])
    <2> HIDE DEF object
    <2> QED
        BY ObjectMeans
<1>9. block[l].is = "yaml"
    BY <1>2, <1>4
<1> QED
    BY <1>7, <1>8, <1>9, Zenon DEF Opens

(* Where the entries behind the first s marks stand.                       *)
PlacesFrom(s, n) == [k \in 1..n |-> s + (2 * k - 1)]

(* Behind the first s marks, entries and line ends alternate.              *)
LEMMA ListedMarks ==
    ASSUME NEW fields, AreFields(fields), NEW raw \in Seq(Marks),
           NEW format \in {"yaml", "toml", "json"}, NEW ending, NEW s, NEW block,
           LET keys == OrderedKeys(fields, raw, format)
               n == Cardinality(DOMAIN fields)
           IN ListedFrom(s, block, keys, n, fields, raw, format, ending)
    PROVE  LET keys == OrderedKeys(fields, raw, format)
               n == Cardinality(DOMAIN fields)
               place == PlacesFrom(s, n)
           IN /\ block \in Seq(Marks)
              /\ Placed(fields, keys, place, n)
              /\ \A k \in 1..n : /\ place[k] \in 1..Len(block)
                                 /\ block[place[k]] = EntryFor(keys[k], fields, raw, format)
                                 /\ place[k] + 1 \in 1..Len(block) /\ block[place[k] + 1] = ending
              /\ \A i \in 1..Len(block) :
                     \/ i <= s \/ i > s + 2 * n
                     \/ \E k \in 1..n : i = place[k]
                     \/ block[i] = ending
<1> DEFINE keys == OrderedKeys(fields, raw, format)
           n == Cardinality(DOMAIN fields)
           place == PlacesFrom(s, n)
<1>1. /\ n \in Nat /\ keys \in [1..n -> DOMAIN fields]
      /\ \A i, j \in 1..n : keys[i] = keys[j] => i = j
      /\ \A k \in DOMAIN fields : \E i \in 1..n : keys[i] = k
    BY KeysAreListed
<1>2. ListedFrom(s, block, keys, n, fields, raw, format, ending)
    OBVIOUS
<1> HIDE DEF keys, n
<1>3. /\ block \in Seq(Marks) /\ s \in Nat /\ s + 2 * n <= Len(block)
      /\ \A k \in 1..n : block[s + (2 * k - 1)] = EntryFor(keys[k], fields, raw, format)
      /\ \A k \in 1..n : block[s + 2 * k] = ending
    BY <1>2 DEF ListedFrom
<1>4. Len(block) \in Nat
    BY <1>3, LenProperties
<1>5. \A k \in 1..n : place[k] = s + (2 * k - 1)
    BY DEF PlacesFrom
<1>6. place \in [1..n -> Nat]
    <2>1. \A k \in 1..n : s + (2 * k - 1) \in Nat
        BY <1>1, <1>3
    <2> QED
        BY <2>1 DEF PlacesFrom
<1> HIDE DEF place
<1>7. \A i, j \in 1..n : i < j => place[i] < place[j]
    <2> TAKE i, j \in 1..n
    <2>1. i < j => s + (2 * i - 1) < s + (2 * j - 1)
        BY <1>1, <1>3
    <2> QED
        BY <1>5, <2>1
<1>8. ASSUME NEW k \in 1..n
      PROVE  /\ place[k] \in 1..Len(block)
             /\ block[place[k]] = EntryFor(keys[k], fields, raw, format)
             /\ place[k] + 1 \in 1..Len(block) /\ block[place[k] + 1] = ending
    <2>1. /\ s + (2 * k - 1) \in 1..Len(block) /\ s + 2 * k \in 1..Len(block)
          /\ (s + (2 * k - 1)) + 1 = s + 2 * k
        BY <1>1, <1>3, <1>4
    <2> QED
        BY <1>3, <1>5, <2>1
<1>9. ASSUME NEW i \in 1..Len(block), ~(i <= s), ~(i > s + 2 * n)
      PROVE  (\E k \in 1..n : i = place[k]) \/ block[i] = ending
    <2> DEFINE m == i - s
    <2>1. m \in 1..(2 * n) /\ i = s + m
        BY <1>1, <1>3, <1>4, <1>9
    <2> HIDE DEF m
    <2>2. PICK k \in 1..n : m = 2 * k - 1 \/ m = 2 * k
        BY <1>1, <2>1, OddOrEven
    <2>3. CASE m = 2 * k - 1
        BY <1>5, <2>1, <2>3
    <2>4. CASE m = 2 * k
        BY <1>3, <2>1, <2>4
    <2> QED
        BY <2>2, <2>3, <2>4
<1>10. Placed(fields, keys, place, n)
    BY <1>1, <1>6, <1>7 DEF Placed
<1> QED
    BY <1>3, <1>8, <1>9, <1>10 DEF keys, n, place

(* A block that an encoder wrote: it can be put between the delimiters of  *)
(* its format, it says what the fields say, its line ends are those asked  *)
(* for, and its entries stand in the order of the keys, in their style.    *)
Rewritten(block, format, fields, raw, ending) ==
    LET keys == OrderedKeys(fields, raw, format)
        n == Cardinality(DOMAIN fields)
    IN /\ block \in Seq(Marks)
       /\ NoNUL(block)
       /\ format = "json" => Object(block)
       /\ format # "json" => HoldsNoFence(block, Fences[format])
       /\ Decode(block, format) = [ok |-> TRUE, fields |-> fields]
       /\ \A i \in 1..Len(block) : IsLineEnd(block[i]) => block[i] = ending
       /\ \A i, j \in 1..n :
              i < j => PlaceOf(keys[i], block, format) < PlaceOf(keys[j], block, format)
       /\ \A k \in 1..n :
              block[PlaceOf(keys[k], block, format)].style
                  = StyleOf(keys[k], fields[keys[k]], raw, format)

(* An encoded block of lines.                                              *)
LEMMA LinesAreRewritten ==
    ASSUME NEW fields, AreFields(fields), NEW raw \in Seq(Marks),
           NEW format \in {"yaml", "toml"}, NEW ending \in Marks, IsLineEnd(ending)
    PROVE  Rewritten(ApplyLineEnding(Lines(fields, raw, format), ending),
                     format, fields, raw, ending)
<1> DEFINE keys == OrderedKeys(fields, raw, format)
           n == Cardinality(DOMAIN fields)
           place == PlacesFrom(0, n)
           block == ApplyLineEnding(Lines(fields, raw, format), ending)
<1>1. n \in Nat
    BY KeysAreListed
<1>2. Len(block) = 2 * n /\ ListedFrom(0, block, keys, n, fields, raw, format, ending)
    BY LinesEncoded
<1>3. /\ block \in Seq(Marks)
      /\ Placed(fields, keys, place, n)
      /\ \A k \in 1..n : /\ place[k] \in 1..Len(block)
                         /\ block[place[k]] = EntryFor(keys[k], fields, raw, format)
                         /\ place[k] + 1 \in 1..Len(block) /\ block[place[k] + 1] = ending
      /\ \A i \in 1..Len(block) :
             \/ i <= 0 \/ i > 0 + 2 * n
             \/ \E k \in 1..n : i = place[k]
             \/ block[i] = ending
    <2> HIDE DEF block, place
    <2>1. ListedFrom(0, block, OrderedKeys(fields, raw, format), Cardinality(DOMAIN fields),
                     fields, raw, format, ending)
        BY <1>2
    <2> QED
        BY <2>1, ListedMarks DEF place
<1> HIDE DEF keys, n, place, block
<1>4. \A i \in 1..Len(block) : (\E k \in 1..n : i = place[k]) \/ block[i] = ending
    BY <1>1, <1>2, <1>3
<1>5. \A k \in 1..n : LET m == block[place[k]]
                      IN /\ m.is = format /\ m.key = keys[k] /\ m.value = fields[keys[k]]
                         /\ m.style = StyleOf(keys[k], fields[keys[k]], raw, format)
                         /\ ~IsLineEnd(m) /\ ~IsSpace(m) /\ m.is \notin {"---", "+++", "nul"}
    BY <1>3, EntriesSay
<1>6. IsSpace(ending) /\ ending.is # format /\ ending.is \notin {"---", "+++", "nul"}
    BY DEF IsSpace, IsLineEnd
<1>7. /\ Significant(block) = {place[k] : k \in 1..n}
      /\ Positions(block, format) = {place[k] : k \in 1..n}
    <2>1. \A i \in 1..Len(block) : ~IsSpace(block[i]) <=> \E k \in 1..n : i = place[k]
        BY <1>4, <1>5, <1>6
    <2>2. \A i \in 1..Len(block) : block[i].is = format <=> \E k \in 1..n : i = place[k]
        BY <1>4, <1>5, <1>6
    <2>3. \A k \in 1..n : place[k] \in 1..Len(block)
        BY <1>3
    <2> QED
        BY <2>1, <2>2, <2>3 DEF Significant, Positions
<1>8. IsMapping(block, format)
    <2>1. ASSUME NEW i \in 1..(Len(block) - 1), block[i].is = format
          PROVE  IsSpace(block[i + 1])
        <3>1. i \in 1..Len(block)
            BY <1>1, <1>2
        <3>2. PICK k \in 1..n : i = place[k]
            BY <1>4, <1>6, <2>1, <3>1
        <3> QED
            BY <1>3, <1>6, <3>2
    <2>2. IsBlockMapping(block, format)
        BY <1>7, <2>1 DEF IsBlockMapping
    <2> QED
        BY <2>2, FencesDiffer DEF IsMapping
<1>9. EntriesOf(block, format) = {place[k] : k \in 1..n}
    <2>1. CASE format = "yaml"
        <3>1. ~IsFlowMapping(block)
            BY <1>3, <1>7, <2>1, EntriesAreNoFlow
        <3> QED
            BY <1>7, <2>1, <3>1 DEF EntriesOf
    <2>2. CASE format = "toml"
        BY <1>7, <2>2 DEF EntriesOf
    <2> QED
        BY <2>1, <2>2
<1>10. /\ Decode(block, format) = [ok |-> TRUE, fields |-> fields]
       /\ \A k \in 1..n : PlaceOf(keys[k], block, format) = place[k]
    BY <1>3, <1>5, <1>8, <1>9, EntriesAreRead
<1>11. \A i \in 1..Len(block) : block[i].is \notin {"---", "+++", "nul"}
    BY <1>4, <1>5, <1>6
<1>12. HoldsNoFence(block, Fences[format])
    <2>1. \A i \in LineStarts(block, 1) : ~IsDelimiterLine(block, i, Fences[format])
        <3>1. Fences[format] \in {"---", "+++"}
            BY DEF Fences
        <3>2. \A i \in LineStarts(block, 1) : i \in 1..Len(block)
            BY DEF LineStarts
        <3> QED
            BY <1>11, <3>1, <3>2 DEF IsDelimiterLine
    <2>2. CASE n = 0
        <3>1. Len(block) = 0
            BY <1>2, <2>2
        <3>2. block = <<>>
            BY <1>3, <3>1, EmptySeq
        <3> QED
            BY <2>1, <3>2 DEF HoldsNoFence
    <2>3. CASE n # 0
        <3>1. n \in 1..n /\ Len(block) \in 1..Len(block)
            BY <1>1, <1>2, <2>3
        <3>2. block[Len(block)] = ending
            BY <1>2, <3>1 DEF ListedFrom
        <3>3. block # <<>>
            <4>1. block = <<>> => Len(block) = 0
                OBVIOUS
            <4> QED
                BY <1>1, <1>2, <2>3, <4>1
        <3> QED
            BY <2>1, <3>2, <3>3 DEF HoldsNoFence, EndsInLine
    <2> QED
        BY <2>2, <2>3
<1>13. NoNUL(block)
    BY <1>11 DEF NoNUL
<1>14. \A i \in 1..Len(block) : IsLineEnd(block[i]) => block[i] = ending
    BY <1>4, <1>5
<1>15. \A i, j \in 1..n :
           i < j => PlaceOf(keys[i], block, format) < PlaceOf(keys[j], block, format)
    BY <1>3, <1>10 DEF Placed
<1>16. \A k \in 1..n : block[PlaceOf(keys[k], block, format)].style
                           = StyleOf(keys[k], fields[keys[k]], raw, format)
    BY <1>5, <1>10
<1>17. format # "json"
    OBVIOUS
<1> QED
    BY <1>3, <1>10, <1>12, <1>13, <1>14, <1>15, <1>16, <1>17, Zenon DEF Rewritten, keys, n, block

(* Two marks that are not blank, the first and the last.                   *)
LEMMA FlowFromEndToEnd ==
    ASSUME NEW block \in Seq(Marks), Object(block), ~IsSpace(block[1]), ~IsSpace(block[Len(block)])
    PROVE  IsFlowMapping(block)
<1> DEFINE marks == Significant(block)
           n == Len(block)
<1>1. n \in Nat /\ n > 1 /\ IsObject(block, n)
    BY LenProperties DEF Object
<1> HIDE DEF n
<1>2. marks \subseteq 1..n /\ 1 \in marks /\ n \in marks
    BY <1>1 DEF Significant, n
<1> HIDE DEF marks
<1>3. Least(marks) = 1
    <2>1. marks \in SUBSET Nat /\ marks # {}
        BY <1>1, <1>2
    <2>2. Least(marks) \in marks /\ Least(marks) <= 1
        BY <1>2, <2>1, LeastOfPositions
    <2> DEFINE l == Least(marks)
    <2>3. l \in 1..n /\ l <= 1
        BY <1>2, <2>2
    <2> HIDE DEF l
    <2>4. l = 1
        BY <1>1, <2>3
    <2> QED
        BY <2>4 DEF l
<1>4. Greatest(marks) = n
    <2>1. \A y \in marks : n >= y
        BY <1>1, <1>2
    <2>2. Greatest(marks) \in marks /\ Greatest(marks) >= n
        BY <1>2, <2>1 DEF Greatest
    <2> DEFINE g == Greatest(marks)
    <2>3. g \in 1..n /\ g >= n
        BY <1>2, <2>2
    <2> HIDE DEF g
    <2>4. g = n
        BY <1>1, <2>3
    <2> QED
        BY <2>4 DEF g
<1>5. Cardinality(marks) > 1
    <2>1. IsFiniteSet(marks) /\ Cardinality(marks) \in Nat
        <3>1. IsFiniteSet(1..n)
            BY <1>1, FS_Interval
        <3>2. IsFiniteSet(marks)
            BY <1>2, <3>1, FS_Subset
        <3> QED
            BY <3>2, FS_CardinalityType
    <2>2. IsFiniteSet(marks \ {1}) /\ Cardinality(marks \ {1}) = Cardinality(marks) - 1
        BY <1>2, <2>1, FS_RemoveElement
    <2>3. marks \ {1} # {}
        BY <1>1, <1>2
    <2>4. Cardinality(marks \ {1}) # 0 /\ Cardinality(marks \ {1}) \in Nat
        BY <2>2, <2>3, FS_EmptySet, FS_CardinalityType
    <2> QED
        BY <2>1, <2>2, <2>4
<1>6. SubSeq(block, 1, n) = block
    BY SubSeqFull DEF n
<1> QED
    BY <1>1, <1>3, <1>4, <1>5, <1>6, Zenon DEF IsFlowMapping, marks, n

(* An encoded JSON object.                                                 *)
LEMMA ObjectIsRewritten ==
    ASSUME NEW fields, AreFields(fields), NEW raw \in Seq(Marks), NEW ending \in Marks,
           IsLineEnd(ending)
    PROVE  Rewritten(ApplyLineEnding(Encode(fields, raw, "json"), ending),
                     "json", fields, raw, ending)
<1> DEFINE keys == OrderedKeys(fields, raw, "json")
           n == Cardinality(DOMAIN fields)
           place == PlacesFrom(2, n)
           block == ApplyLineEnding(Encode(fields, raw, "json"), ending)
<1>1. n \in Nat
    BY KeysAreListed
<1>2. /\ Len(block) = 2 * n + 3 /\ ListedFrom(2, block, keys, n, fields, raw, "json", ending)
      /\ Opens(block[1]) /\ block[2] = ending /\ Closes(block[2 * n + 3])
    BY ObjectEncoded
<1>3. /\ block \in Seq(Marks)
      /\ Placed(fields, keys, place, n)
      /\ \A k \in 1..n : /\ place[k] \in 1..Len(block)
                         /\ block[place[k]] = EntryFor(keys[k], fields, raw, "json")
                         /\ place[k] + 1 \in 1..Len(block) /\ block[place[k] + 1] = ending
      /\ \A i \in 1..Len(block) :
             \/ i <= 2 \/ i > 2 + 2 * n
             \/ \E k \in 1..n : i = place[k]
             \/ block[i] = ending
    <2> HIDE DEF block, place
    <2>1. ListedFrom(2, block, OrderedKeys(fields, raw, "json"), Cardinality(DOMAIN fields),
                     fields, raw, "json", ending)
        BY <1>2
    <2> QED
        BY <2>1, ListedMarks DEF place
<1> HIDE DEF keys, n, place, block
<1>4. \A i \in 1..Len(block) : \/ i = 1 \/ i = Len(block)
                               \/ \E k \in 1..n : i = place[k]
                               \/ block[i] = ending
    <2> TAKE i \in 1..Len(block)
    <2>1. i = 1 \/ i = 2 \/ i = 2 * n + 3 \/ (~(i <= 2) /\ ~(i > 2 + 2 * n))
        BY <1>1, <1>2
    <2> QED
        BY <1>2, <1>3, <2>1
<1>5. \A k \in 1..n : LET m == block[place[k]]
                      IN /\ m.is = "json" /\ m.key = keys[k] /\ m.value = fields[keys[k]]
                         /\ m.style = StyleOf(keys[k], fields[keys[k]], raw, "json")
                         /\ ~IsLineEnd(m) /\ ~IsSpace(m) /\ m.is \notin {"---", "+++", "nul"}
    BY <1>3, EntriesSay
<1>6. IsSpace(ending) /\ ending.is # "json" /\ ending.is # "nul"
    BY DEF IsSpace, IsLineEnd
<1>7. \A m : Opens(m) \/ Closes(m) => m.is # "json" /\ ~IsSpace(m) /\ ~IsLineEnd(m) /\ m.is # "nul"
    BY Zenon DEF Opens, Closes, IsSpace, IsLineEnd
<1>8. Opens(block[1]) /\ Closes(block[Len(block)])
    BY <1>2
<1>9. Object(block)
    <2>1. \A i \in 2..(Len(block) - 1) : Inside(block[i])
        <3> TAKE i \in 2..(Len(block) - 1)
        <3>1. i \in 1..Len(block) /\ i # 1 /\ i # Len(block)
            BY <1>1, <1>2
        <3> QED
            BY <1>4, <1>5, <1>6, <3>1 DEF Inside
    <2>2. IsObject(block, Len(block))
        BY <1>8, <2>1, ObjectMeans
    <2>3. Len(block) > 1
        BY <1>1, <1>2
    <2> QED
        BY <2>2, <2>3 DEF Object
<1>10. IsFlowMapping(block)
    BY <1>3, <1>7, <1>8, <1>9, FlowFromEndToEnd
<1>11. EntriesOf(block, "json") = {place[k] : k \in 1..n}
    <2>1. \A i \in 1..Len(block) : block[i].is = "json" <=> \E k \in 1..n : i = place[k]
        BY <1>4, <1>5, <1>6, <1>7, <1>8
    <2>2. \A k \in 1..n : place[k] \in 1..Len(block)
        BY <1>3
    <2> QED
        BY <2>1, <2>2 DEF EntriesOf, Positions
<1>12. /\ Decode(block, "json") = [ok |-> TRUE, fields |-> fields]
       /\ \A k \in 1..n : PlaceOf(keys[k], block, "json") = place[k]
    <2>1. IsMapping(block, "json")
        BY <1>10 DEF IsMapping
    <2> QED
        BY <1>3, <1>5, <1>11, <2>1, EntriesAreRead
<1>13. NoNUL(block)
    BY <1>4, <1>5, <1>6, <1>7, <1>8 DEF NoNUL
<1>14. \A i \in 1..Len(block) : IsLineEnd(block[i]) => block[i] = ending
    BY <1>4, <1>5, <1>7, <1>8
<1>15. \A i, j \in 1..n :
           i < j => PlaceOf(keys[i], block, "json") < PlaceOf(keys[j], block, "json")
    BY <1>3, <1>12 DEF Placed
<1>16. \A k \in 1..n : block[PlaceOf(keys[k], block, "json")].style
                           = StyleOf(keys[k], fields[keys[k]], raw, "json")
    BY <1>5, <1>12
<1> QED
    BY <1>3, <1>9, <1>12, <1>13, <1>14, <1>15, <1>16, Zenon DEF Rewritten, keys, n, block

(* What YAML's encoder writes for no fields.                               *)
LEMMA EmptyFlowIsRewritten ==
    ASSUME NEW raw \in Seq(Marks), NEW ending \in Marks, IsLineEnd(ending)
    PROVE  Rewritten(ApplyLineEnding(Encode(NoFields, raw, "yaml"), ending),
                     "yaml", NoFields, raw, ending)
<1> DEFINE a == Mark("{")
           b == Mark("}")
           text == <<a, b, LF>>
           block == ApplyLineEnding(text, ending)
           keys == OrderedKeys(NoFields, raw, "yaml")
           n == Cardinality(DOMAIN NoFields)
           none == [k \in 1..0 |-> 0]
<1>1. Encode(NoFields, raw, "yaml") = text
    BY DEF Encode
<1>2. a \in Marks /\ b \in Marks /\ LF \in Marks /\ IsLineEnd(LF) /\ Opens(a) /\ Closes(b)
    BY PlainMarks, LFEnds, Zenon DEF Mark, Opens, Closes
<1>3. /\ n = 0 /\ keys \in [1..n -> DOMAIN NoFields]
      /\ \A k \in DOMAIN NoFields : \E i \in 1..n : keys[i] = k
    <2>1. DOMAIN NoFields = {}
        BY DEF NoFields
    <2> QED
        BY <2>1, NoFieldsAreFields, KeysAreListed, FS_EmptySet
<1> HIDE DEF a, b, keys, n
<1>4. text \in Seq(Marks) /\ Len(text) = 3 /\ text[1] = a /\ text[2] = b /\ text[3] = LF
    BY <1>2
<1> HIDE DEF text
<1>5. \A m : Opens(m) \/ Closes(m) =>
          m.is \notin {"json", "---", "+++", "nul"} /\ ~IsSpace(m) /\ ~IsLineEnd(m)
    BY Zenon DEF Opens, Closes, IsSpace, IsLineEnd
<1>6. IsSpace(ending) /\ ending.is \notin {"json", "---", "+++", "nul"}
    BY DEF IsSpace, IsLineEnd
<1>7. block \in Seq(Marks) /\ Len(block) = 3 /\ block[1] = a /\ block[2] = b /\ block[3] = ending
    <2>1. /\ block \in Seq(Marks) /\ Len(block) = Len(text)
          /\ \A i \in 1..Len(text) : block[i] = IF IsLineEnd(text[i]) THEN ending ELSE text[i]
        BY <1>4, EndingsApplied
    <2> HIDE DEF block
    <2>2. 1 \in 1..3 /\ 2 \in 1..3 /\ 3 \in 1..3
        OBVIOUS
    <2> QED
        BY <1>2, <1>4, <1>5, <2>1, <2>2
<1> HIDE DEF block
<1>8. \A i \in 1..Len(block) : i = 1 \/ i = 2 \/ i = 3
    BY <1>7
<1>9. Significant(block) = {1, 2}
    BY <1>2, <1>5, <1>6, <1>7, <1>8 DEF Significant
<1>10. IsFlowMapping(block)
    <2> DEFINE object == SubSeq(block, 1, 2)
    <2>1. Least({1, 2}) = 1 /\ Greatest({1, 2}) = 2
        BY DEF Least, Greatest
    <2>2. Cardinality({1, 2}) = 2
        <3>1. IsFiniteSet({1}) /\ Cardinality({1}) = 1
            BY FS_Singleton, Zenon
        <3>2. 2 \notin {1} /\ {1} \cup {2} = {1, 2}
            OBVIOUS
        <3>3. Cardinality({1} \cup {2}) = Cardinality({1}) + 1
            BY <3>1, <3>2, FS_AddElement
        <3>4. Cardinality({1} \cup {2}) = 2
            <4> DEFINE one == Cardinality({1})
                       both == Cardinality({1} \cup {2})
            <4>1. one = 1 /\ both = one + 1
                BY <3>1, <3>3
            <4> HIDE DEF one, both
            <4>2. both = 2
                BY ONLY <4>1
            <4> QED
                BY <4>2 DEF both
        <3> QED
            BY <3>2, <3>4
    <2>3. Len(object) = 2 /\ object[1] = block[1] /\ object[2] = block[2]
        <3> DEFINE upto == 3
        <3>1. /\ 1 \in 1..(Len(block) + 1) /\ upto \in 1..(Len(block) + 1) /\ upto - 1 = 2
              /\ 1 \in 1..(upto - 1) /\ 2 \in 1..(upto - 1) /\ 1 + 1 - 1 = 1 /\ 1 + 2 - 1 = 2
            BY <1>7
        <3> HIDE DEF upto
        <3>2. /\ Len(SubSeq(block, 1, upto - 1)) = upto - 1
              /\ \A i \in 1..(upto - 1) : SubSeq(block, 1, upto - 1)[i] = block[1 + i - 1]
            BY <1>7, <3>1, PieceOfText
        <3> QED
            BY <3>1, <3>2
    <2> HIDE DEF object
    <2>4. IsObject(object, 2)
        <3>1. \A i \in 2..(2 - 1) : Inside(object[i])
            OBVIOUS
        <3> QED
            BY <1>2, <1>7, <2>3, <3>1, ObjectMeans
    <2>5. Cardinality({1, 2}) > 1
        BY <2>2
    <2> QED
        BY <1>9, <2>1, <2>3, <2>4, <2>5, Zenon DEF IsFlowMapping, object
<1>11. EntriesOf(block, "yaml") = {}
    <2>1. \A i \in 1..Len(block) : block[i].is # "json"
        BY <1>2, <1>5, <1>6, <1>7, <1>8
    <2> QED
        BY <1>10, <2>1 DEF EntriesOf, Positions
<1>12. Decode(block, "yaml") = [ok |-> TRUE, fields |-> NoFields]
    <2>1. IsMapping(block, "yaml")
        BY <1>10 DEF IsMapping
    <2>2. Placed(NoFields, keys, none, n)
        BY <1>3 DEF Placed
    <2>3. EntriesOf(block, "yaml") = {none[k] : k \in 1..n}
        BY <1>3, <1>11
    <2>4. \A k \in 1..n : /\ block[none[k]].key = keys[k]
                          /\ block[none[k]].value = NoFields[keys[k]]
        BY <1>3
    <2> HIDE DEF none
    <2> QED
        BY <2>1, <2>2, <2>3, <2>4, NoFieldsAreFields, EntriesAreRead
<1>13. \A i \in 1..Len(block) : block[i].is \notin {"---", "+++", "nul"}
    BY <1>2, <1>5, <1>6, <1>7, <1>8
<1>14. HoldsNoFence(block, Fences["yaml"])
    <2>1. \A i \in LineStarts(block, 1) : ~IsDelimiterLine(block, i, Fences["yaml"])
        <3>1. Fences["yaml"] = "---"
            BY DEF Fences
        <3>2. \A i \in LineStarts(block, 1) : i \in 1..Len(block)
            BY DEF LineStarts
        <3> QED
            BY <1>13, <3>1, <3>2 DEF IsDelimiterLine
    <2>2. EndsInLine(block)
        <3>1. block = <<>> => Len(block) = 0
            OBVIOUS
        <3> QED
            BY <1>7, <3>1 DEF EndsInLine
    <2> QED
        BY <2>1, <2>2 DEF HoldsNoFence
<1>15. NoNUL(block)
    BY <1>13 DEF NoNUL
<1>16. \A i \in 1..Len(block) : IsLineEnd(block[i]) => block[i] = ending
    BY <1>2, <1>5, <1>7, <1>8
<1>17. /\ \A i, j \in 1..n :
              i < j => PlaceOf(keys[i], block, "yaml") < PlaceOf(keys[j], block, "yaml")
       /\ \A k \in 1..n : block[PlaceOf(keys[k], block, "yaml")].style
                              = StyleOf(keys[k], NoFields[keys[k]], raw, "yaml")
    BY <1>3
<1>18. "yaml" # "json"
    OBVIOUS
<1>19. Rewritten(block, "yaml", NoFields, raw, ending)
    BY <1>7, <1>12, <1>14, <1>15, <1>16, <1>17, <1>18, Zenon DEF Rewritten, keys, n
<1> QED
    BY <1>1, <1>19, Zenon DEF block

(* What the encoders write, whatever the fields and the format.            *)
LEMMA EncodedIsRewritten ==
    ASSUME NEW fields, AreFields(fields), NEW raw \in Seq(Marks),
           NEW format \in {"yaml", "toml", "json"}, NEW ending \in Marks, IsLineEnd(ending)
    PROVE  Rewritten(ApplyLineEnding(Encode(fields, raw, format), ending),
                     format, fields, raw, ending)
<1>1. CASE format = "json"
    BY <1>1, ObjectIsRewritten
<1>2. CASE format = "yaml" /\ fields = NoFields
    BY <1>2, EmptyFlowIsRewritten
<1>3. CASE format # "json" /\ ~(format = "yaml" /\ fields = NoFields)
    <2>1. Encode(fields, raw, format) = Lines(fields, raw, format) /\ format \in {"yaml", "toml"}
        BY <1>3 DEF Encode
    <2> QED
        BY <2>1, LinesAreRewritten
<1> QED
    BY <1>1, <1>2, <1>3

(***************************************************************************)
(* The layout that Bytes writes into, and the block that it writes.        *)
(***************************************************************************)

(* The layout of a new document, or that of the stored one.                *)
ShapeOf(layout, format) ==
    IF layout = ZeroLayout THEN DefaultLayout(format) ELSE layout

(* The delimiters of a layout, and a block, that a format can be scanned   *)
(* from.                                                                   *)
Suits(format, layout) ==
    /\ IsLayout(layout)
    /\ layout = [bom |-> layout.bom, open |-> layout.open, close |-> layout.close]
    /\ \/ /\ format \in {"yaml", "toml"}
          /\ IsFenceLine(layout.open, Fences[format]) /\ EndsInLine(layout.open)
          /\ IsFenceLine(layout.close, Fences[format])
       \/ format = "json" /\ Nothing(layout.open) /\ RestOfLine(layout.close)

SuitsBlock(format, block) ==
    /\ block \in Seq(Marks)
    /\ NoNUL(block)
    /\ format = "json" => Object(block)
    /\ format # "json" => HoldsNoFence(block, Fences[format])

(* A closing line that is there has a terminator when a body follows it.   *)
Carries(layout, body) ==
    body # <<>> /\ layout.close # <<>> => EndsInLine(layout.close)

(* Delimiters and a block that suit a format are slots that Scan knows.    *)
LEMMA SuitableSlots ==
    ASSUME NEW format, NEW layout, NEW block, Suits(format, layout), SuitsBlock(format, block)
    PROVE  Shaped(format, layout.open, block, layout.close)
<1>1. "json" \notin {"yaml", "toml"}
    OBVIOUS
<1> QED
    BY <1>1, Zenon DEF Suits, SuitsBlock, Shaped, FencedShape, BracedShape

(* The slots that Scan found suit the format it found.                     *)
LEMMA ScannedSlotsSuit ==
    ASSUME NEW data \in Seq(Marks), Parse(data).ok, Parse(data).content.format # "none"
    PROVE  /\ Suits(Parse(data).content.format, Parse(data).layout)
           /\ SuitsBlock(Parse(data).content.format, Parse(data).content.raw)
<1> DEFINE p == Scan(data)
           document == Parse(data)
<1>1. p.ok
    BY ParseAccepts
<1>2. /\ IsLayout(document.layout) /\ document.content.raw = p.raw
      /\ document.content.format = p.format /\ document.layout = p.layout
    BY ParsedContent
<1>3. p.raw \in Seq(Marks)
    BY <1>1, ScanPartitions, Zenon DEF Partition
<1>4. /\ Shaped(p.format, p.layout.open, p.raw, p.layout.close)
      /\ p.layout = [bom |-> p.layout.bom, open |-> p.layout.open, close |-> p.layout.close]
    BY <1>1, <1>2, ScannedShape, Zenon
<1> HIDE DEF p, document
<1>5. "json" \notin {"yaml", "toml"}
    OBVIOUS
<1>6. IsLayout(p.layout)
    BY <1>2
<1>7. Suits(p.format, p.layout)
    BY <1>4, <1>6, Zenon DEF Suits, Shaped, FencedShape, BracedShape
<1>8. SuitsBlock(p.format, p.raw)
    BY <1>3, <1>4, <1>5, Zenon DEF SuitsBlock, Shaped, FencedShape, BracedShape
<1> QED
    BY <1>2, <1>7, <1>8 DEF document

(* Every line ending is one. *)
LEMMA LineEndingEnds ==
    ASSUME NEW layout, IsLayout(layout)
    PROVE  LineEnding(layout) \in Marks /\ IsLineEnd(LineEnding(layout))
<1>1. LineEnding(layout) \in Marks
    BY LayoutsGiven
<1>2. IsLineEnd(LineEnding(layout))
    BY LFEnds, Zenon DEF LineEnding, EndsInLine
<1> QED
    BY <1>1, <1>2

(* The default layout suits its format, is terminated, and ends its lines  *)
(* as no layout at all does.                                               *)
LEMMA DefaultSuits ==
    ASSUME NEW format \in {"yaml", "toml", "json"}
    PROVE  /\ Suits(format, DefaultLayout(format))
           /\ Nothing(DefaultLayout(format).close) \/ EndsInLine(DefaultLayout(format).close)
           /\ LineEnding(DefaultLayout(format)) = LineEnding(ZeroLayout)
<1> DEFINE layout == DefaultLayout(format)
<1>1. IsLayout(layout)
    BY LayoutsGiven DEF Formats
<1>2. LineEnding(ZeroLayout) = LF
    BY DEF LineEnding, ZeroLayout, EndsInLine
<1>3. CASE format = "json"
    <2>1. layout = ZeroLayout
        BY <1>3, FencesDiffer DEF DefaultLayout
    <2> HIDE DEF layout
    <2>2. /\ layout.open = <<>> /\ layout.close = <<>> /\ layout.bom = FALSE
          /\ layout = [bom |-> layout.bom, open |-> layout.open, close |-> layout.close]
        BY <2>1 DEF ZeroLayout
    <2>3. RestOfLine(<<>>)
        <3>1. Len(<<>>) = 0
            BY EmptySeq
        <3> QED
            BY <3>1 DEF RestOfLine
    <2> QED
        BY <1>1, <1>3, <2>1, <2>2, <2>3, Zenon DEF Suits, Nothing, layout
<1>4. CASE format \in {"yaml", "toml"}
    <2> DEFINE m == Mark(Fences[format])
               line == <<m, LF>>
    <2>1. m.is = Fences[format]
        BY DEF Mark
    <2>2. layout = [bom |-> FALSE, open |-> line, close |-> line]
        BY <1>4, FencesDiffer, Zenon DEF DefaultLayout
    <2>3. ~IsLineEnd(m)
        BY <1>4, <2>1 DEF IsLineEnd, Fences
    <2> HIDE DEF m, layout
    <2>4. /\ Len(line) = 2 /\ line[1] = m /\ line[2] = LF /\ line # <<>>
        OBVIOUS
    <2> HIDE DEF line
    <2>5. EndsInLine(line)
        BY <2>4, LFEnds DEF EndsInLine
    <2>6. IsFenceLine(line, Fences[format])
        <3>1. IsSpace(LF)
            BY LFEnds DEF IsSpace
        <3>2. \A j \in 2..Len(line) : IsSpace(line[j])
            BY <2>4, <3>1
        <3>3. \A j \in 1..(Len(line) - 1) : ~IsLineEnd(line[j])
            BY <2>3, <2>4
        <3> QED
            BY <2>1, <2>4, <3>2, <3>3, Zenon DEF IsFenceLine
    <2>7. /\ layout.open = line /\ layout.close = line
          /\ layout = [bom |-> layout.bom, open |-> layout.open, close |-> layout.close]
        BY <2>2
    <2>8. LineEnding(layout) = LF
        BY <2>4, <2>5, <2>7 DEF LineEnding
    <2> QED
        BY <1>1, <1>2, <1>4, <2>5, <2>6, <2>7, <2>8, Zenon DEF Suits, layout
<1> QED
    BY <1>3, <1>4

(* A block without entries is read as no fields. *)
LEMMA NoEntriesAreRead ==
    ASSUME NEW block, NEW format, EntriesOf(block, format) = {}, IsMapping(block, format)
    PROVE  Decode(block, format) = [ok |-> TRUE, fields |-> NoFields]
<1> DEFINE entries == EntriesOf(block, format)
           read == [k \in {block[i].key : i \in entries} |->
                       block[Greatest({i \in entries : block[i].key = k})].value]
<1>1. ~Repeats(block, format)
    BY DEF Repeats
<1>2. Decode(block, format) = [ok |-> TRUE, fields |-> read]
    BY <1>1, Zenon DEF Decode
<1>3. read = NoFields
    BY DEF NoFields
<1> HIDE DEF read
<1> QED
    BY <1>2, <1>3

(* The block of no fields: nothing between fences, or an empty object.     *)
LEMMA EmptyBlockWritten ==
    ASSUME NEW format \in {"yaml", "toml", "json"}
    PROVE  LET block == IF format = "json" THEN <<Mark("{"), Mark("}")>> ELSE <<>>
           IN /\ SuitsBlock(format, block)
              /\ Decode(block, format) = [ok |-> TRUE, fields |-> NoFields]
<1>1. CASE format = "json"
    <2> DEFINE a == Mark("{")
               b == Mark("}")
               block == <<a, b>>
    <2>1. a \in Marks /\ b \in Marks /\ Opens(a) /\ Closes(b)
        BY PlainMarks, Zenon DEF Mark, Opens, Closes
    <2>2. \A m : Opens(m) \/ Closes(m) =>
              m.is \notin {"json", "nul"} /\ ~IsSpace(m)
        BY Zenon DEF Opens, Closes, IsSpace, IsLineEnd
    <2> HIDE DEF a, b
    <2>3. block \in Seq(Marks) /\ Len(block) = 2 /\ block[1] = a /\ block[2] = b
        BY <2>1
    <2> HIDE DEF block
    <2>4. \A i \in 1..Len(block) : block[i].is \notin {"json", "nul"}
        BY <2>1, <2>2, <2>3
    <2>5. Object(block)
        <3>1. \A i \in 2..(2 - 1) : Inside(block[i])
            OBVIOUS
        <3>2. IsObject(block, 2)
            BY <2>1, <2>3, <3>1, ObjectMeans
        <3> QED
            BY <2>3, <3>2 DEF Object
    <2>6. IsFlowMapping(block)
        <3>1. ~IsSpace(block[1]) /\ ~IsSpace(block[Len(block)])
            BY <2>1, <2>2, <2>3
        <3> QED
            BY <2>3, <2>5, <3>1, FlowFromEndToEnd
    <2>7. EntriesOf(block, "json") = {} /\ IsMapping(block, "json")
        BY <2>4, <2>6 DEF EntriesOf, Positions, IsMapping
    <2>8. Decode(block, "json") = [ok |-> TRUE, fields |-> NoFields]
        BY <2>7, NoEntriesAreRead
    <2>9. SuitsBlock("json", block)
        BY <2>3, <2>4, <2>5 DEF SuitsBlock, NoNUL
    <2> QED
        BY <1>1, <2>8, <2>9, Zenon DEF block, a, b
<1>2. CASE format \in {"yaml", "toml"}
    <2> DEFINE block == <<>>
    <2>1. block \in Seq(Marks) /\ Len(block) = 0 /\ Nothing(block)
        BY EmptySeq DEF Nothing
    <2> HIDE DEF block
    <2>2. \A i \in 1..Len(block) : FALSE
        BY <2>1
    <2>3. HoldsNoFence(block, Fences[format])
        <3>1. LineStarts(block, 1) = {}
            BY <2>2 DEF LineStarts
        <3> QED
            BY <2>1, <3>1, Zenon DEF HoldsNoFence, Nothing
    <2>4. Positions(block, format) = {} /\ Positions(block, "json") = {}
        BY <2>2 DEF Positions
    <2>5. IsBlockMapping(block, format)
        <3>1. Significant(block) = {}
            BY <2>2 DEF Significant
        <3>2. \A i \in 1..(Len(block) - 1) : FALSE
            BY <2>1
        <3> QED
            BY <2>4, <3>1, <3>2 DEF IsBlockMapping
    <2>6. EntriesOf(block, format) = {} /\ IsMapping(block, format)
        BY <1>2, <2>4, <2>5, FencesDiffer DEF EntriesOf, IsMapping
    <2>7. Decode(block, format) = [ok |-> TRUE, fields |-> NoFields]
        BY <2>6, NoEntriesAreRead
    <2>8. SuitsBlock(format, block)
        <3>1. format # "json"
            BY <1>2
        <3> QED
            BY <2>1, <2>2, <2>3, <3>1, Zenon DEF SuitsBlock, NoNUL
    <2> QED
        BY <1>2, <2>7, <2>8 DEF block
<1> QED
    BY <1>1, <1>2

(* A block that Bytes writes suits its format and is read as the fields it *)
(* was written for; one that is re-encoded is so in every line.            *)
LEMMA WrittenBlock ==
    ASSUME NEW content, IsContent(content), content.format # "none",
           content.raw # <<>> => SuitsBlock(content.format, content.raw),
           NEW ending \in Marks, IsLineEnd(ending),
           FrontMatterBlock(content, ending).ok
    PROVE  LET block == FrontMatterBlock(content, ending).block
           IN /\ SuitsBlock(content.format, block)
              /\ Decode(block, content.format) = [ok |-> TRUE, fields |-> content.fields]
              /\ content.raw # <<>> =>
                     \/ block = content.raw
                     \/ Rewritten(block, content.format, content.fields, content.raw, ending)
              /\ content.raw # <<>>
                     /\ Decode(content.raw, content.format).fields # content.fields
                     => Rewritten(block, content.format, content.fields, content.raw, ending)
<1> DEFINE format == content.format
           raw == content.raw
           fields == content.fields
           authored == Decode(raw, format)
           written == FrontMatterBlock(content, ending)
           encoded == ApplyLineEnding(Encode(fields, raw, format), ending)
           empty == IF format = "json" THEN <<Mark("{"), Mark("}")>> ELSE <<>>
           Block(block) == [ok |-> TRUE, block |-> block]
<1>1. /\ format \in {"yaml", "toml", "json"} /\ raw \in Seq(Marks) /\ AreFields(fields)
    BY DEF IsContent, Formats
<1>2. written =
          IF raw = <<>> /\ fields = NoFields THEN Block(empty)
          ELSE IF raw # <<>> /\ ~authored.ok THEN Rejected
          ELSE IF raw # <<>> /\ authored.fields = fields THEN Block(raw)
          ELSE IF Encodable(fields, format) THEN Block(encoded)
          ELSE Rejected
    BY Zenon DEF FrontMatterBlock, FieldsEqual
<1>3. Rewritten(encoded, format, fields, raw, ending)
    BY <1>1, EncodedIsRewritten, Zenon
<1>4. ~Rejected.ok
    BY RejectedStays
<1>5. \A block : Block(block).block = block
    OBVIOUS
<1>6. CASE raw = <<>> /\ fields = NoFields
    <2>1. written = Block(empty)
        BY <1>2, <1>6
    <2>2. SuitsBlock(format, empty) /\ Decode(empty, format) = [ok |-> TRUE, fields |-> NoFields]
        <3> HIDE DEF empty
        <3>1. format \in {"yaml", "toml", "json"}
            BY <1>1
        <3> QED
            BY <3>1, EmptyBlockWritten, Zenon DEF empty
    <2> HIDE DEF written, empty, encoded
    <2> QED
        BY <1>5, <1>6, <2>1, <2>2, Zenon DEF written
<1>7. CASE ~(raw = <<>> /\ fields = NoFields)
    <2>1. CASE raw # <<>> /\ authored.fields = fields
        <3>1. written = Block(raw) /\ authored.ok
            BY <1>2, <1>4, <1>7, <2>1, Zenon
        <3>2. authored = [ok |-> TRUE, fields |-> fields]
            <4>1. authored = [ok |-> TRUE, fields |-> authored.fields]
                <5>1. \A F : [ok |-> TRUE, fields |-> F].fields = F
                    OBVIOUS
                <5> QED
                    BY <1>4, <3>1, <5>1, Zenon DEF Decode
            <4> QED
                BY <2>1, <4>1
        <3> HIDE DEF written, encoded, authored
        <3> QED
            BY <1>5, <2>1, <3>1, <3>2, Zenon DEF written, authored
    <2>2. CASE raw = <<>> \/ authored.fields # fields
        <3>1. written = Block(encoded)
            BY <1>2, <1>4, <1>7, <2>2, Zenon
        <3>2. SuitsBlock(format, encoded) /\ Decode(encoded, format) = [ok |-> TRUE, fields |-> fields]
            <4> HIDE DEF encoded, format, raw, fields
            <4> QED
                BY <1>3, Zenon DEF Rewritten, SuitsBlock
        <3> HIDE DEF written, encoded
        <3> QED
            BY <1>3, <1>5, <3>1, <3>2, Zenon DEF written
    <2> QED
        BY <2>1, <2>2
<1> QED
    BY <1>6, <1>7

(* What Bytes gives when it gives something: the slots of the layout,      *)
(* around the block it writes.                                             *)
LEMMA BytesAreSlots ==
    ASSUME NEW content, NEW layout, Bytes(content, layout).ok
    PROVE  LET shape == ShapeOf(layout, content.format)
               written == FrontMatterBlock(content, LineEnding(shape))
           IN /\ Valid(content)
              /\ content.format = "none" => ~BodyOpensFrontMatter(content.body)
              /\ written.ok
              /\ Bytes(content, layout).data =
                     FileOf(shape, TerminateBlock(written.block, shape, content.body),
                            content.body)
<1> DEFINE shape == ShapeOf(layout, content.format)
           written == FrontMatterBlock(content, LineEnding(shape))
           refused == \/ ~Valid(content)
                      \/ content.format = "none" /\ BodyOpensFrontMatter(content.body)
           data == FileOf(shape, TerminateBlock(written.block, shape, content.body),
                          content.body)
<1>1. Bytes(content, layout)
          = IF refused \/ ~written.ok THEN Rejected ELSE [ok |-> TRUE, data |-> data]
    BY Zenon DEF Bytes, MarkOf, FileOf, ShapeOf
<1>2. ~Rejected.ok
    BY RejectedStays
<1> HIDE DEF shape, written, data
<1>3. ~refused /\ written.ok /\ Bytes(content, layout).data = data
    <2> HIDE DEF refused
    <2> QED
        BY <1>1, <1>2
<1> QED
    BY <1>3, Zenon DEF shape, written, data

(* An update writes with the layout of the stored file, if it has one.     *)
LEMMA SerializedAsBytes ==
    ASSUME NEW data, NEW content
    PROVE  SerializeInto(data, content) = Bytes(content, LayoutOf(data))
BY Zenon DEF SerializeInto, LayoutOf, Format

(* A byte-order mark, or none, is a text. *)
LEMMA MarkBefore ==
    ASSUME NEW layout
    PROVE  MarkOf(layout) \in Seq(Marks)
<1> DEFINE m == Mark("bom")
<1>1. m \in Marks
    BY PlainMarks
<1> HIDE DEF m
<1>2. <<m>> \in Seq(Marks)
    BY <1>1
<1> QED
    BY <1>2, EmptySeq, Zenon DEF MarkOf, m

(* A line end that is put after an object is the closing line of a layout  *)
(* that has none.                                                          *)
LEMMA LineEndMoves ==
    ASSUME NEW layout, IsLayout(layout), Nothing(layout.open), Nothing(layout.close),
           NEW block \in Seq(Marks), NEW body \in Seq(Marks), NEW ending \in Marks
    PROVE  LET ended == [bom |-> layout.bom, open |-> layout.open, close |-> <<ending>>]
           IN FileOf(layout, Append(block, ending), body) = FileOf(ended, block, body)
<1> DEFINE ended == [bom |-> layout.bom, open |-> layout.open, close |-> <<ending>>]
           m == MarkOf(layout)
           o == layout.open
           line == <<ending>>
           mo == m \o o
<1>1. m \in Seq(Marks) /\ o \in Seq(Marks)
    BY MarkBefore DEF IsLayout
<1>2. mo \in Seq(Marks)
    BY <1>1, ConcatOfMarks
<1>3. line \in Seq(Marks)
    OBVIOUS
<1>4. Append(block, ending) = block \o line
    BY AppendIsConcat
<1>5. MarkOf(ended) = m /\ ended.open = o /\ ended.close = line
    BY DEF MarkOf
<1> HIDE DEF line, ended, m, o
<1> HIDE DEF mo
<1>6. mo \o (block \o line) = mo \o block \o line
    BY ONLY <1>2, <1>3, block \in Seq(Marks), ConcatReassociates
<1>7. mo \o (block \o line) \in Seq(Marks)
    BY <1>2, <1>3, ConcatOfMarks
<1>8. mo \o (block \o line) \o <<>> = mo \o (block \o line)
    BY <1>7, ConcatEmptySeq
<1>9. FileOf(layout, block \o line, body) = mo \o (block \o line) \o <<>> \o body
    <2>1. layout.close = <<>>
        BY DEF Nothing
    <2> QED
        BY <2>1, Zenon DEF FileOf, mo, m, o
<1>10. FileOf(ended, block, body) = mo \o block \o line \o body
    BY <1>5, Zenon DEF FileOf, mo
<1>11. FileOf(layout, Append(block, ending), body) = FileOf(ended, block, body)
    BY <1>4, <1>6, <1>8, <1>9, <1>10, Zenon
<1> QED
    BY <1>11 DEF ended, line

(* Whatever terminator Bytes adds, the file is a block between delimiters  *)
(* that suit its format, and nothing is glued to the block.                *)
LEMMA TerminatedFile ==
    ASSUME NEW format \in {"yaml", "toml", "json"}, NEW shape, Suits(format, shape),
           NEW block, SuitsBlock(format, block), NEW body \in Seq(Marks)
    PROVE  \E layout :
               /\ Suits(format, layout)
               /\ FileOf(shape, TerminateBlock(block, shape, body), body)
                      = FileOf(layout, block, body)
               /\ Nothing(layout.close) => Nothing(body)
               /\ Carries(shape, body) => Apart(layout.close, body)
<1> DEFINE ending == LineEnding(shape)
           glued == shape.open # <<>> \/ (shape.close = <<>> /\ body # <<>>)
<1>1. ending \in Marks /\ IsLineEnd(ending)
    BY LineEndingEnds DEF Suits
<1>2. TerminateBlock(block, shape, body)
          = IF block # <<>> /\ ~EndsInLine(block) /\ glued THEN Append(block, ending) ELSE block
    BY Zenon DEF TerminateBlock
<1>3. CASE format \in {"yaml", "toml"}
    <2>1. block = <<>> \/ EndsInLine(block)
        BY <1>3, Zenon DEF SuitsBlock, HoldsNoFence
    <2>2. TerminateBlock(block, shape, body) = block
        BY <1>2, <2>1, Zenon
    <2>3. shape.close # <<>>
        BY <1>3, Zenon DEF Suits, IsFenceLine
    <2> QED
        BY <2>2, <2>3, Zenon DEF Carries, Apart, Nothing
<1>4. CASE format = "json"
    <2>1. Nothing(shape.open) /\ RestOfLine(shape.close) /\ IsLayout(shape)
        BY <1>4, Zenon DEF Suits
    <2>2. Object(block) /\ block \in Seq(Marks)
        BY <1>4, Zenon DEF SuitsBlock
    <2>3. block # <<>> /\ ~EndsInLine(block)
        <3>1. Len(block) > 1 /\ Closes(block[Len(block)])
            BY <2>2, ObjectMeans, Zenon DEF Object
        <3>2. block # <<>>
            BY <3>1, EmptySeq
        <3> QED
            BY <3>1, <3>2, BracesAreOutside, Zenon DEF EndsInLine
    <2>4. CASE shape.close = <<>> /\ body # <<>>
        <3> DEFINE line == <<ending>>
                   layout == [bom |-> shape.bom, open |-> shape.open, close |-> line]
        <3>1. TerminateBlock(block, shape, body) = Append(block, ending)
            BY <1>2, <2>3, <2>4, Zenon
        <3> HIDE DEF ending
        <3>2. /\ layout.bom = shape.bom /\ layout.open = shape.open /\ layout.close = line
              /\ layout = [bom |-> layout.bom, open |-> layout.open, close |-> layout.close]
            OBVIOUS
        <3>3. /\ line \in Seq(Marks) /\ Len(line) = 1 /\ line[1] = ending /\ line # <<>>
              /\ line[Len(line)] = ending
            BY <1>1
        <3>4. FileOf(shape, Append(block, ending), body) = FileOf(layout, block, body)
            BY <1>1, <2>1, <2>2, <2>4, LineEndMoves DEF Nothing
        <3> HIDE DEF line, layout
        <3>5. RestOfLine(line) /\ EndsInLine(line)
            BY <1>1, <3>3 DEF RestOfLine, EndsInLine, IsSpace
        <3>6. IsLayout(layout)
            BY <2>1, <3>2, <3>3 DEF IsLayout
        <3>7. Suits(format, layout)
            BY <1>4, <2>1, <3>2, <3>5, <3>6, Zenon DEF Suits
        <3>8. ~Nothing(layout.close) /\ Apart(layout.close, body)
            BY <3>2, <3>3, <3>5 DEF Nothing, Apart
        <3> QED
            BY <3>1, <3>4, <3>7, <3>8, Zenon
    <2>5. CASE shape.close # <<>> \/ body = <<>>
        <3>1. TerminateBlock(block, shape, body) = block
            BY <1>2, <2>1, <2>5, Zenon DEF Nothing
        <3>2. Nothing(shape.close) => Nothing(body)
            BY <2>5, Zenon DEF Nothing
        <3>3. Carries(shape, body) => Apart(shape.close, body)
            BY <2>5, Zenon DEF Carries, Apart
        <3> QED
            BY <3>1, <3>2, <3>3, Zenon
    <2> QED
        BY <2>4, <2>5
<1> QED
    BY <1>3, <1>4

(* A file that is all body is read as no front matter, if it opens none.   *)
LEMMA BareFileOfBody ==
    ASSUME NEW content, content.format = "none", Valid(content), NEW body \in Seq(Marks),
           content.body = body, ~BodyOpensFrontMatter(body)
    PROVE  ReadsAs(body, content)
<1> DEFINE p == Scan(body)
<1>1. p.ok /\ p.format = "none"
    BY Zenon DEF BodyOpensFrontMatter
<1>2. Parse(body) = Document(Content("none", <<>>, NoFields, p.body), p.layout)
    BY <1>1, Zenon DEF Parse
<1>3. p.body = body
    <2>1. Partition(body, p)
        BY <1>1, ScanPartitions, Zenon
    <2>2. p.layout = ZeroLayout /\ p.raw = <<>> /\ p.body \in Seq(Marks)
        BY <1>1, <2>1, "none" \notin {"yaml", "toml", "json"}
           DEF Partition, Bare, Fenced, Braced
    <2>3. /\ p.layout.open = <<>> /\ p.layout.close = <<>> /\ MarkOf(p.layout) = <<>>
        BY <2>2 DEF ZeroLayout, MarkOf
    <2>4. MarkOf(p.layout) \o p.layout.open \o p.raw \o p.layout.close \o p.body = body
        BY <2>1, Zenon DEF Partition
    <2>5. <<>> \o <<>> \o <<>> \o <<>> \o p.body = body
        BY <2>2, <2>3, <2>4
    <2> HIDE DEF p
    <2>6. <<>> \o <<>> \o <<>> \o <<>> \o p.body = p.body
        BY <2>2, ConcatEmptySeq, EmptySeq
    <2> QED
        BY <2>5, <2>6
<1> HIDE DEF p
<1>4. /\ Parse(body).ok /\ Parse(body).content.format = "none"
      /\ Parse(body).content.fields = NoFields /\ Parse(body).content.body = p.body
    BY <1>2 DEF Document, Content
<1>5. content.fields = NoFields
    BY DEF Valid
<1> QED
    BY <1>3, <1>4, <1>5, Zenon DEF ReadsAs

(***************************************************************************)
(* What an update writes is read back.                                     *)
(***************************************************************************)

(* A file without front matter has no layout. *)
LEMMA BareLayout ==
    ASSUME NEW data \in Seq(Marks), Parse(data).ok, Parse(data).content.format = "none"
    PROVE  Parse(data).layout = ZeroLayout
<1> DEFINE p == Scan(data)
<1>1. p.ok /\ p.format = "none" /\ Parse(data).layout = p.layout
    BY ParseAccepts, ParsedContent
<1>2. Partition(data, p)
    BY <1>1, ScanPartitions, Zenon
<1> QED
    BY <1>1, <1>2, "none" \notin {"yaml", "toml", "json"}
       DEF Partition, Bare, Fenced, Braced

(* A write into the format that is stored, or into a file that has no      *)
(* front matter, has delimiters that suit it; they are terminated unless   *)
(* those of the stored file are not, and end their lines as those do.      *)
LEMMA ShapeFits ==
    ASSUME NEW data \in Seq(Marks), NEW format \in {"yaml", "toml", "json"},
           LayoutOf(data) # ZeroLayout => Parse(data).content.format = format
    PROVE  LET shape == ShapeOf(LayoutOf(data), format)
           IN /\ Suits(format, shape)
              /\ \A body : (LayoutOf(data) # ZeroLayout => Carries(LayoutOf(data), body))
                               => Carries(shape, body)
              /\ LineEnding(shape) = LineEnding(LayoutOf(data))
<1> DEFINE layout == LayoutOf(data)
           shape == ShapeOf(layout, format)
<1>1. CASE layout = ZeroLayout
    <2>1. shape = DefaultLayout(format)
        BY <1>1, Zenon DEF ShapeOf
    <2>2. /\ Suits(format, DefaultLayout(format))
          /\ Nothing(DefaultLayout(format).close) \/ EndsInLine(DefaultLayout(format).close)
          /\ LineEnding(DefaultLayout(format)) = LineEnding(ZeroLayout)
        BY DefaultSuits
    <2> QED
        BY <1>1, <2>1, <2>2, Zenon DEF Carries, Nothing
<1>2. CASE layout # ZeroLayout
    <2>1. shape = layout
        BY <1>2, Zenon DEF ShapeOf
    <2>2. Parse(data).ok /\ layout = Parse(data).layout
        BY <1>2, Zenon DEF LayoutOf
    <2>3. Parse(data).content.format = format /\ format # "none"
        BY <1>2
    <2>4. Suits(format, layout)
        BY <2>2, <2>3, ScannedSlotsSuit
    <2> QED
        BY <1>2, <2>1, <2>4, Zenon
<1> QED
    BY <1>1, <1>2

(* The step that changes the file is the write of what is held, into the   *)
(* shape of what is stored.                                                *)
LEMMA UpdateWrites ==
    ASSUME MInv, Next, stored' # stored
    PROVE  LET shape == ShapeOf(LayoutOf(stored), held.format)
               written == FrontMatterBlock(held, LineEnding(shape))
           IN /\ stored \in Seq(Marks) /\ IsContent(held) /\ Valid(held)
              /\ held.format = "none" => ~BodyOpensFrontMatter(held.body)
              /\ written.ok
              /\ stored' = FileOf(shape, TerminateBlock(written.block, shape, held.body),
                                  held.body)
              /\ held.raw # <<>> =>
                     /\ Parse(stored).ok /\ held.format # "none"
                     /\ held.raw = Parse(stored).content.raw
                     /\ held.format = Parse(stored).content.format
                     /\ SuitsBlock(held.format, held.raw)
<1> DEFINE shape == ShapeOf(LayoutOf(stored), held.format)
           written == FrontMatterBlock(held, LineEnding(shape))
<1>1. /\ held # NoContent /\ SerializeInto(stored, held).ok
      /\ stored' = SerializeInto(stored, held).data
    BY DEF Next, Get, Compose, EditStep, SetField, RemoveField, SetBody,
           SetFormat, Edit, Update, Refuse
<1>2. stored \in Seq(Marks) /\ IsContent(held) /\ Valid(held)
    BY <1>1, HeldTyped DEF MInv, TypeOK
<1>3. /\ held.format = "none" => ~BodyOpensFrontMatter(held.body)
      /\ written.ok
      /\ stored' = FileOf(shape, TerminateBlock(written.block, shape, held.body), held.body)
    <2>1. Bytes(held, LayoutOf(stored)).ok /\ stored' = Bytes(held, LayoutOf(stored)).data
        BY <1>1, SerializedAsBytes
    <2> QED
        BY <2>1, BytesAreSlots, Zenon
<1>4. ASSUME held.raw # <<>>
      PROVE  /\ Parse(stored).ok /\ held.format # "none"
             /\ held.raw = Parse(stored).content.raw
             /\ held.format = Parse(stored).content.format
             /\ SuitsBlock(held.format, held.raw)
    <2>1. /\ Parse(stored).ok /\ held.raw = Parse(stored).content.raw
          /\ held.format = Parse(stored).content.format
        BY <1>1, <1>4 DEF MInv, BlockIsTheStoredOne
    <2>2. held.format # "none"
        BY <1>2, <1>4, Zenon DEF Valid
    <2>3. SuitsBlock(Parse(stored).content.format, Parse(stored).content.raw)
        BY <1>2, <2>1, <2>2, ScannedSlotsSuit
    <2> QED
        BY <2>1, <2>2, <2>3
<1> HIDE DEF written, shape
<1> QED
    BY <1>2, <1>3, <1>4 DEF written, shape

(* A file of a block between delimiters that suit its format is parsed as  *)
(* what it was written for, if it is within the limits.                    *)
LEMMA SlotsAreParsed ==
    ASSUME NEW format \in {"yaml", "toml", "json"}, NEW layout, Suits(format, layout),
           NEW block, SuitsBlock(format, block), NEW body \in Seq(Marks),
           Apart(layout.close, body), NEW fields,
           Decode(block, format) = [ok |-> TRUE, fields |-> fields],
           EmptyKey \notin DOMAIN fields,
           Len(block) <= MaxFrontMatterBytes, LineCount(block) <= MaxFrontMatterLines
    PROVE  Parse(FileOf(layout, block, body))
               = Document(Content(format, block, fields, body), layout)
<1> DEFINE data == FileOf(layout, block, body)
           content == Content(format, block, fields, body)
           p == Scan(data)
           q == Parts(layout, format, block, body)
<1>1. p = q
    <2>1. /\ IsLayout(layout)
          /\ layout = [bom |-> layout.bom, open |-> layout.open, close |-> layout.close]
          /\ block \in Seq(Marks)
        BY Zenon DEF Suits, SuitsBlock
    <2>2. Shaped(format, layout.open, block, layout.close)
        BY SuitableSlots
    <2>3. ~(Len(block) > MaxFrontMatterBytes)
        BY <2>1, LenProperties, MarkdownAssumption
    <2> QED
        BY <2>1, <2>2, <2>3, ScanOfFile
<1>2. /\ q.ok /\ q.layout = layout /\ q.format = format /\ q.raw = block /\ q.body = body
      /\ format # "none"
    BY DEF Parts
<1>3. Valid(content)
    <2>1. content.format = format /\ content.fields = fields
        BY DEF Content
    <2> QED
        BY <1>2, <2>1, Zenon DEF Valid
<1>4. ~(LineCount(block) > MaxFrontMatterLines)
    <2>1. IsFiniteSet({i \in 1..Len(block) : IsLineEnd(block[i])})
        <3>1. IsFiniteSet(1..Len(block))
            BY FS_Interval, LenProperties DEF SuitsBlock
        <3> QED
            BY <3>1, FS_Subset
    <2>2. LineCount(block) \in Nat
        BY <2>1, FS_CardinalityType DEF LineCount
    <2> QED
        BY <2>2, MarkdownAssumption
<1>5. /\ p.ok /\ p.layout = layout /\ p.format = format /\ p.raw = block /\ p.body = body
    BY <1>1, <1>2
<1> HIDE DEF data, q
<1>6. Parse(data) =
          IF ~p.ok THEN Rejected
          ELSE IF p.format = "none"
          THEN Document(Content("none", <<>>, NoFields, p.body), p.layout)
          ELSE IF LineCount(p.raw) > MaxFrontMatterLines \/ ~Decode(p.raw, p.format).ok THEN Rejected
          ELSE IF ~Valid(Content(p.format, p.raw, Decode(p.raw, p.format).fields, p.body))
          THEN Rejected
          ELSE Document(Content(p.format, p.raw, Decode(p.raw, p.format).fields, p.body), p.layout)
    BY Zenon DEF Parse
<1>7. Decode(p.raw, p.format).ok /\ Decode(p.raw, p.format).fields = fields
    BY <1>5
<1> HIDE DEF p, content
<1>8. Content(p.format, p.raw, Decode(p.raw, p.format).fields, p.body) = content
    BY <1>5, <1>7, Zenon DEF content
<1>9. Parse(data) = Document(content, layout)
    BY <1>2, <1>3, <1>4, <1>5, <1>6, <1>7, <1>8, Zenon
<1> QED
    BY <1>9 DEF data, content

(* A document's parts. *)
LEMMA DocumentsSay ==
    ASSUME NEW format, NEW raw, NEW fields, NEW body, NEW layout
    PROVE  LET document == Document(Content(format, raw, fields, body), layout)
           IN /\ document.ok /\ document.layout = layout
              /\ document.content.format = format /\ document.content.raw = raw
              /\ document.content.fields = fields /\ document.content.body = body
BY DEF Document, Content

(* What is written into a shape that can carry it is read back as the      *)
(* content that was asked for: no edit turns the body into front matter,   *)
(* glues two lines together, or changes a field it did not name.           *)
THEOREM OwnShapeReadsBack == Spec => ReadsBackInItsOwnShape
<1>1. ASSUME MInv, Next, stored' # stored, FitsTheShape(held, LayoutOf(stored)),
             FitsTheLimits(held, LayoutOf(stored))
      PROVE  ReadsAs(stored', held)
    <2> DEFINE before == LayoutOf(stored)
               format == held.format
               body == held.body
               shape == ShapeOf(before, format)
               written == FrontMatterBlock(held, LineEnding(shape))
               block == written.block
    <2>1. /\ stored \in Seq(Marks) /\ IsContent(held) /\ Valid(held)
          /\ format = "none" => ~BodyOpensFrontMatter(body)
          /\ written.ok
          /\ stored' = FileOf(shape, TerminateBlock(block, shape, body), body)
          /\ held.raw # <<>> => SuitsBlock(format, held.raw)
        BY <1>1, UpdateWrites, Zenon
    <2>2. before # ZeroLayout => Parse(stored).content.format = format /\ Carries(before, body)
        BY <1>1, Zenon DEF FitsTheShape, Carries
    <2>3. format \in Formats /\ body \in Seq(Marks)
        BY <2>1, Zenon DEF IsContent
    <2>4. CASE format = "none"
        <3>1. shape = ZeroLayout
            <4>1. before = ZeroLayout
                BY <2>1, <2>2, <2>4, BareLayout, Zenon DEF LayoutOf
            <4>2. DefaultLayout("none") = ZeroLayout
                BY DEF DefaultLayout, Fences
            <4> QED
                BY <2>4, <4>1, <4>2, Zenon DEF ShapeOf
        <3>2. block = <<>>
            BY <2>4 DEF FrontMatterBlock
        <3>3. TerminateBlock(block, shape, body) = <<>>
            BY <3>2, Zenon DEF TerminateBlock
        <3>4. MarkOf(ZeroLayout) = <<>> /\ ZeroLayout.open = <<>> /\ ZeroLayout.close = <<>>
            BY DEF ZeroLayout, MarkOf
        <3>5. stored' = <<>> \o <<>> \o <<>> \o <<>> \o body
            BY <2>1, <3>1, <3>3, <3>4, Zenon DEF FileOf
        <3> HIDE DEF body
        <3>6. <<>> \o <<>> \o <<>> \o <<>> \o body = body
            BY <2>3, ConcatEmptySeq, EmptySeq
        <3>7. stored' = body
            BY <3>5, <3>6
        <3> QED
            BY <2>1, <2>3, <2>4, <3>7, BareFileOfBody DEF body
    <2>5. CASE format # "none"
        <3>1. format \in {"yaml", "toml", "json"}
            BY <2>3, <2>5 DEF Formats
        <3>2. /\ Suits(format, shape) /\ Carries(shape, body)
              /\ LineEnding(shape) = LineEnding(before)
            BY <2>1, <2>2, <3>1, ShapeFits, Zenon
        <3>3. LineEnding(shape) \in Marks /\ IsLineEnd(LineEnding(shape))
            BY <3>2, LineEndingEnds DEF Suits
        <3>4. /\ SuitsBlock(format, block)
              /\ Decode(block, format) = [ok |-> TRUE, fields |-> held.fields]
            BY <2>1, <2>5, <3>3, WrittenBlock, Zenon
        <3>5. Len(block) <= MaxFrontMatterBytes /\ LineCount(block) <= MaxFrontMatterLines
            BY <1>1, <3>2, Zenon DEF FitsTheLimits
        <3>6. EmptyKey \notin DOMAIN held.fields
            BY <2>1, Zenon DEF Valid
        <3> HIDE DEF shape, block, written, format, body, before
        <3>7. PICK layout :
                  /\ Suits(format, layout) /\ Apart(layout.close, body)
                  /\ FileOf(shape, TerminateBlock(block, shape, body), body)
                         = FileOf(layout, block, body)
            <4>1. body \in Seq(Marks)
                BY <2>3
            <4>2. \E layout :
                      /\ Suits(format, layout)
                      /\ FileOf(shape, TerminateBlock(block, shape, body), body)
                             = FileOf(layout, block, body)
                      /\ Nothing(layout.close) => Nothing(body)
                      /\ Carries(shape, body) => Apart(layout.close, body)
                BY ONLY <3>1, <3>2, <3>4, <4>1, TerminatedFile
            <4> QED
                BY <3>2, <4>2, Zenon
        <3>8. Parse(stored') = Document(Content(format, block, held.fields, body), layout)
            BY <2>1, <2>3, <3>1, <3>4, <3>5, <3>6, <3>7, SlotsAreParsed
        <3> QED
            <4>1. /\ Parse(stored').ok /\ Parse(stored').content.format = format
                  /\ Parse(stored').content.fields = held.fields
                  /\ Parse(stored').content.body = body
                BY <3>8, DocumentsSay
            <4> QED
                BY <4>1, Zenon DEF ReadsAs, format, body
    <2> QED
        BY <2>4, <2>5
<1>2. MInv /\ [Next]_vars =>
          [stored' # stored /\ FitsTheShape(held, LayoutOf(stored))
                            /\ FitsTheLimits(held, LayoutOf(stored))
             => ReadsAs(stored', held)]_vars
    BY <1>1, Zenon
<1> QED
    BY <1>2, MInvHolds, PTL DEF Spec, ReadsBackInItsOwnShape

(* A text ends as its last part does. *)
LEMMA EndOfConcat ==
    ASSUME NEW s \in Seq(Marks), NEW t \in Seq(Marks), t # <<>>
    PROVE  EndsInLine(s \o t) <=> EndsInLine(t)
<1>1. /\ Len(s) \in Nat /\ Len(t) \in Nat /\ Len(s \o t) = Len(s) + Len(t)
      /\ \A i \in 1..Len(t) : (s \o t)[Len(s) + i] = t[i]
    BY ConcatByMarks
<1>2. Len(t) \in 1..Len(t)
    BY <1>1, EmptySeq
<1>3. (s \o t)[Len(s \o t)] = t[Len(t)]
    BY <1>1, <1>2
<1>4. s \o t # <<>>
    BY ConcatEqualIffEmpty
<1> QED
    BY <1>3, <1>4 DEF EndsInLine

(* Two files with the same body have the same text before it.              *)
LEMMA SameBody ==
    ASSUME NEW s \in Seq(Marks), NEW t \in Seq(Marks), NEW body \in Seq(Marks),
           s \o body = t \o body
    PROVE  s = t
BY ConcatSimplifications

(* The front of a file: all before its body. *)
LEMMA FrontOfFile ==
    ASSUME NEW layout, IsLayout(layout), NEW block \in Seq(Marks), NEW body
    PROVE  LET front == MarkOf(layout) \o layout.open \o block
           IN /\ front \in Seq(Marks) /\ layout.close \in Seq(Marks)
              /\ FileOf(layout, block, body) = front \o layout.close \o body
<1>1. /\ MarkOf(layout) \in Seq(Marks) /\ layout.open \in Seq(Marks)
      /\ layout.close \in Seq(Marks)
    BY MarkBefore DEF IsLayout
<1> QED
    BY <1>1, ConcatOfMarks DEF FileOf

(* A file that is read with the body it was written for was not glued.     *)
LEMMA NotGlued ==
    ASSUME NEW layout, IsLayout(layout), NEW block \in Seq(Marks), NEW body \in Seq(Marks),
           Nothing(layout.close) => Nothing(body),
           NEW data \in Seq(Marks), data = FileOf(layout, block, body),
           Scan(data).ok, Scan(data).format # "none", Scan(data).body = body
    PROVE  Apart(layout.close, body)
<1> DEFINE p == Scan(data)
           front == MarkOf(layout) \o layout.open \o block
           found == MarkOf(p.layout) \o p.layout.open \o p.raw
<1>1. CASE body = <<>>
    BY <1>1, Zenon DEF Apart
<1>2. CASE body # <<>>
    <2>1. EndsInLine(p.layout.close)
        BY <1>2, ScannedShape, Zenon DEF Apart
    <2>2. IsLayout(p.layout) /\ p.raw \in Seq(Marks) /\ FileOf(p.layout, p.raw, body) = data
        BY ScanPartitions, Zenon DEF Partition, IsLayout, FileOf
    <2> HIDE DEF p
    <2>3. /\ found \in Seq(Marks) /\ p.layout.close \in Seq(Marks)
          /\ data = found \o p.layout.close \o body
        <3> DEFINE slots == p.layout
                   text == p.raw
        <3>1. /\ IsLayout(slots) /\ text \in Seq(Marks) /\ FileOf(slots, text, body) = data
            BY <2>2
        <3> HIDE DEF slots, text
        <3>2. LET before == MarkOf(slots) \o slots.open \o text
              IN /\ before \in Seq(Marks) /\ slots.close \in Seq(Marks)
                 /\ FileOf(slots, text, body) = before \o slots.close \o body
            BY <3>1, FrontOfFile
        <3> QED
            BY <3>1, <3>2, Zenon DEF slots, text
    <2>4. /\ front \in Seq(Marks) /\ layout.close \in Seq(Marks)
          /\ data = front \o layout.close \o body
        BY FrontOfFile
    <2> HIDE DEF found, front
    <2>5. found \o p.layout.close \in Seq(Marks) /\ front \o layout.close \in Seq(Marks)
        BY <2>3, <2>4, ConcatOfMarks
    <2>6. found \o p.layout.close = front \o layout.close
        BY <2>3, <2>4, <2>5, SameBody
    <2>7. p.layout.close # <<>>
        BY <2>1, Zenon DEF EndsInLine
    <2>8. EndsInLine(front \o layout.close)
        BY <2>1, <2>3, <2>6, <2>7, EndOfConcat
    <2>9. layout.close # <<>>
        BY <1>2, Zenon DEF Nothing
    <2>10. EndsInLine(layout.close)
        BY <2>4, <2>8, <2>9, EndOfConcat
    <2> QED
        BY <2>10, Zenon DEF Apart
<1> QED
    BY <1>1, <1>2

(* What an update of a document that was read leaves, if it is read back:  *)
(* the block that was written, and it is a re-encoded one unless the       *)
(* fields are those of the block that was read.                            *)
LEMMA UpdatedBlock ==
    ASSUME MInv, Next, stored' # stored, held.raw # <<>>, ReadsAs(stored', held)
    PROVE  LET layout == Parse(stored).layout
               before == Parse(stored).content
               after == Parse(stored').content
           IN /\ stored \in Seq(Marks) /\ Parse(stored).ok
              /\ before.raw \in Seq(Marks)
              /\ before.format \in {"yaml", "toml", "json"}
              /\ after.format = before.format /\ AreFields(after.fields)
              /\ after.fields = held.fields
              /\ Decode(before.raw, before.format) = [ok |-> TRUE, fields |-> before.fields]
              /\ LineEnding(layout) \in Marks /\ IsLineEnd(LineEnding(layout))
              /\ \/ after.raw = before.raw
                 \/ Rewritten(after.raw, after.format, after.fields, before.raw,
                              LineEnding(layout))
              /\ after.fields # before.fields =>
                     Rewritten(after.raw, after.format, after.fields, before.raw,
                               LineEnding(layout))
<1> DEFINE format == held.format
           body == held.body
           was == LayoutOf(stored)
           shape == ShapeOf(was, format)
           written == FrontMatterBlock(held, LineEnding(shape))
           block == written.block
           before == Parse(stored).content
           after == Parse(stored').content
<1>1. /\ stored \in Seq(Marks) /\ IsContent(held) /\ Valid(held)
      /\ written.ok
      /\ stored' = FileOf(shape, TerminateBlock(block, shape, body), body)
      /\ Parse(stored).ok /\ held.format # "none"
      /\ held.raw = before.raw /\ held.format = before.format
      /\ SuitsBlock(format, held.raw)
    BY UpdateWrites, Zenon
<1>2. stored' \in Seq(Marks)
    <2>1. held # NoContent /\ SerializeInto(stored, held).ok
          /\ stored' = SerializeInto(stored, held).data
        BY DEF Next, Get, Compose, EditStep, SetField, RemoveField, SetBody,
               SetFormat, Edit, Update, Refuse
    <2> QED
        BY <1>1, <2>1, SerializedIsMarks
<1>3. format \in {"yaml", "toml", "json"} /\ body \in Seq(Marks) /\ AreFields(held.fields)
    <2>1. /\ held.format \in Formats /\ held.body \in Seq(Marks) /\ AreFields(held.fields)
        BY <1>1, Zenon DEF IsContent
    <2> QED
        BY <1>1, <2>1 DEF Formats
<1>4. was = Parse(stored).layout
    BY <1>1, Zenon DEF LayoutOf
<1>5. Suits(format, shape) /\ LineEnding(shape) = LineEnding(was)
    <2>1. was # ZeroLayout => Parse(stored).content.format = format
        BY <1>1
    <2> QED
        BY <1>1, <1>3, <2>1, ShapeFits, Zenon
<1>6. LineEnding(was) \in Marks /\ IsLineEnd(LineEnding(was))
    BY <1>5, LineEndingEnds DEF Suits
<1>7. /\ SuitsBlock(format, block)
      /\ \/ block = held.raw
         \/ Rewritten(block, format, held.fields, held.raw, LineEnding(was))
      /\ Decode(held.raw, format).fields # held.fields
             => Rewritten(block, format, held.fields, held.raw, LineEnding(was))
    <2>1. held.raw # <<>> => SuitsBlock(held.format, held.raw)
        BY <1>1
    <2>2. LineEnding(shape) \in Marks /\ IsLineEnd(LineEnding(shape))
        BY <1>5, <1>6
    <2>3. LET text == FrontMatterBlock(held, LineEnding(shape)).block
          IN /\ SuitsBlock(held.format, text)
             /\ held.raw # <<>> =>
                    \/ text = held.raw
                    \/ Rewritten(text, held.format, held.fields, held.raw, LineEnding(shape))
             /\ held.raw # <<>> /\ Decode(held.raw, held.format).fields # held.fields
                    => Rewritten(text, held.format, held.fields, held.raw, LineEnding(shape))
        BY <1>1, <2>1, <2>2, WrittenBlock, Zenon
    <2> HIDE DEF shape, was
    <2> QED
        BY <1>5, <2>3
<1>8. /\ after.raw = block /\ after.format = format /\ after.fields = held.fields
    <2> DEFINE p == Scan(stored')
    <2>1. /\ Parse(stored').ok /\ after.format = format /\ after.fields = held.fields
          /\ after.body = body
        BY Zenon DEF ReadsAs
    <2>2. p.ok /\ p.format = format /\ after.raw = p.raw
        BY <1>2, <2>1, ParseAccepts, ParsedContent
    <2>3. p.body = body
        <3>1. Parse(stored') = Document(Content(p.format, p.raw, Decode(p.raw, p.format).fields,
                                                p.body), p.layout)
            BY <1>1, <2>1, <2>2, ParseAccepts
        <3> HIDE DEF p
        <3>2. after.body = p.body
            BY <3>1, DocumentsSay
        <3> QED
            BY <2>1, <3>2
    <2>4. PICK layout :
              /\ Suits(format, layout)
              /\ FileOf(shape, TerminateBlock(block, shape, body), body)
                     = FileOf(layout, block, body)
              /\ Nothing(layout.close) => Nothing(body)
        <3> HIDE DEF shape, block, format, body
        <3>1. \E layout :
                  /\ Suits(format, layout)
                  /\ FileOf(shape, TerminateBlock(block, shape, body), body)
                         = FileOf(layout, block, body)
                  /\ Nothing(layout.close) => Nothing(body)
                  /\ Carries(shape, body) => Apart(layout.close, body)
            BY ONLY <1>3, <1>5, <1>7, TerminatedFile
        <3> QED
            BY <3>1, Zenon
    <2> HIDE DEF shape, block, written, format, body, was
    <2>5. stored' = FileOf(layout, block, body)
        BY <1>1, <2>4
    <2>6. /\ IsLayout(layout) /\ block \in Seq(Marks)
          /\ layout = [bom |-> layout.bom, open |-> layout.open, close |-> layout.close]
        BY <1>7, <2>4, Zenon DEF Suits, SuitsBlock
    <2>7. Apart(layout.close, body)
        BY <1>1, <1>2, <1>3, <2>2, <2>3, <2>4, <2>5, <2>6, NotGlued
    <2>8. Shaped(format, layout.open, block, layout.close)
        BY <1>7, <2>4, SuitableSlots
    <2>9. /\ ~(Len(block) > MaxFrontMatterBytes) =>
                 Scan(FileOf(layout, block, body)) = Parts(layout, format, block, body)
          /\ Len(block) > MaxFrontMatterBytes =>
                 \/ ~Scan(FileOf(layout, block, body)).ok
                 \/ Scan(FileOf(layout, block, body)).format = "none"
        BY <1>3, <2>6, <2>7, <2>8, ScanOfFile
    <2>10. format # "none"
        BY <1>3
    <2>11. p = Parts(layout, format, block, body)
        BY <2>2, <2>5, <2>9, <2>10, Zenon
    <2>12. p.raw = block
        BY <2>11 DEF Parts
    <2> QED
        BY <2>1, <2>2, <2>12
<1>9. Decode(before.raw, before.format) = [ok |-> TRUE, fields |-> before.fields]
    <2> DEFINE p == Scan(stored)
    <2>1. /\ p.format = before.format /\ p.raw = before.raw
        BY <1>1, ParsedContent
    <2>2. /\ Decode(p.raw, p.format).ok
          /\ Parse(stored) = Document(Content(p.format, p.raw, Decode(p.raw, p.format).fields,
                                              p.body), p.layout)
        BY <1>1, <2>1, ParseAccepts
    <2> HIDE DEF p
    <2>3. before.fields = Decode(p.raw, p.format).fields
        BY <2>2, DocumentsSay
    <2>4. Decode(p.raw, p.format) = [ok |-> TRUE, fields |-> Decode(p.raw, p.format).fields]
        <3>1. \A F : [ok |-> TRUE, fields |-> F].fields = F
            OBVIOUS
        <3> QED
            BY <2>2, <3>1, RejectedStays, Zenon DEF Decode
    <2> QED
        BY <2>1, <2>3, <2>4
<1>10. Decode(held.raw, format).fields = before.fields
    BY <1>1, <1>9
<1>11. held.raw \in Seq(Marks)
    BY <1>1, Zenon DEF SuitsBlock
<1> HIDE DEF before, after, format, was, block, shape, written
<1>12. /\ stored \in Seq(Marks) /\ Parse(stored).ok
       /\ before.raw \in Seq(Marks)
       /\ before.format \in {"yaml", "toml", "json"}
       /\ after.format = before.format /\ AreFields(after.fields)
       /\ after.fields = held.fields
    BY <1>1, <1>3, <1>8, <1>11 DEF format
<1>13. /\ \/ after.raw = before.raw
          \/ Rewritten(after.raw, after.format, after.fields, before.raw, LineEnding(was))
       /\ after.fields # before.fields =>
              Rewritten(after.raw, after.format, after.fields, before.raw, LineEnding(was))
    BY <1>1, <1>7, <1>8, <1>10
<1> QED
    BY <1>4, <1>6, <1>9, <1>12, <1>13 DEF before, after

(* The authored keys of a block that was read are those of its fields, and *)
(* where no key may be written twice each has one entry, which says its    *)
(* value.                                                                  *)
LEMMA DecodedPlaces ==
    ASSUME NEW raw \in Seq(Marks), NEW format, NEW fields,
           Decode(raw, format) = [ok |-> TRUE, fields |-> fields]
    PROVE  /\ Authored(raw, format) = DOMAIN fields
           /\ format # "json" =>
                  \A k \in DOMAIN fields :
                      /\ {i \in EntriesOf(raw, format) : raw[i].key = k}
                             = {PlaceOf(k, raw, format)}
                      /\ raw[PlaceOf(k, raw, format)].value = fields[k]
<1> DEFINE entries == EntriesOf(raw, format)
           places(k) == {i \in entries : raw[i].key = k}
           keys == {raw[i].key : i \in entries}
           read == [k \in keys |-> raw[Greatest(places(k))].value]
<1>1. read = fields /\ (format # "json" => ~Repeats(raw, format))
    <2>1. Decode(raw, format) =
              IF ~IsMapping(raw, format) \/ (format # "json" /\ Repeats(raw, format))
              THEN Rejected ELSE [ok |-> TRUE, fields |-> read]
        BY Zenon DEF Decode
    <2> HIDE DEF read
    <2>2. Decode(raw, format).ok /\ Decode(raw, format).fields = fields
        OBVIOUS
    <2>3. [ok |-> TRUE, fields |-> read].fields = read
        OBVIOUS
    <2> QED
        BY <2>1, <2>2, <2>3, RejectedStays, Zenon
<1>2. Authored(raw, format) = DOMAIN fields
    BY <1>1 DEF Authored
<1>3. ASSUME format # "json", NEW k \in DOMAIN fields
      PROVE  /\ places(k) = {PlaceOf(k, raw, format)}
             /\ raw[PlaceOf(k, raw, format)].value = fields[k]
    <2>1. DOMAIN fields = keys /\ \A l \in keys : fields[l] = raw[Greatest(places(l))].value
        BY <1>1
    <2>2. PICK e \in entries : raw[e].key = k
        BY <1>3, <2>1
    <2>3. \A i \in entries : raw[i].key = k => i = e
        BY <1>1, <1>3, <2>2, Zenon DEF Repeats
    <2>4. places(k) = {e} /\ e \in Nat
        BY <2>2, <2>3, EntriesArePositions
    <2>5. Least({e}) = e /\ Greatest({e}) = e
        BY <2>4 DEF Least, Greatest
    <2>6. PlaceOf(k, raw, format) = e
        BY <2>4, <2>5 DEF PlaceOf
    <2>7. fields[k] = raw[e].value
        BY <1>3, <2>1, <2>4, <2>5
    <2> QED
        BY <2>4, <2>6, <2>7
<1> QED
    BY <1>2, <1>3

(* A re-encoded block keeps the order of the keys that the other one had,  *)
(* puts new keys after them, and keeps the style of a YAML value that did  *)
(* not change.                                                             *)
LEMMA OrderIsRewritten ==
    ASSUME NEW raw \in Seq(Marks), NEW format \in {"yaml", "toml", "json"}, NEW was,
           Decode(raw, format) = [ok |-> TRUE, fields |-> was],
           NEW block, NEW fields, AreFields(fields), NEW ending,
           Rewritten(block, format, fields, raw, ending),
           NEW k \in DOMAIN fields, NEW l \in DOMAIN fields
    PROVE  /\ k \in DOMAIN was /\ l \in DOMAIN was
                  /\ PlaceOf(k, raw, format) < PlaceOf(l, raw, format)
                  => PlaceOf(k, block, format) < PlaceOf(l, block, format)
           /\ k \in DOMAIN was /\ l \notin DOMAIN was
                  => PlaceOf(k, block, format) < PlaceOf(l, block, format)
           /\ k \in DOMAIN was /\ format = "yaml" /\ was[k] = fields[k]
                  => block[PlaceOf(k, block, format)].style
                         = raw[PlaceOf(k, raw, format)].style
<1> DEFINE keys == OrderedKeys(fields, raw, format)
           n == Cardinality(DOMAIN fields)
           Before(key) == PlaceOf(key, raw, format)
           After(key) == PlaceOf(key, block, format)
           authored == Authored(raw, format)
<1>1. /\ n \in Nat /\ keys \in [1..n -> DOMAIN fields]
      /\ \A key \in DOMAIN fields : \E i \in 1..n : keys[i] = key
    BY KeysAreListed
<1>2. \A i, j \in 1..n : i < j => Precedes(keys[i], keys[j], raw, format)
    <2>1. /\ keys \in [1..n -> DOMAIN fields]
          /\ \A i, j \in DOMAIN keys : i < j => Precedes(keys[i], keys[j], raw, format)
        BY KeysAreOrdered, Zenon DEF AreFields
    <2> HIDE DEF keys, n
    <2> QED
        BY <2>1
<1>3. /\ \A i, j \in 1..n : i < j => After(keys[i]) < After(keys[j])
      /\ \A i \in 1..n : block[After(keys[i])].style
                             = StyleOf(keys[i], fields[keys[i]], raw, format)
    BY Zenon DEF Rewritten
<1>4. /\ authored = DOMAIN was
      /\ format # "json" =>
             \A key \in DOMAIN was :
                 /\ {e \in EntriesOf(raw, format) : raw[e].key = key} = {Before(key)}
                 /\ raw[Before(key)].value = was[key]
    BY DecodedPlaces
<1>5. \A key \in DOMAIN was : Before(key) \in Nat
    BY <1>4, PlacesOfKeys
<1>6. \A x, y \in DOMAIN fields :
          Precedes(x, y, raw, format) =>
              IF x \in DOMAIN was
              THEN y \in DOMAIN was => Before(x) < Before(y)
              ELSE y \notin DOMAIN was
    BY <1>4 DEF Precedes
<1>7. block[After(k)].style = StyleOf(k, fields[k], raw, format)
    BY <1>1, <1>3
<1> HIDE DEF keys, n, Before, After
<1>8. PICK i \in 1..n, j \in 1..n : keys[i] = k /\ keys[j] = l
    BY <1>1
<1>9. i \in Nat /\ j \in Nat
    BY <1>1
<1>10. ASSUME k \in DOMAIN was,
              l \in DOMAIN was => Before(k) < Before(l)
       PROVE  After(k) < After(l)
    <2>1. i # j
        BY <1>5, <1>8, <1>10
    <2>2. ~(j < i)
        <3>1. j < i => Precedes(l, k, raw, format)
            BY <1>2, <1>8
        <3> QED
            BY <1>5, <1>6, <1>10, <3>1
    <2> QED
        BY <1>3, <1>8, <1>9, <2>1, <2>2
<1>11. ASSUME k \in DOMAIN was, format = "yaml", was[k] = fields[k]
       PROVE  block[After(k)].style = raw[Before(k)].style
    <2> DEFINE entries == EntriesOf(raw, format)
               kept == {e \in entries : raw[e].key = k /\ raw[e].value = fields[k]}
    <2>1. /\ {e \in entries : raw[e].key = k} = {Before(k)}
          /\ raw[Before(k)].value = was[k]
        <3>1. format # "json"
            BY <1>11
        <3> QED
            BY <1>4, <1>11, <3>1
    <2> HIDE DEF entries
    <2>2. kept = {Before(k)}
        BY <1>11, <2>1
    <2>3. Least(kept) = Before(k) /\ kept # {}
        <3>1. Before(k) \in Nat
            BY <1>5, <1>11
        <3> QED
            BY <2>2, <3>1 DEF Least
    <2>4. StyleOf(k, fields[k], raw, format) = raw[Least(kept)].style
        BY <1>11, <2>3, Zenon DEF StyleOf, entries
    <2> QED
        BY <1>7, <2>3, <2>4
<1> QED
    BY <1>10, <1>11 DEF Before, After

(* A block that an edit re-encodes has the line terminator of its          *)
(* document's delimiters on every line, so that an edit does not mix       *)
(* terminators.                                                            *)
THEOREM TerminatorsKept == Spec => TerminatorsSurvive
<1>1. ASSUME MInv, Next, stored' # stored, held.raw # <<>>, ReadsAs(stored', held),
             held.fields # Parse(stored).content.fields
      PROVE  LET raw == Parse(stored').content.raw
             IN \A i \in 1..Len(raw) :
                    IsLineEnd(raw[i]) => raw[i] = LineEnding(Parse(stored).layout)
    <2> DEFINE after == Parse(stored').content
               before == Parse(stored).content
               ending == LineEnding(Parse(stored).layout)
    <2>1. Rewritten(after.raw, after.format, after.fields, before.raw, ending)
        BY <1>1, UpdatedBlock, Zenon
    <2> QED
        BY <2>1, Zenon DEF Rewritten
<1>2. MInv /\ [Next]_vars =>
          [stored' # stored /\ held.raw # <<>> /\ ReadsAs(stored', held)
             /\ held.fields # Parse(stored).content.fields
           => LET raw == Parse(stored').content.raw
              IN \A i \in 1..Len(raw) :
                     IsLineEnd(raw[i]) => raw[i] = LineEnding(Parse(stored).layout)]_vars
    BY <1>1, Zenon
<1> QED
    BY <1>2, MInvHolds, PTL DEF Spec, TerminatorsSurvive

(* The places and the styles of an update that is read back.               *)
OrderKept ==
    LET before == Parse(stored).content
        after == Parse(stored').content
        Place(key, c) == PlaceOf(key, c.raw, c.format)
        Style(key, c) == c.raw[Place(key, c)].style
    IN \A k, l \in DOMAIN after.fields :
          /\ k \in DOMAIN before.fields /\ l \in DOMAIN before.fields
                 /\ Place(k, before) < Place(l, before)
             => Place(k, after) < Place(l, after)
          /\ k \in DOMAIN before.fields /\ l \notin DOMAIN before.fields
             => Place(k, after) < Place(l, after)
          /\ k \in DOMAIN before.fields /\ after.format = "yaml"
                 /\ before.fields[k] = after.fields[k]
             => Style(k, before) = Style(k, after)

(* A re-encoded block keeps the order of the keys it had, puts new keys    *)
(* after them, and in YAML keeps the style of every value that did not     *)
(* change, also when the edit removed a key and put it back.               *)
THEOREM AuthoredOrderKept == Spec => AuthoredOrderSurvives
<1>1. ASSUME MInv, Next, stored' # stored, held.raw # <<>>, ReadsAs(stored', held)
      PROVE  OrderKept
    <2> DEFINE after == Parse(stored').content
               before == Parse(stored).content
               ending == LineEnding(Parse(stored).layout)
    <2>1. /\ before.raw \in Seq(Marks)
          /\ before.format \in {"yaml", "toml", "json"}
          /\ after.format = before.format /\ AreFields(after.fields)
          /\ Decode(before.raw, before.format) = [ok |-> TRUE, fields |-> before.fields]
          /\ \/ after.raw = before.raw
             \/ Rewritten(after.raw, after.format, after.fields, before.raw, ending)
          /\ after.fields # before.fields =>
                 Rewritten(after.raw, after.format, after.fields, before.raw, ending)
        BY <1>1, UpdatedBlock, Zenon
    <2>2. CASE after.raw = before.raw /\ after.fields = before.fields
        BY <2>1, <2>2, Zenon DEF OrderKept
    <2>3. CASE Rewritten(after.raw, after.format, after.fields, before.raw, ending)
        <3> HIDE DEF after, before, ending
        <3>1. ASSUME NEW k \in DOMAIN after.fields, NEW l \in DOMAIN after.fields
              PROVE  /\ k \in DOMAIN before.fields /\ l \in DOMAIN before.fields
                            /\ PlaceOf(k, before.raw, before.format)
                                   < PlaceOf(l, before.raw, before.format)
                            => PlaceOf(k, after.raw, after.format)
                                   < PlaceOf(l, after.raw, after.format)
                     /\ k \in DOMAIN before.fields /\ l \notin DOMAIN before.fields
                            => PlaceOf(k, after.raw, after.format)
                                   < PlaceOf(l, after.raw, after.format)
                     /\ k \in DOMAIN before.fields /\ after.format = "yaml"
                            /\ before.fields[k] = after.fields[k]
                            => after.raw[PlaceOf(k, after.raw, after.format)].style
                                   = before.raw[PlaceOf(k, before.raw, before.format)].style
            <4> DEFINE format == before.format
                       raw == before.raw
                       block == after.raw
            <4>1. after.format = format
                BY <2>1
            <4>2. /\ raw \in Seq(Marks) /\ format \in {"yaml", "toml", "json"}
                  /\ AreFields(after.fields)
                  /\ Decode(raw, format) = [ok |-> TRUE, fields |-> before.fields]
                  /\ Rewritten(block, format, after.fields, raw, ending)
                BY <2>1, <2>3
            <4> HIDE DEF format, raw, block
            <4>3. /\ k \in DOMAIN before.fields /\ l \in DOMAIN before.fields
                         /\ PlaceOf(k, raw, format) < PlaceOf(l, raw, format)
                         => PlaceOf(k, block, format) < PlaceOf(l, block, format)
                  /\ k \in DOMAIN before.fields /\ l \notin DOMAIN before.fields
                         => PlaceOf(k, block, format) < PlaceOf(l, block, format)
                  /\ k \in DOMAIN before.fields /\ format = "yaml"
                         /\ before.fields[k] = after.fields[k]
                         => block[PlaceOf(k, block, format)].style
                                = raw[PlaceOf(k, raw, format)].style
                BY <4>2, OrderIsRewritten
            <4> QED
                BY <4>1, <4>3, Zenon DEF format, raw, block
        <3> QED
            BY <3>1, Zenon DEF OrderKept, after, before
    <2> QED
        BY <2>1, <2>2, <2>3
<1>2. MInv /\ [Next]_vars =>
          [stored' # stored /\ held.raw # <<>> /\ ReadsAs(stored', held)
           => OrderKept]_vars
    BY <1>1, Zenon
<1> QED
    BY <1>2, MInvHolds, PTL DEF Spec, AuthoredOrderSurvives, OrderKept
==============================================================================
