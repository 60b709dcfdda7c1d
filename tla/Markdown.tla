------------------------------ MODULE Markdown -------------------------------
(***************************************************************************)
(* Package markdown: a file split into front matter and body, and written  *)
(* back in the shape it had.  A file is a sequence of marks; a mark is a   *)
(* piece of text that the scanner, a decoder or an encoder tells apart:    *)
(* the byte-order mark, a delimiter, a line terminator, a run of blanks, a *)
(* brace, a NUL, some prose, or one "key: value" entry in the syntax of    *)
(* one format.  Concatenation of bytes is concatenation of marks, so two   *)
(* pieces with no terminator between them do end up on one line.           *)
(*                                                                         *)
(* The system around the pure functions is the caller's cycle: Get, edit,  *)
(* and a Put that package git serializes into the shape of the stored      *)
(* bytes.                                                                  *)
(*                                                                         *)
(* Left out: comments, nested values, and how an encoder lays out a value. *)
(* The style of an entry stands for all that a YAML node carries besides   *)
(* its value.                                                              *)
(***************************************************************************)
EXTENDS Integers, Sequences, FiniteSets

CONSTANTS
    MaxFrontMatterBytes,  \* the size of a block, in marks
    MaxFrontMatterLines,  \* the lines of a block
    InitialFiles,         \* the files a repository may hold
    EditKeys,             \* the keys and values a caller may set
    EditValues,
    EditBodies,           \* the bodies a caller may write
    EditFormats,          \* the formats a caller may ask for
    MaxEdits              \* bound: edits in a behaviour

(* Keys are ordered as strings are; 0 is the empty key.  The value 0 is    *)
(* nil.                                                                    *)
EmptyKey == 0
Nil == 0

Fences == [yaml |-> "---", toml |-> "+++"]
Formats == {"none", "yaml", "toml", "json"}

Mark(is) == [is |-> is, key |-> EmptyKey, value |-> Nil, style |-> "none"]
Entry(format, key, value, style) ==
    [is |-> format, key |-> key, value |-> value, style |-> style]

LF == Mark("lf")
CRLF == Mark("crlf")

Marks ==
    {Mark(is) : is \in {"bom", "---", "+++", "lf", "crlf", "blank", "{", "}",
                        "nul", "prose"}}
        \cup [is: {"yaml", "toml", "json"}, key: Nat, value: Nat,
              style: {"plain", "quoted"}]

ASSUME MarkdownAssumption ==
    /\ MaxFrontMatterBytes \in Nat
    /\ MaxFrontMatterLines \in Nat
    /\ MaxEdits \in Nat
    /\ InitialFiles \subseteq Seq(Marks)
    /\ EditKeys \subseteq Nat \ {EmptyKey}
    /\ EditValues \subseteq Nat
    /\ EditBodies \subseteq Seq(Marks)
    /\ EditFormats \subseteq Formats

IsLineEnd(mark) == mark.is \in {"lf", "crlf"}
IsSpace(mark) == IsLineEnd(mark) \/ mark.is = "blank"

Least(S) == CHOOSE x \in S : \A y \in S : x <= y
Greatest(S) == CHOOSE x \in S : \A y \in S : x >= y

EndsInLine(text) == text # <<>> /\ IsLineEnd(text[Len(text)])

(***************************************************************************)
(* Layout: the delimiter lines a block was written between.                *)
(***************************************************************************)
ZeroLayout == [bom |-> FALSE, open |-> <<>>, close |-> <<>>]

(* The terminator of Open, else that of Close, else LF. *)
LineEnding(layout) ==
    IF EndsInLine(layout.open) THEN layout.open[Len(layout.open)]
    ELSE IF EndsInLine(layout.close) THEN layout.close[Len(layout.close)]
    ELSE LF

DefaultLayout(format) ==
    IF format \in DOMAIN Fences
    THEN LET fence == <<Mark(Fences[format]), LF>>
         IN [bom |-> FALSE, open |-> fence, close |-> fence]
    ELSE ZeroLayout

(***************************************************************************)
(* scan: the five slots of a file, or a block that is damaged.             *)
(***************************************************************************)
Rejected == [ok |-> FALSE]

(* A slip: the byte-order mark is stripped and forgotten. *)
PartsWithoutMark(layout, format, raw, body) ==
    [ok |-> TRUE, layout |-> [layout EXCEPT !.bom = FALSE], format |-> format,
     raw |-> raw, body |-> body]

Parts(layout, format, raw, body) ==
    [ok |-> TRUE, layout |-> layout, format |-> format, raw |-> raw, body |-> body]

(* lineAt: where the line that starts at i ends, and the next one starts. *)
NextLine(text, i) ==
    LET ends == {j \in i..Len(text) : IsLineEnd(text[j])}
    IN IF ends = {} THEN Len(text) + 1 ELSE Least(ends) + 1

LineStarts(text, from) ==
    {i \in from..Len(text) : i = from \/ IsLineEnd(text[i - 1])}

IsDelimiterLine(text, i, fence) ==
    /\ i <= Len(text)
    /\ text[i].is = fence
    /\ \A j \in (i + 1)..(NextLine(text, i) - 1) : IsSpace(text[j])

(* Only the delimiter that opened the block closes it, the first time it   *)
(* is a line of its own, and the scan for it gives up at the byte limit.   *)
ScanDelimited(rest, bom, format) ==
    LET start == NextLine(rest, 1)
        closers == {i \in LineStarts(rest, start) :
                        IsDelimiterLine(rest, i, Fences[format])}
        at == Least(closers)
        next == NextLine(rest, at)
    IN IF closers = {} \/ at - start > MaxFrontMatterBytes THEN Rejected
       ELSE Parts([bom |-> bom, open |-> SubSeq(rest, 1, start - 1),
                   close |-> SubSeq(rest, at, next - 1)],
                  format, SubSeq(rest, start, at - 1), SubSeq(rest, next, Len(rest)))

(* A leading brace counts only when one complete object follows within the *)
(* limit, with nothing but blanks after it on its last line.               *)
IsObject(text, end) ==
    /\ text[1].is = "{" /\ text[end].is = "}"
    /\ \A i \in 2..(end - 1) : text[i].is = "json" \/ IsSpace(text[i])

ObjectEnds(rest) ==
    {e \in 2..Len(rest) :
        /\ e <= MaxFrontMatterBytes
        /\ IsObject(rest, e)
        /\ \A i \in (e + 1)..(NextLine(rest, e + 1) - 1) : IsSpace(rest[i])}

ScanJSON(rest, bom, end) ==
    LET next == NextLine(rest, end + 1)
    IN Parts([bom |-> bom, open |-> <<>>, close |-> SubSeq(rest, end + 1, next - 1)],
             "json", SubSeq(rest, 1, end), SubSeq(rest, next, Len(rest)))

RejectNUL(parts) ==
    IF parts.ok /\ \E i \in 1..Len(parts.raw) : parts.raw[i].is = "nul"
    THEN Rejected ELSE parts

Scan(data) ==
    LET bom == data # <<>> /\ data[1].is = "bom"
        rest == IF bom THEN Tail(data) ELSE data
        opened == {f \in DOMAIN Fences : IsDelimiterLine(rest, 1, Fences[f])}
    IN IF rest # <<>> /\ rest[1].is = "{" /\ ObjectEnds(rest) # {}
       THEN RejectNUL(ScanJSON(rest, bom, CHOOSE e \in ObjectEnds(rest) : TRUE))
       ELSE IF opened = {} THEN Parts(ZeroLayout, "none", <<>>, data)
       ELSE RejectNUL(ScanDelimited(rest, bom, CHOOSE f \in opened : TRUE))

(***************************************************************************)
(* The codecs.  A block is a mapping when every mark of it is an entry of  *)
(* its format, on a line of its own.  YAML also reads a JSON object, which *)
(* is how its own encoder writes an empty mapping.                         *)
(***************************************************************************)
NoFields == [k \in {} |-> Nil]

Positions(raw, format) == {i \in 1..Len(raw) : raw[i].is = format}

Significant(raw) == {i \in 1..Len(raw) : ~IsSpace(raw[i])}

IsBlockMapping(raw, format) ==
    /\ Significant(raw) = Positions(raw, format)
    /\ \A i \in 1..(Len(raw) - 1) :
           raw[i].is = format => IsSpace(raw[i + 1])

IsFlowMapping(raw) ==
    LET marks == Significant(raw)
        object == SubSeq(raw, Least(marks), Greatest(marks))
    IN Cardinality(marks) > 1 /\ IsObject(object, Len(object))

(* The entries of a block, in whichever syntax it is written. *)
EntriesOf(raw, format) ==
    IF format = "json" \/ (format = "yaml" /\ IsFlowMapping(raw))
    THEN Positions(raw, "json") ELSE Positions(raw, format)

IsMapping(raw, format) ==
    \/ format \in DOMAIN Fences /\ IsBlockMapping(raw, format)
    \/ format \in {"json", "yaml"} /\ IsFlowMapping(raw)

(* A key written twice is damage in YAML and TOML; in JSON the last wins.  *)
Repeats(raw, format) ==
    \E i, j \in EntriesOf(raw, format) : i # j /\ raw[i].key = raw[j].key

Decode(raw, format) ==
    LET entries == EntriesOf(raw, format)
    IN IF ~IsMapping(raw, format) \/ (format # "json" /\ Repeats(raw, format))
       THEN Rejected
       ELSE [ok |-> TRUE,
             fields |-> [k \in {raw[i].key : i \in entries} |->
                            raw[Greatest({i \in entries : raw[i].key = k})].value]]

(* Equality of what two maps say: no map is the empty map, and a NaN is    *)
(* one value here, as valuesEqual has it.                                  *)
FieldsEqual(a, b) == a = b

(* A key's place in the authored block: that of its first entry. *)
Authored(raw, format) == {raw[i].key : i \in EntriesOf(raw, format)}

PlaceOf(key, raw, format) ==
    Least({i \in EntriesOf(raw, format) : raw[i].key = key})

(* A slip: the order of the authored block is not recovered. *)
PrecedesSorted(k, l, raw, format) == k < l

(* The authored keys that survive in their authored order, then the rest   *)
(* sorted.                                                                 *)
Precedes(k, l, raw, format) ==
    LET authored == Authored(raw, format)
    IN IF k \in authored
       THEN l \in authored => PlaceOf(k, raw, format) < PlaceOf(l, raw, format)
       ELSE l \notin authored /\ k < l

OrderedKeys(fields, raw, format) ==
    CHOOSE keys \in [1..Cardinality(DOMAIN fields) -> DOMAIN fields] :
        \A i, j \in DOMAIN keys : i < j => Precedes(keys[i], keys[j], raw, format)

(* The style of an entry: YAML keeps the node of a value that did not      *)
(* change, and everything else is written as its encoder writes it.        *)
StyleOf(key, value, raw, format) ==
    LET kept == {i \in EntriesOf(raw, format) : raw[i].key = key /\ raw[i].value = value}
    IN IF format = "yaml" /\ kept # {} THEN raw[Least(kept)].style ELSE "plain"

Lines(fields, raw, format) ==
    LET keys == OrderedKeys(fields, raw, format)
    IN [i \in 1..(2 * Len(keys)) |->
            LET key == keys[(i + 1) \div 2]
            IN IF i % 2 = 0 THEN LF
               ELSE Entry(format, key, fields[key], StyleOf(key, fields[key], raw, format))]

Encodable(fields, format) ==
    format = "toml" => \A k \in DOMAIN fields : fields[k] # Nil

(* The encoders' output, with LF terminators.  A JSON object has none of   *)
(* its own after the closing brace.                                        *)
Encode(fields, raw, format) ==
    CASE format = "json"                       ->
             <<Mark("{"), LF>> \o Lines(fields, raw, format) \o <<Mark("}")>>
      [] format = "yaml" /\ fields = NoFields  -> <<Mark("{"), Mark("}"), LF>>
      [] OTHER                                 -> Lines(fields, raw, format)

(***************************************************************************)
(* FrontMatter.Validate, Parse and Bytes.                                  *)
(***************************************************************************)
Content(format, raw, fields, body) ==
    [format |-> format, raw |-> raw, fields |-> fields, body |-> body]

Valid(content) ==
    /\ content.format = "none" => content.raw = <<>> /\ content.fields = NoFields
    /\ EmptyKey \notin DOMAIN content.fields

LineCount(raw) == Cardinality({i \in 1..Len(raw) : IsLineEnd(raw[i])})

Document(content, layout) == [ok |-> TRUE, content |-> content, layout |-> layout]

(* A slip: Parse trusts the decoder and does not validate what it decoded. *)
ParseWithoutValidate(data) ==
    LET p == Scan(data)
    IN IF ~p.ok THEN Rejected
       ELSE IF p.format = "none"
       THEN Document(Content("none", <<>>, NoFields, p.body), p.layout)
       ELSE LET decoded == Decode(p.raw, p.format)
            IN IF LineCount(p.raw) > MaxFrontMatterLines \/ ~decoded.ok THEN Rejected
               ELSE Document(Content(p.format, p.raw, decoded.fields, p.body), p.layout)

Parse(data) ==
    LET p == Scan(data)
        decoded == Decode(p.raw, p.format)
        content == Content(p.format, p.raw, decoded.fields, p.body)
    IN IF ~p.ok THEN Rejected
       ELSE IF p.format = "none"
       THEN Document(Content("none", <<>>, NoFields, p.body), p.layout)
       ELSE IF LineCount(p.raw) > MaxFrontMatterLines \/ ~decoded.ok THEN Rejected
       ELSE IF ~Valid(content) THEN Rejected
       ELSE Document(content, p.layout)

(* A slip: the encoder's LF goes out as it is. *)
KeepLF(block, ending) == block

ApplyLineEnding(block, ending) ==
    [i \in DOMAIN block |-> IF IsLineEnd(block[i]) THEN ending ELSE block[i]]

(* A slip: every write re-encodes. *)
AlwaysReencode(content, ending) ==
    IF content.format = "none" THEN [ok |-> TRUE, block |-> <<>>]
    ELSE IF Encodable(content.fields, content.format)
    THEN [ok |-> TRUE,
          block |-> ApplyLineEnding(
                        Encode(content.fields, content.raw, content.format), ending)]
    ELSE Rejected

(* The three arms: nothing to write, the authored block as it is while it  *)
(* still says what the fields say, and a re-encoded one.                   *)
FrontMatterBlock(content, ending) ==
    LET authored == Decode(content.raw, content.format)
        Block(block) == [ok |-> TRUE, block |-> block]
    IN IF content.format = "none" THEN Block(<<>>)
       ELSE IF content.raw = <<>> /\ content.fields = NoFields
       THEN Block(IF content.format = "json" THEN <<Mark("{"), Mark("}")>> ELSE <<>>)
       ELSE IF content.raw # <<>> /\ ~authored.ok THEN Rejected
       ELSE IF content.raw # <<>> /\ FieldsEqual(authored.fields, content.fields)
       THEN Block(content.raw)
       ELSE IF Encodable(content.fields, content.format)
       THEN Block(ApplyLineEnding(
                      Encode(content.fields, content.raw, content.format), ending))
       ELSE Rejected

(* A slip: a block is left as it is, whatever follows it. *)
LeaveUnterminated(block, layout, body) == block

(* The block's last line is ended when a delimiter or the body would       *)
(* otherwise be glued to it.                                               *)
TerminateBlock(block, layout, body) ==
    LET glued == layout.open # <<>> \/ (layout.close = <<>> /\ body # <<>>)
    IN IF block # <<>> /\ ~EndsInLine(block) /\ glued
       THEN Append(block, LineEnding(layout)) ELSE block

BodyOpensFrontMatter(body) ==
    LET p == Scan(body) IN ~p.ok \/ p.format # "none"

Bytes(content, stored) ==
    LET layout == IF stored = ZeroLayout THEN DefaultLayout(content.format) ELSE stored
        encoded == FrontMatterBlock(content, LineEnding(layout))
        refused == \/ ~Valid(content)
                   \/ content.format = "none" /\ BodyOpensFrontMatter(content.body)
    IN IF refused \/ ~encoded.ok THEN Rejected
       ELSE [ok |-> TRUE,
             data |-> (IF layout.bom THEN <<Mark("bom")>> ELSE <<>>) \o layout.open
                        \o TerminateBlock(encoded.block, layout, content.body)
                        \o layout.close \o content.body]

Format(content) == Bytes(content, ZeroLayout)

(* Package git's use of it: the stored bytes lend their shape to the new   *)
(* ones, and bytes that do not parse have none to lend.                    *)
SerializeInto(stored, content) ==
    LET previous == Parse(stored)
    IN IF previous.ok THEN Bytes(content, previous.layout) ELSE Format(content)

(***************************************************************************)
(* The caller's cycle.                                                     *)
(***************************************************************************)
NoContent == [format |-> "nothing held"]

VARIABLES
    stored,  \* the file in the repository
    held,    \* the content a caller is editing
    edits    \* edits made so far

vars == <<stored, held, edits>>

Init ==
    /\ stored \in InitialFiles
    /\ held = NoContent
    /\ edits = 0

Get ==
    /\ held = NoContent
    /\ Parse(stored).ok
    /\ held' = Parse(stored).content
    /\ UNCHANGED <<stored, edits>>

(* A file that Get refuses is repaired by a document assembled by hand. *)
Compose(body) ==
    /\ held = NoContent
    /\ ~Parse(stored).ok
    /\ held' = Content("none", <<>>, NoFields, body)
    /\ UNCHANGED <<stored, edits>>

Edit(content) ==
    /\ held # NoContent
    /\ edits < MaxEdits
    /\ held' = content
    /\ edits' = edits + 1
    /\ UNCHANGED stored

SetField(key, value) ==
    /\ held.format # "none"
    /\ Edit([held EXCEPT !.fields =
                 [k \in DOMAIN held.fields \cup {key} |->
                      IF k = key THEN value ELSE held.fields[k]]])

RemoveField(key) ==
    /\ key \in DOMAIN held.fields
    /\ Edit([held EXCEPT !.fields =
                 [k \in DOMAIN held.fields \ {key} |-> held.fields[k]]])

SetBody(body) == Edit([held EXCEPT !.body = body])

(* Other front matter: the block of the old format goes with it. *)
SetFormat(format) ==
    /\ format # held.format
    /\ Edit(Content(format, <<>>, IF format = "none" THEN NoFields ELSE held.fields,
                    held.body))

Update ==
    /\ held # NoContent
    /\ SerializeInto(stored, held).ok
    /\ stored' = SerializeInto(stored, held).data
    /\ held' = NoContent
    /\ UNCHANGED edits

Refuse ==
    /\ held # NoContent
    /\ ~SerializeInto(stored, held).ok
    /\ held' = NoContent
    /\ UNCHANGED <<stored, edits>>

EditStep ==
    /\ held # NoContent
    /\ \/ \E key \in EditKeys, value \in EditValues : SetField(key, value)
       \/ \E key \in EditKeys : RemoveField(key)
       \/ \E body \in EditBodies : SetBody(body)
       \/ \E format \in EditFormats : SetFormat(format)

Next ==
    \/ Get
    \/ \E body \in EditBodies : Compose(body)
    \/ EditStep
    \/ Update
    \/ Refuse

Spec == Init /\ [][Next]_vars

(***************************************************************************)
(* Properties.                                                             *)
(***************************************************************************)

(* A caller only ever holds front matter that core accepts: what Parse     *)
(* hands out is valid, however odd the file, and legal edits keep it so    *)
(* (the comment at parse.go:87).                                           *)
TypeOK ==
    /\ stored \in Seq(Marks)
    /\ edits \in 0..MaxEdits
    /\ held # NoContent =>
           /\ held.format \in Formats
           /\ held.raw \in Seq(Marks)
           /\ held.body \in Seq(Marks)
           /\ Valid(held)

(* A file that parses is written back byte for byte: the slots of Parse    *)
(* are a partition of the file, whatever its marks, blanks, terminators    *)
(* and repeated keys (doc.go, "The concatenation identity"), and nothing   *)
(* Parse returns is refused by Bytes.                                      *)
UneditedIsVerbatim ==
    LET read == Parse(stored)
    IN read.ok => Bytes(read.content, read.layout) = [ok |-> TRUE, data |-> stored]

ReadsAs(data, content) ==
    LET read == Parse(data)
    IN /\ read.ok
       /\ read.content.format = content.format
       /\ read.content.fields = content.fields
       /\ read.content.body = content.body

(* The two edits that the stored shape cannot carry: other front matter    *)
(* between its delimiters, and a body right after a closing line that has  *)
(* no terminator.                                                          *)
FitsTheShape(content, layout) ==
    layout # ZeroLayout =>
        /\ Parse(stored).content.format = content.format
        /\ content.body # <<>> /\ layout.close # <<>> => EndsInLine(layout.close)

FitsTheLimits(content, layout) ==
    LET block == FrontMatterBlock(content, LineEnding(layout)).block
    IN Len(block) <= MaxFrontMatterBytes /\ LineCount(block) <= MaxFrontMatterLines

LayoutOf(data) == IF Parse(data).ok THEN Parse(data).layout ELSE ZeroLayout

(* What is written into a shape that can carry it is read back as the      *)
(* content that was asked for: no edit turns the body into front matter,   *)
(* glues two lines together, or changes a field it did not name.           *)
ReadsBackInItsOwnShape ==
    [][stored' # stored /\ FitsTheShape(held, LayoutOf(stored))
                        /\ FitsTheLimits(held, LayoutOf(stored))
          => ReadsAs(stored', held)]_vars

(* What Format promises (serialize.go:338) and package git relies on       *)
(* (git/doc.go:43): whatever is written reads back.                        *)
WrittenDocumentsReadBack ==
    [][stored' # stored => ReadsAs(stored', held)]_vars

(* The write of a document that was read, whose block still says what its  *)
(* fields say, does not move a byte before the closing delimiter: a body   *)
(* edit is a diff of the body, and an edit that was undone is none at all. *)
FrontOf(data) ==
    LET read == Parse(data)
    IN (IF read.layout.bom THEN <<Mark("bom")>> ELSE <<>>)
           \o read.layout.open \o read.content.raw

MetadataStaysPut ==
    [][stored' # stored /\ held.raw # <<>>
          /\ Decode(held.raw, held.format).fields = held.fields
       => SubSeq(stored', 1, Len(FrontOf(stored))) = FrontOf(stored)]_vars

(* A re-encoded block keeps the order of the keys it had, puts new keys    *)
(* after them, and in YAML keeps the style of every value that did not     *)
(* change, also when the edit removed a key and put it back.               *)
AuthoredOrderSurvives ==
    [][stored' # stored /\ held.raw # <<>> /\ ReadsAs(stored', held)
       => LET before == Parse(stored).content
              after == Parse(stored').content
              Place(key, c) == PlaceOf(key, c.raw, c.format)
              Style(key, c) == c.raw[Place(key, c)].style
          IN \A k, l \in DOMAIN after.fields :
                /\ k \in DOMAIN before.fields /\ l \in DOMAIN before.fields
                       /\ Place(k, before) < Place(l, before)
                   => Place(k, after) < Place(l, after)
                /\ k \in DOMAIN before.fields /\ l \notin DOMAIN before.fields
                   => Place(k, after) < Place(l, after)
                /\ k \in DOMAIN before.fields /\ after.format = "yaml"
                       /\ before.fields[k] = after.fields[k]
                   => Style(k, before) = Style(k, after)]_vars

(* A block that an edit re-encodes has the line terminator of its          *)
(* document's delimiters on every line, so that an edit does not mix       *)
(* terminators.                                                            *)
TerminatorsSurvive ==
    [][stored' # stored /\ held.raw # <<>> /\ ReadsAs(stored', held)
          /\ held.fields # Parse(stored).content.fields
       => LET raw == Parse(stored').content.raw
          IN \A i \in 1..Len(raw) :
                 IsLineEnd(raw[i]) => raw[i] = LineEnding(Parse(stored).layout)]_vars

(***************************************************************************)
(* What the proofs need besides.  A caller's content has finitely many     *)
(* keys, and the block it carries is that of the file in the repository:   *)
(* edits keep the block or drop it, and nobody writes in between.          *)
(***************************************************************************)
HeldIsContent ==
    held # NoContent =>
        /\ held = Content(held.format, held.raw, held.fields, held.body)
        /\ IsFiniteSet(DOMAIN held.fields)
        /\ DOMAIN held.fields \subseteq Nat
        /\ held.fields \in [DOMAIN held.fields -> Nat]

BlockIsTheStoredOne ==
    held # NoContent /\ held.raw # <<>> =>
        /\ Parse(stored).ok
        /\ held.raw = Parse(stored).content.raw
        /\ held.format = Parse(stored).content.format

MInv == TypeOK /\ HeldIsContent /\ BlockIsTheStoredOne
==============================================================================
