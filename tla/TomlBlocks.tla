----------------------------- MODULE TomlBlocks ------------------------------
(***************************************************************************)
(* A TOML front-matter block: the lexer of package markdown that recovers  *)
(* the authored order of its top-level keys (tomlTopLevelKeys), and the    *)
(* encoder that writes an edited block back in that order.                 *)
(*                                                                         *)
(* A block is a sequence of marks, one for each byte the lexer tells       *)
(* apart; it is LF only, as normalizeLF leaves it.  The author writes the  *)
(* block one logical line at a time, each a line TOML allows where it      *)
(* stands, and the model keeps beside the text what the lines mean: the    *)
(* order in which the top-level keys appear and the value of each.  The    *)
(* lexer sees the text alone.  A caller then edits one field and the block *)
(* is encoded.                                                             *)
(*                                                                         *)
(* A value is a scalar, a map or a list of values: what decides how TOML   *)
(* writes it.  Left out: what the scalars are, the entries of a map, and   *)
(* every block the decoder refuses, which never reaches the lexer.  The    *)
(* author does not write all of TOML: no [a] after an [a.x], no dotted key *)
(* in a table and no line feed in a name.                                  *)
(***************************************************************************)
EXTENDS Integers, Sequences, FiniteSets, SequencesExt

CONSTANTS
    Names,      \* key names in sorted order: a sequence of sequences of marks
    Scalars,    \* the ways a scalar is written
    Comments,   \* what a comment may hold
    Gaps,       \* what may stand between two elements of an array
    AuthorValues,   \* the values an author may write
    EditKeys,   \* the keys and values a caller may set
    EditValues,
    MaxLines,   \* bound: logical lines the author writes
    MaxMarks    \* bound: the length of an authored block

LF == "lf"          \* a line feed
SP == "sp"          \* a space or a tab
DQ == "dq"          \* the quote of a basic string
SQ == "sq"          \* the quote of a literal string
BS == "bs"          \* a backslash
Coded == "u0061"    \* what follows the backslash in the escape for "a"

Bare == {"a", "b", "c", "x", "y", "1"}
Opening == {"[", "{"}
Closing == {"]", "}"}
Marks == Bare \cup Opening \cup Closing \cup {LF, SP, DQ, SQ, BS, Coded, "#", ",", ".", "="}

Quoted(text, quote) == <<quote>> \o text \o <<quote>>
Tripled(text, quote) == <<quote, quote, quote>> \o text \o <<quote, quote, quote>>
Braced(text) == <<"{">> \o text \o <<"}">>

(* The values of fields, nested at most twice. *)
Scalar == [kind |-> "scalar", elems |-> <<>>]
Map == [kind |-> "map", elems |-> <<>>]
List(elems) == [kind |-> "list", elems |-> elems]

FlatLists == {List(elems) : elems \in BoundedSeq({Scalar, Map}, 2)}
Values == {Scalar, Map} \cup FlatLists \cup {List(<<inner>>) : inner \in FlatLists}

(***************************************************************************)
(* What TOML lets an author write, as far as the lexer can tell.           *)
(***************************************************************************)
(* The backslashes of a string's content that escape the mark after them:  *)
(* every one but those that are escaped, and none in a literal string.     *)
AreEscapes(escapes, content, quote) ==
    \A i \in DOMAIN content :
        i \in escapes <=> quote = DQ /\ content[i] = BS /\ i - 1 \notin escapes

(* The content of a string ends before its quotes do, on one line ... *)
IsOneLine(content, quote) ==
    /\ LF \notin ToSet(content)
    /\ \E escapes \in SUBSET DOMAIN content :
          /\ AreEscapes(escapes, content, quote)
          /\ Len(content) \notin escapes
          /\ \A i \in DOMAIN content : content[i] = quote => i - 1 \in escapes

(* ... or on several, where only three quotes in a row would end it. *)
IsMultiline(content, quote) ==
    \E escapes \in SUBSET DOMAIN content :
        /\ AreEscapes(escapes, content, quote)
        /\ Len(content) \notin escapes
        /\ \A i \in 1..(Len(content) - 2) :
              (\A k \in i..(i + 2) : content[k] = quote) => i - 1 \in escapes

(* A number, a date or a boolean has none of the marks that mean something. *)
IsPlain(scalar) ==
    ToSet(scalar) \cap (Opening \cup Closing \cup {LF, "#", DQ, SQ}) = {}

IsScalar(scalar) ==
    \/ IsPlain(scalar)
    \/ \E quote \in {DQ, SQ} :
          \/ /\ Len(scalar) >= 2
             /\ LET content == SubSeq(scalar, 2, Len(scalar) - 1)
                IN scalar = Quoted(content, quote) /\ IsOneLine(content, quote)
          \/ /\ Len(scalar) >= 6
             /\ LET content == SubSeq(scalar, 4, Len(scalar) - 3)
                IN scalar = Tripled(content, quote) /\ IsMultiline(content, quote)

(* Blanks, line ends, and comments that end with their lines. *)
IsGap(gap) ==
    \A i \in DOMAIN gap : gap[i] \notin {SP, LF} =>
        /\ \E j \in 1..i : gap[j] = "#" /\ \A k \in j..i : gap[k] # LF
        /\ \E j \in i..Len(gap) : gap[j] = LF

ASSUME TomlBlocksAssumption ==
    /\ Names \in Seq(Seq(Marks))
    /\ \A i, j \in DOMAIN Names : Names[i] = Names[j] => i = j
    /\ \A i \in DOMAIN Names : LF \notin ToSet(Names[i])
    /\ Scalars \cup Comments \cup Gaps \subseteq Seq(Marks)
    /\ \A scalar \in Scalars : IsScalar(scalar)
    /\ \A comment \in Comments : LF \notin ToSet(comment)
    /\ \A gap \in Gaps : IsGap(gap)
    /\ EditKeys \subseteq ToSet(Names)
    /\ AuthorValues \cup EditValues \subseteq Values
    /\ MaxLines \in Nat
    /\ MaxMarks \in Nat

(***************************************************************************)
(* The lexer.  Positions run from 1 to Len(b) + 1, the end of the block.   *)
(***************************************************************************)
Lesser(i, j) == IF i <= j THEN i ELSE j

Positions(b) == 1..(Len(b) + 1)

At(b, i, marks) == i <= Len(b) /\ b[i] \in marks

(* The first position from i on whose mark is among marks, or the end. *)
UpTo(b, i, marks) ==
    CHOOSE j \in i..(Len(b) + 1) :
        /\ j <= Len(b) => b[j] \in marks
        /\ \A k \in i..(j - 1) : b[k] \notin marks

tomlSkipLine(b, i) == Lesser(UpTo(b, i, {LF}) + 1, Len(b) + 1)

(* The escape at the backslash at i: what it spells, and where it ends.    *)
tomlEscape(b, i) ==
    IF i = Len(b) THEN [name |-> <<BS>>, next |-> i + 1]
    ELSE [name |-> CASE b[i + 1] \in {DQ, BS} -> <<b[i + 1]>>
                     [] b[i + 1] = Coded -> <<"a">>
                     [] OTHER -> <<BS, b[i + 1]>>,
          next |-> i + 2]

(* A quoted part may be left open by the end of its line. *)
PastQuote(b, j, quote) == IF At(b, j, {quote}) THEN j + 1 ELSE j

BasicPart(b, i) ==
    LET read[j \in Positions(b)] ==
            IF ~At(b, j, Marks \ {DQ, LF})
            THEN [name |-> <<>>, next |-> PastQuote(b, j, DQ)]
            ELSE LET one == IF b[j] = BS THEN tomlEscape(b, j)
                            ELSE [name |-> <<b[j]>>, next |-> j + 1]
                     rest == read[one.next]
                 IN [name |-> one.name \o rest.name, next |-> rest.next]
    IN read[i + 1]

LiteralPart(b, i) ==
    LET close == UpTo(b, i + 1, {SQ, LF})
    IN [name |-> SubSeq(b, i + 1, close - 1), next |-> PastQuote(b, close, SQ)]

BarePart(b, i) ==
    LET end == UpTo(b, i, Marks \ Bare)
    IN [name |-> SubSeq(b, i, end - 1), next |-> end]

(* A key part that nothing is read of ends where it starts. *)
tomlKeyPart(b, i) ==
    IF At(b, i, {DQ}) THEN BasicPart(b, i)
    ELSE IF At(b, i, {SQ}) THEN LiteralPart(b, i)
    ELSE BarePart(b, i)

PastBlanks(b, i) == UpTo(b, i, Marks \ {SP})

NotAKey == 0

(* The first part of the key at i, and where its value starts. *)
tomlDottedKey(b, i) ==
    LET first == tomlKeyPart(b, i)
        past[j \in Positions(b)] ==
            IF At(b, j, {SP}) THEN past[j + 1]
            ELSE IF At(b, j, {"="}) THEN j + 1
            ELSE IF At(b, j, {"."})
            THEN LET part == PastBlanks(b, j + 1)
                     next == tomlKeyPart(b, part).next
                 IN IF next = part THEN NotAKey ELSE past[next]
            ELSE NotAKey
    IN [name |-> first.name,
        next |-> IF first.next = i THEN NotAKey ELSE past[first.next]]

tomlHeaderName(b, i) ==
    LET open == IF At(b, i + 1, {"["}) THEN i + 2 ELSE i + 1
        part == tomlKeyPart(b, PastBlanks(b, open))
    IN [name |-> part.name, next |-> tomlSkipLine(b, part.next)]

(* A slip: the first three quotes of the run close the string. *)
PastFirstThree(run, j) == j + 3

PastDelimiter(run, j) == Lesser(run, j + 5)

(* One or two quotes are content; a run of three, four or five closes the  *)
(* string and its last three are the delimiter.                            *)
tomlSkipMultilineString(b, i, quote) ==
    LET past[j \in Positions(b)] ==
            IF j > Len(b) THEN j
            ELSE IF quote = DQ /\ b[j] = BS THEN past[Lesser(j + 2, Len(b) + 1)]
            ELSE IF b[j] # quote THEN past[j + 1]
            ELSE LET run == UpTo(b, j, Marks \ {quote})
                 IN IF run - j < 3 THEN past[run] ELSE PastDelimiter(run, j)
    IN past[i]

tomlSkipString(b, i) ==
    LET quote == b[i]
        past[j \in Positions(b)] ==
            IF ~At(b, j, Marks \ {LF}) THEN tomlSkipLine(b, i)
            ELSE IF b[j] = quote THEN j + 1
            ELSE IF quote = DQ /\ b[j] = BS /\ j < Len(b) THEN past[j + 2]
            ELSE past[j + 1]
    IN IF At(b, i + 1, {quote}) /\ At(b, i + 2, {quote})
       THEN tomlSkipMultilineString(b, i + 3, quote)
       ELSE past[i + 1]

(* The next logical line: bracket depth is carried across line ends. *)
tomlSkipValue(b, i) ==
    LET past[j \in Positions(b)] == [depth \in Nat |->
            IF j > Len(b) THEN j
            ELSE CASE b[j] \in {LF, "#"} ->
                        LET line == tomlSkipLine(b, j)
                        IN IF depth = 0 THEN line ELSE past[line][depth]
                   [] b[j] \in {DQ, SQ} -> past[tomlSkipString(b, j)][depth]
                   [] b[j] \in Opening -> past[j + 1][depth + 1]
                   [] b[j] \in Closing ->
                        past[j + 1][IF depth > 0 THEN depth - 1 ELSE 0]
                   [] OTHER -> past[j + 1][depth]]
    IN past[i][0]

(* record: a name counts where it is seen first. *)
Recorded(names) ==
    FlattenSeq([i \in DOMAIN names |->
        IF \E j \in 1..(i - 1) : names[j] = names[i] THEN <<>> ELSE <<names[i]>>])

tomlTopLevelKeys(b) ==
    LET scan[i \in Positions(b)] == [past \in BOOLEAN |->
            IF i > Len(b) THEN <<>>
            ELSE CASE b[i] \in {SP, LF} -> scan[i + 1][past]
                   [] b[i] = "#" -> scan[tomlSkipLine(b, i)][past]
                   [] b[i] = "[" ->
                        LET header == tomlHeaderName(b, i)
                        IN <<header.name>> \o scan[header.next][TRUE]
                   [] OTHER ->
                        LET key == tomlDottedKey(b, i)
                        IN IF key.next = NotAKey THEN scan[tomlSkipLine(b, i)][past]
                           ELSE (IF past THEN <<>> ELSE <<key.name>>)
                                    \o scan[tomlSkipValue(b, key.next)][past]]
    IN Recorded(scan[1][FALSE])

(***************************************************************************)
(* The encoder.  fields maps the names of a block to their values.         *)
(***************************************************************************)
(* The names that are wanted, in their order. *)
Kept(names, wanted) ==
    FlattenSeq([i \in DOMAIN names |-> IF names[i] \in wanted THEN <<names[i]>> ELSE <<>>])

(* Slips: a key that is given twice, and authored keys that are sorted.    *)
RepeatedKeys(fields, authored) ==
    Kept(authored, DOMAIN fields) \o Kept(Names, DOMAIN fields)

SortedKeys(fields, authored) == Kept(Names, DOMAIN fields)

orderedKeys(fields, authored) ==
    Kept(authored, DOMAIN fields) \o Kept(Names, DOMAIN fields \ ToSet(authored))

isTOMLTable(value) ==
    LET first[v \in Values] ==
            \/ v.kind = "map"
            \/ v.kind = "list" /\ v.elems # <<>> /\ first[v.elems[1]]
    IN first[value]

tomlKeyOrder(fields, authored) ==
    LET keys == orderedKeys(fields, authored)
        tables == {name \in DOMAIN fields : isTOMLTable(fields[name])}
    IN Kept(keys, DOMAIN fields \ tables) \o Kept(keys, tables)

(* go-toml, the library: a map is written under a header, and so is a      *)
(* list all of whose elements are maps; every other value is a line.       *)
UnderHeader(value) ==
    \/ value.kind = "map"
    \/ /\ value.kind = "list"
       /\ value.elems # <<>>
       /\ \A i \in DOMAIN value.elems : value.elems[i].kind = "map"

Escaped(mark) == IF mark \in {DQ, BS} THEN <<BS, mark>> ELSE <<mark>>

EncodeKey(name) ==
    IF name # <<>> /\ ToSet(name) \subseteq Bare THEN name
    ELSE IF SQ \notin ToSet(name) THEN Quoted(name, SQ)
    ELSE Quoted(FlattenSeq([i \in DOMAIN name |-> Escaped(name[i])]), DQ)

Entry == <<"x", SP, "=", SP, "1">>

Separated(texts) ==
    FlattenSeq([i \in DOMAIN texts |-> texts[i] \o
                    (IF i < Len(texts) THEN <<",", SP>> ELSE <<>>)])

EncodeInline(value) ==
    LET inline[v \in Values] ==
            CASE v.kind = "scalar" -> <<"1">>
              [] v.kind = "map" -> Braced(Entry)
              [] OTHER -> <<"[">>
                    \o Separated([i \in DOMAIN v.elems |-> inline[v.elems[i]]])
                    \o <<"]">>
    IN inline[value]

EncodeField(name, value) ==
    LET key == EncodeKey(name)
    IN CASE ~UnderHeader(value) ->
              key \o <<SP, "=", SP>> \o EncodeInline(value) \o <<LF>>
         [] value.kind = "map" ->
              <<"[">> \o key \o <<"]", LF>> \o Entry \o <<LF>>
         [] OTHER ->
              FlattenSeq([i \in DOMAIN value.elems |->
                  <<"[", "[">> \o key \o <<"]", "]", LF>> \o Entry \o <<LF>>])

(* One call of the library per key. *)
tomlEncode(fields, order) ==
    FlattenSeq([i \in DOMAIN order |-> EncodeField(order[i], fields[order[i]])])

(* What the decoder makes of the lines tomlEncode writes: once a header    *)
(* has been seen, a line belongs to the table above it.                    *)
TopLevelOf(fields, order) ==
    Kept(order, {name \in ToSet(order) :
        \/ UnderHeader(fields[name])
        \/ \A i \in DOMAIN order :
              UnderHeader(fields[order[i]]) =>
                  \E j \in DOMAIN order : order[j] = name /\ j < i})

(***************************************************************************)
(* The lines an author may write.  TOML spells a name bare or in either    *)
(* kind of quotes, and an inner name is never a name of the top level.     *)
(***************************************************************************)
InnerNames == {<<"x">>, <<"y">>}

Spellings(name) ==
    LET ways(mark) == {Escaped(mark)} \cup IF mark = "a" THEN {<<BS, Coded>>} ELSE {}
        basic == {way \in [DOMAIN name -> UNION {ways(name[i]) : i \in DOMAIN name}] :
                     \A i \in DOMAIN name : way[i] \in ways(name[i])}
    IN (IF name # <<>> /\ ToSet(name) \subseteq Bare THEN {name} ELSE {})
           \cup (IF SQ \notin ToSet(name) THEN {Quoted(name, SQ)} ELSE {})
           \cup {Quoted(FlattenSeq(way), DQ) : way \in basic}

(* A value, every scalar in it written one way, with one gap in its lists. *)
Spelled(value, scalar, gap) ==
    LET spelled[v \in Values] ==
            CASE v.kind = "scalar" -> scalar
              [] v.kind = "map" -> Braced(<<"x", "=">> \o scalar)
              [] OTHER -> <<"[">> \o gap
                    \o FlattenSeq([i \in DOMAIN v.elems |->
                                      spelled[v.elems[i]] \o <<",">> \o gap])
                    \o <<"]">>
    IN spelled[value]

LineEnds == {<<LF>>} \cup {<<"#">> \o comment \o <<LF>> : comment \in Comments}

NoInner == <<>>

Keys == UNION {{n} \X Spellings(n) : n \in ToSet(Names)}

ValueTexts ==
    {valued \in UNION {{v} \X {Spelled(v, scalar, gap) :
                                    scalar \in Scalars, gap \in Gaps} :
                           v \in AuthorValues} :
        Len(valued[2]) < MaxMarks}

(* "name = value", or "name.inner = value", which makes a map of name. *)
KeyLine(name, key, inner, value, text, end) ==
    [name |-> name, inner |-> inner,
     value |-> IF inner = NoInner THEN value ELSE Map,
     text |-> key \o (IF inner = NoInner THEN <<>> ELSE <<SP, ".">> \o inner)
                  \o <<"=">> \o text \o end]

KeyLines ==
    {KeyLine(named[1], named[2], inner, valued[1], valued[2], end) :
        named \in Keys, inner \in {NoInner} \cup InnerNames,
        valued \in ValueTexts, end \in LineEnds}

HeaderLines ==
    {[name |-> named[1], inner |-> inner, value |-> Map,
      text |-> <<"[">> \o named[2] \o (IF inner = NoInner THEN <<>> ELSE <<".">> \o inner)
                  \o <<"]">> \o end] :
        named \in Keys, inner \in {NoInner} \cup InnerNames, end \in LineEnds}
    \cup
    {[name |-> named[1], inner |-> NoInner, value |-> List(<<Map>>),
      text |-> <<"[", "[", SP>> \o named[2] \o <<"]", "]">> \o end] :
        named \in Keys, end \in LineEnds}

(* The lines that fit a block, by their length. *)
Fitting(all) == [n \in 1..MaxMarks |-> {line \in all : Len(line.text) = n}]
FittingKeyLines == Fitting(KeyLines)
FittingHeaderLines == Fitting(HeaderLines)

(***************************************************************************)
(* The block, its author and its caller.                                   *)
(***************************************************************************)
VARIABLES
    block,    \* the text of the block
    keys,     \* its top-level keys, in the order they appear
    fields,   \* the value of each
    asked,    \* the fields the author wrote, or the caller asked for
    inTable,  \* whether a header has been written
    headed,   \* the names that headers introduced
    used,     \* the inner names used up: those of dotted keys and of
              \* headers, and the keys of the open table
    lines     \* how many lines the author has written, Closed at an edit

vars == <<block, keys, fields, asked, inTable, headed, used, lines>>

Closed == -1

Init ==
    /\ block = <<>>
    /\ keys = <<>>
    /\ fields = [name \in {} |-> Scalar]
    /\ asked = fields
    /\ inTable = FALSE
    /\ headed = {}
    /\ used = {}
    /\ lines = 0

With(name, value) == [n \in DOMAIN fields \cup {name} |-> IF n = name THEN value ELSE fields[n]]

AppendLine(text) ==
    /\ block' = block \o text
    /\ lines' = lines + 1

Define(name, value) ==
    /\ keys' = IF name \in DOMAIN fields THEN keys ELSE Append(keys, name)
    /\ fields' = With(name, value)
    /\ asked' = fields'

MayWrite == lines \in 0..(MaxLines - 1)

FreshLengths == 1..(MaxMarks - Len(block))

(* A key of the top level; a dotted one may add to the map of another. *)
WriteKey ==
    /\ MayWrite
    /\ ~inTable
    /\ \E n \in FreshLengths : \E line \in FittingKeyLines[n] :
          /\ \/ line.name \notin DOMAIN fields
             \/ line.inner # NoInner /\ \E u \in used : u[1] = line.name
          /\ <<line.name, line.inner>> \notin used
          /\ used' = IF line.inner = NoInner THEN used
                     ELSE used \cup {<<line.name, line.inner>>}
          /\ Define(line.name, line.value)
          /\ AppendLine(line.text)
    /\ UNCHANGED <<inTable, headed>>

(* A key of the open table: its name may be one of the top level. *)
WriteTableKey ==
    /\ MayWrite
    /\ inTable
    /\ \E n \in FreshLengths : \E line \in FittingKeyLines[n] :
          /\ line.inner = NoInner
          /\ <<line.name>> \notin used
          /\ used' = used \cup {<<line.name>>}
          /\ AppendLine(line.text)
    /\ UNCHANGED <<keys, fields, asked, inTable, headed>>

(* "[name]" once, "[name.inner]" under a name that headers made, and        *)
(* "[[name]]" once more for every element.                                 *)
WriteHeader ==
    /\ MayWrite
    /\ \E n \in FreshLengths : \E line \in FittingHeaderLines[n] :
          /\ line.name \in DOMAIN fields =>
                /\ line.name \in headed
                /\ \/ line.inner # NoInner
                   \/ fields[line.name] = line.value /\ line.value = List(<<Map>>)
          /\ <<line.name, line.inner>> \notin used
          /\ Define(line.name,
                    IF line.name \notin DOMAIN fields THEN line.value
                    ELSE IF line.inner # NoInner THEN fields[line.name]
                    ELSE List(<<Map, Map>>))
          /\ headed' = headed \cup {line.name}
          /\ used' = {u \in used : Len(u) = 2}
                         \cup IF line.inner = NoInner THEN {}
                              ELSE {<<line.name, line.inner>>}
          /\ AppendLine(line.text)
    /\ inTable' = TRUE

WriteComment ==
    /\ MayWrite
    /\ \E end \in LineEnds : \E indent \in {<<>>, <<SP>>} :
          /\ Len(block) + Len(indent \o end) <= MaxMarks
          /\ AppendLine(indent \o end)
    /\ UNCHANGED <<keys, fields, asked, inTable, headed, used>>

(* encode, and what decode makes of the result. *)
Encode(wanted) ==
    LET order == tomlKeyOrder(wanted, tomlTopLevelKeys(block))
        read == TopLevelOf(wanted, order)
    IN /\ block' = tomlEncode(wanted, order)
       /\ keys' = read
       /\ fields' = [name \in ToSet(read) |-> wanted[name]]
       /\ asked' = wanted
       /\ inTable' = FALSE
       /\ headed' = {}
       /\ used' = {}
       /\ lines' = Closed

(* Bytes writes a block only when the fields are not those it holds. *)
SetField ==
    \E name \in EditKeys, value \in EditValues :
        /\ With(name, value) # fields
        /\ Encode(With(name, value))

RemoveField ==
    \E name \in EditKeys \cap DOMAIN fields :
        Encode([n \in DOMAIN fields \ {name} |-> fields[n]])

Next ==
    \/ WriteKey
    \/ WriteTableKey
    \/ WriteHeader
    \/ WriteComment
    \/ SetField
    \/ RemoveField

Spec == Init /\ [][Next]_vars

(***************************************************************************)
(* Properties.                                                             *)
(***************************************************************************)

(* A block has the fields whose keys it holds, each key once. *)
TypeOK ==
    /\ block \in Seq(Marks)
    /\ ToSet(keys) = DOMAIN fields
    /\ Len(keys) = Cardinality(DOMAIN fields)
    /\ \A name \in DOMAIN fields : name \in ToSet(Names) /\ fields[name] \in Values
    /\ \A name \in DOMAIN asked : name \in ToSet(Names) /\ asked[name] \in Values
    /\ inTable \in BOOLEAN
    /\ headed \subseteq DOMAIN fields
    /\ lines \in {Closed} \cup 0..MaxLines

(* The lexer reports the top-level keys of every block the author of this  *)
(* module writes, and of every block the encoder does, each once and in    *)
(* the order they first appear: nothing in a string, a comment, a list of  *)
(* several lines or a table is taken for a key, and nothing hides one      *)
(* (tomlTopLevelKeys).                                                     *)
LexerFindsTheAuthoredOrder == tomlTopLevelKeys(block) = keys

(* A block that is written decodes to the fields that were asked for: no   *)
(* field ends up inside the table of another (encode).                     *)
WrittenBlocksReadBack == fields = asked

Precedes(order, one, other) ==
    \E i, j \in DOMAIN order : i < j /\ order[i] = one /\ order[j] = other

(* An edit of one field moves no other: two keys that stay, and are both   *)
(* tables or both not, keep their order, and a new key comes after them    *)
(* (tomlKeyOrder, orderedKeys).                                            *)
EditsKeepTheAuthoredOrder ==
    [][lines' = Closed =>
        \A one, other \in ToSet(keys') :
            /\ isTOMLTable(fields'[one]) = isTOMLTable(fields'[other])
            /\ one \in ToSet(keys)
            /\ other \in ToSet(keys) => Precedes(keys, one, other)
            /\ one # other
            => Precedes(keys', one, other)]_vars
==============================================================================
