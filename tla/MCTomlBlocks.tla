---------------------------- MODULE MCTomlBlocks -----------------------------
(* Instances of TomlBlocks for TLC.                                        *)
EXTENDS TomlBlocks

(* A bare name, another, and one that must be quoted wherever it stands.   *)
NamesInOrder == << <<"a">>, <<"a", ".", "]">>, <<"b">> >>

EditedNames == {<<"a">>, <<"b">>}

(* What a string may hold, one piece after another. *)
Bodies(pieces, n) == {FlattenSeq(body) : body \in BoundedSeq(pieces, n)}

BasicPieces == {<<"#">>, <<"[">>, <<SQ>>, <<BS, DQ>>, <<BS, BS>>}
LiteralPieces == {<<"#">>, <<"[">>, <<DQ>>, <<BS>>}

OneLineStrings ==
    {Quoted(body, DQ) : body \in Bodies(BasicPieces, 2)}
        \cup {Quoted(body, SQ) : body \in Bodies(LiteralPieces, 2)}

MultilineStrings ==
    {Tripled(body, DQ) :
        body \in Bodies({<<DQ>>, <<LF>>, <<"[">>, <<BS, DQ>>}, 2)}
    \cup
    {Tripled(body, SQ) :
        body \in Bodies({<<SQ>>, <<LF>>, <<"[">>, <<BS>>}, 2)}

WaysOfScalars == {<<"1">>} \cup OneLineStrings \cup MultilineStrings

WaysOfComments == {<<DQ>>}
WaysOfGaps == {<<>>, <<"#", "]", LF>>}

(* The values that are written as isTOMLTable says: no list that begins    *)
(* with a table, or with a list that does, and which go-toml writes on a   *)
(* line.                                                                   *)
AgreedValues == {value \in Values : isTOMLTable(value) = UnderHeader(value)}

NewValues == {Scalar, Map, List(<<Scalar, Map>>), List(<<Map, Map>>)}
==============================================================================
