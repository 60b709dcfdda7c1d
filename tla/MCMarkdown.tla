----------------------------- MODULE MCMarkdown ------------------------------
(* Instances of Markdown for TLC.                                          *)
EXTENDS Markdown

Prose == <<Mark("prose"), LF>>

(* A body that holds a delimiter line, and so would open a block itself. *)
Rule == <<Mark("---"), LF, Mark("prose"), LF, Mark("---"), LF>>

Y(key, value, style) == Entry("yaml", key, value, style)
T(key, value) == Entry("toml", key, value, "quoted")
J(key, value) == Entry("json", key, value, "plain")

Dashes == Mark("---")
Pluses == Mark("+++")
Blank == Mark("blank")
Brace == Mark("{")
EndBrace == Mark("}")

(* Files as authors and other tools write them. *)
WellFormedFiles ==
    { \* nothing, prose, and prose behind a byte-order mark
      <<>>, Prose, <<Mark("bom")>> \o Prose,
      \* YAML out of key order, with a quoted value and a rule in the body
      <<Dashes, LF, Y(2, 1, "quoted"), LF, Y(1, 2, "plain"), LF, Dashes, LF>> \o Rule,
      \* YAML behind a byte-order mark, CRLF, blanks after the delimiters
      <<Mark("bom"), Dashes, Blank, CRLF, Y(1, 1, "quoted"), CRLF,
        Dashes, Blank, CRLF>> \o Prose,
      \* YAML with mixed terminators, a blank line and a nil value
      <<Dashes, LF, Y(3, 0, "plain"), CRLF, LF, Y(1, 1, "quoted"), LF, Dashes, LF>>,
      \* an empty YAML block, closed at the end of the file
      <<Dashes, LF, Dashes>>,
      \* YAML whose mapping is a flow mapping
      <<Dashes, LF, Brace, EndBrace, LF, Dashes, LF>> \o Prose,
      \* TOML out of key order, and closed at the end of the file
      <<Pluses, LF, T(3, 1), LF, T(2, 2), LF, Pluses, LF>> \o Prose,
      <<Pluses, CRLF, T(2, 1), CRLF, Pluses, Blank>>,
      \* JSON to the end of the file, on several lines, with a key twice
      <<Brace, J(2, 1), J(1, 1), EndBrace>>,
      <<Brace, CRLF, J(2, 1), CRLF, J(1, 2), CRLF, EndBrace, CRLF>> \o Prose,
      <<Mark("bom"), Brace, J(1, 1), J(2, 2), J(1, 2), EndBrace>>,
      <<Brace, EndBrace, Blank>>,
      \* a brace that opens no object
      <<Brace>> \o Prose, <<Brace, J(1, 1), EndBrace, Mark("prose"), LF>> }

(* Files that are damaged, or that are over a limit. *)
DamagedFiles ==
    { <<Dashes, LF, Y(1, 1, "plain"), LF>>,
      <<Dashes, LF, Mark("prose"), LF, Dashes, LF>> \o Prose,
      <<Dashes, LF, Y(1, 1, "plain"), LF, Y(1, 2, "plain"), LF, Dashes, LF>>,
      <<Dashes, LF, Y(0, 1, "plain"), LF, Dashes, LF>>,
      <<Brace, J(0, 1), EndBrace, LF>>,
      <<Pluses, LF, T(1, 1), Mark("nul"), LF, Pluses, LF>>,
      <<Pluses, LF, Y(1, 1, "plain"), LF, Pluses, LF>>,
      <<Dashes, LF, LF, LF, LF, LF, LF, Dashes, LF>>,
      <<Dashes, LF>> \o [i \in 1..12 |-> Blank] \o <<LF, Dashes, LF>> }

Files == WellFormedFiles \cup DamagedFiles

Bodies == {<<>>, Prose, Rule, <<Mark("bom")>> \o Prose, <<Mark("nul")>>}

OneBody == {Prose}

(* An editor that leaves the last line without a terminator.               *)
ClosedAtTheEnd == {<<Dashes, LF, Y(1, 1, "quoted"), LF, Dashes>>}
==============================================================================
