------------------------------ MODULE MCSniffer ------------------------------
(***************************************************************************)
(* Finite instances of Sniffer for TLC: two chunks of two bytes each are   *)
(* sniffed of files up to two bytes longer than that.                      *)
(***************************************************************************)
EXTENDS Sniffer

FilesUpTo(n, symbols) == UNION {[1..k -> symbols] : k \in 1..n}
Text == {"x", "lead", "cont", "CR", "LF"}

\* A BOM and a shebang occur at the start only; a NUL counts only there.
Starts == {<<"BOM">>, <<"#!">>, <<"BOM", "#!">>}
ShortFiles ==
  FilesUpTo(6, Text) \cup FilesUpTo(4, Text \cup {"NUL"})
  \cup {s \o t : s \in Starts, t \in FilesUpTo(3, Text \cup {"NUL"}) \cup {<<>>}}

\* Valid text, longer than what is sniffed of it, with one character that two bytes make up.
LongTexts == {<<"x", "x", "x", "x", "lead", "cont", "LF">>, <<"x", "x", "lead", "cont", "x", "LF">>,
              <<"x", "x", "x", "lead", "cont", "LF">>}
LongFiles == LongTexts \cup FilesUpTo(3, Text)
==============================================================================
