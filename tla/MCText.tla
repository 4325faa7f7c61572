------------------------------- MODULE MCText -------------------------------
(***************************************************************************)
(* What happens to the content of one file in the course of a run: Sniffer *)
(* judges its bytes before anything is read, HeaderFields renders and      *)
(* reads the fields of its header, HeaderText edits its text at the end.   *)
(* And the one text TopMark writes for the user to edit: TomlTemplates.     *)
(* They share no state (FilePipeline ties them together), so TLC explores  *)
(* their behaviours side by side, one of them at a time.                   *)
(***************************************************************************)
EXTENDS Sniffer, HeaderText

CONSTANTS Orders, Documents

VARIABLES order, encoded, payload, edited, at, pending, parsed
VARIABLES document, asked, made

fieldVars == <<order, encoded, payload, edited, at, pending, parsed>>
templateVars == <<document, asked, made>>

Fields == INSTANCE HeaderFields WITH Missing <- None
Templates == INSTANCE TomlTemplates

NoBytes ==
  /\ file = None /\ shebangs = None /\ chunk = None /\ taken = None /\ counts = None
  /\ carry = None /\ half = None /\ verdict = None /\ style = None
NoText ==
  /\ format = None /\ value = None /\ last = "none"
  /\ first = <<>> /\ before = <<>> /\ text = <<>>
NoFields ==
  /\ order = None /\ encoded = None /\ payload = None /\ edited = None
  /\ at = None /\ pending = None /\ parsed = None

NoTemplate == document = None /\ asked = None /\ made = None

ContentInit ==
  \/ Init /\ NoText /\ NoFields /\ NoTemplate
  \/ TextInit /\ NoBytes /\ NoFields /\ NoTemplate
  \/ Fields!FieldsInit /\ NoBytes /\ NoText /\ NoTemplate
  \/ Templates!TemplatesInit /\ NoBytes /\ NoText /\ NoFields

SniffBytes == file # None /\ Next /\ UNCHANGED <<textVars, fieldVars, templateVars>>
EditText == format # None /\ TextNext /\ UNCHANGED <<vars, fieldVars, templateVars>>
ReadFields == order # None /\ Fields!FieldsNext /\ UNCHANGED <<vars, textVars, templateVars>>
MakeTemplate == document # None /\ Templates!TemplatesNext /\ UNCHANGED <<vars, textVars, fieldVars>>

ContentNext == SniffBytes \/ EditText \/ ReadFields \/ MakeTemplate

ContentSpec == ContentInit /\ [][ContentNext]_<<vars, textVars, fieldVars, templateVars>>

\* Where there is a header, what was rendered is read back.
ParseUndoesRender == order # None => Fields!ParseUndoesRender

\* Where there is a template, the text made of it says what was asked for.
TemplateSaysWhatWasAsked == document # None => Templates!TemplateSaysWhatWasAsked

-----------------------------------------------------------------------------
(* Files of bytes: everything up to one and a half times the sample *)

FilesUpTo(n, symbols) == UNION {[1..k -> symbols] : k \in 1..n}
Ordinary == {"x", "lead", "cont", "CR", "LF"}

\* A BOM and a shebang occur at the start only; a NUL counts only there.
Starts == {<<"BOM">>, <<"#!">>, <<"BOM", "#!">>}
ShortFiles ==
  FilesUpTo(6, Ordinary) \cup FilesUpTo(4, Ordinary \cup {"NUL"})
  \cup {s \o t : s \in Starts, t \in FilesUpTo(3, Ordinary \cup {"NUL"}) \cup {<<>>}}

-----------------------------------------------------------------------------
(* Files of text: every sequence of up to two chunks, whole headers among  *)
(* them, with each way of ending lines; and of three common chunks         *)

Format(kind, shebang, coding, reflow) ==
  [style |-> kind, shebang |-> shebang, coding |-> coding, reflow |-> reflow]
BuiltinFormats ==
  {Format("line", TRUE, TRUE, FALSE), Format("line", FALSE, FALSE, FALSE),
   Format("cblock", FALSE, FALSE, FALSE), Format("markdown", FALSE, FALSE, FALSE),
   Format("xml", FALSE, FALSE, FALSE), Format("xml", FALSE, FALSE, TRUE)}

Prefix(f) == IF f.style \in {"line", "cblock"} THEN <<"prefix", "sp">> ELSE <<>>
CommentDelimiter(f, indent, d) == IF f.style = "line" THEN <<>> ELSE <<indent \o <<d>>>>
Header(f, indent, body) ==
  CommentDelimiter(f, indent, "open") \o <<indent \o Prefix(f) \o <<"start">>>>
    \o body \o <<indent \o Prefix(f) \o <<"end">>>> \o CommentDelimiter(f, indent, "close")
OldField(f) == Prefix(f) \o <<"sp", "sp", "old">>

Word == <<<<"w1">>>>
Blank == <<<<>>>>
White == <<<<"sp">>>>
Common(f) ==
  {Word, Blank, White, Header(f, <<>>, <<OldField(f)>>)}
    \cup (IF f.style = "xml" THEN {<<<<"decl">>>>, <<<<"doctype">>>>} ELSE {})
    \cup (IF f.shebang THEN {<<<<"shebang">>>>} ELSE {})
    \cup (IF f.coding THEN {<<<<"coding">>>>} ELSE {})
Chunks(f) ==
  Common(f)
    \cup {<<<<"ff">>>>, <<<<"sp", "w2">>>>, Header(f, <<"sp">>, <<OldField(f)>>), Header(f, <<>>, <<<<"w2">>>>),
          <<Prefix(f) \o <<"start">>>>, <<Prefix(f) \o <<"end">>>>, <<<<"w2", "sp", "end">>>>}
    \cup (IF f.style = "line" THEN {} ELSE {<<<<"open">>>>, <<<<"close">>>>})
    \cup (IF f.style = "markdown" THEN {<<<<"fence">>>>} ELSE {})
    \cup (IF f.style = "xml" THEN {<<<<"decl", "w2">>>>} ELSE {})

\* The lines of the chunks, the first ended by one line end and the others by another.
Ended(chunks, firstEnd, otherEnd, complete) ==
  LET ls == FlattenSeq(chunks)
      t == FlattenSeq([i \in DOMAIN ls |-> Append(ls[i], IF i = 1 THEN firstEnd ELSE otherEnd)])
  IN  IF complete \/ t = <<>> THEN t ELSE Front(t)

Sequence(n, of) == [1 .. n -> of]
Pairs(f) == {<<a, b>> : a \in Common(f), b \in Chunks(f)} \cup {<<a, b>> : a \in Chunks(f), b \in Common(f)}
MCTexts ==
  [f \in BuiltinFormats |->
     {Ended(c, "lf", "lf", TRUE) : c \in {<<>>} \cup Sequence(1, Chunks(f)) \cup Pairs(f)}
     \cup {Ended(c, "lf", "lf", FALSE) : c \in Sequence(1, Chunks(f)) \cup Sequence(2, Common(f))}
     \cup {Ended(c, "crlf", b, TRUE) : c \in Sequence(2, Common(f)), b \in {"lf", "crlf"}}
     \cup {Ended(<<Word>> \o c, "lf", "lf", TRUE) : c \in Sequence(2, Common(f))}]

-----------------------------------------------------------------------------
(* Headers: one field of every short value, the other plain or of two lines *)

LayoutOf(prefix, suffix, lead, forbidden) ==
  [prefix |-> prefix, suffix |-> suffix, indent |-> <<"sp", "sp">>, before |-> lead, forbidden |-> forbidden]
LineLayout == LayoutOf(<<"#">>, <<>>, <<>>, {})
BlockLayout == LayoutOf(<<"star">>, <<>>, <<"sp">>, {<<"star", "slash">>})
BareLayout == LayoutOf(<<>>, <<>>, <<>>, {<<"dash", "dash">>})
BoxLayout == LayoutOf(<<"#">>, <<"#">>, <<>>, {})

Strings(n, symbols) == UNION {Sequence(k, symbols) : k \in 0 .. n}
Refusable == {<<"tab">>, <<"x", "nul">>, <<"START">>, <<"ls">>, <<"dash", "dash">>, <<"star", "slash">>}
Plain == [name |-> <<"f">>, value |-> <<"x">>]
TwoLines == [name |-> <<"f">>, value |-> <<"x", "lf", "sp", "x">>]
Header2(layout, one, two, max, align) ==
  [layout |-> layout, fields |-> <<one, two>>, max |-> max, align |-> align,
   touched |-> max \in {0, 9} /\ \A f \in {one, two} :
     f \in {Plain, TwoLines}
     \/ (f.name = <<"n">> /\ (Len(f.value) <= 2 \/ (max = 9 /\ Len(f.value) = 6)))]
Named(name, values) == {[name |-> name, value |-> v] : v \in values}

AnyValue == Strings(3, {"x", "sp", "nbsp", "lf", "cr", "quote", "escape", "|", ":"})
MCOrders ==
  {Header2(LineLayout, f, TwoLines, 0, TRUE) : f \in Named(<<"n", "m">>, AnyValue \cup Refusable)}
  \cup {Header2(BareLayout, Plain, f, 0, FALSE) :
          f \in Named(<<"n">>, Strings(3, {"x", "sp", "lf", "quote", "escape", ">", "="}) \cup Refusable)}
  \cup {Header2(layout, f, Plain, 0, FALSE) : layout \in {BlockLayout, BoxLayout},
          f \in Named(<<"n">>, Strings(3, {"x", "sp", "lf", "#", "star", "slash"}))}
  \cup {Header2(LineLayout, f, Plain, max, FALSE) : max \in {6, 9, 11},
          f \in Named(<<"n">>, Strings(6, {"x", "sp"}) \cup Strings(4, {"x", "sp", "nbsp", "quote"}))}
  \cup {Header2(layout, [name |-> name, value |-> v], TwoLines, 0, FALSE) :
          layout \in {LineLayout, BareLayout}, v \in {<<>>, <<"x">>},
          name \in Strings(2, {"n", "sp", "nbsp", ":", "|", ">", "#", "lf"})}

-----------------------------------------------------------------------------
(* Templates: every one of up to two lines, and longer ones of common lines *)

LineOf(kind, path) == [kind |-> kind, path |-> path]
Plainly(kinds) == {LineOf(k, <<>>) : k \in kinds}
TopMark == <<"tool", "topmark">>
ConfigLine(kind) == LineOf(kind, <<"config">>)
AnyLine ==
  Plainly({"blank", "comment", "example", "marker", "root", "rootless", "key", "scalar", "quoted", "remarked"})
    \cup {LineOf("table", p) : p \in {<<"config">>, <<"files">>, TopMark, Append(TopMark, "config")}}
    \cup {ConfigLine("off"), LineOf("off", Append(TopMark, "config"))}
CommonLine ==
  Plainly({"blank", "example", "root", "key", "quoted"}) \cup {ConfigLine("table"), LineOf("table", <<"files">>)}
MCDocuments ==
  {d \in [lines : UNION {Sequence(n, AnyLine) : n \in 0 .. 2}
                    \cup {<<a>> \o c : a \in AnyLine, c \in Sequence(2, CommonLine)}
                    \cup {<<a>> \o c : a \in Plainly({"marker"}) \cup {ConfigLine("table"), ConfigLine("off")},
                                       c \in Sequence(3, CommonLine)},
          ended : BOOLEAN, error : {FALSE}] :
     IF d.lines = <<>> THEN ~d.ended ELSE d.ended \/ Last(d.lines).kind # "blank"}
=============================================================================
