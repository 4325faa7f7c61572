---------------------------- MODULE TomlTemplates ----------------------------
(***************************************************************************)
(* `topmark config init` and `config defaults`: a configuration document   *)
(* to copy, in the shape of topmark.toml or under [tool.topmark] of        *)
(* pyproject.toml, with or without `root = true`. init edits the annotated *)
(* template as text (template_surgery.py) so that its comments stay;       *)
(* defaults edits a parsed document (surgery.py).                          *)
(*                                                                         *)
(* A document is its lines and whether the last of them is ended. A line   *)
(* is its kind: blank, comment, example ("# root = true"), marker (the end *)
(* marker of a TopMark header), off ("# [config]"), table ("[path]"), root *)
(* ("root = true"), rootless ("root = false"), key, scalar ("config = 1"), *)
(* or one with a single """: quoted (the key of a string, or its end) and  *)
(* remarked (a key whose comment has it).                                  *)
(***************************************************************************)
EXTENDS Integers, SequencesExt, FiniteSetsExt

CONSTANTS None, Documents

VARIABLES document, asked, made

Line(kind) == [kind |-> kind, path |-> <<>>]
Table(path) == [kind |-> "table", path |-> path]
IsTable(line) == line.kind = "table"
IsBlank(line) == line.kind = "blank"
Comments == {"comment", "example", "marker", "off"}
Scope(pyproject) == IF pyproject THEN <<"tool", "topmark">> ELSE <<>>
ConfigTable(pyproject) == Append(Scope(pyproject), "config")
Error == [lines |-> <<>>, ended |-> FALSE, error |-> TRUE]
Doc(lines, ended) == [lines |-> lines, ended |-> ended, error |-> FALSE]

-----------------------------------------------------------------------------
(* What a document says: tables, and keys with values: the lines of a string,   *)
(* or the line that sets it.                                                *)

Entry(path, key, value) == [path |-> path, key |-> key, value |-> value]
Enclosing(path) == {SubSeq(path, 1, i) : i \in 1 .. Len(path)}

Parse(doc) ==
  LET open(acc) == acc.string # None
      put(acc, e) ==
        [acc EXCEPT !.entries = @ \cup {e},
                    !.valid = @ /\ \A d \in acc.entries : d.path # e.path \/ d.key # e.key]
      read(acc, line) ==
        CASE open(acc) /\ line.kind \in {"quoted", "remarked"} ->
               put([acc EXCEPT !.string = None], Entry(acc.table, "text", acc.string))
          [] open(acc) -> [acc EXCEPT !.string = Append(@, line)]
          [] line.kind = "table" ->
               [acc EXCEPT !.table = line.path, !.headers = Append(@, line.path)]
          [] line.kind = "quoted" -> [acc EXCEPT !.string = <<>>]
          [] line.kind \in {"root", "rootless"} -> put(acc, Entry(acc.table, "root", <<line>>))
          [] line.kind = "scalar" -> put(acc, Entry(acc.table, "config", <<line>>))
          [] line.kind \in {"key", "remarked"} -> put(acc, Entry(acc.table, line.kind, <<line>>))
          [] OTHER -> acc
      end == FoldLeft(read, [table |-> <<>>, string |-> None, headers |-> <<>>, entries |-> {},
                             valid |-> TRUE], doc.lines)
      tables == UNION {Enclosing(path) : path \in ToSet(end.headers)}
  IN  [tables |-> tables, entries |-> end.entries,
       valid |-> /\ end.valid /\ end.string = None /\ IsInjective(end.headers)
                 /\ \A e \in end.entries : Append(e.path, e.key) \notin tables]

Meaning(doc) == LET p == Parse(doc) IN [tables |-> p.tables, entries |-> p.entries]
IsValid(doc) == Parse(doc).valid

-----------------------------------------------------------------------------
(* The edits of text *)

FirstOf(positions, otherwise) == IF positions = {} THEN otherwise ELSE Min(positions)
\* The first line from i on that is not blank, or the place behind the end.
PastBlanks(lines, i) == FirstOf({j \in i .. Len(lines) : ~IsBlank(lines[j])}, Len(lines) + 1)
FirstLine(lines, line) == FirstOf({j \in DOMAIN lines : lines[j] = line}, 0)
FirstTable(lines, path) == FirstLine(lines, Table(path))

\* The text ends as the original ended; a blank line that is not ended is none.
FinishEdit(lines, ended) ==
  IF ~ended /\ lines # <<>> /\ IsBlank(Last(lines)) THEN Doc(Front(lines), TRUE) ELSE Doc(lines, ended)

\* Lines put before position at, with a blank line behind them unless one is there.
Insert(doc, lines, at, block) ==
  LET gap == IF at <= Len(lines) /\ ~IsBlank(lines[at]) THEN <<Line("blank")>> ELSE <<>>
  IN  FinishEdit(SubSeq(lines, 1, at - 1) \o block \o gap \o SubSeq(lines, at, Len(lines)), doc.ended)

\* Where a new config table goes: below [tool.topmark], below the header of the file,
\* or at the very top.
FallbackPosition(lines, pyproject) ==
  LET anchor == IF pyproject THEN FirstTable(lines, Scope(TRUE))
                ELSE FirstLine(lines, Line("marker"))
  IN  IF anchor = 0 THEN 1 ELSE PastBlanks(lines, anchor + 1)

\* The document with the commented-out config table switched on, unless there is a real one.
Uncommented(lines, target) ==
  LET off == FirstLine(lines, [kind |-> "off", path |-> target])
  IN  IF FirstTable(lines, target) # 0 \/ off = 0 THEN lines ELSE [lines EXCEPT ![off] = Table(target)]

SectionEnd(lines, i) == FirstOf({j \in i + 1 .. Len(lines) : IsTable(lines[j])}, Len(lines) + 1)
\* Mutant: roots of later tables count.
RootsIn_AllBelow(lines, i) == {j \in i + 1 .. Len(lines) : lines[j].kind = "root"}
RootsIn(lines, i) == {j \in i + 1 .. SectionEnd(lines, i) - 1 : lines[j].kind = "root"}
Without(lines, drop) == LET keep(j) == j \notin drop IN
  [k \in 1 .. Cardinality({j \in DOMAIN lines : keep(j)}) |->
     lines[CHOOSE j \in DOMAIN lines : keep(j) /\ Cardinality({h \in 1 .. j : keep(h)}) = k]]

RootPosition(lines, i) ==
  LET examples == {j \in i + 1 .. SectionEnd(lines, i) - 1 : lines[j] = Line("example")}
  IN  IF examples = {} THEN PastBlanks(lines, i + 1) ELSE Min(examples) + 1

SetRootInText(doc, pyproject, root) ==
  LET target == ConfigTable(pyproject)
      lines == Uncommented(doc.lines, target)
      i == FirstTable(lines, target)
      roots == IF i = 0 THEN {} ELSE RootsIn(lines, i)
  IN  CASE i = 0 /\ root ->
             Insert(doc, lines, FallbackPosition(lines, pyproject), <<Table(target), Line("root")>>)
        [] i = 0 /\ ~root -> doc
        [] i # 0 /\ ~root -> IF roots = {} THEN doc ELSE FinishEdit(Without(lines, roots), doc.ended)
        [] i # 0 /\ root /\ Cardinality(roots) = 1 -> doc
        [] i # 0 /\ root /\ Cardinality(roots) > 1 ->
             FinishEdit(Without(lines, roots \ {Min(roots)}), doc.ended)
        [] OTHER -> Insert(doc, lines, RootPosition(lines, i), <<Line("root")>>)

\* Only tables under [tool.topmark], and nothing beside them.
AlreadyNested(m) ==
  /\ Scope(TRUE) \in m.tables
  /\ \A path \in m.tables : path = <<"tool">> \/ IsPrefix(Scope(TRUE), path)
  /\ \A e \in m.entries : IsPrefix(Scope(TRUE), e.path)

\* Mutant: headers in strings get the prefix, too.
Prefixed_InStrings(lines) ==
  [j \in DOMAIN lines |-> IF IsTable(lines[j]) THEN Table(Scope(TRUE) \o lines[j].path) ELSE lines[j]]

\* Table headers outside strings get the prefix; a line with one """ opens or closes a string.
Prefixed(lines) ==
  LET read(acc, line) ==
        IF acc.inside
        THEN [lines |-> Append(acc.lines, line), inside |-> line.kind \notin {"quoted", "remarked"}]
        ELSE [lines |-> Append(acc.lines, IF IsTable(line) THEN Table(Scope(TRUE) \o line.path) ELSE line),
              inside |-> line.kind \in {"quoted", "remarked"}]
  IN  FoldLeft(read, [lines |-> <<>>, inside |-> FALSE], lines).lines

Nest(doc) ==
  LET gap == IF doc.lines # <<>> /\ doc.lines[1].kind \in Comments THEN <<Line("blank")>> ELSE <<>>
      result == FinishEdit(<<Table(Scope(TRUE))>> \o gap \o Prefixed(doc.lines), doc.ended)
  IN  IF ~IsValid(doc) THEN Error
      ELSE IF AlreadyNested(Meaning(doc)) THEN doc
      ELSE IF ~IsValid(result) THEN Error
      ELSE result

ValidatedForInit(doc, pyproject, root) ==
  LET m == Meaning(doc)
      missing == \/ pyproject /\ Scope(TRUE) \notin m.tables
                 \/ root /\ Entry(ConfigTable(pyproject), "root", <<Line("root")>>) \notin m.entries
  IN  IF ~IsValid(doc) \/ missing THEN Error ELSE doc

-----------------------------------------------------------------------------
(* The edit of a parsed document *)

\* Tables on the way are made where they are missing. (A key of that name is an error,
\* which the defaults do not meet.)
SetRoot(m, pyproject, root) ==
  LET target == ConfigTable(pyproject)
      legacy == {e \in m.entries : e.key = "root" /\ e.path \in {target, Scope(pyproject)}}
  IN  [tables |-> m.tables \cup Enclosing(target),
       entries |-> (m.entries \ legacy) \cup (IF root THEN {Entry(target, "root", <<Line("root")>>)} ELSE {})]

-----------------------------------------------------------------------------
(* The two commands, and the edit of a text that the module offers beside them *)

\* The bundled template without the TopMark header of its own file. A template that cannot
\* be read is replaced by a document without comments.
LoadTemplate(doc) ==
  LET marker == FirstLine(doc.lines, Line("marker"))
      rest == SubSeq(doc.lines, PastBlanks(doc.lines, marker + 1), Len(doc.lines))
  IN  IF marker = 0 THEN doc ELSE Doc(rest, doc.ended /\ rest # <<>>)

ConfigInit(doc, pyproject, root) ==
  LET edited == IF root THEN SetRootInText(LoadTemplate(doc), FALSE, TRUE) ELSE LoadTemplate(doc)
      shaped == IF pyproject THEN Nest(edited) ELSE edited
  IN  IF shaped.error THEN Error ELSE ValidatedForInit(shaped, pyproject, root)

\* What the document says that config defaults makes of the default tables.
ConfigDefaults(doc, pyproject, root) ==
  LET m == Meaning(IF pyproject THEN Nest(doc) ELSE doc)
  IN  IF root THEN SetRoot(m, pyproject, TRUE) ELSE m

TemplatesInit ==
  /\ document \in Documents /\ IsValid(document)
  /\ asked = None /\ made = None

TemplatesNext ==
  \E command \in {"init", "edit"}, pyproject, root \in BOOLEAN :
    /\ asked = None
    /\ asked' = [command |-> command, pyproject |-> pyproject, root |-> root]
    /\ made' = IF command = "init" THEN ConfigInit(document, pyproject, root)
               ELSE SetRootInText(document, pyproject, root)
    /\ UNCHANGED document

-----------------------------------------------------------------------------
(* Text edits that look at one line at a time go wrong on documents no template is like: *)

Settings == {"root", "rootless", "key", "scalar", "quoted", "remarked"}
\* a key that a table put in above it would take over,
Captures(lines) ==
  \E i, j \in DOMAIN lines :
    /\ i < j /\ lines[j].kind \in Settings /\ \A h \in i + 1 .. j : ~IsTable(lines[h])
    /\ lines[i].kind \in {"marker", "off"} \/ lines[i] = Table(Scope(TRUE))
\* a line of a string that looks like one of the document,
Lookalike(entries, kinds) ==
  \E e \in entries : e.key = "text" /\ \E line \in ToSet(e.value) : line.kind \in kinds
\* a key outside every table, or a quote in a comment behind a key.
IsTemplate(doc, isEdited) ==
  LET entries == Parse(doc).entries
  IN  /\ ~Captures(doc.lines)
      /\ ~Lookalike(entries, IF isEdited THEN Comments \cup {"table", "root"} ELSE {"marker"})
      /\ \A e \in entries : e.path # <<>> /\ e.key # "remarked"

\* What a document is to say that was made from one that says m.
Intended(m, pyproject, root) ==
  LET edited == IF root THEN SetRoot(m, FALSE, TRUE) ELSE m
      scope == Scope(pyproject)
  IN  [tables |-> Enclosing(scope) \cup {scope \o path : path \in edited.tables},
       entries |-> {[e EXCEPT !.path = scope \o @] : e \in edited.entries}]
Remarks(doc) == SelectSeq(doc.lines, LAMBDA line : line.kind \in Comments \ {"off"})

\* Whatever template is bundled: the text `config init` prints says what was asked for, the
\* same that `config defaults` makes of these tables by another way, with every comment of
\* the template in its place; it fails only where the template says `root = false` itself. Setting or removing the flag in a text
\* does what it does in the parsed document, and doing it twice does nothing more.
TemplateSaysWhatWasAsked ==
  asked # None /\ IsTemplate(document, asked.root \/ asked.command = "edit") =>
    LET source == IF asked.command = "init" THEN LoadTemplate(document) ELSE document
        table == ConfigTable(asked.command = "edit" /\ asked.pyproject)
        off == Entry(table, "root", <<Line("rootless")>>) \in Meaning(source).entries
    IN  /\ ~made.error => Remarks(made) = Remarks(source)
        /\ asked.command = "init" /\ Scope(TRUE) \notin Meaning(source).tables =>
             /\ made.error <=> asked.root /\ off
             /\ ~made.error =>
                  /\ Meaning(made) = Intended(Meaning(source), asked.pyproject, asked.root)
                  /\ Meaning(made) = ConfigDefaults(source, asked.pyproject, asked.root)
        /\ asked.command = "edit" =>
             /\ SetRootInText(made, asked.pyproject, asked.root) = made
             /\ ~off => Meaning(made).entries
                          = SetRoot(Meaning(source), asked.pyproject, asked.root).entries
==============================================================================
