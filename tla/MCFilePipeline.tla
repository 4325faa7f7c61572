--------------------------- MODULE MCFilePipeline ---------------------------
(***************************************************************************)
(* Finite instances of FilePipeline for TLC.                               *)
(***************************************************************************)
EXTENDS FilePipeline

\* A plain text file with user text and no header; the others deviate from it.
Plain == [enc |-> "utf8", bom |-> FALSE, shebang |-> FALSE, body |-> "user", eol |-> "one",
          headers |-> <<>>, ins |-> "OK"]

HeaderStates == {<<>>} \cup {<<kind>> : kind \in HeaderKinds}

\* Files without user text: nothing, a placeholder, whitespace, a lone BOM or shebang.
EmptyishContents ==
  {[Plain EXCEPT !.body = b, !.bom = m, !.shebang = g, !.headers = h] :
     b \in {"none", "blank", "white"}, m \in BOOLEAN, g \in BOOLEAN, h \in {<<>>, <<"stale">>}}

\* Files with user text: every header state, BOM and shebang, and line ends.
TextContents ==
  {[Plain EXCEPT !.headers = h] : h \in HeaderStates}
  \cup {[Plain EXCEPT !.bom = m, !.shebang = g, !.headers = h] :
          m \in BOOLEAN, g \in BOOLEAN, h \in {<<>>, <<"current">>, <<"stale">>}}
  \cup {[Plain EXCEPT !.bom = m, !.shebang = m, !.headers = h, !.eol = e] :
          m \in BOOLEAN, h \in {<<>>, <<"current">>}, e \in {"mixed", "late"}}

\* Files the sniffer rejects or mistakes, and files an insert checker objects to.
OddContents ==
  {[Plain EXCEPT !.enc = x, !.bom = m, !.shebang = m] :
     x \in {"early", "late", "nul"}, m \in BOOLEAN}
  \cup {[Plain EXCEPT !.ins = i, !.headers = h] :
          i \in {"REFLOW", "OTHER"}, h \in {<<>>, <<"stale">>}}

QuietContents == EmptyishContents \cup TextContents \cup OddContents

\* Enough to confuse two looks at the same path.
RaceContents ==
  {NoBytes, Plain, [Plain EXCEPT !.headers = <<"stale">>], [Plain EXCEPT !.headers = <<"badall">>],
   [Plain EXCEPT !.bom = TRUE, !.shebang = TRUE], [Plain EXCEPT !.eol = "mixed"],
   [Plain EXCEPT !.body = "white"]}

------------------------------------------------------------------------------
DefaultPolicy == [mutation |-> "all", mixed |-> "reject", bom |-> "reject",
                  emptyMode |-> "logical", allowEmpty |-> FALSE, renderEmpty |-> FALSE,
                  reflow |-> FALSE]

Script == [shebang |-> TRUE, checker |-> FALSE, insert |-> "line", resolve |-> "RESOLVED"]
Text == [Script EXCEPT !.shebang = FALSE]
Markup == [Script EXCEPT !.checker = TRUE, !.insert = "text"]
Plugin == [Script EXCEPT !.insert = "none"]
Unsupported == [Script EXCEPT !.resolve = "UNSUPPORTED"]

SetupFor(p, fields, t) == [policy |-> p, fields |-> fields, ftype |-> t]

\* Each policy key away from its default, alone and in the combinations that interact.
Policies ==
  {DefaultPolicy,
   [DefaultPolicy EXCEPT !.mutation = "add_only", !.bom = "remove_bom"],
   [DefaultPolicy EXCEPT !.mutation = "update_only", !.allowEmpty = TRUE],
   [DefaultPolicy EXCEPT !.mixed = "preserve"],
   [DefaultPolicy EXCEPT !.bom = "remove_bom"],
   [DefaultPolicy EXCEPT !.bom = "remove_bom", !.mixed = "preserve"],
   [DefaultPolicy EXCEPT !.allowEmpty = TRUE, !.emptyMode = "whitespace"],
   [DefaultPolicy EXCEPT !.emptyMode = "bytes"],
   [DefaultPolicy EXCEPT !.reflow = TRUE]}

QuietSetups ==
  {SetupFor(p, "some", Script) : p \in Policies}
  \cup {SetupFor(p, "some", Markup) : p \in {q \in Policies : q.mutation = "all"}}
  \cup {SetupFor(DefaultPolicy, "some", t) : t \in {Text, Plugin, Unsupported}}
  \cup {SetupFor([DefaultPolicy EXCEPT !.renderEmpty = r, !.bom = "remove_bom"], "none", Script) :
          r \in BOOLEAN}
  \cup {SetupFor([DefaultPolicy EXCEPT !.bom = "remove_bom"], f, Script) :
          f \in {"unknown", "invalid"}}

\* A script under one policy that is not the default.
ScriptSetup(p) == {SetupFor(p, "some", Script)}
AddOnlySetups == ScriptSetup([DefaultPolicy EXCEPT !.mutation = "add_only"])
RemoveBomSetups == ScriptSetup([DefaultPolicy EXCEPT !.bom = "remove_bom"])
PreserveMixedSetups == ScriptSetup([DefaultPolicy EXCEPT !.bom = "remove_bom", !.mixed = "preserve"])
MarkupSetups == {SetupFor(DefaultPolicy, "some", Markup)}

RaceSetups ==
  {SetupFor(DefaultPolicy, "some", Script),
   SetupFor([DefaultPolicy EXCEPT !.mixed = "preserve", !.bom = "remove_bom",
                                  !.allowEmpty = TRUE], "some", Markup),
   SetupFor([DefaultPolicy EXCEPT !.mutation = "update_only", !.bom = "remove_bom",
                                  !.emptyMode = "whitespace"], "some", Script),
   SetupFor([DefaultPolicy EXCEPT !.mutation = "add_only"], "some", Script),
   SetupFor(DefaultPolicy, "invalid", Script)}

------------------------------------------------------------------------------
ModeFor(cmd, apply, diff, sink) == [cmd |-> cmd, apply |-> apply, diff |-> diff, sink |-> sink]

AllModes ==
  {ModeFor(cmd, FALSE, diff, "atomic") : cmd \in {"check", "strip"}, diff \in BOOLEAN}
  \cup {ModeFor(cmd, TRUE, FALSE, sink) : cmd \in {"check", "strip"}, sink \in Sinks}
  \cup {ModeFor("probe", FALSE, FALSE, "atomic")}

\* Without failures the two file sinks do the same.
QuietModes == {m \in AllModes : m.sink # "inplace"}
==============================================================================
