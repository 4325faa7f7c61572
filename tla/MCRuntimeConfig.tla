-------------------------- MODULE MCRuntimeConfig --------------------------
(***************************************************************************)
(* Two built-in types with a processor each, one that headers skip, and a  *)
(* plugin's python that can be registered once the built-in one is gone.   *)
(* Configuration files of the user, of a project, of a directory in it, of *)
(* the directory above it, and one that is named explicitly.  Beside these *)
(* runs, and sharing nothing with them, the calls of the command line and  *)
(* the tables that are loaded.                                             *)
(***************************************************************************)
EXTENDS RuntimeConfig, CommandLine, ConfigEntries

Type(ns, key) == [ns |-> ns, key |-> key]
P == Type("topmark", "python")
A == Type("acme", "python")
S == Type("acme", "script")
M == Type("topmark", "markdown")
D == Type("topmark", "data")
Local(key) == Type("*", key)

MCFileTypes == {P, A, S, M, D}
MCBaseTypes == {P, M, D}
MCThreads == Permutations(Callers)
MCBaseBindings == [t \in MCFileTypes |-> IF t = P THEN "pound" ELSE IF t = M THEN "html" ELSE Nothing]
MCPlace == [t \in MCFileTypes |-> CASE t = A -> 1 [] t = S -> 2 [] t = D -> 3 [] t = M -> 4 [] OTHER -> 5]

\* Below the project: a program in the root, one in a directory, a document.
MCPaths == {"x.py", "sub/s.py", "README"}
MCInside == [p \in MCPaths |-> IF p = "sub/s.py" THEN {"proj", "sub"} ELSE {"proj"}]

MCTraits ==
  [t \in MCFileTypes |->
     CASE t \in {P, A, M} -> [gate |-> "NEVER", named |-> TRUE, matcher |-> FALSE, skip |-> FALSE]
       [] t = S -> [gate |-> "IF_EXTENSION", named |-> TRUE, matcher |-> TRUE, skip |-> FALSE]
       [] OTHER -> [gate |-> "ALWAYS", named |-> TRUE, matcher |-> TRUE, skip |-> TRUE]]

Rule(e, n, pattern) == [extension |-> e, filename |-> n, pattern |-> pattern]
MCRules ==
  [t \in MCFileTypes |-> [p \in MCPaths |->
     CASE t \in {P, A, S} /\ p # "README" -> Rule(3, 0, FALSE)
       [] t = M /\ p = "sub/s.py"      -> Rule(0, 0, TRUE)
       [] t = M /\ p = "README"        -> Rule(0, 6, FALSE)
       [] t = D /\ p = "README"        -> Rule(0, 0, TRUE)
       [] OTHER                        -> Rule(0, 0, FALSE)]]
MCContents ==
  [t \in MCFileTypes |-> [p \in MCPaths |->
     CASE t = S /\ p = "x.py"         -> "hit"
       [] t = D /\ p # "x.py"         -> "hit"
       [] t = D /\ p = "x.py"         -> "error"
       [] OTHER                       -> "miss"]]

-----------------------------------------------------------------------------
MCFields == {"mode", "reflow"}
MCPolicyDefaults == [f \in MCFields |-> IF f = "mode" THEN "all" ELSE "no"]
Pol(mode, reflow) == [f \in MCFields |-> IF f = "mode" THEN mode ELSE reflow]
NoPol == Pol(Unset, Unset)

Formatted(align, width) == [k \in {"align_fields", "max_header_line_length"} |->
                            IF k = "align_fields" THEN align ELSE width]
Empty == [policy |-> NoPol, byType |-> <<>>, header |-> {}, format |-> Formatted(Unset, Unset),
          values |-> <<>>, patterns |-> <<>>, sources |-> <<>>, include |-> {}, exclude |-> {},
          noted |-> {}]
MCDefaults == [Empty EXCEPT !.policy = Pol("all", Unset), !.header = {"file"},
                            !.format = Formatted("yes", Unset)]

File(path, dir, table) ==
  [path |-> path, dir |-> dir, loads |-> TRUE, root |-> FALSE, strict |-> Unset,
   issues |-> {}, table |-> table]

User == File("user", "home", [Empty EXCEPT !.policy = Pol(Unset, "yes"), !.header = {"user"},
                                           !.values = ("license" :> "MIT")])
Above == File("above", "top", [Empty EXCEPT !.policy = Pol("add", "yes")])
Project == [File("project", "proj", [Empty EXCEPT
              !.policy = Pol("add", Unset), !.byType = (Local("python") :> Pol("update", Unset)),
              !.header = {"file", "license"}, !.values = ("license" :> "BSD" @@ "owner" :> "me"),
              !.patterns = <<"docs">>, !.sources = <<"ignore", "*ignore">>,
              !.include = {Local("python"), Local("data"), Local("gone")}])
            EXCEPT !.root = TRUE, !.strict = "no"]
Sub == File("sub", "sub", [Empty EXCEPT
              !.policy = Pol(Unset, "no"), !.byType = (Local("python") :> Pol(Unset, "yes") @@ M :> NoPol),
              !.format = Formatted("no", "80"), !.patterns = <<"src">>, !.exclude = {Local("data"), M}])
SubOther == [Sub EXCEPT !.table.byType = (P :> Pol("all", Invalid)), !.table.include = {M}]
Extra == [File("extra", "home", [Empty EXCEPT !.policy = Pol("update", "no"), !.header = {"file"}])
            EXCEPT !.strict = "yes"]
Broken == [File("project", "proj", Empty) EXCEPT !.loads = FALSE]
Careless == [Project EXCEPT !.table.format = Formatted(Invalid, Invalid)]

-----------------------------------------------------------------------------
Option(value) == [given |-> TRUE, value |-> value]
CliOverrides(policy, include) ==
  [NoOverrides EXCEPT !.policy = policy, !.include = Option(include), !.exclude = Option({})]

Cli(user, dirs, extra, overrides) ==
  [via |-> "cli", base |-> <<>>, user |-> user, dirs |-> dirs, extra |-> extra, noConfig |-> FALSE,
   strict |-> Unset, overrides |-> overrides, overlay |-> NoOverrides,
   paths |-> <<"README", "sub/s.py", "x.py">>, budget |-> 1]
Api(user, dirs, overrides, overlay) ==
  [Cli(user, dirs, <<>>, overrides) EXCEPT !.via = "api", !.overlay = overlay]

Tree(here, root) == <<here, <<root>>, <<Above>>>>
Plain == CliOverrides(NoPol, {})

MCRequests ==
  {[Cli(<<User>>, Tree(<<Sub>>, Project), <<>>, Plain) EXCEPT !.budget = 2],
   Cli(<<>>, Tree(<<>>, Careless), <<Extra>>, Plain),
   Cli(<<User>>, Tree(<<Sub>>, Project), <<Extra, User>>, CliOverrides(Pol("all", Unset), {Local("python"), M})),
   Cli(<<User>>, Tree(<<>>, Broken), <<>>, Plain),
   [Cli(<<User>>, Tree(<<>>, Project), <<SubOther>>, [Plain EXCEPT !.patterns = [given |-> TRUE, value |-> <<"cli">>]])
      EXCEPT !.noConfig = TRUE, !.strict = "no"],
   Api(<<User>>, Tree(<<Sub>>, Project), NoOverrides, NoOverrides),
   Api(<<>>, Tree(<<SubOther>>, Project), NoOverrides,
       [NoOverrides EXCEPT !.policy = Pol("all", Unset), !.byType = (Local("python") :> Pol(Unset, "yes"))]),
   Api(<<>>, Tree(<<SubOther>>, [Project EXCEPT !.table.byType = <<>>, !.table.include = {}]),
       [NoOverrides EXCEPT !.include = Option({P, M}), !.exclude = Option({Local("gone")})],
       [NoOverrides EXCEPT !.byType = (M :> Pol("add", Unset))]),
   [Api(<<>>, <<>>, NoOverrides, NoOverrides) EXCEPT !.base = <<Project.table>>, !.paths = <<"x.py">>, !.budget = 3],
   [Api(<<>>, <<>>, NoOverrides, NoOverrides) EXCEPT !.via = "idle", !.budget = 3]}

-----------------------------------------------------------------------------
(* Calls of the command line: every pair of options with each way to name  *)
(* the input, every three of those that bear upon each other               *)

Arguments == {{}, {"PATH"}, {"-"}, {"-", "--stdin-filename"}, {"PATH", "-"}, {"PATH", "--stdin-filename"}}
Interacting == {"--verbose", "--quiet", "json", "markdown", "--color=always", "--no-color", "--apply",
                "--write-mode=atomic", "--write-mode=inplace", "--write-mode=stdout", "--diff",
                "--summary", "--report"}
TwoOf(tokens) == {{a, b} : a, b \in tokens}
ThreeOf(tokens) == {{a, b, c} : a, b, c \in tokens}

\* click keeps one value of an option.
OneValueEach(given) ==
  /\ Cardinality(given \cap {"json", "markdown"}) <= 1
  /\ Cardinality(given \cap {"--write-mode=atomic", "--write-mode=inplace", "--write-mode=stdout"}) <= 1
  /\ given \cap {"--files-from", "--files-from -"} # {"--files-from", "--files-from -"}

CallsOf(command, given) ==
  {[command |-> command, given |-> given, stdin |-> s] :
     s \in IF given \cap {"-", "--files-from -", "--include-from -", "--exclude-from -"} = {}
           THEN {"terminal"} ELSE {"terminal", "empty", "text"}}
GivenTo(command) ==
  LET known == Accepted(command)
      tokens == {{}} \cup TwoOf(known \ {"PATH", "-", "--stdin-filename"}) \cup ThreeOf(known \cap Interacting)
      arguments == IF command = "dump" THEN {{}} ELSE Arguments
  IN  {g \in {a \cup o : a \in arguments, o \in tokens} : OneValueEach(g)}
Mistaken == {[command |-> c, given |-> {o, "PATH"}, stdin |-> "terminal"] :
               c \in {"check", "probe", "dump"}, o \in {"--files_from", "--apply", "--show-layers"}}
MCCalls ==
  (UNION {UNION {CallsOf(c, g) : g \in GivenTo(c)} : c \in {"check", "strip", "probe", "dump"}}) \cup Mistaken

(* Tables to load: every key with every kind of value, in a file and in a   *)
(* mapping, and every two keys with values of the common kinds.             *)

Value(type, items) == [type |-> type, items |-> items]
Str(w) == Value("str", <<w>>)
Lists == {<<>>, <<"word">>, <<"word", "other">>, <<"word", "word">>, <<"5", "word">>, <<"word", "">>,
          <<"group">>, <<"group", "half">>, <<"half", "word">>, <<"patchy", "faulty">>}
AnyValue ==
  {Str(w) : w \in {"", "word", "choice"}} \cup {Value("bool", <<b>>) : b \in {"true", "false"}}
  \cup {Value("int", <<n>>) : n \in {"0", "5"}} \cup {Value("list", l) : l \in Lists}
  \cup {Value("float", <<"1.5">>), Value("table", <<>>), Value("date", <<"today">>)}
CommonValue == {Str("word"), Str("choice"), Value("list", <<"word">>), Value("bool", <<"true">>)}

At(path, value) == [at |-> path, value |-> value]
TableAt(path) == At(path, Value("table", <<>>))
KeysOf(section) ==
  {"bogus"} \cup DumpOnlyKeys(section)
    \cup (IF section \in OpenSections THEN {} ELSE AllowedKeys(section))
Keyed(values) ==
  UNION {{At(<<s, k>>, v) : k \in KeysOf(s), v \in values} : s \in Sections}
OfPython(values) ==
  {At(<<"policy_by_type", "python", k>>, v) : k \in PolicyKeys \cup {"bogus"}, v \in values}
OnTop == {At(<<s>>, v) : s \in Sections \cup {"bogus"}, v \in {Str("word"), Value("list", <<"word">>)}}

\* Entries, and the tables they are in.
InTables(entries) ==
  entries \cup UNION {{TableAt(SubSeq(e.at, 1, k)) : k \in 1 .. Len(e.at) - 1} : e \in entries}
TableContents ==
  {{}} \cup {{e} : e \in OnTop} \cup {{TableAt(<<s>>)} : s \in Sections \cup {"bogus"}}
  \cup {InTables({e}) : e \in Keyed(AnyValue) \cup OfPython(AnyValue)}
  \cup {InTables({a, b}) : a, b \in Keyed(CommonValue)}
OfOneValueEach(entries) == \A a, b \in entries : a.at = b.at => a = b
MCTables ==
  {[via |-> v, found |-> TRUE, rest |-> {}, entries |-> c] :
     v \in {"file", "mapping"}, c \in {c \in TableContents : OfOneValueEach(c)}}
  \cup {[via |-> "pyproject", found |-> f, rest |-> r, entries |-> {}] :
          f \in BOOLEAN, r \in {{}, {"str"}, {"date"}}}

-----------------------------------------------------------------------------
NoCall == [command |-> "none", given |-> {}, stdin |-> "terminal"]
Asleep ==
  /\ call = NoCall /\ around = [terminal |-> TRUE, strategy |-> "none"]
  /\ stage = "end" /\ exit = "PARSER_ERROR" /\ verdict = "clean"
  /\ cli = CommonState({}, FALSE) /\ plan = NoPlan /\ options = NoOptions
  /\ copied = FALSE /\ heard = 0 /\ told = {} /\ out = <<>> /\ err = <<>> /\ put = "nowhere"

NoTable == [via |-> "none", found |-> FALSE, rest |-> {}, entries |-> {}]
Unread ==
  /\ source = NoTable /\ step = "end"
  /\ issues = {} /\ loading = {} /\ layered = {} /\ settings = {} /\ complaints = {}

Idle == CHOOSE r \in Requests : r.via = "idle"
SettingsInit ==
  \/ Init /\ Asleep /\ Unread
  \/ Init /\ request = Idle /\ CommandInit /\ around.terminal /\ Unread
  \/ Init /\ request = Idle /\ Asleep /\ EntriesInit

RunWithSettings == call = NoCall /\ source = NoTable /\ Next /\ UNCHANGED <<lineVars, entryVars>>
CallCommand == call # NoCall /\ CommandNext /\ UNCHANGED <<vars, entryVars>>
LoadTable == source # NoTable /\ EntriesNext /\ UNCHANGED <<vars, lineVars>>

SettingsNext == RunWithSettings \/ CallCommand \/ LoadTable
SettingsSpec == SettingsInit /\ [][SettingsNext]_<<vars, lineVars, entryVars>>
=============================================================================
