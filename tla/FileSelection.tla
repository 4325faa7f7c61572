---------------------------- MODULE FileSelection ----------------------------
(***************************************************************************)
(* Which files a run works on: resolution/files.py expands the explicit    *)
(* inputs, filters what it found by path patterns and by file type, and    *)
(* keeps one processing path per file; probe then explains every explicit  *)
(* input that did not make it.                                             *)
(*                                                                         *)
(* The file system is a parameter (node) of every operator, since other    *)
(* programs may change it between the steps of a run.  A gitignore pattern *)
(* is the set of canonical paths it matches, a glob the set of names it    *)
(* may hit, a file type the set of names it matches.                       *)
(***************************************************************************)
EXTENDS Integers, Sequences, FiniteSets, Picking

CONSTANTS
  Path,         \* the names a run may meet
  SortedPaths,  \* the same names as a sequence, in the order of their POSIX spelling
  Ancestors,    \* the directories above each name
  Target,       \* the file each symbolic link leads to; its domain is the links
  Glob,         \* glob inputs
  GlobHits,     \* the names a glob can hit
  Pattern,      \* gitignore patterns
  PatternHits,  \* the canonical paths a pattern matches
  FileType,     \* file types the registry knows
  TypeHits      \* the names a file type matches, by extension, name or pattern

ASSUME NamesAssumption ==
  /\ \A p \in Path : \E i \in DOMAIN SortedPaths : SortedPaths[i] = p
  /\ \A i \in DOMAIN SortedPaths : SortedPaths[i] \in Path
  /\ \A i, j \in DOMAIN SortedPaths : i # j => SortedPaths[i] # SortedPaths[j]
  /\ SortedPaths \in Seq(Path)
  /\ Ancestors \in [Path -> SUBSET Path]
  /\ DOMAIN Target \subseteq Path
  /\ \A l \in DOMAIN Target : Target[l] \in Path \ DOMAIN Target

ASSUME MatchingAssumption ==
  /\ Path \cap Glob = {}
  /\ GlobHits \in [Glob -> SUBSET Path]
  /\ PatternHits \in [Pattern -> SUBSET Path]
  /\ TypeHits \in [FileType -> SUBSET Path]

------------------------------------------------------------------------------
(***************************************************************************)
(* The file system: what stands at a name is nothing, a directory, a       *)
(* symbolic link, or the inode of a file.  Two names with one inode are    *)
(* hard links.                                                             *)
(***************************************************************************)
Special == {"absent", "dir", "link"}

Canonical(node, p) == IF node[p] = "link" THEN Target[p] ELSE p

Exists(node, p) == node[Canonical(node, p)] # "absent"
IsDir(node, p)  == node[Canonical(node, p)] = "dir"
IsFile(node, p) == node[Canonical(node, p)] \notin Special

(***************************************************************************)
(* Pattern groups and pattern files compile to matchers; a group without   *)
(* patterns and a file that cannot be read or has none do not.             *)
(***************************************************************************)
PatternSource == [patterns : SUBSET Pattern, readable : BOOLEAN]
PathFilter == [groups : SUBSET SUBSET Pattern, sources : SUBSET PatternSource]

Matchers(filter) ==
  {g \in filter.groups : g # {}}
  \cup {s.patterns : s \in {t \in filter.sources : t.readable /\ t.patterns # {}}}

MatchesAny(node, matchers, p) ==
  \E patterns \in matchers : \E x \in patterns : Canonical(node, p) \in PatternHits[x]

\* An identifier no registered file type answers to is reported and passed over.
ConfiguredTypes(ids) == ids \cap FileType

MatchesType(p, types) == \E t \in types : p \in TypeHits[t]

\* The part of the configuration that selection reads: the positional inputs, the
\* lists of --files-from taken together, which hold names, and the filters.
Config == [files : Seq(Path \cup Glob),
           from : [given : BOOLEAN, readable : BOOLEAN, entries : Seq(Path)],
           include : PathFilter, exclude : PathFilter,
           includeTypes : SUBSET STRING, excludeTypes : SUBSET STRING, valid : BOOLEAN]

\* What the path filters of the configuration drop, and its file type filters.
ExcludedByPath(node, cfg, p) ==
  \/ Matchers(cfg.include) # {} /\ ~MatchesAny(node, Matchers(cfg.include), p)
  \/ MatchesAny(node, Matchers(cfg.exclude), p)

ExcludedByType(cfg, p) ==
  \/ cfg.includeTypes # {} /\ ~MatchesType(p, ConfiguredTypes(cfg.includeTypes))
  \/ MatchesType(p, ConfiguredTypes(cfg.excludeTypes))

\* os.walk from root, pruned below excluded directories; links are not followed.
Walk(node, cfg, root) ==
  LET Pruned(d) == MatchesAny(node, Matchers(cfg.exclude), d)
  IN {p \in Path : /\ root \in Ancestors[p] /\ node[p] \notin {"absent", "dir"}
                   /\ \A d \in Ancestors[p] \cup {root} :
                        d = root \/ root \in Ancestors[d] => node[d] = "dir" /\ ~Pruned(d)}

Expand(node, cfg, input) ==
  IF input \in Glob THEN {p \in GlobHits[input] : node[p] # "absent"}
  ELSE IF IsDir(node, input) THEN Walk(node, cfg, input)
  ELSE IF IsFile(node, input) THEN {input} ELSE {}

\* What a readable list names, links followed.
Listed(node, from) ==
  IF from.readable THEN [i \in DOMAIN from.entries |-> Canonical(node, from.entries[i])] ELSE <<>>

\* Positional inputs as they were spelled, then what the lists name.
ExplicitInputs(node, cfg) == cfg.files \o Listed(node, cfg.from)

Elements(seq) == {seq[i] : i \in DOMAIN seq}

\* Without any input the include groups themselves are expanded.
SeededByIncludes(node, cfg) ==
  {Canonical(node, p) : p \in {q \in Path : /\ IsFile(node, q)
                                            /\ \E g \in cfg.include.groups : \E x \in g : q \in PatternHits[x]}}

InputSet(node, cfg) ==
  IF ExplicitInputs(node, cfg) = <<>> THEN SeededByIncludes(node, cfg)
  ELSE Elements(ExplicitInputs(node, cfg))

\* Files the inputs lead to that pass every filter, under whatever name.
Candidates(node, cfg) ==
  {p \in UNION {Expand(node, cfg, i) : i \in InputSet(node, cfg)} :
     IsFile(node, p) /\ ~ExcludedByPath(node, cfg, p) /\ ~ExcludedByType(cfg, p)}

MissingLiterals(node, cfg) ==
  LET inputs == ExplicitInputs(node, cfg)
  IN Picked(inputs, {i \in DOMAIN inputs : inputs[i] \notin Glob /\ ~Exists(node, inputs[i])})

\* Mutant: one processing path per name.
Selected_ByName(node, candidates) ==
  Picked(SortedPaths, {i \in DOMAIN SortedPaths : SortedPaths[i] \in candidates})

\* One processing path per canonical path, sorted.
Selected(node, candidates) ==
  Picked(SortedPaths, {i \in DOMAIN SortedPaths :
                         SortedPaths[i] \in {Canonical(node, q) : q \in candidates}})

------------------------------------------------------------------------------
(***************************************************************************)
(* probe_explicit_file_selection: the explicit inputs that are neither     *)
(* selected nor missing, each with the reason.  A glob is not a name that  *)
(* exists, and canonicalising a name that leads nowhere falls back on it.  *)
(***************************************************************************)
Reasons == {"NOT_FOUND", "NOT_A_FILE", "EXCLUDED_BY_PATH_FILTER",
            "EXCLUDED_BY_FILE_TYPE_FILTER", "EXCLUDED_BY_DISCOVERY_FILTER"}

Identity(node, p) == IF p \notin Glob /\ Exists(node, p) THEN Canonical(node, p) ELSE p

Identities(node, seq) == {Identity(node, p) : p \in Elements(seq)}

Reason(node, cfg, p) ==
  IF p \in Glob \/ ~Exists(node, p) THEN "NOT_FOUND"
  ELSE IF IsDir(node, p) THEN "NOT_A_FILE"
  ELSE IF ExcludedByPath(node, cfg, p) THEN "EXCLUDED_BY_PATH_FILTER"
  ELSE IF ExcludedByType(cfg, p) THEN "EXCLUDED_BY_FILE_TYPE_FILTER"
  ELSE "EXCLUDED_BY_DISCOVERY_FILTER"

HasSelectedDescendant(node, dir, selected) ==
  \E q \in Identities(node, selected) : dir \in Ancestors[q]

\* Mutant: inputs are compared as they were spelled.
Unexplained_ByName(node, selected, missing, p) ==
  \/ p \in Elements(selected) \cup Elements(missing)
  \/ p \notin Glob /\ IsDir(node, p) /\ HasSelectedDescendant(node, p, selected)

Unexplained(node, selected, missing, p) ==
  \/ Identity(node, p) \in Identities(node, selected) \cup Identities(node, missing)
  \/ p \notin Glob /\ IsDir(node, p) /\ HasSelectedDescendant(node, p, selected)

Explain(node, cfg, selected, missing) ==
  LET inputs == ExplicitInputs(node, cfg)
      left   == Picked(inputs, {i \in DOMAIN inputs : ~Unexplained(node, selected, missing, inputs[i])})
  IN [i \in DOMAIN left |-> [path |-> left[i], reason |-> Reason(node, cfg, left[i])]]
=============================================================================
