---------------------------- MODULE ConfigLayers ----------------------------
(***************************************************************************)
(* From TOML files to a configuration (topmark/toml/resolution.py,         *)
(* topmark/config): which files are found and in which order, what their   *)
(* tables become, how the layers merge field by field, what overrides      *)
(* change, and what freezing makes of identifiers of file types.           *)
(*                                                                         *)
(* A TOML file is a record of its path, its directory, whether it loads,   *)
(* its [config] entries, the severities its schema check reports, and its  *)
(* table.  A table is a draft that may hold Invalid values.  Provenance    *)
(* and the wording of diagnostics are left out; of the pattern sources     *)
(* only those that freezing drops are told apart.                          *)
(***************************************************************************)
EXTENDS TypeRegistry, SequencesExt, Picking

CONSTANTS Fields,         \* policy fields
          Flags,          \* those that are true or false
          PolicyDefaults, \* FrozenPolicy(): [Fields -> values]
          Defaults,       \* the built-in table
          Globs,          \* pattern sources whose path has glob characters
          Inside          \* of a path: the directories it is in or below

Unset == "unset"
Invalid == "invalid"
Everywhere == "everywhere"
AnyPolicy == [f \in Fields |-> Unset]

\* What a table gives: for all keys it may hold a value, Unset where it says nothing.
IsId(id) == id \in [ns : {id.ns}, key : {id.key}]
IsTable(c) ==
    /\ c = [policy |-> c.policy, byType |-> c.byType, header |-> c.header, format |-> c.format,
            values |-> c.values, patterns |-> c.patterns, sources |-> c.sources,
            include |-> c.include, exclude |-> c.exclude, noted |-> c.noted]
    /\ c.policy = [f \in Fields |-> c.policy[f]]
    /\ c.byType = [id \in DOMAIN c.byType |-> [f \in Fields |-> c.byType[id][f]]]
    /\ c.format = [k \in DOMAIN Defaults.format |-> c.format[k]]
    /\ c.values = [v \in DOMAIN c.values |-> c.values[v]]
    /\ c.patterns \in Seq({c.patterns[i] : i \in DOMAIN c.patterns})
    /\ \A id \in c.include \cup c.exclude \cup DOMAIN c.byType : IsId(id)

\* build_default_topmark_toml_table: header fields, a layout and policies, nothing else.
ASSUME DefaultsAssumption ==
    /\ PolicyDefaults = [f \in Fields |-> PolicyDefaults[f]]
    /\ \A f \in Fields : PolicyDefaults[f] # Unset
    /\ IsTable(Defaults)
    /\ Defaults.byType = <<>> /\ Defaults.patterns = <<>>
    /\ Defaults.include = {} /\ Defaults.exclude = {}
    /\ {"align_fields", "max_header_line_length"} \subseteq DOMAIN Defaults.format

-----------------------------------------------------------------------------
(* Sources. *)

\* dirs leads from the anchor up; within a directory pyproject.toml comes first.
Discovered(dirs) ==
    LET Roots == {i \in DOMAIN dirs : \E j \in DOMAIN dirs[i] :
                     dirs[i][j].loads /\ dirs[i][j].root}
        top == IF Roots = {} THEN Len(dirs) ELSE Min(Roots)
    IN  FlattenSeq(Reverse(SubSeq(dirs, 1, top)))

KeepLast(files) ==
    Picked(files, {i \in DOMAIN files :
                      \A j \in DOMAIN files : j > i => files[j].path # files[i].path})

Sources(user, dirs, extra, noConfig) ==
    KeepLast((IF noConfig THEN <<>> ELSE user \o Discovered(dirs)) \o extra)

Loaded(files) == Picked(files, {i \in DOMAIN files : files[i].loads})

LastGiven(values) ==
    FoldLeft(LAMBDA sofar, v : IF v = Unset THEN sofar ELSE v, Unset, values)

\* [config].strict of the last source that gives one, unless overridden.
Strict(files, override) ==
    LastGiven([i \in DOMAIN Loaded(files) |-> Loaded(files)[i].strict] \o <<override>>)

Complaints(files) ==
    UNION {IF files[i].loads THEN files[i].issues ELSE {"error"} : i \in DOMAIN files}

-----------------------------------------------------------------------------
(* A table becomes a draft (ConfigEntries has the single values): an        *)
(* invalid value is reported and not set, but a policy flag is coerced to a *)
(* truth value: most values of a wrong type are true.                       *)

Coerce(values) == [k \in DOMAIN values |-> IF values[k] = Invalid /\ k \in Flags THEN "yes" ELSE values[k]]
Accept(values) == [k \in DOMAIN values |-> IF values[k] = Invalid THEN Unset ELSE values[k]]
HasInvalid(values) == \E k \in DOMAIN values : values[k] = Invalid

Parse(table) ==
    [table EXCEPT
        !.policy = Accept(Coerce(@)),
        !.byType = [id \in DOMAIN @ |-> Accept(Coerce(@[id]))],
        !.format = Accept(@),
        !.noted =
            (IF \/ HasInvalid(table.policy)
                \/ \E id \in DOMAIN table.byType : HasInvalid(table.byType[id])
                \/ table.format.align_fields = Invalid
                \/ table.header = {}
             THEN {"warning"} ELSE {})
            \cup (IF table.format.max_header_line_length = Invalid THEN {"error"} ELSE {})]

-----------------------------------------------------------------------------
(* Layers and their merge. *)

Layer(file) == [scope |-> file.dir, config |-> Parse(file.table)]
BuildLayers(files) ==
    <<[scope |-> Everywhere, config |-> Parse(Defaults)]>>
    \o [i \in DOMAIN Loaded(files) |-> Layer(Loaded(files)[i])]

Overlay(base, over) == [k \in DOMAIN base |-> IF over[k] = Unset THEN base[k] ELSE over[k]]

\* What both have is merged; the rest is kept.
Union(base, over, Both(_, _)) ==
    [k \in DOMAIN base \cup DOMAIN over |->
        IF k \notin DOMAIN base THEN over[k]
        ELSE IF k \notin DOMAIN over THEN base[k]
        ELSE Both(base[k], over[k])]

Latter(base, over) == over
OrElse(over, base) == IF over # {} THEN over ELSE base

\* Mutant: entries of one type replace each other as a whole.
MergeWith_WholeEntries(base, over) ==
    [policy   |-> Overlay(base.policy, over.policy),
     byType   |-> Union(base.byType, over.byType, Latter),
     header   |-> OrElse(over.header, base.header),
     format   |-> Overlay(base.format, over.format),
     values   |-> Union(base.values, over.values, Latter),
     patterns |-> base.patterns \o over.patterns,
     sources  |-> base.sources \o over.sources,
     include  |-> OrElse(over.include, base.include),
     exclude  |-> OrElse(over.exclude, base.exclude),
     noted    |-> base.noted \cup over.noted]

MergeWith(base, over) ==
    [policy   |-> Overlay(base.policy, over.policy),
     byType   |-> Union(base.byType, over.byType, Overlay),
     header   |-> OrElse(over.header, base.header),
     format   |-> Overlay(base.format, over.format),
     values   |-> Union(base.values, over.values, Latter),
     patterns |-> base.patterns \o over.patterns,
     sources  |-> base.sources \o over.sources,
     include  |-> OrElse(over.include, base.include),
     exclude  |-> OrElse(over.exclude, base.exclude),
     noted    |-> base.noted \cup over.noted]

MergeLayers(layers) ==
    FoldLeft(LAMBDA merged, layer : MergeWith(merged, layer.config),
             layers[1].config, Tail(layers))

Applies(layer, p) == layer.scope = Everywhere \/ layer.scope \in Inside[p]
Applicable(layers, p) == Picked(layers, {i \in DOMAIN layers : Applies(layers[i], p)})

-----------------------------------------------------------------------------
(* Overrides: a filter or a list that is given replaces, even if empty. *)

Given(option, current) == IF option.given THEN option.value ELSE current

ApplyOverrides(c, o) ==
    [c EXCEPT
        !.policy = Overlay(@, o.policy),
        !.byType = Union(@, o.byType, Overlay),
        !.format = Overlay(@, Accept(o.format)),
        !.patterns = Given(o.patterns, @),
        !.include = Given(o.include, @),
        !.exclude = Given(o.exclude, @),
        !.noted = @ \cup (IF HasInvalid(o.format) THEN {"error"} ELSE {})]

-----------------------------------------------------------------------------
(* Freezing: identifiers are resolved by the registry as it is now. *)

Identifiers(c) == c.include \cup c.exclude \cup DOMAIN c.byType

\* Two spellings of one type meet here, the one iterated first underneath: localLast are
\* the types whose local spelling is iterated last.
Entry(byType, t, localLast) ==
    LET has == DOMAIN byType \cap {t, LocalId(t)}
    IN  IF has = {t, LocalId(t)}
        THEN IF t \in localLast THEN Overlay(byType[t], byType[LocalId(t)])
                          ELSE Overlay(byType[LocalId(t)], byType[t])
        ELSE byType[CHOOSE id \in has : TRUE]

Sanitize(c, localLast) ==
    LET include == NamedBy(c.include)
        exclude == NamedBy(c.exclude)
        types   == NamedBy(DOMAIN c.byType)
        kept    == Picked(c.sources, {i \in DOMAIN c.sources : c.sources[i] \notin Globs})
        ignored == \/ \E id \in Identifiers(c) : Named(id) = {}
                   \/ kept # c.sources
                   \/ include \cap exclude # {}
    IN  [c EXCEPT !.include = include, !.exclude = exclude, !.sources = kept,
                  !.byType = [t \in types |-> Entry(c.byType, t, localLast)],
                  !.noted = @ \cup (IF ignored THEN {"warning"} ELSE {})]

\* Thawing a frozen configuration gives its values back, all of them set.
Freeze(c, localLast) ==
    LET clean  == Sanitize(c, localLast)
        policy == Overlay(PolicyDefaults, clean.policy)
    IN  [clean EXCEPT !.policy = policy,
                      !.byType = [t \in DOMAIN @ |-> Overlay(policy, @[t])]]

IsValid(c, strict) ==
    "error" \notin c.noted /\ (strict = "yes" => "warning" \notin c.noted)

\* effective_frozen_policy: the entry of the type itself, or the global policy.
EffectivePolicy(c, t) == IF t \in DOMAIN c.byType THEN c.byType[t] ELSE c.policy
=============================================================================
