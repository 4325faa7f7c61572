--------------------------- MODULE RuntimeConfig ---------------------------
(***************************************************************************)
(* The configuration a run works with, from the request to the type,       *)
(* processor and policy of each file, while other threads of the process   *)
(* register, bind and remove file types and processors.                    *)
(*                                                                         *)
(* A run drafts a configuration from layered TOML files, freezes it        *)
(* against the registry, and through the API overlays a policy, freezes    *)
(* again and builds one configuration per path from the layers that apply  *)
(* to it.  Identifiers frozen early are used late: when files are selected *)
(* by type, when a path is probed, and when the probe's answer is looked   *)
(* up again.  A caller of the API may run again with the configuration of  *)
(* an earlier run as its base.                                             *)
(*                                                                         *)
(* Each stage that reads the registry is one step, though it takes the     *)
(* locks once per identifier.  What the other filters select is            *)
(* FileSelection's subject: request.paths is what they leave.              *)
(***************************************************************************)
EXTENDS ConfigLayers, TypeResolution

CONSTANT Requests

NoOption == [given |-> FALSE, value |-> {}]
NoOverrides ==
    [policy |-> AnyPolicy, byType |-> <<>>, format |-> [k \in DOMAIN Defaults.format |-> Unset],
     patterns |-> [given |-> FALSE, value |-> <<>>], include |-> NoOption, exclude |-> NoOption]

IsFiles(files) ==
    /\ files \in Seq({files[i] : i \in DOMAIN files})
    /\ \A i \in DOMAIN files : IsTable(files[i].table)

IsOverride(o) ==
    /\ o.policy = [f \in Fields |-> o.policy[f]]
    /\ o.byType = [id \in DOMAIN o.byType |-> [f \in Fields |-> o.byType[id][f]]]
    /\ o.format = [k \in DOMAIN Defaults.format |-> o.format[k]] /\ ~HasInvalid(o.format)
    /\ o.patterns.value \in Seq({o.patterns.value[i] : i \in DOMAIN o.patterns.value})
    /\ \A id \in o.include.value \cup o.exclude.value \cup DOMAIN o.byType : IsId(id)

\* The API sees no extra files and no strict option; a mapping given as its base
\* keeps it from looking for files; it overrides filters, and only the API overlays
\* policies late (_build_resolved_config_for_run, _apply_runtime_policy_overlays).
ASSUME RequestsAssumption ==
    \A r \in Requests :
        /\ r.via \in {"cli", "api", "idle"}
        /\ r.via = "cli" => r.base = <<>> /\ r.overlay = NoOverrides
                            /\ r.overrides.include.given /\ r.overrides.exclude.given
        /\ r.via = "api" => r.extra = <<>> /\ ~r.noConfig /\ r.strict = Unset
                            /\ r.overrides = [NoOverrides EXCEPT !.include = r.overrides.include,
                                                                !.exclude = r.overrides.exclude]
        /\ r.overlay = [NoOverrides EXCEPT !.policy = r.overlay.policy, !.byType = r.overlay.byType]
        /\ r.overrides.byType = <<>>
        /\ IsOverride(r.overrides) /\ IsOverride(r.overlay)
        /\ r.base = <<>> \/ (Len(r.base) = 1 /\ IsTable(r.base[1]))
        /\ IsFiles(r.user) /\ IsFiles(r.extra)
        /\ r.dirs \in Seq({r.dirs[i] : i \in DOMAIN r.dirs})
        /\ \A i \in DOMAIN r.dirs : IsFiles(r.dirs[i])
        /\ r.paths \in Seq(Paths)
        /\ r.budget \in Nat

VARIABLES
    request,     \* what was asked for
    round,       \* 1, or 2 for the run with the held configuration
    phase,
    budget,      \* changes other callers may still begin
    steady,      \* nobody changed the registries since the run began
    layers,      \* ConfigLayers of the API run
    draft,       \* MutableConfig
    config,      \* FrozenConfig
    pathConfigs, \* FrozenConfigs of the paths
    selected,    \* paths to process
    next,        \* index of the path at hand
    probe,       \* ResolutionProbeResult of that path, if probed
    outcomes     \* how the paths were resolved

runVars == <<request, round, phase, budget, steady, layers, draft, config, pathConfigs,
             selected, next, probe, outcomes>>
vars == <<runVars, registryVars>>

Overrides == IF round = 1 THEN request.overrides ELSE NoOverrides
Overlays == IF round = 1 THEN request.overlay ELSE NoOverrides
Files == Sources(request.user, request.dirs, request.extra, request.noConfig)

NoOutcome == [status |-> "PENDING", type |-> Nothing, proc |-> Nothing, policy |-> AnyPolicy]

-----------------------------------------------------------------------------
(* The stages of a run. *)

Discovers == request.base = <<>> /\ round = 1

\* resolve_toml_sources_and_build_mutable_config, or the base configuration over the
\* defaults; then the overrides.  Only an API run keeps the layers.
Draft ==
    /\ phase = "start" /\ phase' = "drafted"
    /\ LET base == IF round = 2 THEN config
                   ELSE IF request.base # <<>> THEN Parse(request.base[1])
                   ELSE MergeLayers(BuildLayers(Files))
           whole == IF Discovers THEN [base EXCEPT !.noted = @ \cup Complaints(Files)]
                    ELSE MergeWith(Parse(Defaults), base)
       IN  draft' = ApplyOverrides(whole, Overrides)
    /\ layers' = IF request.via = "api" /\ Discovers THEN BuildLayers(Files) ELSE <<>>
    /\ steady' = (round = 1 \/ steady)
    /\ UNCHANGED <<request, round, budget, config, pathConfigs, selected, next, probe, outcomes,
                   registryVars>>

\* The order in which two spellings of a type meet is that of a hash, for each type.
FreezeDraft ==
    /\ phase = "drafted"
    /\ \E localLast \in SUBSET FileTypes : config' = Freeze(draft, localLast)
    /\ phase' = IF request.via = "cli" /\ ~IsValid(config', Strict(Files, request.strict))
                THEN "refused"
                ELSE IF Overlays # NoOverrides THEN "frozen" ELSE "settled"
    /\ SeeNamed(Identifiers(draft))
    /\ UNCHANGED <<request, round, budget, steady, layers, draft, pathConfigs, selected, next,
                   probe, outcomes, procVars, bindVars, callVars>>

\* _apply_runtime_policy_overlays: an overlay's spelling of a type that has an entry comes
\* behind it; two spellings in the overlay are in the order of the caller's mapping.
OverlayPolicy ==
    /\ phase = "frozen" /\ phase' = "settled"
    /\ LET thawed == ApplyOverrides(config, Overlays)
       IN  /\ \E localLast \in SUBSET FileTypes :
                 /\ DOMAIN config.byType \subseteq localLast
                 /\ config' = Freeze(thawed, localLast)
           /\ SeeNamed(Identifiers(thawed))
    /\ UNCHANGED <<request, round, budget, steady, layers, draft, pathConfigs, selected, next,
                   probe, outcomes, procVars, bindVars, callVars>>

Select ==
    /\ phase = "settled"
    /\ selected' = Picked(request.paths, {i \in DOMAIN request.paths :
                     KeptByType(request.paths[i], config.include,
                                NamedBy(config.include), NamedBy(config.exclude))})
    /\ phase' = IF selected' = <<>> THEN "done" ELSE IF layers # <<>> THEN "scoping" ELSE "running"
    /\ pathConfigs' = IF layers # <<>> THEN <<>> ELSE [p \in ToSet(selected') |-> config]
    /\ SeeNamed(config.include \cup config.exclude)
    /\ UNCHANGED <<request, round, budget, steady, layers, draft, config, next, probe, outcomes,
                   procVars, bindVars, callVars>>

\* The merged configuration shares its filter sets with the closest layer that has
\* one, and freezing it rewrites them there.
Owner(p, filter) ==
    LET at == {i \in DOMAIN layers : Applies(layers[i], p) /\ layers[i].config[filter] # {}}
    IN  IF at = {} THEN 0 ELSE Max(at)

WithFilters(layer, include, exclude) ==
    [layer EXCEPT !.config = [@ EXCEPT !.include = include, !.exclude = exclude]]

\* Mutant: every layer that applies is given the merged filter.
Normalized_InAllLayers(p) ==
    LET merged == MergeLayers(Applicable(layers, p))
    IN  [i \in DOMAIN layers |->
            IF ~Applies(layers[i], p) THEN layers[i]
            ELSE WithFilters(layers[i], NamedBy(merged.include), NamedBy(merged.exclude))]

Normalized(p) ==
    [i \in DOMAIN layers |->
        LET c == layers[i].config
        IN  WithFilters(layers[i], IF i = Owner(p, "include") THEN NamedBy(c.include) ELSE c.include,
                                   IF i = Owner(p, "exclude") THEN NamedBy(c.exclude) ELSE c.exclude)]

\* _build_path_configs, one path at a time; the policies are those of the run.
ScopePath ==
    /\ phase = "scoping"
    /\ LET p == selected[next]
           merged == MergeLayers(Applicable(layers, p))
           own == [Freeze(merged, {}) EXCEPT !.policy = config.policy, !.byType = config.byType]
       IN  /\ pathConfigs' = [q \in DOMAIN pathConfigs \cup {p} |->
                                 IF q = p THEN own ELSE pathConfigs[q]]
           /\ layers' = Normalized(p)
           /\ SeeNamed(Identifiers(merged))
    /\ IF next < Len(selected) THEN next' = next + 1 /\ UNCHANGED phase
       ELSE next' = 1 /\ phase' = "running"
    /\ UNCHANGED <<request, round, budget, steady, draft, config, selected, probe, outcomes,
                   procVars, bindVars, callVars>>

-----------------------------------------------------------------------------
(* Resolution of one path: probed, then looked up again. *)

Recorded(outcome) ==
    [p \in DOMAIN outcomes \cup {selected[next]} |->
        IF p = selected[next] THEN outcome ELSE outcomes[p]]

Ends(outcome) ==
    /\ outcomes' = Recorded(outcome)
    /\ probe' = <<>>
    /\ next' = next + 1
    /\ phase' = IF next = Len(selected) THEN "done" ELSE phase

\* Registry.resolve_processor looks the type up, composes the bindings, and asks for
\* the processor, which the composition has seen.
SeeProcessor ==
    IF BoundTypes = {} THEN SeeTypes /\ UNCHANGED procVars ELSE SeeBindings

Raised == [NoOutcome EXCEPT !.status = "RAISED"]
Unsupported == [NoOutcome EXCEPT !.status = "UNSUPPORTED"]

ProbePath ==
    /\ phase = "running" /\ probe = <<>>
    /\ LET p == selected[next]
           c == pathConfigs[p]
           candidates == Candidates(KnownTypes, p, c.include, c.exclude)
       IN  \/ /\ candidates = {}
              /\ SeeTypes /\ UNCHANGED procVars
              /\ Ends(Unsupported)
           \/ /\ candidates # {}
              /\ SeeProcessor
              /\ IF Dangling # {} THEN Ends(Raised)
                 ELSE LET best == Best(candidates, p)
                      IN  /\ probe' = <<[type |-> best, proc |-> BindingOf(best)]>>
                          /\ UNCHANGED <<outcomes, next, phase>>
    /\ UNCHANGED <<request, round, budget, steady, layers, draft, config, pathConfigs, selected,
                   bindVars, callVars>>

ResolvePath ==
    /\ phase = "running" /\ probe # <<>>
    /\ LET t == probe[1].type
           known == t \in KnownTypes
           Status(s) == [NoOutcome EXCEPT !.status = s, !.type = IF known THEN t ELSE Nothing]
       IN  \/ /\ ~known \/ Traits[t].skip \/ probe[1].proc = Nothing
              /\ SeeTypes /\ UNCHANGED procVars
              /\ Ends(Status(IF known /\ Traits[t].skip THEN "HEADERS_UNSUPPORTED"
                             ELSE "NO_PROCESSOR"))
           \/ /\ known /\ ~Traits[t].skip /\ probe[1].proc # Nothing
              /\ SeeProcessor
              /\ Ends(IF Dangling # {} THEN Raised
                      ELSE IF BindingOf(t) = Nothing THEN Status("NO_PROCESSOR")
                      ELSE [Status("RESOLVED") EXCEPT
                               !.proc = BindingOf(t),
                               !.policy = EffectivePolicy(pathConfigs[selected[next]], t)])
    /\ UNCHANGED <<request, round, budget, steady, layers, draft, config, pathConfigs, selected,
                   bindVars, callVars>>

\* The caller hands the frozen configuration in as the base of another run.
RunAgain ==
    /\ phase = "done" /\ request.via = "api" /\ round = 1
    /\ round' = 2 /\ phase' = "start" /\ next' = 1
    /\ pathConfigs' = <<>> /\ outcomes' = <<>> /\ layers' = <<>>
    /\ UNCHANGED <<request, budget, steady, draft, config, selected, probe, registryVars>>

-----------------------------------------------------------------------------
(* Other callers of the registry. *)

Disturb ==
    /\ budget > 0 /\ budget' = budget - 1
    /\ steady' = FALSE
    /\ \E c \in Callers : Begins(c)
    /\ UNCHANGED <<request, round, phase, layers, draft, config, pathConfigs, selected, next,
                   probe, outcomes>>

Proceed ==
    /\ steady' = FALSE
    /\ \E c \in Callers : GoesOn(c)
    /\ UNCHANGED <<request, round, phase, budget, layers, draft, config, pathConfigs, selected,
                   next, probe, outcomes>>

Init ==
    /\ RegistryInit
    /\ request \in Requests /\ budget = request.budget
    /\ round = 1 /\ phase = IF request.via = "idle" THEN "done" ELSE "start"
    /\ steady = FALSE
    /\ layers = <<>> /\ draft = Parse(Defaults) /\ config = Parse(Defaults)
    /\ pathConfigs = <<>> /\ selected = <<>> /\ next = 1 /\ probe = <<>> /\ outcomes = <<>>

Next ==
    \/ Draft \/ FreezeDraft \/ OverlayPolicy \/ Select \/ ScopePath
    \/ ProbePath \/ ResolvePath \/ RunAgain
    \/ Disturb \/ Proceed

Spec == Init /\ [][Next]_vars

-----------------------------------------------------------------------------
(***************************************************************************)
(* What the run was told: the drafts in order of precedence, the built-in  *)
(* one first, and what overrides add to them.                              *)
(***************************************************************************)
Declared ==
    IF request.base # <<>> THEN <<Parse(Defaults), Parse(request.base[1])>>
    ELSE [i \in DOMAIN BuildLayers(Files) |-> BuildLayers(Files)[i].config]

Told == Declared \o <<request.overrides, request.overlay>>

\* The last of a sequence that says something, or the value to fall back on.
LastOf(told, Says(_), Value(_), fallback) ==
    LET at == {i \in DOMAIN told : Says(told[i])}
    IN  IF at = {} THEN fallback ELSE Value(told[Max(at)])

\* The closest setting of a field for the type, or else the closest one for all types.
DeclaredPolicy(t, f) ==
    LET Own(c) == {c.byType[id][f] : id \in DOMAIN c.byType \cap {t, LocalId(t)}} \ {Unset}
    IN  LastOf(Told, LAMBDA c : Own(c) # {}, LAMBDA c : CHOOSE v \in Own(c) : TRUE,
               LastOf(Told, LAMBDA c : c.policy[f] # Unset, LAMBDA c : c.policy[f],
                      PolicyDefaults[f]))

DeclaredEntries == UNION {DOMAIN Declared[i].byType : i \in DOMAIN Declared}

\* A type spelled in two ways has no order among its entries, nor among those of an
\* overlay, and an overlay of the API does not reach a type that has an entry.
Unordered(t) ==
    \/ {t, LocalId(t)} \subseteq DeclaredEntries
    \/ {t, LocalId(t)} \subseteq DOMAIN request.overlay.byType
    \/ {t, LocalId(t)} \cap DeclaredEntries # {} /\ request.overlay.policy # AnyPolicy

DeclaredFilter(Filter(_), option) ==
    NamedBy(IF option.given THEN option.value
            ELSE LastOf(Declared, LAMBDA c : Filter(c) # {}, Filter, {}))

Configured == phase \in {"settled", "scoping", "running", "done"} /\ request.via # "idle"

-----------------------------------------------------------------------------
(* What must hold. *)

(* Whatever layers, overrides and overlays a run is given, every policy field of
   every registered type, every header setting, value, pattern and filter is that of
   the closest place that sets it, with the discipline of its kind, and a run on the
   configuration another run has frozen finds the same; as long as nobody changes the
   registries meanwhile (model.py merge_with and freeze, merge.py
   merge_layers_globally, overrides.py apply_config_overrides). *)
ClosestLayerWins ==
    Configured /\ steady =>
        /\ \A t \in FreshTypes : \A f \in Fields :
              Unordered(t) \/ EffectivePolicy(config, t)[f] = DeclaredPolicy(t, f)
        /\ config.header = LastOf(Declared, LAMBDA c : c.header # {}, LAMBDA c : c.header, {})
        /\ \A k \in DOMAIN config.format :
              config.format[k] = LastOf(Declared \o <<request.overrides>>,
                  LAMBDA c : c.format[k] # Unset, LAMBDA c : c.format[k], Unset)
        /\ \A v \in UNION {DOMAIN Declared[i].values : i \in DOMAIN Declared} :
              config.values[v] = LastOf(Declared, LAMBDA c : v \in DOMAIN c.values,
                                        LAMBDA c : c.values[v], Unset)
        /\ config.patterns = IF request.overrides.patterns.given THEN request.overrides.patterns.value
                             ELSE FlattenSeq([i \in DOMAIN Declared |-> Declared[i].patterns])
        /\ config.include = DeclaredFilter(LAMBDA c : c.include, request.overrides.include)
        /\ config.exclude = DeclaredFilter(LAMBDA c : c.exclude, request.overrides.exclude)

\* A filter of which nothing is registered vanishes from its layer.
FiltersNameTypes ==
    \A i \in DOMAIN Declared : \A ids \in {Declared[i].include, Declared[i].exclude} :
        ids # {} => NamedBy(ids) # {}

(* The configuration of a path is what its own layers make of it: neither the paths
   configured before it, whose freezing rewrites filters that layers share, nor
   their order shows, and a layer of another directory never does
   (api/runtime.py _build_path_configs, merge.py select_applicable_layers,
   model.py merge_with and sanitize). *)
PathConfigIsOfItsLayers ==
    layers # <<>> /\ steady /\ FiltersNameTypes =>
        \A p \in DOMAIN pathConfigs :
            LET own == Freeze(MergeLayers(Applicable(BuildLayers(Files), p)), {})
            IN  pathConfigs[p] = [own EXCEPT !.noted = pathConfigs[p].noted,
                                             !.policy = config.policy, !.byType = config.byType]

Kind(t, p) ==
    IF ByFilename(t, p) THEN 4 ELSE IF Hit(t, p) THEN 3
    ELSE IF ByPattern(t, p) THEN 2 ELSE IF ByExtension(t, p) THEN 1 ELSE 0

Allowed(c, t) == (c.include # {} => t \in c.include) /\ t \notin c.exclude

\* A lookup raises only if somebody took a definition away from under its bindings or
\* two callers' changes overlapped.
RaisesAreExplained ==
    \A p \in DOMAIN outcomes : outcomes[p].status = "RAISED" => direct \/ overlapped

(* A file gets a type its filters allow, and no other such type has a better claim to
   it: a name before its content, a pattern, an extension.  The policy it is
   processed under is the one declared for that type.  When the registries change
   under the run a lookup may find nothing, but it raises only for the reasons above
   (resolution/filetypes.py probe_resolution_for_path, resolver.py
   apply_probe_resolution_to_context, pipeline/context/model.py
   get_effective_policy). *)
FileGetsItsTypeAndPolicy ==
    /\ RaisesAreExplained
    /\ \A p \in DOMAIN outcomes :
        LET o == outcomes[p]
        IN  /\ o.type # Nothing => Allowed(pathConfigs[p], o.type)
            /\ steady /\ o.type # Nothing =>
                 \A t \in FreshTypes :
                     Allowed(pathConfigs[p], t) /\ ShouldInclude(t, p) => Kind(t, p) <= Kind(o.type, p)
            /\ steady /\ o.status = "RESOLVED" =>
                 \A f \in Fields : Unordered(o.type) \/ o.policy[f] = DeclaredPolicy(o.type, f)

(* Absent override values leave in place what the configuration files say
   (overrides.py apply_config_overrides): without file types on the command line, the
   file types the closest configuration file includes are those of the run. *)
ConfiguredFiltersStand ==
    Configured /\ steady /\ request.via = "cli" /\ request.overrides.include.value = {} =>
        config.include = DeclaredFilter(LAMBDA c : c.include, NoOption)
=============================================================================
