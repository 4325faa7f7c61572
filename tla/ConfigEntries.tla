---------------------------- MODULE ConfigEntries ----------------------------
(***************************************************************************)
(* How the entries of one configuration table become settings: the table   *)
(* of a topmark.toml, the [tool.topmark] table of a pyproject.toml, or the *)
(* mapping a caller of the API hands in.  A file is validated against the  *)
(* schema as a whole and cut into the parts for loading, for the writer    *)
(* and for layering; the last part is read key by key.  ConfigLayers is    *)
(* about what then becomes of the tables.                                  *)
(*                                                                         *)
(* An entry has a path and a value, a value a type and items: those of a   *)
(* list, or one.  A section that is there has an entry of its own.         *)
(***************************************************************************)
EXTENDS Naturals, Sequences, FiniteSets, SequencesExt, Picking

CONSTANT Tables   \* what there is to load: records [via, found, rest, entries].  Of a
                  \* pyproject.toml: whether it has the table, and the types of other values

TomlEntry == [at : Seq(STRING) \ {<<>>}, value : [type : STRING, items : Seq(STRING)]]

\* A table has one value at each path, tables above it, and a bool is one.
OfToml(entries) ==
  /\ entries \subseteq TomlEntry
  /\ \A e, f \in entries : e.at = f.at => e = f
  /\ \A e \in entries : \A k \in 1 .. Len(e.at) - 1 :
       \E p \in entries : p.at = SubSeq(e.at, 1, k) /\ p.value.type = "table"
  /\ \A e \in entries : e.value.type = "bool" => e.value.items \in {<<"true">>, <<"false">>}

ASSUME TablesAssumption == \A t \in Tables : OfToml(t.entries)

VARIABLES
  source,    \* what is loaded
  step,      \* what is done next
  issues,    \* TomlValidationIssues of the schema: [level, at]
  loading,   \* SourceConfigLoadingOptions, SourceTomlOptions and WriterOptions
  layered,   \* the entries handed on to the deserializer
  settings,  \* the draft: what is set by which entry, [at, to]
  complaints \* the draft's validation log: [level, at]

entryVars == <<source, step, issues, loading, layered, settings, complaints>>

-----------------------------------------------------------------------------
(* TOPMARK_TOML_SCHEMA *)

ChoiceKeys == {"header_mutation_mode", "bom_before_shebang", "mixed_line_endings", "empty_insert_mode"}
FlagKeys == {"allow_header_in_empty_files", "render_empty_header_when_no_fields", "allow_reflow",
          "allow_content_probe"}
PolicyKeys == ChoiceKeys \cup FlagKeys
FilesLists == {"files", "include_from", "exclude_from", "files_from", "include_patterns", "exclude_patterns"}
TypeLists == {"include_file_types", "exclude_file_types"}
Groups == {"include_pattern_groups", "exclude_pattern_groups"}

LayeredSections == {"header", "fields", "formatting", "policy", "policy_by_type", "files"}
Sections == LayeredSections \cup {"config", "writer"}
OpenSections == {"fields", "policy_by_type"}

AllowedKeys(section) ==
  CASE section = "config"     -> {"root", "strict"}
    [] section = "header"     -> {"fields", "relative_to"}
    [] section = "formatting" -> {"align_fields", "max_header_line_length", "wrap_fields"}
    [] section = "writer"     -> {"strategy"}
    [] section = "policy"     -> PolicyKeys
    [] section = "files"      -> FilesLists \cup TypeLists

\* Keys that only a dump of the configuration has; they are not allowed as input.
DumpOnlyKeys(section) ==
  CASE section = "config" -> {"config_files"}
    [] section = "files"  -> Groups \cup {"include_from_sources", "exclude_from_sources", "files_from_sources"}
    [] OTHER              -> {}

-----------------------------------------------------------------------------
(* TomlSchema.validate *)

Is(entries, path, isTable) ==
  \E e \in entries : e.at = path /\ (e.value.type = "table" <=> isTable)
Warnings(entries) == {[level |-> "warning", at |-> e.at] : e \in entries}

\* validate_top_level_keys
TopLevelIssues(entries) ==
  Warnings({e \in entries : Len(e.at) = 1 /\ (e.at[1] \notin Sections \/ e.value.type # "table")})

\* validate_section_keys: unknown keys, and keys of a dump.
SectionIssues(entries) ==
  Warnings({e \in entries :
    /\ Len(e.at) = 2 /\ e.at[1] \in Sections \ OpenSections
    /\ e.at[2] \notin AllowedKeys(e.at[1])})

\* _validate_nested_section
NestedIssues(entries) ==
  Warnings({e \in entries :
    /\ e.at[1] = "policy_by_type"
    /\ \/ Len(e.at) = 2 /\ e.value.type # "table"
       \/ Len(e.at) = 3 /\ e.at[3] \notin PolicyKeys})

Validated(entries) ==
  TopLevelIssues(entries) \cup SectionIssues(entries) \cup NestedIssues(entries)
    \cup {[level |-> "info", at |-> <<s>>] : s \in {s \in Sections : ~\E e \in entries : e.at = <<s>>}}

-----------------------------------------------------------------------------
(* parse_topmark_toml_table *)

Within(entries, path) == {e \in entries : IsPrefix(path, e.at)}

\* The parse functions of the options take values of the right type and are silent on others.
LoadingOptions(entries) ==
  {e \in entries : e.at \in {<<"config", "root">>, <<"config", "strict">>} /\ e.value.type = "bool"}
WriterOptions(entries) ==
  {e \in entries : e.at = <<"writer", "strategy">> /\ e.value = [type |-> "str", items |-> <<"choice">>]}

\* Mutant: a section is left out.
LayeredPart_WithoutFormatting(entries) ==
  UNION {Within(entries, <<s>>) : s \in {s \in LayeredSections \ {"formatting"} : Is(entries, <<s>>, TRUE)}}

\* _extract_layered_config_toml
LayeredPart(entries) ==
  UNION {Within(entries, <<s>>) : s \in {s \in LayeredSections : Is(entries, <<s>>, TRUE)}}

-----------------------------------------------------------------------------
(* The checked getters: what they take from a value, if anything, and how   *)
(* they complain.                                                          *)

Reading(kept, levels) == [kept |-> kept, levels |-> levels]
NotTaken == Reading({}, {"warning"})
Texts == {"", "word", "other", "choice"}
TextsIn(items) == Picked(items, {i \in DOMAIN items : items[i] \in Texts})
OfType(types, value) == IF value.type \in types THEN Reading({value.items}, {}) ELSE NotTaken

\* get_enum_value_checked, and opt_enum for what is set.
GetChoice(value) ==
  IF value.type = "str" /\ value.items = <<"choice">> THEN Reading({value.items}, {}) ELSE NotTaken

\* get_bool_value_or_none_checked complains, but a policy is set by opt_bool, to bool(value).
GetPolicyFlag(value) ==
  Reading({<<IF value.items \in {<<>>, <<"false">>, <<"0">>, <<"">>} THEN "false" ELSE "true">>},
       IF value.type = "bool" THEN {} ELSE {"warning"})

\* get_string_list_value_checked: entries that are no strings are left out.
GetList(value) ==
  LET texts == TextsIn(value.items)
  IN  IF value.type # "list" THEN NotTaken
      ELSE Reading(IF texts = <<>> THEN {} ELSE {texts}, IF texts = value.items THEN {} ELSE {"warning"})

\* include_file_types and exclude_file_types are sets.
GetTypes(value) ==
  LET read == GetList(value)
  IN  [read EXCEPT !.levels = @ \cup (IF \E l \in read.kept : ~IsInjective(l) THEN {"warning"} ELSE {})]

\* Each name once.
Deduped(names) ==
  Picked(names, {i \in DOMAIN names : \A j \in 1 .. i - 1 : names[j] # names[i]})

\* max_header_line_length: no bool, and greater than zero.
GetWidth(value) ==
  IF value.type = "int" /\ value.items = <<"0">> THEN Reading({}, {"error"}) ELSE OfType({"int"}, value)

\* wrap_fields: set even if nothing remains of it.  The empty name is no field name.
GetWrapFields(value) ==
  LET texts == TextsIn(value.items)
      names == Picked(texts, {i \in DOMAIN texts : texts[i] # ""})
  IN  IF value.type # "list" THEN Reading({<<>>}, {"warning"})
      ELSE Reading({Deduped(names)}, (IF texts = value.items THEN {} ELSE {"warning"})
                           \cup (IF names = texts THEN {} ELSE {"error"}))

\* include_pattern_groups and exclude_pattern_groups are read from input too: tables with a
\* base and patterns. A table without the one or the other ("half") is passed over, one where
\* either is of another type ("faulty") is, too, and reported; among patterns what is no text
\* ("patchy") is left out and reported.
GetGroups(value) ==
  LET Where(kinds) == {i \in DOMAIN value.items : value.items[i] \in kinds}
      whole == Picked(value.items, Where({"group", "patchy"}))
  IN  IF value.type # "list" THEN Reading({}, {})
      ELSE Reading(IF whole = <<>> THEN {} ELSE {whole},
                   IF Where({"faulty", "patchy"}) = {} THEN {} ELSE {"warning"})

\* relative_to: the empty string is that of a missing key.
GetRelativeTo(value) ==
  IF value = [type |-> "str", items |-> <<"">>] THEN Reading({}, {}) ELSE OfType({"str"}, value)

Getter(at, value) ==
  LET key == Last(at)
  IN  IF at[1] = "fields" THEN OfType({"str", "int", "float", "bool"}, value)
      ELSE CASE key \in ChoiceKeys                   -> GetChoice(value)
             [] key \in FlagKeys                     -> GetPolicyFlag(value)
             [] key = "align_fields"                 -> OfType({"bool"}, value)
             [] key = "max_header_line_length"       -> GetWidth(value)
             [] key = "wrap_fields"                  -> GetWrapFields(value)
             [] key = "relative_to"                  -> GetRelativeTo(value)
             [] key \in FilesLists \cup {"fields"}   -> GetList(value)
             [] key \in TypeLists                    -> GetTypes(value)
             [] key \in Groups                       -> GetGroups(value)

\* The keys the deserializer asks for, in tables: those of a type's policy only if its
\* entry is a table (get_table_value, as_toml_table_map).
Asked(e, entries) ==
  /\ Is(entries, <<e.at[1]>>, TRUE)
  /\ \/ Len(e.at) = 2 /\ e.at[1] = "fields"
     \/ Len(e.at) = 2 /\ e.at[1] \in {"header", "formatting", "policy", "files"}
        /\ e.at[2] \in AllowedKeys(e.at[1]) \cup (DumpOnlyKeys(e.at[1]) \cap Groups)
     \/ Len(e.at) = 3 /\ e.at[1] = "policy_by_type" /\ e.at[3] \in PolicyKeys
        /\ Is(entries, <<e.at[1], e.at[2]>>, TRUE)

\* mutable_config_from_layered_toml_table
Settings(entries) ==
  UNION {{[at |-> e.at, to |-> k] : k \in Getter(e.at, e.value).kept} : e \in {e \in entries : Asked(e, entries)}}
ComplaintsOf(entries) ==
  (UNION {{[level |-> l, at |-> e.at] : l \in Getter(e.at, e.value).levels} : e \in {e \in entries : Asked(e, entries)}})
    \cup (IF \E s \in Settings(entries) : s.at = <<"header", "fields">> THEN {}
          ELSE {[level |-> "warning", at |-> <<"header", "fields">>]})

-----------------------------------------------------------------------------
(* Loading *)

Values(table) == {e.value.type : e \in table.entries} \cup table.rest

EntriesInit ==
  /\ source \in Tables
  /\ step = IF source.via = "mapping" THEN "convert" ELSE "load"
  /\ issues = {} /\ loading = {} /\ layered = {} /\ settings = {} /\ complaints = {}

NothingFound == UNCHANGED <<source, issues, loading, layered, settings, complaints>>

\* load_topmark_toml_source.  _load_toml_table copies the whole document: a value that is
\* no TomlValue, as a date anywhere in it, makes it a source that does not load, as does
\* the want of a [tool.topmark] table.
Load ==
  /\ step = "load"
  /\ step' = IF "date" \in Values(source) \/ ~source.found THEN "failed" ELSE "validate"
  /\ NothingFound

\* toml_table_from_mapping, whose TypeError the caller gets.
Convert ==
  /\ step = "convert"
  /\ IF "date" \in Values(source)
     THEN step' = "raised" /\ NothingFound
     ELSE /\ step' = "read" /\ layered' = source.entries
          /\ UNCHANGED <<source, issues, loading, settings, complaints>>

ValidateTable ==
  /\ step = "validate" /\ step' = "parse"
  /\ issues' = Validated(source.entries)
  /\ UNCHANGED <<source, loading, layered, settings, complaints>>

ParseTable ==
  /\ step = "parse" /\ step' = "read"
  /\ loading' = LoadingOptions(source.entries) \cup WriterOptions(source.entries)
  /\ layered' = LayeredPart(source.entries)
  /\ UNCHANGED <<source, issues, settings, complaints>>

Deserialize ==
  /\ step = "read" /\ step' = "done"
  /\ settings' = Settings(layered) /\ complaints' = ComplaintsOf(layered)
  /\ UNCHANGED <<source, issues, loading, layered>>

EntriesNext == Load \/ Convert \/ ValidateTable \/ ParseTable \/ Deserialize

EntriesSpec == EntriesInit /\ [][EntriesNext]_entryVars

-----------------------------------------------------------------------------
(* What becomes of an entry *)

\* All that a table sets, for the loading and for the run.
Effect(entries) ==
  IF source.via = "mapping" THEN Settings(entries)
  ELSE {[at |-> e.at, to |-> e.value.items] : e \in LoadingOptions(entries) \cup WriterOptions(entries)}
         \cup Settings(LayeredPart(entries))

Effective(e) == Effect(source.entries) # Effect(source.entries \ {e})
EffectiveAsAWhole(e) ==
  /\ Effective(e)
  /\ \E s \in Effect(source.entries) : s.at = e.at /\ ToSet(s.to) = ToSet(e.value.items)

Objected(e, log) == \E i \in log : i.level # "info" /\ IsPrefix(i.at, e.at)

\* Entries lost without a word: a root, a strict or a strategy of the wrong kind, with all
\* that is in it, the empty relative_to, and in a mapping whatever the deserializer does not
\* ask for.
Unnoticed(e) ==
  \/ /\ \E at \in {<<"config", "root">>, <<"config", "strict">>, <<"writer", "strategy">>} : IsPrefix(at, e.at)
     /\ e \notin LoadingOptions(source.entries) \cup WriterOptions(source.entries)
  \/ Last(e.at) = "relative_to" /\ e.value.items = <<"">>
  \/ source.via = "mapping" /\ (~Asked(e, source.entries) \/ Last(e.at) \in Groups)

\* Entries that have an effect though they are said to be ignored or of the wrong type:
\* the pattern groups of a dump, a policy flag, which is coerced to a truth value, and
\* wrap_fields, which is emptied.
TakenAnyway(e) == Last(e.at) \in Groups \cup FlagKeys \cup {"wrap_fields"}

\* Every entry of a table either has its effect, all of it, or is objected to, with the
\* exceptions above: nobody's setting is lost in silence between the keys the schema
\* knows, those the parser cuts out and those the deserializer asks for; and what is
\* objected to as a whole has no effect.
EntriesAreUsedOrReported ==
  step = "done" => \A e \in source.entries :
    /\ \/ e.value.type = "table" \/ e.value.items = <<>>
       \/ EffectiveAsAWhole(e) \/ Objected(e, issues \cup complaints) \/ Unnoticed(e)
    /\ Objected(e, issues) \/ (e.value.type # "list" /\ Objected(e, complaints))
         => ~Effective(e) \/ TakenAnyway(e)
==============================================================================
