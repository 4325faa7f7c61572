# TopMark in TLA+

TopMark checks, inserts, updates and strips the headers of source files. It rewrites files that
belong to somebody else, so what matters is when it writes, what it leaves behind, and whether it
reports what it did. This directory holds TLA+ models of the code that decides these questions,
the TLC configurations that check them on small instances, and TLAPS proofs for all instances.

| module | what it stands for (paths below `src/src/topmark`) | lines |
| --- | --- | --- |
| `PipelineStatus` | `pipeline/status.py`, `context/status.py`, `views.py`, `pipelines.py`; file contents | 160 |
| `PolicyRules` | `pipeline/context/policy.py`, `pipeline/outcomes.py`, `core/outcomes.py` | 126 |
| `FilePipeline` | `pipeline/steps/*.py`, `runner.py`, `context/model.py`: one run on one file | 711 |
| `StepHints` | what steps call `ctx.hint` with, in `run` and in `hint`; `pipeline/hints.py` | 165 |
| `SinkContract`, `WriterSinks` | the file sinks of `steps/writer.py`: what they promise, and call by call | 55, 245 |
| `Sniffer` | `_sniff_stream` of `steps/sniffer.py`, chunk by chunk | 184 |
| `HeaderText`, `PlannedEdits` | header processors, planner and stripper on the text; the edit of a diff | 517, 66 |
| `HeaderFields` | rendering, folding, escaping and parsing of header fields in `processors/base.py` | 351 |
| `FileSelection` | `resolution/files.py`, `utils/path.py` | 175 |
| `RunContract`, `BatchRun` | a command over a batch: `engine.py`, `reduction.py`, machine streams, exit codes, API totals | 42, 595 |
| `TypeRegistry` | `registry/*.py`, lock by lock | 381 |
| `TypeResolution` | `resolution/filetypes.py`, `resolution/probe.py`, `filetypes/model.py` | 115 |
| `ConfigLayers`, `ConfigEntries` | `toml/*.py`, `config/*.py`: layers, merge, overrides; the entries of one table | 206, 297 |
| `RuntimeConfig` | the configuration of a run from request to file, with the registries changing under it | 386 |
| `CommandLine` | `cli/*.py`: options, input plan, run options, which stream carries what | 431 |
| `TomlTemplates` | `toml/template_surgery.py`, `toml/surgery.py`: `config init`, `config defaults` | 243 |
| `Picking` | a comprehension over a sequence: the items at some positions, in their order | 14 |
| `*Proofs` | theorems about `FilePipeline`, `StepHints`, `WriterSinks`, `BatchRun`, `RuntimeConfig` and what it extends; `ContentProofs` about `Sniffer`, `HeaderText` and `PlannedEdits`, `UserInputProofs` about `CommandLine` and `ConfigEntries` | |
| `SequenceLemmas` | what the proofs about sequences, their parts, folds and picked items rest on | |
| `MC*` | finite instances | |

`PROJECT.json` maps every definition to its lines.

## The system

A command plans its inputs, resolves its configuration, discovers files, and hands them one by one
to the engine. The engine bootstraps a `ProcessingContext` per path; the runner calls the steps of
the selected pipeline on it; the outcome is computed from what the steps left in the context, each
result is reduced to a snapshot and streamed to a consumer. Nothing runs concurrently inside a
command. Two things are shared: the file system with every other program, and, through the Python
API, the registries with every other thread.

| component | state | operations | what makes it correct | module |
| --- | --- | --- | --- | --- |
| engine, runner | steps to call, exit code | `iter_steps_for_files`, `run` | every file is settled once; an exception drops one file, not the batch; hard-link groups are left alone | `FilePipeline`, `BatchRun` |
| step contract | halt state, step list | `__call__`, `may_proceed`, `request_halt`, `hint` | an axis is decided once, by its own step; a halt is final; hints agree with the outcome | `FilePipeline`, `StepHints` |
| status axes, views | eleven axes, seven views | assignment, `release_consumed` | no context ends in a state without a report; no view is released before its last reader | `PipelineStatus`, `FilePipeline` |
| sniffer, reader, scanner | fs, content, header axes; text, BOM, newline and emptiness facts | `run` | what one look at the file found is not contradicted by the next | `Sniffer`, `FilePipeline` |
| builder, renderer, comparer, stripper | generation, render, comparison, strip axes | `run` | policy stops a change before it is planned | `FilePipeline`, `HeaderText` |
| planner, patcher | plan and patch axes, updated text, edit, diff | `run` | the text planned differs from the file by the header alone, and the diff says how | `HeaderText`, `PlannedEdits` |
| writer and sinks | write axis, the file | `run`, `write` | all or nothing (atomic), durable when reported, permissions kept | `WriterSinks` |
| policy, outcomes | none | predicates, `map_bucket` | every step draws the same conclusion; the report says what was done | `PolicyRules` |
| header processors | none | bounds, parse, render, strip | strip undoes insert; parse undoes render; a second check finds nothing to do | `HeaderText`, `HeaderFields` |
| reduction, reporting, streams | snapshots, indices | reduce, filter, stream | streams are complete or visibly not; nothing is hidden | `BatchRun` |
| file discovery | candidate paths | expand, filter, deduplicate, explain | storage is written once; every input is accounted for | `FileSelection` |
| file type resolution | none | score, order, filter | the best claim wins whatever the registry order | `TypeResolution` |
| registries | overlays, removals, caches | register, bind, unbind, unregister | no stale view, no dangling binding | `TypeRegistry` |
| configuration | layers, drafts, frozen config | load, merge, override, sanitize, freeze | the closest place that sets something wins; unset means inherited; no entry is lost silently | `ConfigLayers`, `ConfigEntries`, `RuntimeConfig` |
| command line | click context, consoles | validators, input plan, run options | every option matters or is announced; STDOUT carries one payload | `CommandLine` |
| TOML templates | none | text surgery, AST surgery | the printed document says what was asked for | `TomlTemplates` |
| public API | none between calls | `check`, `strip`, `probe`, iterators | `had_errors` tells of every lost or failed file | `BatchRun`, `RuntimeConfig` |
| presentation, diagnostics, utilities | little | formatting | not about the files being processed | see below |

Steps communicate only through the context: an axis or a view one step sets gates the next. The
engine calls the runner and catches what it raises. Policy predicates are called from steps and
from the outcome with different axes decided, so one question can get different answers in one
run. The registry is read anew at every stage of a run, by identifiers that were resolved at an
earlier one.

What is hard here: the sniffer, the reader, the builder and the writer each go to the path again,
and the file may be another one each time; steps go on being called after a halt; views are pruned
by declaration; check, strip, dry run and apply walk different pipelines that have to agree; reads,
writes and the process itself may fail between any two calls; a file may vanish or be linked to
another one in the middle of a batch; the facade of the registries takes several locks in turn;
headers are searched for, laid out and taken away by different rules that have to be each other's
inverse. The list in `PROJECT.json` ("hazards") names the line each of these bites at.

How the modules compose: `StepHints` extends `FilePipeline`, which stands on `PolicyRules` and
`PipelineStatus`. `BatchRun` extends `FileSelection` and takes what a pipeline makes of a file as a
choice among its results; `RunContract` is its abstract specification. `RuntimeConfig` extends
`ConfigLayers` and `TypeResolution`, both of which extend `TypeRegistry`: its steps and those of
other threads interleave on the same registries. `WriterSinks` instantiates `SinkContract`. The
sequential parts (`Sniffer`, `HeaderText`, `HeaderFields`, `TomlTemplates`; `CommandLine`,
`ConfigEntries`) are explored side by side with others by `MCText`, which extends the first two and
instantiates the others, and `MCRuntimeConfig`, which extends the latter two beside `RuntimeConfig`:
each behaviour is one of one of them, and the others stay asleep. Where the code filters a list, `FileSelection`, `ConfigLayers` and `ConfigEntries` use
`Picked` of `Picking`: a comprehension by positions can be reasoned about for lists of any length.

## One file: PipelineStatus, PolicyRules, FilePipeline, StepHints

`PipelineStatus` and `PolicyRules` are pure definitions: the status enumerations, the axis each
step is responsible for (`PrimaryStatus`), the views it reads (`ConsumesViews`), the pipelines as
sequences of steps (`SelectPipeline`), and the predicates of `context/policy.py` and `outcomes.py`
under their names in the code. Tri-state answers of `check_permitted_by_policy` appear as "not
refused". A file is a record of what the steps can tell of it: encoding, BOM, shebang, body, line
ends, the TopMark blocks from the top, and the insert checker's verdict. A body is `user` text, one
of three kinds of nothing, or `cut` by a failed write. `enc` and `eol` tell apart what lies within
the sample the sniffer decodes from what lies behind it.

`FilePipeline` has the resolved configuration (`setup`), the file (`disk`) and the rights to it
(`access`); the run in progress (`mode`, `todo`, `st`, `halt`, `facts`, `views`); and two history
variables, the text the reader read (`read`) and the report of the run before (`last`). `StartRun`
picks run options and the pipeline. Each step is one or more actions named after the step, one for
each way through its `run`; `Pass` is a step whose `may_proceed` says no. All of them go through
`Settle`, which is `BaseStep.__call__` and the body of the runner's loop: it halts a run that leaves
its step's axis undecided, and prunes the views. `EndRun` classifies and reports. `BuilderRaises` is
the exception `resolve(strict=True)` raises for a vanished file. `ExternalEdit` and `ExternalChmod`
are other programs; `Races` and `IOMayFail` switch interference and failures.

A step is atomic: the model lets other programs in between any two steps but not between two calls
of one step. The only steps that make several calls are the sniffer (`stat`, then `open`), for
which an edit in between has the effect of an edit before the step, and the writer, which
`WriterSinks` takes apart. Branches of the code that no sequence of steps reaches have no action:
the planner's own refusals of bad content and of malformed fields, its missing render view, the
patcher without updated text, a scanner on an image without lines, and the stripper's defensive
returns. `WriterForbidden` is kept although nothing gets there: the theorem `MutationModeIsObeyed`
says why.

`StepHints` adds the list of hints. `StepHint` is what a step says in `hint`, after it ran or was
passed over, of the status on its own axis; `RunHints` is what three steps say before that, while
they run: the sniffer of an empty file no header may go into, the scanner of malformed markers, and the
renderer, which has no `hint` of its own, of invalid field values and of fields beyond the soft
width (which of them are, is a choice). A hint is its cluster and whether it claims to be terminal;
hints outside a pipeline run (hard-link groups, missing inputs) belong to the batch. Both runs of the
pipeline explore `HintsSpec`; that it implements `FilePipeline` is a theorem.

`FilePipelineQuiet.cfg` (808,000 states): 23 combinations of policy, header fields and file type ×
every kind of file × every command, with any number of runs one after the other, nobody
interfering. One path suffices, runs of different paths share nothing but configuration (hard
links are `BatchRun`'s). Each policy key is away from its default once, alone and where it interacts
with another one; the files are all header states, all empty-like bodies with and without BOM and
shebang, both kinds of mixed line ends, all encodings, all verdicts of the checker. In-place and
atomic sinks do the same when nothing fails, so one is enough.

* `AtMostOneHeader`: no command leaves two headers.
* `ApplyIsIdempotent`: a command that wrote the file has nothing to do when it is run again.
* `DryRunPredictsApply`: what a dry run announced is what the applied run after it reports. Two
  exceptions are written into the property: headers with malformed fields, where `check` announces
  an update and `check --apply` ends as PENDING (`outcomes.py:523-558`), and no configured header
  fields, where it announces an insertion and then reports UNCHANGED.
* `ExcludedIsNeverWritten`: a file that some rule excludes is never written, whichever step was to
  notice.
* `BomSurvives`: a BOM that precedes no shebang is never lost.

`FilePipelineRaces.cfg` (971,000 states): five configurations, one of them with invalid field values,
seven files chosen to confuse two looks at the same path, all sinks, all access rights, interference and failures everywhere.

* `AxesDecidedInOrder`, `HaltIsFinal`, `ViewsAtHand`: the contract between steps and runner.
* `OutcomeIsExplained`: no path through the steps ends without a rule of `map_bucket`, but for the
  PENDING case above; a file that was skipped or failed, be it for its markers, its field values, its
  policy or its sink, has a terminal hint and a hint of a refusal last; and the last hint, the one `-v`
  shows, announces a change exactly where the outcome has one. Its exceptions are listed below under
  "Observed".
* `OnlyDecidedChangesAreWritten`, `PlanObeysMutationMode`: the file changes only to carry out what
  comparer, stripper and policy decided.
* `WriteKeepsUserText`: a completed write leaves the user's text as it was read.
* `WriteIsReported`: what was written is reported, and so is what could not be. The condition in
  it is a race the code loses: the sniffer sees a BOM before a shebang, the reader finds other text
  that counts as empty, the strip is written, and the report says UNCHANGED.

What interference does break, by the nature of the code: an edit between read and write is
overwritten, and a file that was empty when sniffed gets a second header. Neither is promised
anywhere, so neither is a property.

## The sinks: SinkContract, WriterSinks

`WriterSinks` has one action per system call of `InplaceFileSink.write` and
`AtomicFileSink.write`. It keeps each inode's text as processes see it and as it is on stable
storage, and the directory in both versions. `failing` is the set of calls that may fail during
this write; calls the code tolerates (`stat`, `chmod`, syncing the directory, `unlink`) go on, the
others lead to the handler. The kernel writes back when it likes; `Kill` loses what the file object
had buffered, `PowerLoss` what was not written back. Renames are atomic, and a rename is not written
back in parts; both are assumed of the file system.

`WriterSinks.cfg` (95,000 states): two lines, enough for a text that is there in part; every set of
failing calls. `NeverPartial` and `WrittenIsDurable` are about what a reader of the path finds.
`NothingElseChanges`: permissions are those of the file, and a write that returned left no temporary
file, unless the call that would have seen to it failed. `ImplementsContract` is the refinement of
`SinkContract`: the atomic sink goes from old to new in one step and reports FAILED only while the
old text is there; the in-place sink tears the file but reports WRITTEN only for text on stable
storage. `WrittenIsDurable` exempts an atomic write whose directory sync failed: the code logs that
and reports WRITTEN all the same. A killed atomic write leaves its temporary file, and nothing looks
for it later.

## The text of a file: Sniffer, HeaderText, PlannedEdits, HeaderFields, TomlTemplates

These are sequential algorithms on text; their modules are behaviours of one such algorithm each,
and `Text.cfg` (230,000 states) explores them side by side.

**Sniffer.** Bytes are symbols, a file is a sequence of them, and the loop of `_sniff_stream` runs
over chunks that may split CR LF pairs and two-byte characters. Chunks of two bytes, two chunks, all
files up to six bytes over five symbols, with NUL, BOM and `#!` where they matter; so every chunk
border and the limit cut everything that can be cut. `SampleIsJudgedAsAWhole` compares the loop with
operators that look at the whole sample at once.

**HeaderText.** A text is a sequence of tokens: markers, comment signs, the tokens of a prolog,
blanks, line ends, whole fields and words of the user. `HeaderBounds` finds a header as
`get_header_bounds` does, with the anchor, the window of valid locations, the delimiters of block
comments and Markdown's fences; `Checked` is what the planner and the processors' `prepare_*` make
of the text, `StrippedText` what the stripper and `strip_header_block` do. The actions are a user's:
`Check`, `Strip`, `Reconfigure` (another field value), in any order and number. Formats: line
comments with and without shebang and coding line, C-style blocks, Markdown, XML with and without
`allow_content_reflow`. Texts: every chunk of a format alone, every pair of a common and any chunk,
a word followed by pairs of common ones; LF, CRLF and mixed ends, with and without a final one.
Chunks are words, blank and white lines, whole headers (canonical, indented, malformed), loose
markers and delimiters, prologs, fences. The policy is the default one with
`mixed_line_endings = preserve`; one field stands for all.

* `UserTextStays`: every word of the user stays in its order through any sequence of commands, and a
  shebang or declaration at the top stays there.
* `SecondCheckChangesNothing`: a second check finds nothing to do, except where the first one put the
  header behind blanks of a line (`StartsBehindBlanks`): before an indented root element that the policy
  allows to reflow (`docs/usage/policies.md:213`), or behind a last line of blanks without a line end. The
  second check takes those blanks for the header's indentation.
* `StripUndoesInsert`: a strip after a check that inserted a header leaves the lines that are not blank as
  they were, unless a line was reflowed or the prolog itself speaks of markers (`PrologIsMarked`); and
  blank lines do not pile up, as far as the strip left no header behind.
* `DiffMakesText`: the diff shown for a change (`PlannedEdits`), applied as a patch, yields the new
  text, unless lines are added behind a last line without a line end.

**HeaderFields.** Names, values and lines are sequences of characters; those that matter have a
name. `Render` validates, normalises, folds and escapes (`_encode_field_lines`, `_wrap_line`),
`ReadLine` and `ReadEnd` read back line by line (`parse_fields`), and `EditHeader` loses, doubles,
exchanges or cuts a line in between. Two fields; values of every sequence of up to three of nine
characters, up to six where folding is concerned, widths 6, 9 and 11, four layouts.
`ParseUndoesRender`: what was rendered is read back to the last character, and after an edit every
field that is still intact is.

**TomlTemplates.** A document is its lines; a line is its kind, among them those a text edit may
mistake: commented-out headers, examples, multi-line strings. `ConfigInit` is
`build_config_init_human_report` with the text surgery, `ConfigDefaults` the way through a parsed
document, tomlkit is external. All documents of up to two lines of 16 kinds, three lines with
common ones, four behind a marker or a `[config]` header, last line ended or not.
`TemplateSaysWhatWasAsked`: for every document that could be a template (`IsTemplate` says which
could not), the printed text says what was asked, keeps every comment, agrees with
`config defaults`, and editing twice does nothing more.

## A batch: FileSelection, RunContract, BatchRun

`FileSelection` is `resolve_file_list_with_diagnostics` stage by stage, over a file system that is a
parameter: names, directories, symbolic links, inodes. Patterns, globs and type matches are data.
`BatchRun` is a whole command or API call: plan the inputs, load the configuration, select, group
hard links, take the files one by one (`Block`, `Process`, `Raise`), supplement, complete, and end
in an exit code (`FinishContent`, `FinishProbe`) or in a report (`ReportContent`, `NextEvent`,
`Return`). What a pipeline makes of a file is a choice among the results it can come to. A consumer
checks the order of the stream, as `machine/envelopes.py`, `machine/streaming.py` and the collectors
do. `Others` removes, creates or links a file between any two steps.

`BatchRun.cfg` (127,000 states): a directory with two files, which may be one inode under two names or one of them
absent; a symbolic link, a missing file and the temporary copy of STDIN; 11 invocations (CLI and API,
check, strip, probe, apply, diff, STDIN, report scopes), 9 configurations with each kind of input and
filter, one change by another program. One change is enough for every pair of looks at a path to
disagree; two files and a link, for groups and for order.

* `ImplementsContract`: the engine settles every selected file exactly once, by a result or by an
  error it remembers (refinement of `RunContract`).
* `StreamAccepted`: no consumer meets an event it rejects, and a stream once begun is completed.
* `ExitCodeIsThatOfAllResults`: the code kept while results stream by is that of all of them.
* `NothingIsHidden`: success hides no lost file, failure, missing input or due change, and a report
  scope hides nothing but harmless results. `check --apply` on STDIN is exempt: it returns 0 whatever
  happened (`cli/commands/check.py:611-617`).
* `SharedStorageIsSafe`: no two results of a run wrote the same storage; hard-linked paths are all
  blocked, also after files of the batch were replaced.
* `InputsAccounted`: probe explains every literal input in exactly one way.
* `HadErrorsTellsFailures`: `RunResult.had_errors` tells of every lost or failed file; one that had
  vanished before it was looked at is exempt for check and strip.
* `Terminates`: every command ends.

## What a run is told: TypeRegistry, TypeResolution, ConfigLayers, ConfigEntries, RuntimeConfig, CommandLine

`TypeRegistry`: for file types, processors and bindings a base, an overlay of additions and removals,
and the cached composed views. An operation of one registry is one step, under its lock; an
operation of the facade is several, and other callers come between (`CheckBind`, `CommitBind`,
`UnregisterUnbinds`, `UnregisterDrops`). `direct` and `overlapped` remember that a definition was
unregistered past the facade while bound, or that two operations overlapped.

`TypeResolution`: `probe_resolution_for_path` (signals, gates, scores, order) and the type filter
of the selection, two readings of the same rules. `ConfigLayers`: discovery, root and strict, layers,
`merge_with` field by field, overrides, freezing. `RuntimeConfig` goes from a request to the type,
processor and policy of each file, reading the registry at each stage (`Draft`, `FreezeDraft`,
`OverlayPolicy`, `Select`, `ScopePath`, `ProbePath`, `ResolvePath`, `RunAgain`) while `Disturb` and
`Proceed` are other threads.

`ConfigEntries`: one table from the TOML file or the API mapping to settings: the schema's verdict,
the split into loading, writer and layered parts, the deserialiser's reading of each key.
`CommandLine`: one call of `check`, `strip`, `probe` or `config dump` from its options to its
streams: parser errors, colour and verbosity, validators, the plan of inputs, run options, consoles,
the validation exit and what is written where.

`RuntimeConfig.cfg` (818,000 states): five types (two from outside), two processors, three paths in
two directories, two threads (interchangeable, hence SYMMETRY; no liveness is checked here), 10
requests over user, project, nested and explicit files, broken and careless ones, overlays of the
CLI and the API, `--no-config` and a frozen base; one to three registry operations. 17,112 calls: every
pair of options of each command with six ways of naming the input, every three of the 13 that bear on
each other, STDIN a terminal, empty or text, in six surroundings. 24,300 tables: every key with 17 kinds
of value in a file and in a mapping, pairs of keys with four common values, pyproject files with and
without the table and with dates.

* `ViewsAreCurrent`, `BindingsStayWhole`: no lookup answers from before a change; used through the
  facade and one caller at a time, no binding dangles.
* `ClosestLayerWins`: every policy field, header setting, value, pattern and filter is that of the
  closest place that sets it, with the discipline of its kind; the reference looks for the last place
  that says something instead of folding.
* `PathConfigIsOfItsLayers`: the configuration of one path does not depend on the paths before it,
  although freezing rewrites sets that layers share.
* `FileGetsItsTypeAndPolicy`: no type has a better claim to a file than the one it gets, the policy is
  the one declared for it, and a lookup raises only for the two reasons above.
* `CommandDoesAsTold`: taking away any option of an accepted call would make a difference, or it is
  announced as ignored, or it is one of those listed in `Dropped`.
* `StdoutIsForOnePayload`: one document in a machine format, only diffs with `--diff`, only content
  where content goes to STDOUT, with the exceptions in `Muddled`.
* `EntriesAreUsedOrReported`: every entry of a table has its effect or is objected to.

## Disagreements

Six runs end in a counterexample, each against a sentence of the docs or the code.

* `StripMutationMode.cfg`: under `add_only`, strip does nothing to a file with a header, because
  the scanner asks the policy before the strip axis is decided (`scanner.py:347`, against
  `docs/usage/policies.md:403`).
* `RemoveBom.cfg`: under `remove_bom` with `preserve`, mixed line ends make the reader overwrite
  the status that says a BOM is to be removed (`reader.py:378`, against `policies.md:279`).
* `AppliedOutcome.cfg`: an applied run whose plan the insert checker refused still reports
  INSERTED, UPDATED or STRIPPED (`outcomes.py:511`, against `core/outcomes.py:51`).
* `BytesPreserved.cfg`: bytes that are no UTF-8 behind a BOM and a shebang are written back as
  U+FFFD (`reader.py:255`, against `policies.md:272`).
* `SnifferLimit.cfg`: at 64 KiB the decoder is flushed as if the file ended, and valid text with a
  character across that byte is refused as undecodable (`sniffer.py:305`, against the comment at
  `:308`). By the same cut, a CR LF pair across the limit counts as a lone CR, and the file as mixed.
* `ConfiguredFilters.cfg`: the CLI passes empty tuples where no file type option was given, which
  override the filters a configuration file sets (`cmd_common.py:514`, against
  `config/overrides.py:363-368`).

### Observed

While modelling, more places showed where the code differs from what a doc says or a user would
expect. They are modelled as they are and stand in the properties as named exceptions, or lie in
parts that are left out.

Pipeline and hints: a refusal by the mutation mode leaves only a "pending" hint; it is not among the
refusals that `docs/dev/pipelines.md:711-722` promises a terminal one for. For a file that counts
as empty the hints may announce a change the outcome does not have, and with the STDOUT sink the header
is emitted. An outcome INSERTED may end in the hint "skipped". After the BOM race above a written strip
is reported as UNCHANGED.

Batch: a file that vanishes while it is made canonical ends the command with a traceback
(`resolution/files.py:846`), not with an exit code the docs list; the engine's first error goes before
the priority of results (`engine.py:255`), and `cli/streaming.py:46` ranks FILE_NOT_FOUND above
PERMISSION_DENIED, against `docs/usage/exit-codes.md:294`; the temporary copy of STDIN stays behind when
the command ends with WOULD_CHANGE or CONFIG_ERROR; hard-linked files do not influence exit codes;
`check` and `strip` of the API ignore missing literals; probe reports a quoted glob that matched as
filtered; a `*` in an entry of `--files-from`, or in an absolute positional input, raises
NotImplementedError, since `Path.rglob` takes relative patterns only (`resolution/files.py:147`,
`:706`), so lists in the model hold names.

Configuration: the API's `policy=` does not reach a type with a `policy_by_type` entry
(`api/runtime.py:441-482`, against `docs/usage/policies.md:295`); two spellings of one type in
`policy_by_type` merge in hash order (`config/model.py:535-547`); the user layer applies below its own
directory only (`config/resolution/layers.py:177`); `include_file_types` overrides of the API do not reach the
resolver step; an explicit pyproject.toml without the table fails to load. A date anywhere in a document makes the
whole source fail (`toml/loaders.py:73-91`); booleans of policies are coerced though reported as wrong
types; `include_pattern_groups` are called ignored and used, and a group without base or patterns is passed over
in silence; a wrongly typed `wrap_fields` empties those
of outer layers; wrong types of `[config].root`, `strict` and `[writer].strategy` are dropped silently.
A gate of file names and a type's other rules are read differently by `FileType.matches` and
`ShouldInclude`.

Registries: unregistering a definition directly while it is bound makes every lookup raise; the facade's
check-then-act spans several locks, though `docs/dev/registry-model.md:452` calls it thread-safe.

Command line: with a machine format and an empty selection "No files to process" goes to STDOUT
(`cmd_common.py:251`); content and JSON may both be on STDOUT; `--write-mode` without `--apply`, file
strategies with `-`, `--stdin-filename` without `-`, lists and filters in content mode have no effect and
no announcement, against `docs/usage/shared-options.md:154`.

Text: in a unified diff, lines added behind a last line without line end run into it
(`structured_diff.py:106-113`); a second check is not idempotent on a last white line without line end
behind a shebang; field names that begin with `|` or `>` are accepted and refused by every later check
(`base.py:135`), and a non-breaking space at the end of a continuation is lost (`base.py:1058`); a
coding line without a shebang is pushed below the header, against `docs/usage/check.md:70`.

Templates: a `[config]` table put in as text takes over keys that stand below it; a `"""` in a comment
behind a key leaves later headers unprefixed (`toml/surgery.py:294-298`); `root = false` in the
template makes `config init --root` fail. The bundled template has none of these.

## Fairness and liveness

`BatchRun` assumes `WF_vars(Command)` and nothing of `Others`: one thread runs the command, each of
its steps is a call that returns, and no step waits for anybody. With it `Terminates` holds, also when
every file raises. The other specifications have no fairness. A run of the pipeline is a finite
sequence of calls in one thread; that each step decides its axis or the run is halted is the safety
property `AxesDecidedInOrder`. Threads that use the registries wait for each other's locks only within
one step of the model. Deadlock is checked wherever a behaviour may not stop.

## Proofs

Proved for every value of the constants, from the named assumptions in the modules, which TLC
evaluates on the instances. They say that constants have the types the code gives them: an empty file
is valid text and has no line ends to mix, links lead to files and the temporary copy of STDIN is a
file of its own, defaults set every policy key, a CLI run has no frozen base, traits and places of
types are what the sorts compare, a call is what click hands over (one value of an option), a table is
what tomlkit unwraps (one value at a path, tables above it), `None` is nothing else. Where a theorem
needs more it says so in its statement, and the text below says why.

Sequences, folds and loops of any length are dealt with in `SequenceLemmas`. The induction theorems of
the library take an operator, which none of the provers can instantiate; `Induction` is told by a set
instead (a subset of `Nat` that contains 0 and each successor is `Nat`, from the well-foundedness of the
strict subsets of a finite set), and with it `FoldLeft` obeys its recursion, `Picked` keeps the order
and counts right, and a scan loop is equal to its solution.

**FilePipelineProofs**: every set of contents, setups, modes and accesses. Its first part holds with
interference and failures. The invariant `IInv` adds to `TypeOK`, `AxesDecidedInOrder` and itself:

* `FreshBetweenRuns`: a context never outlives its run.
* `TodoOfPipeline`: the steps to come are in the order of the pipeline and of this pipeline. Without
  it, nothing says that a step which decides an axis has not yet been called.
* `ConsumedViewsKept`: views some step to come declares are there. `ViewsAtHand` is not inductive,
  since it names the steps that work on a view, while pruning goes by declarations.
* `HeaderIsInImage`: a block that is taken out of the text is one it has.
* `DecidedFromBelow`, `PlanRestsOnDecisions`: what must have been decided for an axis to have its
  value. These carry the writer's side conditions back to the steps that established them.

There is one lemma per group of actions (`SniffingKeeps`, `ReadingKeeps`, ...). Each rests on
`Settles`, which says once what passing through `__call__` keeps, given that a step only changes
its own axis. `Invariance` is the induction; `TypeCorrect`, `AxesAreDecidedInOrder` and
`NoViewIsReleasedTooEarly` are its parts; `HaltingIsFinal`, `OnlyDecisionsAreWritten` and
`MutationModeIsObeyed` follow from it. `WritesAreReported` needs `ReportInv` in addition: the writer
is the last step, and what let it proceed (`CanChange`) excludes every rule of `map_bucket` that
comes before those for written files.

`UserTextIsKept` needs `TextInv`: context views are those of the text that was read
(`ContextIsOfRead`), an updated text has the user's part of it (`UpdateKeepsText`), and a BOM that
precedes no shebang is put back (`BomPutBack`).

Its second part is about runs nobody interferes with (`~Races`), in which looks at the path agree:
`QuietInv` says that whatever the sniffer, the reader and the scanner found is true of the file
(theorem `Verdicts`). `ExcludedStaysUnwritten` and `BomIsKept` follow. `UpdatedRight` says which
headers the updated text has, `DecidedRight` that the strip and comparison axes are functions of the
file, the configuration and the command, `HaltedRight` why a run that read the file came to no decision
(theorem `Decisions`). On these rest

* `OneHeader` and `SecondRunIsIdle`, the latter with `WriteDone` and `LastDone`: after a write there
  is nothing left to do, until the next command of that kind has looked. Both assume files of at most
  one header: check replaces, and strip removes, the first header only, so a file of two keeps one.
* `DryRunIsKept`, with `GatesRight` (what each gate lets through), `ReportsForeseen` (a finished run
  reports what `Foreseen` says of the file) and `LastForeseen` (so did the dry run before it). It
  assumes that nothing fails and no file is read-only: both make `--apply` report ERROR where the dry run
  could not know.

**StepHintsProofs**: hints are read by nothing (`HintsAreReadByNothing`), so a behaviour with hints is
one of `FilePipeline`, and its theorems carry over. `Courses` is the invariant about whole courses of a
run, with interference: `AxesAgree` (which combinations of axes occur together) and `HaltHasCause` (a
halted run has a status that explains it). By-products are that the builder never ends SKIPPED, the patcher
never FAILED, and no run sets HARD_LINK_DUPLICATE. `EveryRunHasAnOutcome` follows.
`OutcomesAreExplained` adds what has been said so far: `RefusalIsTerminal`, invalid field values among
the refusals, and `LastCluster` among the `LastWords` the axes allow. `StepSays` has what one step adds,
in `run` and in `hint`; the renderer is the step that only the former speaks for (`RenderingTold`).

**WriterSinksProofs**: texts of any length and any set of failing calls. The invariant says which
inode and directory entry may hold what at each call; `NeverAPart`, `WhatIsReportedIsDurable`,
`NothingElseIsChanged` and the refinement `SinksKeepContract` follow. Every call is mapped to one step of
the contract or a stutter; texts of no lines are included, where opening the file in place is already
the commit.

**BatchRunProofs**: any invocations, configurations, file systems and number of changes. `IInv` is
`Kept` (types), `Told` (the statistics are those of the results so far, every loss left a code, every
failure a diagnostic) and `Streamed` (what the consumer has seen is a function of where the run is).
`StreamIsAccepted`, `ExitCodeOfStream` and `CallerIsTold` are its consequences; `CodeOfAppended` is
the lemma behind the second: folding codes as results come is the same as asking all of them.

* `SelectedOncePerFile`: of whatever was found, the selection is a list without repetition of exactly
  the real paths, links followed.
* `RunKeepsContract`, the refinement of `RunContract`: `Chosen` (the selection stands) and `Turns` (the
  files to come are those without result or loss, each once).
* `StorageIsSafe`: `Separate` says that files written are no members of a group and have inodes of their
  own, and that those to come do not share them. The property had to say that the storage is there: a
  file that vanished before the end of the run has no inode two results could share.
* `NothingHidden`: `Observed` (what is counted, noted and shown) through the run, `Ended` at its end.
* `EveryInputAccounted`: `Untouched`, as long as nobody has changed the files.

**RuntimeConfigProofs**: any number of callers of the registries, requests, layers, paths and types.
`RegistryTypes` and `RegistryViews` are inductive together. `RegistryBindings` needs `FacadeKeeps`: a
bind that has been checked still finds both its ends, and a processor about to be unregistered has no
bindings, as long as no two calls overlapped. Every step of a run is a read of the registries or leaves
them alone (`RunsUseTheRegistries`, a refinement of `RegistrySpec`), so views and bindings are as good
under a run; `LookupsDoNotRaise` follows.

* `ClosestSettingCounts`: `StagesSay` gives, for each stage of a run, what its draft or configuration
  says of each key as a function of the layers: the fold of `merge_with` is the last layer that speaks,
  key by key (`DraftSays`, `FrozenSays`, `RunSays`), and no later stage changes that.
* `FilesGetTheirTypes`: `StagesTyped` and `PathsInOrder` (where in its files a run is),
  `AnswersAreRight`. Scores lie in disjoint bands, one per kind of claim (`Band`), so the sort by scores is
  the order of claims that the property states.
* `PathsKeepTheirLayers`: freezing rewrites the filters of drafts that layers share. `FiltersKept` says
  what of a layer may have been rewritten, `Similar` layers merge to configurations that freeze alike,
  hence `ScopesAreOwn`.

**ContentProofs**: files of any length.

* `ChunksAreNotSeen`, for any chunk size and any limit. `ChunkInv` (what has been taken and what is
  carried), `CountInv` (the counts are those of the part before), `DecodeInv` and `LookInv`. The scan of
  one chunk is a recursive function in the model; `ScanIsItsSolution` says what it counts.
* `UserTextAlwaysStays` (`UserTextStays`), for all formats, field values and texts. A text is the text of
  its lines (`LinesJoined`), and well cut lines are those of the text they make (`LinesOnly`).
  `KeepsWords` is what replacing markup by markup does to a text: it leaves the words, and a word at the
  top. So it remains to show that whatever is replaced, removed or trimmed is markup. For the span of a
  header that is `SpanHolds`: its delimiters and markers stand alone on their lines
  (`CandidateEncloses`, `DirectiveHolds`), and what is between the markers is fields, since a header
  with errors is not touched (`PayloadHolds`). In Markdown the markers are searched for in a text without
  those of fenced lines; a span could only reach from plain lines into fenced ones past a fence
  (`PlainAlike`), which is no field either. What is laid out is markup (`RenderedTyped`), with the
  indentation (`IndentTyped`) and the line end (`NewlineIsEnd`) taken from the file. Insertion is behind
  the prolog: `LinesInserted` for the anchor line, `OffsetInserted` for XML. `TextInv` adds it up over
  the commands. Assumed are the formats the package has: XML has no shebang policy, field lines are no
  markers. That a name stands for a string is not known to the provers, so the types are over `Tokens`.
* `DiffAlwaysMakesText` (`DiffMakesText`): the lines `infer_single_planned_edit` finds common at both
  ends do not overlap (`EditFound`), so the edit patches the old lines into the new ones
  (`EditPatches`) in any window around it (`WindowIsEdit`); and the body of the diff is cut into the
  lines it was made of (`BodyWellCut`), of which a reader picks those of both sides (`DiffTaken`).

**UserInputProofs**: calls with any number of options, tables of any size.

* `OnePayload`: `CallInv` says at each stage what has been let through, set up and printed so far.
* `NoOptionIsLost`: an option without effect and announcement is one `Dropped` names. The argument goes
  by groups of options: for each, a surrounding in which the aim of the call with it differs from the
  one without it.
* `NoEntryIsLost`: an entry is followed from the section it stands in to the getter that reads it.
  Whatever is not asked for has something above it that is objected to; a getter that does not complain
  keeps the whole value (`GettersTell`); and an entry that is not asked for, or refused, can be taken
  away without any setting changing (`NoEffect`).

Attempts at proofs have shown where definitions were not as good as the runs made believe: two
overlapping arms of a CASE in `Getter` (TLC takes the first), a table entry below `config.strict` that
`Unnoticed` did not cover, the vanished storage above.

Only model-checked:

* `SecondCheckChangesNothing` and `StripUndoesInsert`. They need that the header just written is found
  again: that nothing before it is a candidate, that its markers pair up with no others, and that the
  place where a header belongs is still within two lines of it. `ContentProofs` shows what is taken for
  a header, not what must be.
* `ParseUndoesRender` and `TemplateSaysWhatWasAsked`: folding and escaping, and reading a document, go
  character by character and line by line through recursive functions and folds, and the properties say
  what these compute for whole inputs, which is an induction over data for each of them.
* `Terminates`: liveness under fairness and ENABLED are out of reach of the provers.

Conversely, `TypeOK` of `FilePipeline` is proved (`TypeCorrect`) and not part of a run.

## Not modelled

* Wording and layout: text, Markdown and JSON rendering (`presentation/`, `cli/emitters/`, serializers),
  messages of diagnostics and outcomes, log output. What is kept of diagnostics is their severity, where
  strictness reads it, and whether there is one.
* Commands that only print: `config check`, `config dump` beyond its options and streams, the registry
  listings and `version`.
* Repository tooling (`tools/`, `noxfile.py`), which TopMark does not run.
* Content matchers, regular expressions and gitignore syntax: data of `FileSelection` and
  `TypeResolution`.
* The bases of relative patterns and paths in configurations; provenance of layers.
* `ensure_pyproject_header` of `toml/template_surgery.py`, which nothing in the package calls.
* Line ends other than LF and CRLF in `HeaderText` (lone CR is the sniffer's), policies other than the
  default there, encodings other than UTF-8.
* Runs with pruning switched off, in which views only live longer; wall-clock values; profiling.
* Who owns a file: the atomic sink copies permission bits and no owner or group, and `WriterSinks` has
  the bits only.
* Interleavings of two TopMark processes on one file: nothing in the code coordinates them, and
  `ExternalEdit` covers what the other does to the file.

## The plan

Every part with state of its own is modelled, and every safety property of a run proved but for the four
about finding and reading back what was written. What remains, in the order of its worth: that
`HeaderBounds` of an inserted header is that header, from which `StripUndoesInsert` and then
`SecondCheckChangesNothing` follow with the lemmas of `ContentProofs`; then `Unescaped` as the inverse of
`Escaped`, and `ReadRecord` of what `Wrapped` made.
