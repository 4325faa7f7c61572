------------------------------ MODULE StepHints ------------------------------
(***************************************************************************)
(* The hints of a run (pipeline/hints.py): what a step says while it runs  *)
(* (calls of ctx.hint in run), and what it says afterwards of the status   *)
(* on its own axis (its hint method).                                      *)
(* The list goes into the result; -v shows the last one, -vv all of them.  *)
(*                                                                         *)
(* A hint is kept as its cluster and whether it claims to be terminal.     *)
(* Nothing reads them back: FilePipeline goes on as it would without them. *)
(***************************************************************************)
EXTENDS FilePipeline

VARIABLE hints   \* diagnostic_hints of the context

Silent == <<>>
Hint(cluster) == <<[cluster |-> cluster, terminal |-> FALSE]>>
TerminalHint(cluster) == <<[cluster |-> cluster, terminal |-> TRUE]>>
Effective(apply) == Hint(IF apply THEN "changed" ELSE "would_change")

ResolverHint(s) == IF s.resolve \in {"RESOLVED", "PENDING"} THEN Silent ELSE TerminalHint("skipped")

SnifferHint(s) ==
  CASE s.fs = "EMPTY" -> Hint("blocked_policy")
    [] s.fs = "BOM_BEFORE_SHEBANG" /\ ~ShouldRemoveBom(s, policy, facts') -> Hint("blocked_policy")
    [] s.fs = "MIXED_LINE_ENDINGS" /\ policy.mixed = "reject" -> Hint("blocked_policy")
    [] s.fs \in {"NOT_FOUND", "NO_READ_PERMISSION", "UNREADABLE", "NO_WRITE_PERMISSION", "BINARY",
                 "UNICODE_DECODE_ERROR"} -> TerminalHint("skipped")
    [] OTHER -> Silent

\* Mutant: what a policy refuses is not explained.
ReaderHint_OnlyFailures(s) ==
  IF s.content \in {"UNSUPPORTED", "UNREADABLE"} THEN TerminalHint("skipped") ELSE Silent

ReaderHint(s) ==
  CASE s.content \in {"SKIPPED_MIXED_LINE_ENDINGS", "SKIPPED_POLICY_BOM_BEFORE_SHEBANG",
                      "SKIPPED_REFLOW"} -> TerminalHint("blocked_policy")
    [] s.content \in {"UNSUPPORTED", "UNREADABLE"} -> TerminalHint("skipped")
    [] OTHER -> Silent

ScannerHint(s) ==
  CASE s.header \in {"DETECTED", "MISSING", "EMPTY"} -> Hint("pending")
    [] s.header \in {"MALFORMED_ALL_FIELDS", "MALFORMED_SOME_FIELDS"} -> Hint("blocked_policy")
    [] s.header = "MALFORMED" -> TerminalHint("skipped")
    [] OTHER -> Silent

BuilderHint(s) ==
  CASE s.generation = "NO_FIELDS" -> Hint("blocked_policy")
    [] s.generation = "SKIPPED" -> TerminalHint("blocked_policy")
    [] OTHER -> Silent

ComparerHint(s) ==
  CASE s.comparison = "CHANGED" -> Effective(mode.apply)
    [] s.comparison = "UNCHANGED" -> Hint("unchanged")
    [] s.comparison = "SKIPPED" -> TerminalHint("skipped")
    [] OTHER -> Silent

StripperHint(s) ==
  CASE s.strip = "READY" -> Effective(mode.apply)
    [] s.strip = "NOT_NEEDED" -> Hint("unchanged")
    [] s.strip = "FAILED" -> TerminalHint("error")
    [] OTHER -> Silent

PlannerHint(s) ==
  CASE s.plan \in ConcretePlans -> Effective(mode.apply)
    [] s.plan = "PREVIEWED" -> TerminalHint("would_change")
    [] s.plan \in {"SKIPPED", "FAILED"} -> TerminalHint("skipped")
    [] OTHER -> Silent

PatcherHint(s) ==
  CASE s.patch = "GENERATED" -> Effective(mode.apply)
    [] s.patch = "SKIPPED" -> Hint("unchanged")
    [] s.patch = "FAILED" -> TerminalHint("error")
    [] OTHER -> Silent

WriterHint(s) ==
  CASE s.write = "WRITTEN" -> Hint("changed")
    [] s.write = "SKIPPED" -> Hint("skipped")
    [] s.write = "FAILED" -> TerminalHint("error")
    [] OTHER -> Silent

\* The hint methods of the steps; the prober's and the renderer's say nothing.
StepHint(step, s) ==
  CASE step = "resolver" -> ResolverHint(s)
    [] step = "sniffer" -> SnifferHint(s)
    [] step = "reader" -> ReaderHint(s)
    [] step = "scanner" -> ScannerHint(s)
    [] step = "builder" -> BuilderHint(s)
    [] step = "comparer" -> ComparerHint(s)
    [] step = "stripper" -> StripperHint(s)
    [] step = "planner" -> PlannerHint(s)
    [] step = "patcher" -> PatcherHint(s)
    [] step = "writer" -> WriterHint(s)
    [] OTHER -> Silent

------------------------------------------------------------------------------
(* Three steps speak while they run, each about the status it has just set: a step that *)
(* was passed over has set none. A run may have more than one thing to say, hence sets. *)

SnifferSays(s) ==
  IF s.fs = "EMPTY" /\ ~AllowInsertIntoEmptyLike(s, policy, facts') THEN Hint("blocked_policy") ELSE Silent

ScannerSays(s) == IF s.header = "MALFORMED" THEN TerminalHint("error") ELSE Silent

\* Mutant: invalid field values are diagnosed, but no hint tells of them.
RendererSays_NothingOfFailures(s) ==
  IF s.render = "RENDERED" /\ views.build = "current" THEN {Silent, Hint("unchanged")} ELSE {Silent}

\* Invalid field values; or which of the fields are wider than the configured limit. There
\* is one hint for each of these, of which one stands for them all.
RendererSays(s) ==
  CASE s.render = "FAILED" -> {TerminalHint("error")}
    [] s.render = "RENDERED" /\ views.build = "current" -> {Silent, Hint("unchanged")}
    [] OTHER -> {Silent}

RunHints(step, s) ==
  CASE step = "sniffer" -> {SnifferSays(s)}
    [] step = "scanner" -> {ScannerSays(s)}
    [] step = "renderer" -> RendererSays(s)
    [] OTHER -> {Silent}

HintsInit == Init /\ hints = <<>>

\* What a step says in all. BaseStep.__call__ ends with hint(), whether or not the step was
\* allowed to run and the context is halted; only an exception comes before it.
Spoken ==
  IF halt' = "exception" THEN hints' = hints
  ELSE \E said \in RunHints(Head(todo), st') : hints' = hints \o said \o StepHint(Head(todo), st')

HintsNext ==
  \/ StartRun /\ hints' = <<>>
  \/ Step /\ Spoken
  \/ EndRun /\ hints' = <<>>
  \/ (ExternalEdit \/ ExternalChmod) /\ UNCHANGED hints

HintsSpec == HintsInit /\ [][HintsNext]_<<vars, hints>>

------------------------------------------------------------------------------
Terminal == \E i \in DOMAIN hints : hints[i].terminal
\* The cluster of the hint a listing at -v shows beside the outcome.
LastCluster == IF hints = <<>> THEN "none" ELSE Last(hints).cluster

\* What docs/dev/pipelines.md:722 promises of a file that was skipped or blocked. The refusals
\* it means (:711-716) do not include those by the mutation mode, which are not announced so:
\* the scanner halts and says what it has found.
RefusalIsExplained ==
  Outcome \in {"SKIPPED", "ERROR"} /\ PermittedByPolicy(st, policy) =>
    Terminal /\ LastCluster \in {"skipped", "blocked_policy", "error"}

\* A hint that announces or reports a change is not the last word on a file that has none,
\* unless the file counts as empty; and a change that was decided without a halt is
\* announced as such, in the tense of the run, unless writing it failed.
ChangeIsAnnounced ==
  /\ LastCluster \in {"changed", "would_change"} =>
       Outcome \in AppliedOutcomes \cup WouldOutcomes \/ EmptyUnchangedByDefault(st, policy, facts)
  /\ Outcome \in AppliedOutcomes \cup WouldOutcomes /\ halt = None /\ st.write # "FAILED" =>
       LastCluster = IF mode.apply THEN "changed" ELSE "would_change"

\* A finished check or strip has an outcome (OutcomeDecided), and its hints agree with it:
\* the hints of eleven steps, each looking at its own axis only, against the one
\* classification of all the axes.
OutcomeIsExplained ==
  /\ OutcomeDecided
  /\ Finished /\ halt # "exception" /\ mode.cmd # "probe" =>
       RefusalIsExplained /\ ChangeIsAnnounced
==============================================================================
