----------------------------- MODULE PolicyRules -----------------------------
(***************************************************************************)
(* pipeline/context/policy.py and pipeline/outcomes.py: what the effective *)
(* policy p allows for a context with status s and facts f (leading_bom,   *)
(* has_shebang, the two emptiness flags), and the one outcome a finished   *)
(* context is reported under.  Pure operators, no state.                   *)
(***************************************************************************)
EXTENDS PipelineStatus

FrozenPolicy ==
  [mutation : {"all", "add_only", "update_only"}, mixed : {"reject", "preserve"},
   bom : {"reject", "remove_bom"}, emptyMode : {"bytes", "logical", "whitespace"},
   allowEmpty : BOOLEAN, renderEmpty : BOOLEAN, reflow : BOOLEAN]

Outcomes == {"PENDING", "SKIPPED", "UNCHANGED", "ERROR",
             "WOULD_CHANGE", "WOULD_INSERT", "WOULD_UPDATE", "WOULD_STRIP",
             "CHANGED", "INSERTED", "UPDATED", "STRIPPED"}
AppliedOutcomes == {"CHANGED", "INSERTED", "UPDATED", "STRIPPED"}
WouldOutcomes == {"WOULD_CHANGE", "WOULD_INSERT", "WOULD_UPDATE", "WOULD_STRIP"}

------------------------------------------------------------------------------
IsEmptyForInsert(s, p, f) ==
  \/ s.fs = "EMPTY"
  \/ p.emptyMode = "logical" /\ f.llog
  \/ p.emptyMode = "whitespace" /\ f.leff

AllowInsertIntoEmptyLike(s, p, f) == IsEmptyForInsert(s, p, f) /\ p.allowEmpty

EmptyUnchangedByDefault(s, p, f) ==
  IsEmptyForInsert(s, p, f) /\ ~AllowInsertIntoEmptyLike(s, p, f)

AllowMixedLineEndings(s, p) ==
  \/ s.fs \in {"OK", "EMPTY"}
  \/ s.fs = "MIXED_LINE_ENDINGS" /\ p.mixed = "preserve"

ShouldRemoveBom(s, p, f) ==
  s.fs = "BOM_BEFORE_SHEBANG" /\ f.bom /\ f.shebang /\ p.bom = "remove_bom"

\* Mutant: update_only is not looked at.
PermittedByPolicy_OnlyAddOnly(s, p) ==
  \/ s.strip # "PENDING"
  \/ p.mutation = "add_only" => s.header \notin {"DETECTED", "EMPTY"}

\* check_permitted_by_policy(ctx) is not False: an undecided question is no refusal.
PermittedByPolicy(s, p) ==
  \/ s.strip # "PENDING"
  \/ /\ p.mutation = "add_only" => s.header \notin {"DETECTED", "EMPTY"}
     /\ p.mutation = "update_only" => s.header # "MISSING"

\* Mutant: files that count as empty are not exempted.
CanChange_IgnoresEmptiness(s, p, f) ==
  /\ s.resolve = "RESOLVED"
  /\ s.strip # "FAILED"
  /\ s.header \notin {"MALFORMED", "MALFORMED_ALL_FIELDS", "MALFORMED_SOME_FIELDS"}
  /\ \/ ShouldRemoveBom(s, p, f)
     \/ s.fs = "OK" \/ (s.fs = "MIXED_LINE_ENDINGS" /\ p.mixed = "preserve")

CanChange(s, p, f) ==
  /\ s.resolve = "RESOLVED"
  /\ s.strip # "FAILED"
  /\ s.header \notin {"MALFORMED", "MALFORMED_ALL_FIELDS", "MALFORMED_SOME_FIELDS"}
  /\ \/ ShouldRemoveBom(s, p, f)
     \/ /\ s.fs = "OK" \/ (s.fs = "MIXED_LINE_ENDINGS" /\ p.mixed = "preserve")
        /\ ~IsEmptyForInsert(s, p, f)
     \/ AllowInsertIntoEmptyLike(s, p, f)

------------------------------------------------------------------------------
\* determine_result_action_intent
ActionIntent(s) ==
  CASE s.strip # "PENDING" -> "strip"
    [] s.strip = "PENDING" /\ s.header = "MISSING" -> "insert"
    [] s.strip = "PENDING" /\ s.header \notin {"MISSING", "PENDING"} -> "update"
    [] OTHER -> "none"

\* Mutant: an applied strip is reported as a dry run.
StripOutcome_ForgetsApply(s, apply) ==
  CASE s.strip = "READY" -> "WOULD_STRIP"
    [] s.strip = "NOT_NEEDED" -> "UNCHANGED"
    [] OTHER -> "ERROR"

StripOutcome(s, apply) ==
  CASE s.strip = "READY" -> IF apply THEN "STRIPPED" ELSE "WOULD_STRIP"
    [] s.strip = "NOT_NEEDED" -> "UNCHANGED"
    [] OTHER -> "ERROR"

\* outcome_if_changed
ChangedOutcome(s, apply) ==
  CASE ActionIntent(s) = "insert" -> IF apply THEN "INSERTED" ELSE "WOULD_INSERT"
    [] ActionIntent(s) = "update" -> IF apply THEN "UPDATED" ELSE "WOULD_UPDATE"
    [] OTHER -> IF apply THEN "CHANGED" ELSE "WOULD_CHANGE"

\* Mutant: only a dry run takes the comparer's word for it.
ChangeIsDue_InDryRunsOnly(s, apply) ==
  ~apply /\ (ActionIntent(s) \in {"insert", "update"} \/ s.plan = "PREVIEWED")

\* Mutant: what kind of change a dry run was heading for is not asked.
ChangeIsDue_OnceCompared(s, apply) ==
  s.comparison = "CHANGED" \/ (~apply /\ s.plan = "PREVIEWED")

\* No write has happened, but one was wanted or previewed.
ChangeIsDue(s, apply) ==
  \/ s.comparison = "CHANGED"
  \/ ~apply /\ (ActionIntent(s) \in {"insert", "update"} \/ s.plan = "PREVIEWED")

\* The verdict on a file that could be read and whose header was looked at.
HeaderOutcome(s, p, apply) ==
  IF s.header = "MALFORMED" \/ s.render = "FAILED" THEN "ERROR"
  ELSE IF ~PermittedByPolicy(s, p) THEN "SKIPPED"
  ELSE IF s.comparison = "UNCHANGED" THEN "UNCHANGED"
  ELSE IF s.write = "WRITTEN" THEN ChangedOutcome(s, apply)
  ELSE IF s.write = "FAILED" THEN "ERROR"
  ELSE IF ChangeIsDue(s, apply) THEN ChangedOutcome(s, apply)
  ELSE IF s.generation = "NO_FIELDS" THEN "UNCHANGED"
  ELSE IF s.plan \in {"SKIPPED", "FAILED"} THEN "SKIPPED"
  ELSE "PENDING"

\* map_bucket: the first rule that applies decides.
MapBucket(s, p, f, apply) ==
  IF s.fs \in {"NOT_FOUND", "NO_READ_PERMISSION", "UNREADABLE"} THEN "ERROR"
  ELSE IF s.fs = "HARD_LINK_DUPLICATE" \/ s.resolve # "RESOLVED" THEN "SKIPPED"
  ELSE IF apply /\ s.fs = "NO_WRITE_PERMISSION" THEN "ERROR"
  ELSE IF s.content # "OK" THEN "SKIPPED"
  ELSE IF EmptyUnchangedByDefault(s, p, f) THEN "UNCHANGED"
  ELSE IF ActionIntent(s) = "strip" THEN StripOutcome(s, apply)
  ELSE HeaderOutcome(s, p, apply)
==============================================================================
