--------------------------- MODULE StepHintsProofs ---------------------------
(***************************************************************************)
(* A run that leaves hints is a run: what is proved of FilePipeline holds  *)
(* of StepHints, too.  And its hints agree with its outcome, whatever      *)
(* other programs do meanwhile: the status a run ends with tells why it    *)
(* went no further, and the last hint what its last step decided.          *)
(***************************************************************************)
EXTENDS StepHints, FilePipelineProofs

(* Hints are written and never read: taking them away from any behaviour leaves a
   behaviour of the pipeline (BaseStep.__call__ calls hint() last and no step looks at
   diagnostic_hints). *)
THEOREM HintsAreReadByNothing == HintsSpec => Spec
<1>1. HintsInit => Init
  BY DEF HintsInit
<1>2. [HintsNext]_<<vars, hints>> => [Next]_vars
  BY DEF HintsNext, Next
<1> QED BY <1>1, <1>2, PTL DEF HintsSpec, Spec

(* With hints as without, steps keep their contract with the runner, the file is changed
   as decided and what was written is reported. *)
THEOREM RunsWithHintsKeepTheContract ==
  HintsSpec => /\ []AxesDecidedInOrder /\ []ViewsAtHand /\ []PlanObeysMutationMode /\ []WriteIsReported
               /\ HaltIsFinal /\ OnlyDecidedChangesAreWritten
BY HintsAreReadByNothing, AxesAreDecidedInOrder, NoViewIsReleasedTooEarly, MutationModeIsObeyed,
   WritesAreReported, HaltingIsFinal, OnlyDecisionsAreWritten, PTL

------------------------------------------------------------------------------
(***************************************************************************)
(* Why the hints of a finished run agree with its outcome.                 *)
(***************************************************************************)

Clusters == {"skipped", "blocked_policy", "pending", "changed", "would_change", "unchanged", "error"}
HintsTyped == hints \in Seq([cluster : Clusters, terminal : BOOLEAN])

\* What the policy says of a change to a file with such a header, whatever the command.
Forbidden ==
  \/ policy.mutation = "add_only" /\ st.header \in {"DETECTED", "EMPTY"}
  \/ policy.mutation = "update_only" /\ st.header = "MISSING"

\* How the axes behind the header depend on each other.
AxesAgree ==
  /\ st.content # "PENDING" => mode.cmd # "probe"
  /\ st.fs # "PENDING" => st.resolve = "RESOLVED"
  /\ st.fs # "HARD_LINK_DUPLICATE" /\ st.generation # "SKIPPED" /\ st.patch # "FAILED"
  /\ st.header # "PENDING" /\ Forbidden => halt # None /\ st.generation = "PENDING" /\ st.strip = "PENDING"
  /\ st.comparison = "SKIPPED" => BadFields
  /\ st.strip \in {"READY", "NOT_NEEDED"} => ~BadFields
  /\ st.strip = "READY" => st.comparison \in {"PENDING", "CHANGED"}
  /\ st.strip = "READY" /\ halt = None /\ Needed("edit") => views.edit = "single"
  /\ "comparer" \in ToSet(todo) => st.plan = "PENDING"
  /\ st.plan # "PENDING" => mode.apply \/ mode.diff
  /\ st.plan # "PENDING" =>
       \/ st.strip = "READY" /\ st.plan \in {"REMOVED", "PREVIEWED"}
       \/ st.strip = "PENDING" /\ st.comparison \in {"CHANGED", "UNCHANGED"}
  /\ st.plan \in ConcretePlans \cup {"PREVIEWED"} /\ st.strip = "PENDING" /\ st.patch # "SKIPPED"
       => st.comparison = "CHANGED"
  /\ st.plan = "PREVIEWED" => ~mode.apply
  /\ st.plan = "INSERTED" => st.header = "MISSING"
  /\ st.plan = "REPLACED" => st.header \in {"DETECTED", "EMPTY"}
  /\ st.header # "PENDING" /\ Needed("header") => (st.header = "MISSING" <=> views.header = None)
  /\ st.patch # "PENDING" => ~mode.apply /\ st.plan # "PENDING"
  /\ st.patch = "GENERATED" => st.comparison = "CHANGED"
  /\ st.patch = "SKIPPED" => st.comparison = "UNCHANGED"
  /\ st.write # "PENDING" => mode.apply /\ st.plan \in ConcretePlans /\ st.write # "SKIPPED"

\* Why a run was halted: the axes of the steps before the halt, and the one left open.
HaltHasCause ==
  halt \notin {None, "exception"} =>
    \/ mode.cmd = "probe"
    \/ st.resolve \notin {"PENDING", "RESOLVED"} /\ st.fs = "PENDING"
    \/ st.fs \notin ReadableFs \cup {"PENDING"} /\ st.content = "PENDING"
    \/ st.content \notin {"PENDING", "OK"} /\ st.header = "PENDING"
    \/ st.header # "PENDING" /\ (st.header = "MALFORMED" \/ Forbidden)
       /\ st.generation = "PENDING" /\ st.strip = "PENDING"
    \/ st.render \in {"SKIPPED", "FAILED"} /\ st.comparison = "PENDING"
    \/ st.comparison = "SKIPPED" /\ st.plan = "PENDING"
    \/ st.strip \in {"NOT_NEEDED", "FAILED"} /\ st.comparison = "PENDING" /\ st.plan = "PENDING"
    \/ st.plan # "PENDING" /\ st.patch = "PENDING" /\ st.write = "PENDING"

\* A refusal leaves a terminal hint.
RefusalIsTerminal ==
  \/ st.resolve \notin {"PENDING", "RESOLVED"} \/ st.fs \notin ReadableFs \cup {"PENDING"}
  \/ st.content \notin {"PENDING", "OK"} \/ st.header = "MALFORMED" \/ st.render = "FAILED"
  \/ st.comparison = "SKIPPED" \/ st.strip = "FAILED" \/ st.plan \in {"SKIPPED", "FAILED"}
  \/ st.write = "FAILED"
  => Terminal

\* The cluster of a change, in the tense of the run.
Tense == IF mode.apply THEN "changed" ELSE "would_change"

\* What the last hint may be: of the last step that always says something, or of one since.
LastWords ==
  IF st.write # "PENDING" THEN {IF st.write = "WRITTEN" THEN "changed" ELSE "error"}
  ELSE IF st.patch # "PENDING" THEN {IF st.patch = "GENERATED" THEN Tense ELSE "unchanged"}
  ELSE IF st.plan # "PENDING" THEN {IF st.plan \in ConcretePlans THEN Tense
                                    ELSE IF st.plan = "PREVIEWED" THEN "would_change" ELSE "skipped"}
  ELSE IF st.comparison # "PENDING" THEN {IF st.comparison = "CHANGED" THEN Tense
                                          ELSE IF st.comparison = "UNCHANGED" THEN "unchanged" ELSE "skipped"}
  ELSE IF st.strip # "PENDING" THEN {IF st.strip = "READY" THEN Tense
                                     ELSE IF st.strip = "NOT_NEEDED" THEN "unchanged" ELSE "error"}
  ELSE IF st.render = "FAILED" THEN {"error"}
  ELSE IF st.header = "MALFORMED" THEN {"skipped"}
  ELSE IF st.header # "PENDING" THEN {"pending", "blocked_policy", "unchanged"}
  ELSE IF \/ st.resolve \notin {"PENDING", "RESOLVED"} \/ st.fs \notin ReadableFs \cup {"PENDING"}
          \/ st.content \notin {"PENDING", "OK"}
       THEN {"skipped", "blocked_policy"}
  ELSE {"none", "blocked_policy"}

\* The list of hints as far as the outcome depends on it.
HintsInv ==
  /\ HintsTyped
  /\ mode # None /\ mode.cmd # "probe" => RefusalIsTerminal /\ LastCluster \in LastWords

\* When all steps have been called and nothing has halted the run, each has decided its axis.
LEMMA AllDecided ==
  ASSUME IInv, Finished, halt = None, mode.cmd # "probe"
  PROVE  /\ st.resolve # "PENDING" /\ st.fs # "PENDING" /\ st.content # "PENDING" /\ st.header # "PENDING"
         /\ mode.cmd = "check" => st.generation # "PENDING" /\ st.render # "PENDING"
                                  /\ st.comparison # "PENDING"
         /\ mode.cmd = "strip" => st.strip # "PENDING"
         /\ mode.apply => st.plan # "PENDING" /\ st.write # "PENDING"
         /\ ~mode.apply /\ mode.diff => st.comparison # "PENDING" /\ st.plan # "PENDING"
                                        /\ st.patch # "PENDING"
<1>1. mode \in RunOptions /\ ToSet(todo) = {}
  BY NoneAssumption DEF IInv, TypeOK, Finished, ToSet
<1>2. ToSet(Pipeline) = PipelineSteps(mode)
  BY <1>1, PipelineShape DEF Shaped, Pipeline
<1>3. \A step \in PipelineSteps(mode) : PrimaryStatus(step, st) # "PENDING"
  BY <1>1, <1>2 DEF IInv, AxesDecidedInOrder, Finished
<1>4. /\ {"resolver", "sniffer", "reader", "scanner"} \subseteq PipelineSteps(mode)
      /\ mode.cmd = "check" => {"builder", "renderer", "comparer"} \subseteq PipelineSteps(mode)
      /\ mode.cmd = "strip" => {"stripper"} \subseteq PipelineSteps(mode)
      /\ mode.apply => {"planner", "writer"} \subseteq PipelineSteps(mode)
      /\ ~mode.apply /\ mode.diff => {"comparer", "planner", "patcher"} \subseteq PipelineSteps(mode)
  BY <1>1 DEF RunOptions, PipelineSteps, CheckSteps, StripSteps, ScanSteps
<1> QED BY <1>3, <1>4, AxisOfStep

\* A finished run of a check or strip, however far it came.
LEMMA HowItEnded ==
  ASSUME TextBase, AxesAgree, HaltHasCause, Finished, halt # "exception", mode.cmd # "probe"
  PROVE  /\ st.resolve = "RESOLVED" \/ (st.resolve # "PENDING" /\ st.content = "PENDING")
         /\ st.content = "PENDING" /\ st.resolve = "RESOLVED" => st.fs \notin ReadableFs \cup {"PENDING"}
         /\ st.content = "OK" => st.header # "PENDING"
         /\ st.content = "OK" /\ st.header # "MALFORMED" /\ ~Forbidden =>
              /\ mode.cmd = "strip" => st.strip # "PENDING"
              /\ mode.cmd = "check" => st.render # "PENDING"
              /\ mode.cmd = "check" /\ st.render = "RENDERED" => st.comparison # "PENDING"
<1>1. CASE halt = None
  BY <1>1, AllDecided DEF TextBase, Base, IInv, DecidedFromBelow, ReportInv, AxesAgree
<1>2. CASE halt # None
  <2>1. /\ st.header # "PENDING" => st.content = "OK"
        /\ st.generation # "PENDING" => mode.cmd = "check" /\ st.header # "PENDING"
        /\ st.render # "PENDING" => st.generation # "PENDING"
        /\ st.strip # "PENDING" => mode.cmd = "strip" /\ st.header # "PENDING"
        /\ st.comparison # "PENDING" => st.strip = "READY" \/ st.render = "RENDERED"
        /\ st.plan # "PENDING" => st.strip = "READY" \/ st.render = "RENDERED"
        /\ st.plan # "PENDING" /\ st.strip = "PENDING" => st.comparison # "PENDING"
    BY DEF TextBase, Base, IInv, DecidedFromBelow, AxesAgree
  <2>2. /\ st.content # "PENDING" => st.fs \in ReadableFs
        /\ st.fs # "PENDING" => st.resolve = "RESOLVED"
        /\ "PENDING" \notin ReadableFs
    BY DEF TextBase, Base, ReportInv, AxesAgree, ReadableFs
  <2>3. \/ st.resolve \notin {"PENDING", "RESOLVED"} /\ st.fs = "PENDING"
        \/ st.fs \notin ReadableFs \cup {"PENDING"} /\ st.content = "PENDING"
        \/ st.content \notin {"PENDING", "OK"} /\ st.header = "PENDING"
        \/ st.header # "PENDING" /\ (st.header = "MALFORMED" \/ Forbidden)
        \/ st.render \in {"SKIPPED", "FAILED"} /\ st.comparison = "PENDING"
        \/ st.comparison # "PENDING"
        \/ st.strip # "PENDING"
        \/ st.plan # "PENDING"
    BY <1>2 DEF HaltHasCause
  <2> HIDE DEF Forbidden, ReadableFs
  <2>4. CASE st.resolve \notin {"PENDING", "RESOLVED"} /\ st.fs = "PENDING"
    BY <2>2, <2>4
  <2>5. CASE st.fs \notin ReadableFs \cup {"PENDING"} /\ st.content = "PENDING"
    BY <2>2, <2>5
  <2>6. CASE st.content \notin {"PENDING", "OK"}
    BY <2>2, <2>6
  <2>7. CASE st.header # "PENDING" /\ (st.header = "MALFORMED" \/ Forbidden)
    BY <2>1, <2>2, <2>7
  <2>8. CASE st.render \in {"SKIPPED", "FAILED"} \/ st.comparison # "PENDING" \/ st.strip # "PENDING" \/ st.plan # "PENDING"
    <3>1. st.content = "OK" /\ st.header # "PENDING" /\ st.resolve = "RESOLVED"
      BY <2>1, <2>2, <2>8
    <3>2. mode.cmd = "strip" => st.strip # "PENDING"
      BY <2>1, <2>8
    <3>3. mode.cmd = "check" => st.render # "PENDING" /\ (st.render = "RENDERED" => st.comparison # "PENDING")
      BY <2>1, <2>3, <2>8, <3>1
    <3> QED BY <3>1, <3>2, <3>3
  <2> QED BY <2>3, <2>4, <2>5, <2>6, <2>7, <2>8
<1> QED BY <1>1, <1>2

\* The rules of map_bucket that are left for a file that was read, and for one that was not.
LEMMA OutcomeRules ==
  ASSUME TextBase, AxesAgree, mode # None
  PROVE  /\ st.content # "OK" => Outcome \in {"SKIPPED", "ERROR"}
         /\ st.content = "OK" =>
              Outcome = IF EmptyUnchangedByDefault(st, policy, facts) THEN "UNCHANGED"
                        ELSE IF st.strip # "PENDING" THEN StripOutcome(st, mode.apply)
                        ELSE HeaderOutcome(st, policy, mode.apply)
<1>1. st.content = "OK" => st.fs \in ReadableFs /\ st.resolve = "RESOLVED"
  BY DEF TextBase, Base, ReportInv, AxesAgree, ReadableFs
<1>2. ActionIntent(st) = "strip" <=> st.strip # "PENDING"
  BY DEF ActionIntent
<1>3. CASE st.content # "OK"
  BY <1>3 DEF Outcome, MapBucket
<1>4. CASE st.content = "OK"
  BY <1>1, <1>2, <1>4 DEF Outcome, MapBucket, ReadableFs
<1> QED BY <1>3, <1>4

\* How a check ends on a file that was read and is not exempt.
LEMMA HeaderRules ==
  ASSUME TextBase, AxesAgree, HaltHasCause, Finished, halt # "exception", mode.cmd # "probe",
         st.content = "OK", st.strip = "PENDING", st.header # "MALFORMED", ~Forbidden, st.render # "FAILED"
  PROVE  /\ mode.cmd = "check" /\ PermittedByPolicy(st, policy)
         /\ st.comparison = "UNCHANGED" => HeaderOutcome(st, policy, mode.apply) = "UNCHANGED"
         /\ st.comparison = "CHANGED" =>
              HeaderOutcome(st, policy, mode.apply) =
                IF st.write = "FAILED" THEN "ERROR" ELSE ChangedOutcome(st, mode.apply)
         /\ st.comparison \notin {"CHANGED", "UNCHANGED"} =>
              /\ BadFields \/ st.generation = "NO_FIELDS"
              /\ HeaderOutcome(st, policy, mode.apply) \in
                   {ChangedOutcome(st, mode.apply), "UNCHANGED", "PENDING"}
              /\ HeaderOutcome(st, policy, mode.apply) = "PENDING" => mode.apply /\ BadFields
              /\ HeaderOutcome(st, policy, mode.apply) \in AppliedOutcomes \cup WouldOutcomes
                   => halt # None
              /\ st.plan = "PENDING"
<1>1. mode \in RunOptions /\ st \in ProcessingStatus
  BY DEF TextBase, Base, IInv, TypeOK, Finished
<1>2. mode.cmd = "check" /\ st.header # "PENDING" /\ st.render # "PENDING"
      /\ (st.render = "RENDERED" => st.comparison # "PENDING")
  BY <1>1, HowItEnded DEF RunOptions
<1>3. PermittedByPolicy(st, policy)
  BY DEF PermittedByPolicy, Forbidden
<1>4. st.plan # "PENDING" => st.comparison \in {"CHANGED", "UNCHANGED"}
  BY DEF AxesAgree
<1>5. st.write # "PENDING" => st.plan # "PENDING"
  BY DEF AxesAgree, ConcretePlans
<1>6. ActionIntent(st) \in {"insert", "update"}
  BY <1>2 DEF ActionIntent
<1>7. CASE st.comparison = "UNCHANGED"
  BY <1>2, <1>3, <1>7 DEF HeaderOutcome
<1>8. CASE st.comparison = "CHANGED"
  BY <1>2, <1>3, <1>8 DEF HeaderOutcome, ChangeIsDue
<1>9. CASE st.comparison \notin {"CHANGED", "UNCHANGED"}
  <2>1. st.plan = "PENDING" /\ st.write = "PENDING"
    BY <1>4, <1>5, <1>9
  <2>2. BadFields \/ st.generation = "NO_FIELDS"
    <3>1. CASE st.comparison = "SKIPPED"
      BY <3>1 DEF AxesAgree
    <3>2. CASE st.comparison = "PENDING"
      <4>1. st.render = "SKIPPED"
        BY <1>1, <1>2, <3>2 DEF ProcessingStatus, RenderStatus
      <4> QED BY <1>1, <4>1 DEF TextBase, Base, IInv, DecidedFromBelow, RenderedAsConfigured, RenderingStatus,
                           Rendering, Selected
    <3> QED BY <1>1, <1>9, <3>1, <3>2 DEF ProcessingStatus, ComparisonStatus
  <2>3. halt # None
    <3>1. SUFFICES ASSUME halt = None PROVE FALSE
      OBVIOUS
    <3>2. st.comparison = "SKIPPED"
      BY <1>1, <1>2, <1>9, <3>1, AllDecided DEF TextBase, Base, ProcessingStatus, ComparisonStatus
    <3> QED BY <3>1, <3>2 DEF TextBase, Base, IInv, DecidedFromBelow
  <2>4. HeaderOutcome(st, policy, mode.apply) =
          IF ~mode.apply THEN ChangedOutcome(st, mode.apply)
          ELSE IF st.generation = "NO_FIELDS" THEN "UNCHANGED" ELSE "PENDING"
    BY <1>2, <1>3, <1>6, <1>9, <2>1 DEF HeaderOutcome, ChangeIsDue
  <2>5. ChangedOutcome(st, mode.apply) # "PENDING"
    BY DEF ChangedOutcome
  <2> QED BY <1>2, <1>3, <1>9, <2>1, <2>2, <2>3, <2>4, <2>5
<1> QED BY <1>2, <1>3, <1>7, <1>8, <1>9

\* Some rule of map_bucket decides every run, but for the one that is known.
LEMMA EveryOutcomeDecided ==
  ASSUME TextBase, AxesAgree, HaltHasCause
  PROVE  OutcomeDecided
<1> SUFFICES ASSUME Finished, halt # "exception", Outcome = "PENDING"
             PROVE  mode.cmd = "check" /\ mode.apply /\ BadFields
  BY DEF OutcomeDecided
<1>1. mode # None /\ mode \in RunOptions
  BY DEF Finished, TextBase, Base, IInv, TypeOK
<1>2. st.content = "OK" /\ st.strip = "PENDING" /\ Outcome = HeaderOutcome(st, policy, mode.apply)
  <2>1. st.content = "OK"
    BY <1>1, OutcomeRules
  <2>2. ~EmptyUnchangedByDefault(st, policy, facts)
    BY <1>1, <2>1, OutcomeRules
  <2>3. st.strip = "PENDING"
    BY <1>1, <2>1, <2>2, OutcomeRules DEF StripOutcome
  <2> QED BY <1>1, <2>1, <2>2, <2>3, OutcomeRules
<1>3. st.header # "MALFORMED" /\ st.render # "FAILED" /\ ~Forbidden
  BY <1>2 DEF HeaderOutcome, PermittedByPolicy, Forbidden
<1>4. mode.cmd # "probe"
  BY <1>2 DEF AxesAgree
<1>5. ChangedOutcome(st, mode.apply) # "PENDING"
  BY DEF ChangedOutcome
<1> QED BY <1>2, <1>3, <1>4, <1>5, HeaderRules

\* A refusal that was reported has left a terminal hint, and a hint of a refusal last.
LEMMA EveryRefusalExplained ==
  ASSUME TextBase, AxesAgree, HaltHasCause, HintsInv, Finished, halt # "exception", mode.cmd # "probe"
  PROVE  RefusalIsExplained
<1> SUFFICES ASSUME Outcome \in {"SKIPPED", "ERROR"}, PermittedByPolicy(st, policy)
             PROVE  Terminal /\ LastCluster \in {"skipped", "blocked_policy", "error"}
  BY DEF RefusalIsExplained
<1>1. mode # None /\ mode \in RunOptions
  BY DEF Finished, TextBase, Base, IInv, TypeOK
<1>2. LastCluster \in LastWords /\ RefusalIsTerminal
  BY <1>1 DEF HintsInv
<1>3. CASE st.content # "OK"
  <2>1. /\ st.header = "PENDING" /\ st.strip = "PENDING" /\ st.comparison = "PENDING"
        /\ st.plan = "PENDING" /\ st.patch = "PENDING" /\ st.write = "PENDING"
        /\ st.render = "PENDING"
    BY <1>3 DEF TextBase, Base, IInv, DecidedFromBelow, AxesAgree, ConcretePlans
  <2>2. \/ st.resolve \notin {"PENDING", "RESOLVED"} \/ st.fs \notin ReadableFs \cup {"PENDING"}
        \/ st.content \notin {"PENDING", "OK"}
    BY <1>3, HowItEnded
  <2> QED BY <1>2, <2>1, <2>2 DEF LastWords, RefusalIsTerminal
<1>4. CASE st.content = "OK"
  <2>1. ~EmptyUnchangedByDefault(st, policy, facts)
    BY <1>1, <1>4, OutcomeRules
  <2>2. CASE st.strip # "PENDING"
    <3>1. st.strip = "FAILED"
      BY <1>1, <1>4, <2>1, <2>2, OutcomeRules DEF StripOutcome, TextBase, Base, IInv, TypeOK,
         ProcessingStatus, StripStatus
    <3>2. st.comparison = "PENDING" /\ st.plan = "PENDING" /\ st.patch = "PENDING" /\ st.write = "PENDING"
      BY <3>1 DEF TextBase, Base, IInv, DecidedFromBelow, AxesAgree, ConcretePlans
    <3> QED BY <1>2, <3>1, <3>2 DEF LastWords, RefusalIsTerminal
  <2>3. CASE st.strip = "PENDING" /\ st.header = "MALFORMED"
    <3>1. /\ st.comparison = "PENDING" /\ st.plan = "PENDING" /\ st.patch = "PENDING"
          /\ st.write = "PENDING"
      BY <2>3 DEF TextBase, Base, IInv, DecidedFromBelow, AxesAgree, ConcretePlans
    <3> QED BY <1>2, <2>3, <3>1 DEF LastWords, RefusalIsTerminal
  <2>4. CASE st.strip = "PENDING" /\ st.header # "MALFORMED" /\ st.render = "FAILED"
    <3>1. /\ st.comparison = "PENDING" /\ st.plan = "PENDING" /\ st.patch = "PENDING"
          /\ st.write = "PENDING"
      BY <2>4 DEF TextBase, Base, IInv, DecidedFromBelow, AxesAgree, ConcretePlans
    <3> QED BY <1>2, <2>4, <3>1 DEF LastWords, RefusalIsTerminal
  <2>5. CASE st.strip = "PENDING" /\ st.header # "MALFORMED" /\ st.render # "FAILED"
    <3>1. ~Forbidden
      BY <2>5 DEF PermittedByPolicy, Forbidden
    <3>2. Outcome = HeaderOutcome(st, policy, mode.apply)
      BY <1>1, <1>4, <2>1, <2>5, OutcomeRules
    <3>3. st.write = "FAILED"
      <4>1. ChangedOutcome(st, mode.apply) \notin {"SKIPPED", "ERROR"}
        BY DEF ChangedOutcome
      <4> QED BY <1>4, <2>5, <3>1, <3>2, <4>1, HeaderRules
    <3> QED BY <1>2, <3>3 DEF LastWords, RefusalIsTerminal
  <2> QED BY <2>2, <2>3, <2>4, <2>5
<1> QED BY <1>3, <1>4

\* A change that is due is announced last, and nothing else is.
LEMMA EveryChangeAnnounced ==
  ASSUME TextBase, AxesAgree, HaltHasCause, HintsInv, Finished, halt # "exception", mode.cmd # "probe"
  PROVE  ChangeIsAnnounced
<1>1. mode # None /\ mode \in RunOptions /\ st \in ProcessingStatus
  BY DEF Finished, TextBase, Base, IInv, TypeOK
<1>2. LastCluster \in LastWords
  BY <1>1 DEF HintsInv
<1>3. ASSUME LastCluster \in {"changed", "would_change"}, ~EmptyUnchangedByDefault(st, policy, facts)
      PROVE  Outcome \in AppliedOutcomes \cup WouldOutcomes
  <2>1. st.strip = "READY" \/ (st.strip = "PENDING" /\ st.comparison = "CHANGED" /\ st.write # "FAILED")
    <3>1. CASE st.write # "PENDING"
      BY <1>2, <1>3, <3>1 DEF LastWords, AxesAgree, ConcretePlans
    <3>2. CASE st.write = "PENDING" /\ st.patch # "PENDING"
      BY <1>2, <1>3, <3>2 DEF LastWords, AxesAgree
    <3>3. CASE st.write = "PENDING" /\ st.patch = "PENDING" /\ st.plan # "PENDING"
      BY <1>2, <1>3, <3>3 DEF LastWords, AxesAgree, ConcretePlans
    <3>4. CASE st.write = "PENDING" /\ st.patch = "PENDING" /\ st.plan = "PENDING" /\ st.comparison # "PENDING"
      <4>1. st.strip # "PENDING" => mode.cmd = "strip"
        BY DEF TextBase, Base, IInv, DecidedFromBelow
      <4>2. st.render # "PENDING" => mode.cmd = "check"
        BY DEF TextBase, Base, IInv, DecidedFromBelow
      <4> QED BY <1>2, <1>3, <3>4, <4>1, <4>2 DEF LastWords, TextBase, Base, IInv, DecidedFromBelow
    <3>5. CASE st.write = "PENDING" /\ st.patch = "PENDING" /\ st.plan = "PENDING" /\ st.comparison = "PENDING"
      BY <1>2, <1>3, <3>5 DEF LastWords
    <3> QED BY <3>1, <3>2, <3>3, <3>4, <3>5
  <2>2. st.content = "OK"
    BY <2>1 DEF TextBase, Base, IInv, DecidedFromBelow
  <2>3. CASE st.strip = "READY"
    <3>1. Outcome = StripOutcome(st, mode.apply)
      BY <1>1, <1>3, <2>2, <2>3, OutcomeRules
    <3> QED BY <2>3, <3>1 DEF StripOutcome, AppliedOutcomes, WouldOutcomes
  <2>4. CASE st.strip = "PENDING" /\ st.comparison = "CHANGED" /\ st.write # "FAILED"
    <3>1. st.header # "MALFORMED" /\ ~Forbidden /\ st.render # "FAILED"
      BY <2>4 DEF TextBase, Base, IInv, DecidedFromBelow, AxesAgree
    <3>2. Outcome = HeaderOutcome(st, policy, mode.apply)
      BY <1>1, <1>3, <2>2, <2>4, OutcomeRules
    <3>3. Outcome = ChangedOutcome(st, mode.apply)
      BY <2>2, <2>4, <3>1, <3>2, HeaderRules
    <3> QED BY <3>3 DEF ChangedOutcome, AppliedOutcomes, WouldOutcomes
  <2> QED BY <2>1, <2>3, <2>4
<1>4. ASSUME Outcome \in AppliedOutcomes \cup WouldOutcomes, halt = None, st.write # "FAILED"
      PROVE  LastCluster = Tense
  <2>1. st.content = "OK" /\ ~EmptyUnchangedByDefault(st, policy, facts)
    BY <1>1, <1>4, OutcomeRules DEF AppliedOutcomes, WouldOutcomes
  <2>2. CASE st.strip # "PENDING"
    <3>1. Outcome = StripOutcome(st, mode.apply)
      BY <1>1, <2>1, <2>2, OutcomeRules
    <3>2. st.strip = "READY"
      BY <1>1, <1>4, <2>2, <3>1 DEF StripOutcome, AppliedOutcomes, WouldOutcomes, ProcessingStatus, StripStatus
    <3>3. CASE mode.apply
      <4>1. st.write = "WRITTEN"
        BY <1>1, <1>4, <3>3, AllDecided DEF AxesAgree, ProcessingStatus, WriteStatus, TextBase, Base
      <4> QED BY <1>2, <3>3, <4>1 DEF LastWords, Tense
    <3>4. CASE ~mode.apply /\ mode.diff
      <4>1. st.patch = "GENERATED" /\ st.write = "PENDING"
        BY <1>1, <1>4, <3>2, <3>4, AllDecided DEF AxesAgree, ProcessingStatus, PatchStatus, TextBase, Base
      <4> QED BY <1>2, <3>4, <4>1 DEF LastWords
    <3>5. CASE ~mode.apply /\ ~mode.diff
      <4>1. st.plan = "PENDING" /\ st.patch = "PENDING" /\ st.write = "PENDING"
        BY <3>5 DEF AxesAgree, ConcretePlans
      <4> QED BY <1>2, <3>2, <4>1 DEF LastWords, AxesAgree
    <3> QED BY <3>3, <3>4, <3>5
  <2>3. CASE st.strip = "PENDING"
    <3>1. Outcome = HeaderOutcome(st, policy, mode.apply)
      BY <1>1, <2>1, <2>3, OutcomeRules
    <3>2. st.header # "MALFORMED" /\ ~Forbidden /\ st.render # "FAILED"
      BY <1>4, <3>1 DEF HeaderOutcome, PermittedByPolicy, Forbidden, AppliedOutcomes, WouldOutcomes, AxesAgree,
         TextBase, Base, IInv, DecidedFromBelow
    <3>3. st.comparison = "CHANGED" /\ mode.cmd = "check"
      BY <1>4, <2>1, <2>3, <3>1, <3>2, HeaderRules DEF AppliedOutcomes, WouldOutcomes
    <3>4. CASE mode.apply
      <4>1. st.write = "WRITTEN"
        BY <1>1, <1>4, <3>4, AllDecided DEF AxesAgree, ProcessingStatus, WriteStatus, TextBase, Base
      <4> QED BY <1>2, <3>4, <4>1 DEF LastWords, Tense
    <3>5. CASE ~mode.apply /\ mode.diff
      <4>1. st.patch = "GENERATED" /\ st.write = "PENDING"
        BY <1>1, <1>4, <3>3, <3>5, AllDecided DEF AxesAgree, ProcessingStatus, PatchStatus, TextBase, Base
      <4> QED BY <1>2, <3>5, <4>1 DEF LastWords
    <3>6. CASE ~mode.apply /\ ~mode.diff
      <4>1. st.plan = "PENDING" /\ st.patch = "PENDING" /\ st.write = "PENDING"
        BY <3>6 DEF AxesAgree, ConcretePlans
      <4> QED BY <1>2, <3>3, <4>1 DEF LastWords
    <3> QED BY <3>4, <3>5, <3>6
  <2> QED BY <2>2, <2>3
<1> QED BY <1>3, <1>4 DEF ChangeIsAnnounced, Tense

------------------------------------------------------------------------------
(***************************************************************************)
(* Every step keeps what the outcome rests on.                             *)
(***************************************************************************)

\* Only the patcher decides about the patch, and it takes back what the comparer said.
LEMMA PatchIsPatchers ==
  ASSUME IInv, Step
  PROVE  IF Patcher
         THEN \/ st'.patch = "SKIPPED" /\ st'.comparison = "UNCHANGED"
              \/ /\ st'.patch = "GENERATED" /\ st'.comparison = "CHANGED"
                 /\ st.comparison = "CHANGED"
         ELSE st'.patch = st.patch
<1>1. st \in ProcessingStatus
  BY DEF IInv, TypeOK
<1>2. CASE Patcher
  <2> DEFINE same == st.comparison = "UNCHANGED" \/ (views.edit = None /\ views.updated = SourceText)
  <2>1. st.comparison \in {"CHANGED", "UNCHANGED"}
    BY <1>2, PatcherEffect
  <2>2. st' = [st EXCEPT !.patch = IF same THEN "SKIPPED" ELSE "GENERATED",
                         !.comparison = IF same THEN "UNCHANGED" ELSE @]
    BY <1>2 DEF Patcher, Settle
  <2>3. CASE same
    BY <1>1, <1>2, <2>2, <2>3 DEF ProcessingStatus
  <2>4. CASE ~same
    BY <1>1, <1>2, <2>1, <2>2, <2>4 DEF ProcessingStatus
  <2> QED BY <2>3, <2>4
<1>3. CASE ~Patcher
  <2>1. \/ st' = st \/ (\E x : st' = [st EXCEPT !.resolve = x]) \/ (\E x : st' = [st EXCEPT !.fs = x])
        \/ (\E x, y : st' = [st EXCEPT !.content = x, !.fs = y])
        \/ (\E x : st' = [st EXCEPT !.content = x])
        \/ (\E x : st' = [st EXCEPT !.header = x]) \/ (\E x : st' = [st EXCEPT !.generation = x])
        \/ (\E x : st' = [st EXCEPT !.render = x]) \/ (\E x : st' = [st EXCEPT !.comparison = x])
        \/ (\E x : st' = [st EXCEPT !.strip = x]) \/ (\E x : st' = [st EXCEPT !.plan = x])
        \/ (\E x : st' = [st EXCEPT !.write = x])
    <3>1. CASE Pass \/ BuilderRaises
      BY <3>1 DEF Pass, BuilderRaises, Settle
    <3>2. CASE Resolver \/ Prober
      BY <3>2 DEF Resolver, Prober, Settle
    <3>3. CASE Sniffer
      BY <3>3 DEF Sniffer, Settle
    <3>4. CASE ReaderRefuses \/ ReaderFails
      BY <3>4 DEF ReaderRefuses, ReaderFails, Settle
    <3>5. CASE ReaderFindsEmpty
      <4>1. st' = [st EXCEPT !.fs = "EMPTY", !.content = "OK"]
        BY <3>5 DEF ReaderFindsEmpty, Settle
      <4>2. st' = [st EXCEPT !.content = "OK", !.fs = "EMPTY"]
        BY <1>1, <4>1 DEF ProcessingStatus
      <4> QED BY <4>2
    <3>6. CASE ReaderLoads
      <4>1. \E x, y : st' = [st EXCEPT !.content = x, !.fs = y]
        BY <3>6 DEF ReaderLoads, Settle
      <4> QED BY <4>1
    <3>7. CASE Scanner
      BY <3>7 DEF Scanner, Settle
    <3>8. CASE Builder
      BY <3>8 DEF Builder, Settle
    <3>9. CASE Renderer
      BY <3>9 DEF Renderer, Settle
    <3>10. CASE Comparer
      BY <3>10 DEF Comparer, Settle
    <3>11. CASE Stripper
      BY <3>11 DEF Stripper, Settle
    <3>12. CASE PlanStrip \/ PlanUnchanged \/ PlanRefused \/ PlanReplace \/ PlanInsert \/ PlanNoAnchor
      BY <3>12 DEF PlanStrip, PlanUnchanged, PlanRefused, PlanReplace, PlanInsert, PlanNoAnchor, PlanText, Settle
    <3>13. CASE Writer
      BY <3>13 DEF Writer, Settle
    <3> QED BY <1>3, <3>1, <3>2, <3>3, <3>4, <3>5, <3>6, <3>7, <3>8, <3>9, <3>10, <3>11, <3>12, <3>13 DEF Step
  <2> QED BY <1>1, <1>3, <2>1 DEF ProcessingStatus
<1> QED BY <1>2, <1>3

\* What a run has learnt of a step that is at hand: the axes of earlier steps of the
\* pipeline are decided, its own is not, nor is that of a later one.
LEMMA AtHand ==
  ASSUME TextBase, AxesAgree, mode # None, todo # <<>>
  PROVE  /\ todo[1] = "prober" <=> mode.cmd = "probe"
         /\ todo[1] = "writer" => mode.apply
         /\ todo[1] = "planner" => mode.apply \/ mode.diff
         /\ todo[1] \in {"planner", "patcher", "writer"} => "comparer" \notin ToSet(todo)
         /\ ToSet(Tail(todo)) \subseteq ToSet(todo)
         /\ halt = None =>
              /\ todo[1] \notin {"resolver", "prober"} => st.resolve # "PENDING"
              /\ todo[1] \notin {"resolver", "prober", "sniffer"} => st.fs # "PENDING"
              /\ todo[1] \notin {"resolver", "prober", "sniffer", "reader"} => st.content # "PENDING"
              /\ todo[1] \notin {"resolver", "prober", "sniffer", "reader", "scanner"} => st.header # "PENDING"
              /\ todo[1] = "renderer" => st.generation # "PENDING"
              /\ todo[1] \in {"comparer", "planner", "patcher", "writer"} =>
                   IF mode.cmd = "check" THEN st.render # "PENDING" ELSE st.strip # "PENDING"
              /\ todo[1] \in {"planner", "writer"} /\ mode.cmd = "check" => st.comparison # "PENDING"
              /\ todo[1] = "patcher" => st.comparison # "PENDING"
              /\ todo[1] \in {"patcher", "writer"} => st.plan # "PENDING"
<1>1. mode \in RunOptions /\ IInv /\ todo \in Seq(Steps) /\ InOrder(todo)
  BY DEF TextBase, Base, IInv, TypeOK, TodoOfPipeline
<1>2. /\ todo[1] \in Steps /\ ToSet(Tail(todo)) \subseteq ToSet(todo)
      /\ ToSet(todo) = {todo[1]} \cup ToSet(Tail(todo))
      /\ \A step \in ToSet(Tail(todo)) : Rank(todo[1]) < Rank(step)
  BY <1>1, TakeFirst
<1>3. todo[1] \in PipelineSteps(mode)
  BY <1>1, StepAtHand
<1>4. /\ todo[1] = "prober" <=> mode.cmd = "probe"
      /\ todo[1] = "writer" => mode.apply
      /\ todo[1] = "planner" => mode.apply \/ mode.diff
  BY <1>1, <1>3 DEF RunOptions, PipelineSteps, CheckSteps, StripSteps, ScanSteps
<1>5. todo[1] \in {"planner", "patcher", "writer"} => "comparer" \notin ToSet(todo)
  BY <1>2 DEF Rank
<1>6. ASSUME halt = None
      PROVE  \A step \in PipelineSteps(mode) : Rank(step) < Rank(todo[1]) => PrimaryStatus(step, st) # "PENDING"
  BY <1>1, <1>6, StepAtHand
<1>7. /\ Rank("prober") = 1 /\ Rank("resolver") = 1 /\ Rank("sniffer") = 2 /\ Rank("reader") = 3
      /\ Rank("scanner") = 4 /\ Rank("builder") = 5 /\ Rank("renderer") = 6 /\ Rank("stripper") = 7
      /\ Rank("comparer") = 8 /\ Rank("planner") = 9 /\ Rank("patcher") = 10 /\ Rank("writer") = 11
  BY DEF Rank
<1>8. ASSUME mode.cmd # "probe"
      PROVE  /\ {"resolver", "sniffer", "reader", "scanner"} \subseteq PipelineSteps(mode)
             /\ mode.cmd = "check" => {"builder", "renderer", "comparer"} \subseteq PipelineSteps(mode)
             /\ mode.cmd = "strip" => {"stripper"} \subseteq PipelineSteps(mode)
             /\ todo[1] \in {"patcher", "writer"} => "planner" \in PipelineSteps(mode)
             /\ todo[1] = "patcher" => "comparer" \in PipelineSteps(mode)
             /\ todo[1] \in {"builder", "renderer"} => mode.cmd = "check"
             /\ todo[1] = "stripper" => mode.cmd = "strip"
  BY <1>1, <1>3, <1>8 DEF RunOptions, PipelineSteps, CheckSteps, StripSteps, ScanSteps
<1>9. CASE mode.cmd = "probe"
  BY <1>2, <1>4, <1>9
<1>10. CASE mode.cmd # "probe" /\ halt = None
  <2>1. \A s \in {"prober", "resolver", "sniffer", "reader", "scanner", "builder", "renderer", "stripper",
                  "comparer", "planner", "patcher", "writer"} : todo[1] = s => Rank(todo[1]) = Rank(s)
    OBVIOUS
  <2>2. mode.cmd \in {"check", "strip"}
    BY <1>1, <1>10 DEF RunOptions
  <2> HIDE DEF Rank
  <2> QED BY <1>2, <1>4, <1>5, <1>6, <1>7, <1>8, <1>10, <2>1, <2>2, AxisOfStep DEF Steps
<1> QED BY <1>2, <1>4, <1>5, <1>9, <1>10

\* An axis is open as long as one it rests on is.
LEMMA LaterAxes ==
  ASSUME TextBase, AxesAgree
  PROVE  /\ st.resolve # "RESOLVED" => st.fs = "PENDING"
         /\ st.fs \notin ReadableFs => st.content = "PENDING"
         /\ st.content # "OK" => st.header = "PENDING" /\ st.generation = "PENDING" /\ st.render = "PENDING"
                                 /\ st.strip = "PENDING" /\ st.comparison = "PENDING"
                                 /\ st.plan = "PENDING" /\ st.patch = "PENDING" /\ st.write = "PENDING"
         /\ st.header = "PENDING" => st.generation = "PENDING" /\ st.strip = "PENDING"
         /\ st.generation = "PENDING" => st.render = "PENDING"
         /\ st.strip # "PENDING" => mode.cmd = "strip" /\ st.generation = "PENDING" /\ st.render = "PENDING"
         /\ st.strip # "READY" /\ st.render # "RENDERED" => st.comparison = "PENDING" /\ st.plan = "PENDING"
         /\ st.plan = "PENDING" => st.patch = "PENDING" /\ st.write = "PENDING"
         /\ "PENDING" \notin ReadableFs
<1>1. /\ st.fs # "PENDING" => st.resolve = "RESOLVED"
      /\ st.patch # "PENDING" => st.plan # "PENDING"
      /\ st.write # "PENDING" => st.plan # "PENDING"
  BY DEF AxesAgree, ConcretePlans
<1>2. /\ st.content # "PENDING" => st.fs \in ReadableFs
      /\ "PENDING" \notin ReadableFs
  BY DEF TextBase, Base, ReportInv, ReadableFs
<1>3. /\ st.header # "PENDING" => st.content = "OK"
      /\ st.generation # "PENDING" => mode.cmd = "check" /\ st.header # "PENDING"
      /\ st.render # "PENDING" => st.generation # "PENDING"
      /\ st.strip # "PENDING" => mode.cmd = "strip" /\ st.header # "PENDING"
      /\ st.comparison # "PENDING" => st.strip = "READY" \/ st.render = "RENDERED"
      /\ st.plan # "PENDING" => st.strip = "READY" \/ st.render = "RENDERED"
  BY DEF TextBase, Base, IInv, DecidedFromBelow
<1> QED BY <1>1, <1>2, <1>3

\* The axes of a run as far as they tell why it ended.
CourseInv == AxesAgree /\ HaltHasCause

\* A step whose gate is closed halts the run, unless it was halted before: the axis behind
\* the gate tells why.
LEMMA PassHasCause ==
  ASSUME TextBase, CourseInv, Pass
  PROVE  HaltHasCause'
<1>1. IInv /\ mode # None /\ todo # <<>>
  BY DEF TextBase, Base, Pass
<1>2. /\ ~MayProceed(todo[1]) /\ st' = st /\ WentOn(FALSE)
  BY <1>1, PassEffect
<1>3. mode' = mode /\ setup' = setup
  BY <1>2 DEF WentOn
<1>4. Forbidden' = Forbidden
  BY <1>2, <1>3 DEF Forbidden, policy
<1>5. CASE halt # None
  <2>1. halt' = halt
    BY <1>2, <1>5 DEF WentOn
  <2> QED BY <1>2, <1>3, <1>4, <2>1 DEF CourseInv, HaltHasCause
<1>6. CASE halt = None
  <2>1. todo[1] \in Steps /\ PrimaryStatus(todo[1], st) = "PENDING" /\ todo[1] \in ToSet(todo)
    BY <1>1, StepAtHand
  <2>2. ~Gate(todo[1]) /\ todo[1] \notin {"resolver", "prober"}
    BY <1>2, <1>6 DEF MayProceed, Gate
  <2>3. st \in ProcessingStatus /\ mode \in RunOptions
    BY <1>1 DEF IInv, TypeOK
  <2> DEFINE Cause ==
        \/ st.resolve \notin {"PENDING", "RESOLVED"} /\ st.fs = "PENDING"
        \/ st.content \notin {"PENDING", "OK"} /\ st.header = "PENDING"
        \/ st.render \in {"SKIPPED", "FAILED"} /\ st.comparison = "PENDING"
        \/ st.strip \in {"NOT_NEEDED", "FAILED"} /\ st.comparison = "PENDING" /\ st.plan = "PENDING"
        \/ st.plan # "PENDING" /\ st.patch = "PENDING" /\ st.write = "PENDING"
  <2>4. Cause => HaltHasCause'
    BY <1>2, <1>3 DEF HaltHasCause
  <2>5. AxesAgree
    BY DEF CourseInv
  <2>6. CASE todo[1] = "sniffer"
    BY <1>1, <1>6, <2>1, <2>2, <2>4, <2>5, <2>6, AtHand, AxisOfStep DEF Gate
  <2>7. CASE todo[1] = "reader"
    BY <2>2, <2>7 DEF Gate
  <2>8. CASE todo[1] = "scanner"
    BY <1>1, <1>6, <2>1, <2>2, <2>4, <2>5, <2>8, AtHand, AxisOfStep DEF Gate
  <2>9. CASE todo[1] \in {"builder", "stripper"}
    <3>1. st.header # "PENDING"
      BY <1>1, <1>6, <2>5, <2>9, AtHand
    <3> QED BY <2>2, <2>5, <2>9, <3>1, LaterAxes DEF Gate
  <2>10. CASE todo[1] = "renderer"
    <3>1. st.generation # "PENDING" /\ st.generation # "SKIPPED"
      BY <1>1, <1>6, <2>5, <2>10, AtHand DEF AxesAgree
    <3> QED BY <2>2, <2>3, <2>10, <3>1 DEF Gate, ProcessingStatus, GenerationStatus
  <2>11. CASE todo[1] = "comparer"
    <3>1. st.render # "RENDERED" /\ views.updated = None /\ st.comparison = "PENDING"
      BY <2>1, <2>2, <2>11, AxisOfStep DEF Gate
    <3>2. IF mode.cmd = "check" THEN st.render # "PENDING" ELSE st.strip # "PENDING"
      BY <1>1, <1>6, <2>5, <2>11, AtHand
    <3>3. st.strip # "READY"
      BY <1>1, <2>1, <2>11, <3>1, HeadConsumes DEF ConsumesViews, IInv, ConsumedViewsKept
    <3>4. st.plan = "PENDING"
      BY <2>1, <2>5, <2>11 DEF AxesAgree
    <3> QED BY <2>3, <3>1, <3>2, <3>3, <3>4, <2>4 DEF ProcessingStatus, RenderStatus, StripStatus
  <2>12. CASE todo[1] = "planner"
    <3>1. st.strip # "READY" /\ st.render # "RENDERED"
      BY <2>2, <2>12 DEF Gate
    <3>2. st.comparison = "PENDING" /\ st.plan = "PENDING"
      BY <2>5, <3>1, LaterAxes
    <3>3. mode.cmd # "check" /\ st.strip # "PENDING"
      BY <1>1, <1>6, <2>5, <2>12, <3>2, AtHand
    <3> QED BY <2>3, <2>4, <3>1, <3>2, <3>3 DEF ProcessingStatus, StripStatus
  <2>13. CASE todo[1] = "patcher"
    <3>1. st.comparison # "PENDING" /\ st.comparison # "SKIPPED"
      BY <1>1, <1>6, <2>5, <2>13, AtHand DEF IInv, DecidedFromBelow
    <3> QED BY <2>2, <2>3, <2>13, <3>1 DEF Gate, ProcessingStatus, ComparisonStatus
  <2>14. CASE todo[1] = "writer"
    <3>1. st.plan # "PENDING" /\ mode.apply /\ st.write = "PENDING"
      BY <1>1, <1>6, <2>1, <2>5, <2>14, AtHand, AxisOfStep
    <3> QED BY <2>4, <2>5, <3>1 DEF AxesAgree
  <2> QED BY <2>1, <2>2, <2>6, <2>7, <2>8, <2>9, <2>10, <2>11, <2>12, <2>13, <2>14 DEF Steps
<1> QED BY <1>5, <1>6

\* The values the reader decides between.
LEMMA ReaderVerdicts ==
  ASSUME IInv, ReaderRefuses \/ ReaderFails \/ ReaderLoads
  PROVE  st'.content \in {"OK", "SKIPPED_MIXED_LINE_ENDINGS", "SKIPPED_POLICY_BOM_BEFORE_SHEBANG",
                          "SKIPPED_REFLOW", "UNREADABLE"}
<1>1. st \in ProcessingStatus
  BY DEF IInv, TypeOK
<1>2. CASE ReaderRefuses
  BY <1>1, <1>2 DEF ReaderRefuses, ReaderGate, Settle, ProcessingStatus
<1>3. CASE ReaderFails
  BY <1>1, <1>3 DEF ReaderFails, Settle, ProcessingStatus
<1>4. CASE ReaderLoads
  <2> DEFINE text == Decoded(disk)
             refused == MixedEol(text) /\ policy.mixed = "reject"
             cap == IF ftype.checker /\ ~refused THEN Capability(text) ELSE facts.cap
             reflow == ftype.checker /\ cap = "REFLOW" /\ ~policy.reflow
             content == IF refused THEN "SKIPPED_MIXED_LINE_ENDINGS"
                        ELSE IF reflow THEN "SKIPPED_REFLOW" ELSE "OK"
             fs == IF MixedEol(text) /\ ~refused THEN "MIXED_LINE_ENDINGS" ELSE st.fs
  <2>1. st' = [st EXCEPT !.content = content, !.fs = fs]
    BY <1>4 DEF ReaderLoads, Settle
  <2>2. content \in {"OK", "SKIPPED_MIXED_LINE_ENDINGS", "SKIPPED_REFLOW"}
    OBVIOUS
  <2> HIDE DEF content, fs
  <2> QED BY <1>1, <2>1, <2>2 DEF ProcessingStatus
<1> QED BY <1>2, <1>3, <1>4

\* The resolver and the prober.
LEMMA ResolvingCourse ==
  ASSUME TextBase, CourseInv, Resolver \/ Prober
  PROVE  CourseInv'
<1>1. IInv /\ AxesAgree
  BY DEF TextBase, Base, CourseInv
<1>2. /\ todo[1] \in {"resolver", "prober"} /\ st'.resolve = ftype.resolve
      /\ OthersKept({"resolve"})
      /\ WentOn(todo[1] = "prober" \/ ftype.resolve # "RESOLVED")
  BY <1>1, ResolveEffect
<1>3. st'.patch = st.patch
  <2>1. Step /\ ~Patcher
    BY DEF Step, Resolver, Prober, Running, Patcher
  <2> QED BY <1>1, <2>1, PatchIsPatchers
<1>4. mode # None /\ todo # <<>> /\ mode' = mode /\ halt \notin Steps
  <2>1. todo[1] \in ToSet(todo) /\ mode # None /\ todo # <<>>
    BY <1>1, <1>2, StepAtHand DEF WentOn
  <2>2. halt = None
    BY <1>1, <1>2, <2>1 DEF IInv, TodoOfPipeline
  <2> QED BY <1>2, <2>1, <2>2, NoneAssumption DEF WentOn
<1>5. st.resolve = "PENDING" /\ ftype.resolve # "PENDING"
  <2>1. st.resolve = "PENDING"
    BY <1>1, <1>2, <1>4, StepAtHand, AxisOfStep
  <2>2. ftype.resolve # "PENDING"
    BY <1>1, SetupsAssumption DEF IInv, TypeOK, ftype, FileType
  <2> QED BY <2>1, <2>2
<1>6. /\ st'.fs = "PENDING" /\ st'.content = "PENDING" /\ st'.header = "PENDING" /\ st'.generation = "PENDING"
      /\ st'.render = "PENDING" /\ st'.strip = "PENDING" /\ st'.comparison = "PENDING" /\ st'.plan = "PENDING"
      /\ st'.patch = "PENDING" /\ st'.write = "PENDING"
  <2>1. st.fs = "PENDING" /\ st.content = "PENDING"
    BY <1>1, <1>5, LaterAxes
  <2> QED BY <1>1, <1>2, <1>3, <2>1, LaterAxes DEF OthersKept
<1>7. AxesAgree'
  BY <1>6 DEF AxesAgree, ConcretePlans
<1>8. HaltHasCause'
  <2>1. CASE todo[1] = "prober"
    BY <1>1, <1>4, <2>1, AtHand DEF HaltHasCause
  <2>2. CASE todo[1] # "prober"
    <3>1. halt' # None => st'.resolve # "RESOLVED" \/ halt # None
      BY <1>2, <1>5, <2>2, AxisOfStep DEF WentOn
    <3>2. halt = None
      BY <1>1, <1>2, <1>4, StepAtHand DEF IInv, TodoOfPipeline
    <3> QED BY <1>2, <1>5, <1>6, <3>1, <3>2 DEF HaltHasCause
  <2> QED BY <2>1, <2>2
<1> QED BY <1>7, <1>8 DEF CourseInv

\* The sniffer.
LEMMA SniffingCourse ==
  ASSUME TextBase, CourseInv, Sniffer
  PROVE  CourseInv'
<1>1. IInv /\ AxesAgree
  BY DEF TextBase, Base, CourseInv
<1>2. /\ todo[1] = "sniffer" /\ halt = None /\ OthersKept({"fs"}) /\ WentOn(st'.fs \notin ReadableFs)
      /\ mode # None /\ todo # <<>> /\ mode' = mode
      /\ \/ st'.fs = IF SnifferStat = "open" THEN SniffStream ELSE SnifferStat
         \/ st'.fs = "UNREADABLE"
  BY <1>1, SnifferEffect DEF WentOn
<1>3. st'.patch = st.patch
  BY <1>1, PatchIsPatchers DEF Step, Sniffer, Running, Patcher
<1>4. st.resolve = "RESOLVED" /\ st.fs = "PENDING" /\ st.content = "PENDING"
  <2>1. st.resolve = "RESOLVED"
    BY <1>2 DEF Sniffer, Running, MayProceed, Gate
  <2>2. st.fs = "PENDING"
    BY <1>1, <1>2, StepAtHand, AxisOfStep
  <2> QED BY <1>1, <2>1, <2>2, LaterAxes
<1>5. st'.fs \notin {"PENDING", "HARD_LINK_DUPLICATE"}
  BY <1>2 DEF SnifferStat, SniffStream
<1>6. /\ st'.resolve = "RESOLVED" /\ st'.content = "PENDING" /\ st'.header = "PENDING" /\ st'.generation = "PENDING"
      /\ st'.render = "PENDING" /\ st'.strip = "PENDING" /\ st'.comparison = "PENDING" /\ st'.plan = "PENDING"
      /\ st'.patch = "PENDING" /\ st'.write = "PENDING"
  BY <1>1, <1>2, <1>3, <1>4, LaterAxes DEF OthersKept
<1>7. AxesAgree'
  BY <1>5, <1>6 DEF AxesAgree, ConcretePlans
<1>8. halt' # None => st'.fs \notin ReadableFs
  BY <1>2, <1>5, AxisOfStep DEF WentOn
<1>9. HaltHasCause'
  BY <1>5, <1>6, <1>8 DEF HaltHasCause
<1> QED BY <1>7, <1>9 DEF CourseInv

\* The reader, whether or not it can use the file.
LEMMA ReadingCourse ==
  ASSUME TextBase, CourseInv, ReaderRefuses \/ ReaderFails \/ ReaderFindsEmpty \/ ReaderLoads
  PROVE  CourseInv'
<1>1. IInv /\ AxesAgree
  BY DEF TextBase, Base, CourseInv
<1>2. /\ todo[1] = "reader" /\ halt = None /\ OthersKept({"fs", "content"})
      /\ st'.fs = st.fs \/ st'.fs \in {"EMPTY", "MIXED_LINE_ENDINGS"}
      /\ st'.content # "PENDING" /\ st.content = "PENDING"
      /\ mode # None /\ todo # <<>> /\ mode' = mode /\ WentOn(st'.content # "OK")
  <2>1. CASE ReaderRefuses \/ ReaderFails
    BY <1>1, <2>1, NotReadingEffect, ReaderVerdicts DEF OthersKept, WentOn
  <2>2. CASE ReaderFindsEmpty
    BY <1>1, <2>2, EmptyEffect DEF WentOn
  <2>3. CASE ReaderLoads
    BY <1>1, <2>3, LoadEffect, ReaderVerdicts DEF WentOn
  <2> QED BY <2>1, <2>2, <2>3
<1>3. st'.patch = st.patch
  <2>1. Step /\ ~Patcher
    BY DEF Step, ReaderRefuses, ReaderFails, ReaderFindsEmpty, ReaderLoads, Running, Patcher
  <2> QED BY <1>1, <2>1, PatchIsPatchers
<1>4. st.fs # "PENDING" /\ st.resolve = "RESOLVED" /\ mode.cmd # "probe"
  BY <1>1, <1>2, AtHand DEF AxesAgree
<1>5. /\ st'.resolve = "RESOLVED" /\ st'.header = "PENDING" /\ st'.generation = "PENDING"
      /\ st'.render = "PENDING" /\ st'.strip = "PENDING" /\ st'.comparison = "PENDING" /\ st'.plan = "PENDING"
      /\ st'.patch = "PENDING" /\ st'.write = "PENDING"
  BY <1>1, <1>2, <1>3, <1>4, LaterAxes DEF OthersKept
<1>6. st'.fs # "HARD_LINK_DUPLICATE"
  BY <1>1, <1>2 DEF AxesAgree
<1>7. AxesAgree'
  BY <1>2, <1>4, <1>5, <1>6 DEF AxesAgree, ConcretePlans
<1>8. halt' # None => st'.content # "OK"
  BY <1>2, AxisOfStep DEF WentOn
<1>9. HaltHasCause'
  BY <1>2, <1>5, <1>8 DEF HaltHasCause
<1> QED BY <1>7, <1>9 DEF CourseInv

\* The scanner.
LEMMA ScanningCourse ==
  ASSUME TextBase, CourseInv, Scanner
  PROVE  CourseInv'
<1>1. IInv /\ AxesAgree
  BY DEF TextBase, Base, CourseInv
<1>2. /\ todo[1] = "scanner" /\ halt = None /\ OthersKept({"header"})
      /\ st.content = "OK" /\ st.header = "PENDING" /\ views.image \in FileContent
      /\ st'.header = ScannedStatus
      /\ ViewsLeft([views EXCEPT !.header = FoundHeader])
      /\ [views EXCEPT !.header = FoundHeader].header = FoundHeader
      /\ WentOn(\/ ScannedStatus = "MALFORMED"
                \/ ScannedStatus \in {"MISSING", "DETECTED", "EMPTY"} /\ ~PermittedByPolicy(st', policy))
      /\ mode # None /\ todo # <<>> /\ mode' = mode /\ setup' = setup
  BY <1>1, ScannerEffect DEF WentOn
<1>3. st'.patch = st.patch
  BY <1>1, PatchIsPatchers DEF Step, Scanner, Running, Patcher
<1>4. ScannedHeader \in HeaderKinds \cup {"missing"}
  BY <1>2, ElementOfSeq, EmptySeq DEF ScannedHeader, TopHeader, FileContent
<1>5. /\ ScannedStatus # "PENDING"
      /\ ScannedStatus = "MISSING" <=> FoundHeader = None
  BY <1>4, NoneAssumption DEF ScannedStatus, HeaderKinds, FoundHeader
<1>6. /\ st'.content = "OK" /\ st'.generation = "PENDING"
      /\ st'.render = "PENDING" /\ st'.strip = "PENDING" /\ st'.comparison = "PENDING" /\ st'.plan = "PENDING"
      /\ st'.patch = "PENDING" /\ st'.write = "PENDING"
      /\ st'.fs = st.fs /\ st'.resolve = st.resolve
  BY <1>1, <1>2, <1>3, LaterAxes DEF OthersKept
<1>7. PermittedByPolicy(st', policy) <=> ~Forbidden'
  <2>1. policy' = policy
    BY <1>2 DEF policy
  <2> QED BY <1>6, <2>1 DEF PermittedByPolicy, Forbidden
<1>8. Forbidden' => ScannedStatus \in {"MISSING", "DETECTED", "EMPTY"}
  BY <1>2 DEF Forbidden
<1>9. Forbidden' => halt' # None
  BY <1>2, <1>7, <1>8 DEF WentOn
<1>10. halt' # None => ScannedStatus = "MALFORMED" \/ Forbidden'
  BY <1>2, <1>5, <1>7, AxisOfStep DEF WentOn
<1>11. Needed("header")' => views'.header = FoundHeader
  BY <1>2 DEF ViewsLeft
<1>12. AxesAgree'
  BY <1>1, <1>2, <1>5, <1>6, <1>9, <1>11 DEF AxesAgree, ConcretePlans
<1>13. HaltHasCause'
  BY <1>2, <1>5, <1>6, <1>10 DEF HaltHasCause
<1> QED BY <1>12, <1>13 DEF CourseInv

\* The builder is never refused: the scanner halted whatever the policy forbids.
LEMMA BuildingCourse ==
  ASSUME TextBase, CourseInv, Builder
  PROVE  CourseInv'
<1>1. IInv /\ AxesAgree
  BY DEF TextBase, Base, CourseInv
<1>2. PICK v \in Views : v.header = views.header /\ v.edit = views.edit /\ ViewsLeft(v)
  BY <1>1, BuilderEffect
<1>3. /\ todo[1] = "builder" /\ halt = None /\ OthersKept({"generation"})
      /\ st.content = "OK" /\ mode.cmd = "check" /\ st.generation = "PENDING"
      /\ st.header \notin {"PENDING", "MALFORMED"}
      /\ st'.generation = IF ~PermittedByPolicy(st, policy) THEN "SKIPPED"
                          ELSE IF setup.fields = "none" THEN "NO_FIELDS" ELSE "GENERATED"
      /\ WentOn(st'.generation = "SKIPPED")
      /\ mode # None /\ todo # <<>> /\ mode' = mode /\ setup' = setup
  BY <1>1, BuilderEffect DEF WentOn
<1>4. st'.patch = st.patch
  BY <1>1, PatchIsPatchers DEF Step, Builder, Running, Patcher
<1>5. ~Forbidden /\ Forbidden' = Forbidden
  BY <1>1, <1>3 DEF AxesAgree, Forbidden, OthersKept, policy
<1>6. st'.generation \in {"NO_FIELDS", "GENERATED"}
  BY <1>3, <1>5 DEF PermittedByPolicy, Forbidden
<1>7. halt' = None
  BY <1>3, <1>6, AxisOfStep DEF WentOn
<1>8. st.strip = "PENDING" /\ st.comparison = "PENDING" /\ st.plan = "PENDING" /\ st.render = "PENDING"
      /\ st.patch = "PENDING" /\ st.write = "PENDING"
  BY <1>1, <1>3, LaterAxes
<1>9. AxesAgree'
  BY <1>1, <1>2, <1>3, <1>4, <1>5, <1>6, <1>8 DEF AxesAgree, OthersKept, ConcretePlans, ViewsLeft
<1>10. HaltHasCause'
  BY <1>7 DEF HaltHasCause
<1> QED BY <1>9, <1>10 DEF CourseInv

\* The renderer.
LEMMA RenderingCourse ==
  ASSUME TextBase, CourseInv, Renderer
  PROVE  CourseInv'
<1>1. IInv /\ RenderedAsConfigured /\ AxesAgree
  BY DEF TextBase, Base, CourseInv
<1>2. PICK v \in Views : v.header = views.header /\ v.edit = views.edit /\ ViewsLeft(v)
  BY <1>1, RendererEffect
<1>3. /\ todo[1] = "renderer" /\ halt = None /\ OthersKept({"render"})
      /\ mode.cmd = "check" /\ st.render = "PENDING" /\ st'.render \in {"SKIPPED", "FAILED", "RENDERED"}
      /\ WentOn(st'.render # "RENDERED")
      /\ mode # None /\ todo # <<>> /\ mode' = mode /\ setup' = setup
  BY <1>1, RendererEffect DEF WentOn, RenderingStatus
<1>4. st'.patch = st.patch
  BY <1>1, PatchIsPatchers DEF Step, Renderer, Running, Patcher
<1>5. Forbidden' = Forbidden
  BY <1>3 DEF Forbidden, OthersKept, policy
<1>6. halt' # None => st'.render # "RENDERED"
  BY <1>3, AxisOfStep DEF WentOn
<1>7. st.strip = "PENDING" /\ st.comparison = "PENDING" /\ st.plan = "PENDING"
      /\ st.patch = "PENDING" /\ st.write = "PENDING"
  BY <1>1, <1>3, LaterAxes
<1>8. ~(st.header # "PENDING" /\ Forbidden)
  BY <1>1, <1>3 DEF AxesAgree
<1>9. AxesAgree'
  BY <1>1, <1>2, <1>3, <1>4, <1>5, <1>7, <1>8 DEF AxesAgree, OthersKept, ConcretePlans, ViewsLeft
<1>10. HaltHasCause'
  BY <1>3, <1>6, <1>7 DEF HaltHasCause, OthersKept
<1> QED BY <1>9, <1>10 DEF CourseInv

\* The comparer: after a stripper it always finds the text changed.
LEMMA ComparingCourse ==
  ASSUME TextBase, CourseInv, Comparer
  PROVE  CourseInv'
<1>1. IInv /\ AxesAgree
  BY DEF TextBase, Base, CourseInv
<1>2. /\ todo[1] = "comparer" /\ halt = None /\ OthersKept({"comparison"})
      /\ st.comparison = "PENDING" /\ Needed("edit") /\ ViewsLeft(views)
      /\ st'.comparison \in {"SKIPPED", "CHANGED", "UNCHANGED"}
      /\ st'.comparison = "SKIPPED" <=> BadFields
      /\ ~BadFields /\ views.edit = "single" => st'.comparison = "CHANGED"
      /\ WentOn(st'.comparison = "SKIPPED")
      /\ mode # None /\ todo # <<>> /\ mode' = mode /\ setup' = setup
  BY <1>1, ComparerEffect DEF WentOn, BadFields
<1>3. st'.patch = st.patch
  BY <1>1, PatchIsPatchers DEF Step, Comparer, Running, Patcher
<1>4. Forbidden' = Forbidden /\ BadFields' = BadFields
  BY <1>2 DEF Forbidden, OthersKept, policy, BadFields
<1>5. halt' # None => st'.comparison = "SKIPPED"
  BY <1>2, AxisOfStep DEF WentOn
<1>6. st.plan = "PENDING" /\ st.patch = "PENDING" /\ st.write = "PENDING"
  <2>1. st.plan = "PENDING"
    BY <1>1, <1>2, StepAtHand DEF AxesAgree
  <2> QED BY <1>1, <2>1, LaterAxes
<1>7. ~(st.header # "PENDING" /\ Forbidden)
  BY <1>1, <1>2 DEF AxesAgree
<1>8. st.strip = "READY" => st'.comparison = "CHANGED"
  BY <1>1, <1>2 DEF AxesAgree
<1>9. AxesAgree'
  BY <1>1, <1>2, <1>3, <1>4, <1>6, <1>7, <1>8 DEF AxesAgree, OthersKept, ConcretePlans, ViewsLeft
<1>10. HaltHasCause'
  BY <1>2, <1>5, <1>6 DEF HaltHasCause, OthersKept
<1> QED BY <1>9, <1>10 DEF CourseInv

\* The stripper.
LEMMA StrippingCourse ==
  ASSUME TextBase, CourseInv, Stripper
  PROVE  CourseInv'
<1>1. IInv /\ AxesAgree
  BY DEF TextBase, Base, CourseInv
<1>2. PICK v \in Views :
        /\ v.header = views.header /\ ViewsLeft(v)
        /\ v.edit = IF st'.strip = "READY" THEN "single" ELSE views.edit
  BY <1>1, StripperEffect
<1>3. /\ todo[1] = "stripper" /\ halt = None /\ OthersKept({"strip"})
      /\ st.content = "OK" /\ mode.cmd = "strip" /\ st.strip = "PENDING"
      /\ st.header \notin {"PENDING", "MALFORMED"}
      /\ st'.strip \in {"NOT_NEEDED", "READY", "FAILED"}
      /\ st'.strip \in {"NOT_NEEDED", "READY"} => ~BadFields
      /\ WentOn(st'.strip = "FAILED")
      /\ mode # None /\ todo # <<>> /\ mode' = mode /\ setup' = setup
  BY <1>1, StripperEffect DEF WentOn, StripVerdict, Found, BadFields
<1>4. st'.patch = st.patch
  BY <1>1, PatchIsPatchers DEF Step, Stripper, Running, Patcher
<1>5. Forbidden' = Forbidden /\ BadFields' = BadFields
  BY <1>3 DEF Forbidden, OthersKept, policy, BadFields
<1>6. halt' # None => st'.strip = "FAILED"
  BY <1>3, AxisOfStep DEF WentOn
<1>7. st.generation = "PENDING" /\ st.render = "PENDING" /\ st.comparison = "PENDING" /\ st.plan = "PENDING"
      /\ st.patch = "PENDING" /\ st.write = "PENDING"
  <2>1. st.generation = "PENDING"
    BY <1>1, <1>3 DEF IInv, DecidedFromBelow
  <2> QED BY <1>1, <1>3, <2>1, LaterAxes
<1>8. ~Forbidden
  BY <1>1, <1>3 DEF AxesAgree
<1>9. AxesAgree'
  BY <1>1, <1>2, <1>3, <1>4, <1>5, <1>7, <1>8 DEF AxesAgree, OthersKept, ConcretePlans, ViewsLeft
<1>10. HaltHasCause'
  BY <1>3, <1>6, <1>7 DEF HaltHasCause, OthersKept
<1> QED BY <1>9, <1>10 DEF CourseInv

\* The planner, whatever it plans.
LEMMA PlanningCourse ==
  ASSUME TextBase, CourseInv,
         PlanStrip \/ PlanUnchanged \/ PlanRefused \/ PlanReplace \/ PlanInsert \/ PlanNoAnchor
  PROVE  CourseInv'
<1>1. IInv /\ AxesAgree
  BY DEF TextBase, Base, CourseInv
<1>2. /\ todo[1] = "planner" /\ halt = None /\ OthersKept({"plan"}) /\ st.plan = "PENDING" /\ Needed("header")
      /\ mode # None /\ todo # <<>> /\ mode' = mode /\ setup' = setup
  BY <1>1, PlannerEffect
     DEF PlanStrip, PlanUnchanged, PlanRefused, PlanReplace, PlanInsert, PlanNoAnchor, Updating, Running,
         PlanText, Settle
<1>3. st'.patch = st.patch
  <2>1. Step /\ ~Patcher
    BY <1>2 DEF Step, Patcher, Running
  <2> QED BY <1>1, <2>1, PatchIsPatchers
<1>4. Forbidden' = Forbidden /\ BadFields' = BadFields /\ ~(st.header # "PENDING" /\ Forbidden)
  BY <1>1, <1>2 DEF Forbidden, OthersKept, policy, BadFields, AxesAgree
<1>5. st.patch = "PENDING" /\ st.write = "PENDING"
  BY <1>1, <1>2, LaterAxes
<1>6. "comparer" \notin ToSet(todo) /\ (mode.apply \/ mode.diff)
  BY <1>1, <1>2, AtHand
<1>7. st.header # "PENDING" /\ st.header \in HeaderStatus
  BY <1>1, <1>2, AtHand DEF IInv, TypeOK, ProcessingStatus
<1>8. ASSUME NEW plan, NEW stop, NEW updated, NEW edit, PlanLeaves(plan, stop, updated, edit),
             plan # "PENDING",
             \/ /\ st.strip = "READY" /\ plan \in {"REMOVED", "PREVIEWED"} /\ edit = views.edit
             \/ /\ st.strip = "PENDING" /\ st.comparison \in {"CHANGED", "UNCHANGED"}
                /\ plan \in ConcretePlans \cup {"PREVIEWED"} => st.comparison = "CHANGED",
             plan = "PREVIEWED" => ~mode.apply,
             plan = "INSERTED" => st.header = "MISSING",
             plan = "REPLACED" => st.header \in {"DETECTED", "EMPTY"}
      PROVE  CourseInv'
  <2>1. st'.plan = plan /\ WentOn(stop)
    BY <1>8 DEF PlanLeaves
  <2>2. PICK v \in Views : ViewsLeft(v) /\ v.header = views.header /\ v.edit = edit
    BY <1>8 DEF PlanLeaves
  <2>3. AxesAgree'
    BY <1>1, <1>2, <1>3, <1>4, <1>5, <1>6, <1>8, <2>1, <2>2
       DEF AxesAgree, OthersKept, ConcretePlans, ViewsLeft, WentOn
  <2>4. HaltHasCause'
    BY <1>2, <1>3, <1>5, <1>8, <2>1 DEF HaltHasCause, OthersKept
  <2> QED BY <2>3, <2>4 DEF CourseInv
<1>9. ASSUME st.comparison \in {"CHANGED", "UNCHANGED"}, st.strip # "READY"
      PROVE  st.strip = "PENDING"
  BY <1>1, <1>9, LaterAxes
<1>10. CASE PlanStrip
  <2>1. PlanKind("REMOVED") \in {"REMOVED", "PREVIEWED"} /\ (PlanKind("REMOVED") = "PREVIEWED" => ~mode.apply)
    BY DEF PlanKind
  <2> QED BY <1>1, <1>8, <1>10, <2>1, PlanStripEffect
<1>11. ASSUME NEW stop, PlanSkips(stop), st.comparison \in {"CHANGED", "UNCHANGED"}, st.strip # "READY"
       PROVE  CourseInv'
  <2>1. st.strip = "PENDING" /\ PlanLeaves("SKIPPED", stop, views.image, views.edit)
    BY <1>9, <1>11 DEF PlanSkips
  <2> QED BY <1>8, <1>11, <2>1 DEF ConcretePlans
<1>12. CASE PlanUnchanged
  BY <1>1, <1>11, <1>12, PlanUnchangedEffect
<1>13. CASE PlanRefused \/ PlanNoAnchor
  <2>1. st.strip # "READY" /\ st.comparison = "CHANGED"
    BY <1>1, <1>13, PlanGivenUpEffect
  <2>2. CASE PlanSkips(TRUE)
    BY <1>11, <2>1, <2>2
  <2>3. CASE PlanLeaves("FAILED", TRUE, views.updated, views.edit)
    BY <1>8, <1>9, <2>1, <2>3 DEF ConcretePlans
  <2> QED BY <1>1, <1>13, <2>2, <2>3, PlanGivenUpEffect
<1>14. CASE PlanReplace \/ PlanInsert
  <2>1. st.strip # "READY" /\ st.comparison = "CHANGED"
    BY <1>1, <1>14, PlanUpdateEffect
  <2>2. CASE PlanSkips(FALSE)
    BY <1>11, <2>1, <2>2
  <2>3. CASE PlanLeaves(PlanKind(NewPlan), FALSE, NewText, "single")
    <3>1. st.header = "MISSING" <=> views.header = None
      BY <1>1, <1>2, <1>7 DEF AxesAgree
    <3>2. st.header \notin {"MALFORMED", "MALFORMED_ALL_FIELDS", "MALFORMED_SOME_FIELDS"}
      BY <1>1, <1>2, <2>1 DEF IInv, DecidedFromBelow
    <3>3. /\ NewPlan = "INSERTED" => st.header = "MISSING"
          /\ NewPlan = "REPLACED" => st.header \in {"DETECTED", "EMPTY"}
          /\ NewPlan \in {"INSERTED", "REPLACED"}
      BY <1>7, <3>1, <3>2 DEF NewPlan, HeaderStatus
    <3>4. PlanKind(NewPlan) = IF mode.apply THEN NewPlan ELSE "PREVIEWED"
      BY DEF PlanKind
    <3> HIDE DEF NewPlan, PlanKind
    <3> QED BY <1>8, <1>9, <2>1, <2>3, <3>3, <3>4
  <2> QED BY <1>1, <1>14, <2>2, <2>3, PlanUpdateEffect
<1> QED BY <1>10, <1>12, <1>13, <1>14

\* The patcher: it never takes back the change a stripper made ready.
LEMMA PatchingCourse ==
  ASSUME TextBase, CourseInv, Patcher
  PROVE  CourseInv'
<1>1. IInv /\ AxesAgree
  BY DEF TextBase, Base, CourseInv
<1>2. /\ todo[1] = "patcher" /\ halt = None /\ OthersKept({"comparison"}) /\ ~mode.apply
      /\ Needed("edit") /\ WentOn(FALSE) /\ ViewsLeft(views)
      /\ mode # None /\ todo # <<>> /\ mode' = mode /\ setup' = setup
      /\ st'.comparison =
           IF st.comparison = "UNCHANGED" \/ (views.edit = None /\ views.updated = SourceText)
           THEN "UNCHANGED" ELSE st.comparison
      /\ st.comparison \in {"CHANGED", "UNCHANGED"}
  BY <1>1, PatcherEffect DEF WentOn
<1>3. \/ st'.patch = "SKIPPED" /\ st'.comparison = "UNCHANGED"
      \/ st'.patch = "GENERATED" /\ st'.comparison = "CHANGED" /\ st.comparison = "CHANGED"
  BY <1>1, PatchIsPatchers DEF Step
<1>4. Forbidden' = Forbidden /\ BadFields' = BadFields
  BY <1>2 DEF Forbidden, OthersKept, policy, BadFields
<1>5. st.plan # "PENDING"
  BY <1>1, <1>2, AtHand
<1>6. halt' = None
  BY <1>2, <1>3, AxisOfStep DEF WentOn
<1>7. st.strip = "READY" => st'.comparison = "CHANGED"
  BY <1>1, <1>2, NoneAssumption DEF AxesAgree
<1>8. ~(st.header # "PENDING" /\ Forbidden)
  BY <1>1, <1>2 DEF AxesAgree
<1>9. "comparer" \notin ToSet(todo)
  BY <1>1, <1>2, AtHand
<1>10. AxesAgree'
  BY <1>1, <1>2, <1>3, <1>4, <1>5, <1>7, <1>8, <1>9 DEF AxesAgree, OthersKept, ConcretePlans, ViewsLeft, WentOn
<1>11. HaltHasCause'
  BY <1>6 DEF HaltHasCause
<1> QED BY <1>10, <1>11 DEF CourseInv

\* The writer: what the policy forbids never came as far.
LEMMA WritingCourse ==
  ASSUME TextBase, CourseInv, Writer
  PROVE  CourseInv'
<1>1. IInv /\ AxesAgree
  BY DEF TextBase, Base, CourseInv
<1>2. /\ Running("writer") /\ todo[1] = "writer" /\ halt = None /\ OthersKept({"write"})
      /\ st'.write \in WriteResults /\ WentOn(FALSE) /\ ViewsLeft(views)
      /\ mode # None /\ todo # <<>> /\ mode' = mode /\ setup' = setup
  BY <1>1, WriterEffect DEF WentOn
<1>3. st'.patch = st.patch
  BY <1>1, <1>2, PatchIsPatchers DEF Step, Patcher, Running
<1>4. Forbidden' = Forbidden /\ BadFields' = BadFields
  BY <1>2 DEF Forbidden, OthersKept, policy, BadFields
<1>5. mode.apply /\ st.plan \in ConcretePlans
  <2>1. mode.apply
    BY <1>1, <1>2, AtHand
  <2>2. st.plan \in ConcretePlans \cup {"PREVIEWED"}
    BY <1>2 DEF Running, MayProceed, Gate
  <2> QED BY <1>1, <2>1, <2>2 DEF AxesAgree
<1>6. ~(st.header # "PENDING" /\ Forbidden) /\ st.header # "PENDING"
  BY <1>1, <1>2, AtHand DEF AxesAgree
<1>7. ~WriterForbidden
  BY <1>1, <1>6 DEF WriterForbidden, Forbidden, AxesAgree
<1>8. st'.write \in {"WRITTEN", "FAILED"}
  BY <1>2, <1>7 DEF WriteResults
<1>9. halt' = None
  BY <1>2, <1>8, AxisOfStep DEF WentOn
<1>10. AxesAgree'
  BY <1>1, <1>2, <1>3, <1>4, <1>5, <1>6, <1>8 DEF AxesAgree, OthersKept, ConcretePlans, ViewsLeft, WentOn
<1>11. HaltHasCause'
  BY <1>9 DEF HaltHasCause
<1> QED BY <1>10, <1>11 DEF CourseInv

\* Steps that decide nothing, the beginning and the end of a run, and other programs.
LEMMA IdleCourse ==
  ASSUME TextBase, CourseInv,
         Pass \/ BuilderRaises \/ StartRun \/ EndRun \/ ExternalEdit \/ ExternalChmod \/ UNCHANGED vars
  PROVE  CourseInv'
<1>1. IInv /\ AxesAgree /\ HaltHasCause
  BY DEF TextBase, Base, CourseInv
<1>2. CASE Pass
  <2>1. st' = st /\ WentOn(FALSE) /\ ViewsLeft(views) /\ mode' = mode /\ setup' = setup
    BY <1>1, <1>2, PassEffect DEF WentOn
  <2>2. Forbidden' = Forbidden /\ BadFields' = BadFields
    BY <2>1 DEF Forbidden, policy, BadFields
  <2>3. halt' = None => halt = None
    BY <2>1 DEF WentOn
  <2>4. ToSet(todo') \subseteq ToSet(todo)
    BY <2>1 DEF WentOn
  <2>5. AxesAgree'
    BY <1>1, <2>1, <2>2, <2>3, <2>4 DEF AxesAgree, ViewsLeft
  <2> QED BY <1>2, <2>5, PassHasCause DEF CourseInv
<1>3. CASE BuilderRaises
  <2>1. /\ halt' = "exception" /\ todo' = <<>> /\ st' = st /\ setup' = setup /\ mode' = mode /\ halt' # None
    BY <1>3, NoneAssumption DEF BuilderRaises
  <2>2. ToSet(todo') = {} /\ ~Needed("header")' /\ ~Needed("edit")'
    BY <2>1 DEF Needed, RemainingConsumers, ToSet
  <2>3. Forbidden' = Forbidden /\ BadFields' = BadFields
    BY <2>1 DEF Forbidden, policy, BadFields
  <2>4. AxesAgree'
    BY <1>1, <2>1, <2>2, <2>3 DEF AxesAgree
  <2> QED BY <2>1, <2>4 DEF CourseInv, HaltHasCause
<1>4. CASE StartRun \/ EndRun
  <2>1. st' = AllPending /\ halt' = None
    BY <1>1, <1>4 DEF StartRun, EndRun, IInv, FreshBetweenRuns
  <2> QED BY <2>1 DEF CourseInv, AxesAgree, HaltHasCause, AllPending, ConcretePlans
<1>5. CASE ExternalEdit \/ ExternalChmod \/ UNCHANGED vars
  <2>1. UNCHANGED <<setup, mode, todo, st, halt, views>>
    BY <1>5 DEF ExternalEdit, ExternalChmod, vars, run
  <2>2. Forbidden' = Forbidden /\ BadFields' = BadFields
    BY <2>1 DEF Forbidden, policy, BadFields
  <2>3. Needed("header")' = Needed("header") /\ Needed("edit")' = Needed("edit") /\ ToSet(todo') = ToSet(todo)
    BY <2>1 DEF Needed
  <2> QED BY <1>1, <2>1, <2>2, <2>3 DEF CourseInv, AxesAgree, HaltHasCause
<1> QED BY <1>2, <1>3, <1>4, <1>5

\* Every step keeps it.
LEMMA CourseKept ==
  ASSUME TextBase, CourseInv, [Next]_vars
  PROVE  CourseInv'
BY ResolvingCourse, SniffingCourse, ReadingCourse, ScanningCourse, BuildingCourse, RenderingCourse,
   ComparingCourse, StrippingCourse, PlanningCourse, PatchingCourse, WritingCourse, IdleCourse
   DEF Next, Step

\* Whatever other programs do, the status a run ends with tells how far it came and why it
\* went no further (the gates of the steps and BaseStep.__call__).
THEOREM Courses == Spec => [](TextBase /\ CourseInv)
<1>1. Init => CourseInv
  BY DEF Init, CourseInv, AxesAgree, HaltHasCause, AllPending, ConcretePlans
<1>2. TextBase /\ CourseInv /\ [Next]_vars => CourseInv'
  BY CourseKept
<1>3. Spec => []TextBase
  BY Texts, PTL DEF TextBase
<1> QED BY <1>1, <1>2, <1>3, PTL DEF Spec

\* map_bucket has a rule for every path through the steps, halted or not, but the one that
\* is known: check --apply on a header with malformed fields (outcomes.py).
THEOREM EveryRunHasAnOutcome == Spec => []OutcomeDecided
<1>1. TextBase /\ CourseInv => OutcomeDecided
  BY EveryOutcomeDecided DEF CourseInv
<1> QED BY <1>1, Courses, PTL

------------------------------------------------------------------------------
(***************************************************************************)
(* Every step leaves the hint its status calls for.                        *)
(***************************************************************************)

\* What may be said at once.
SomeHint == {Silent} \cup {Hint(c) : c \in Clusters} \cup {TerminalHint(c) : c \in Clusters}

\* Lists of hints, whether one of them is terminal, and the last one.
HintLists == Seq([cluster : Clusters, terminal : BOOLEAN])
SomeTerminal(list) == \E i \in DOMAIN list : list[i].terminal
LastOf(list) == IF list = <<>> THEN "none" ELSE Last(list).cluster

\* A hint that was appended is the last one.
LEMMA HintAppended ==
  ASSUME NEW list \in HintLists, NEW h \in SomeHint, NEW longer, longer = list \o h
  PROVE  /\ longer \in HintLists /\ (SomeTerminal(list) => SomeTerminal(longer))
         /\ h = Silent => longer = list
         /\ \A c \in Clusters : h = Hint(c) => LastOf(longer) = c
         /\ \A c \in Clusters : h = TerminalHint(c) => LastOf(longer) = c /\ SomeTerminal(longer)
<1>1. CASE h = Silent
  <2>1. longer = list
    BY <1>1 DEF Silent, HintLists
  <2>2. \A c : Silent # Hint(c) /\ Silent # TerminalHint(c)
    BY DEF Silent, Hint, TerminalHint
  <2> QED BY <1>1, <2>1, <2>2
<1>2. ASSUME NEW c \in Clusters, NEW terminal \in BOOLEAN, h = <<[cluster |-> c, terminal |-> terminal]>>
      PROVE  /\ longer \in HintLists /\ LastOf(longer) = c
             /\ SomeTerminal(list) \/ terminal => SomeTerminal(longer)
  <2> DEFINE e == [cluster |-> c, terminal |-> terminal]
  <2>1. longer \in HintLists /\ Len(longer) = Len(list) + 1
        /\ Len(list) \in Nat /\ longer[Len(list) + 1] = e /\ \A i \in 1..Len(list) : longer[i] = list[i]
    BY <1>2 DEF HintLists
  <2>2. longer # <<>> /\ Last(longer) = e
    BY <2>1 DEF Last
  <2>3. LastOf(longer) = c
    BY <2>2 DEF LastOf
  <2>4. DOMAIN list = 1..Len(list) /\ DOMAIN longer = 1..(Len(list) + 1)
    BY <2>1 DEF HintLists
  <2>5. SomeTerminal(list) => SomeTerminal(longer)
    BY <2>1, <2>4 DEF SomeTerminal
  <2>6. terminal => SomeTerminal(longer)
    <3>1. Len(list) + 1 \in DOMAIN longer /\ longer[Len(list) + 1].terminal = terminal
      BY <2>1, <2>4
    <3> QED BY <3>1 DEF SomeTerminal
  <2> QED BY <2>1, <2>3, <2>5, <2>6
<1>3. ASSUME NEW c \in Clusters, h = Hint(c)
      PROVE  /\ longer \in HintLists /\ LastOf(longer) = c /\ (SomeTerminal(list) => SomeTerminal(longer))
             /\ h # Silent /\ \A d : h = Hint(d) => d = c
             /\ \A d : h # TerminalHint(d)
  BY <1>2, <1>3 DEF Hint, TerminalHint, Silent
<1>4. ASSUME NEW c \in Clusters, h = TerminalHint(c)
      PROVE  /\ longer \in HintLists /\ LastOf(longer) = c /\ SomeTerminal(longer)
             /\ h # Silent /\ \A d : h = TerminalHint(d) => d = c
             /\ \A d : h # Hint(d)
  BY <1>2, <1>4 DEF Hint, TerminalHint, Silent
<1> QED BY <1>1, <1>3, <1>4 DEF SomeHint

\* What a step says afterwards comes last; when it says nothing, what it said while it ran.
LEMMA HintsAdded ==
  ASSUME HintsTyped, NEW said \in SomeHint, NEW h \in SomeHint, hints' = hints \o said \o h
  PROVE  /\ HintsTyped' /\ (Terminal => Terminal')
         /\ \A c \in Clusters : h = Hint(c) => LastCluster' = c
         /\ \A c \in Clusters : h = TerminalHint(c) => LastCluster' = c /\ Terminal'
         /\ h = Silent /\ said = Silent => LastCluster' = LastCluster
         /\ h = Silent => \A c \in Clusters : said = Hint(c) => LastCluster' = c
         /\ h = Silent => \A c \in Clusters : said = TerminalHint(c) => LastCluster' = c /\ Terminal'
<1> DEFINE list == hints \o said
<1>1. /\ HintsTyped <=> hints \in HintLists
      /\ HintsTyped' <=> hints' \in HintLists
      /\ Terminal = SomeTerminal(hints) /\ Terminal' = SomeTerminal(hints')
      /\ LastCluster = LastOf(hints) /\ LastCluster' = LastOf(hints')
  BY DEF HintsTyped, HintLists, Terminal, SomeTerminal, LastCluster, LastOf
<1> HIDE DEF SomeTerminal, LastOf, HintLists, SomeHint
<1>2. /\ list \in HintLists /\ (SomeTerminal(hints) => SomeTerminal(list))
      /\ said = Silent => list = hints
      /\ \A c \in Clusters : said = Hint(c) => LastOf(list) = c
      /\ \A c \in Clusters : said = TerminalHint(c) => LastOf(list) = c /\ SomeTerminal(list)
  BY <1>1, HintAppended
<1> HIDE DEF list
<1>3. /\ hints' \in HintLists /\ (SomeTerminal(list) => SomeTerminal(hints'))
      /\ h = Silent => hints' = list
      /\ \A c \in Clusters : h = Hint(c) => LastOf(hints') = c
      /\ \A c \in Clusters : h = TerminalHint(c) => LastOf(hints') = c /\ SomeTerminal(hints')
  <2>1. hints' = list \o h
    BY DEF list
  <2> QED BY <1>2, <2>1, HintAppended
<1> QED BY <1>1, <1>2, <1>3

\* Only the builder raises; every other step is settled by BaseStep.__call__.
LEMMA OnlyBuilderRaises ==
  ASSUME IInv, Step, ~BuilderRaises, halt # "exception"
  PROVE  halt' # "exception"
<1>1. todo[1] \in Steps
  <2>1. mode # None /\ todo # <<>>
    BY DEF Step, Pass, Resolver, Prober, Sniffer, ReaderRefuses, ReaderFails, ReaderFindsEmpty, ReaderLoads,
           Scanner, Builder, BuilderRaises, Renderer, Comparer, Stripper, PlanStrip, PlanUnchanged,
           PlanRefused, PlanReplace, PlanInsert, PlanNoAnchor, Updating, Patcher, Writer, Running
  <2> QED BY <2>1, StepAtHand
<1>2. \E s, stop, v : Settle(s, stop, v)
  <2>1. CASE Pass \/ Resolver \/ Prober
    BY <2>1 DEF Pass, Resolver, Prober
  <2>2. CASE Sniffer
    BY <2>2 DEF Sniffer
  <2>3. CASE ReaderRefuses \/ ReaderFails \/ ReaderFindsEmpty
    BY <2>3 DEF ReaderRefuses, ReaderFails, ReaderFindsEmpty
  <2>4. CASE ReaderLoads
    BY <2>4 DEF ReaderLoads
  <2>5. CASE Scanner \/ Builder
    BY <2>5 DEF Scanner, Builder
  <2>6. CASE Renderer
    BY <2>6 DEF Renderer
  <2>7. CASE Comparer \/ Stripper \/ Patcher
    BY <2>7 DEF Comparer, Stripper, Patcher
  <2>8. CASE PlanStrip \/ PlanUnchanged \/ PlanRefused \/ PlanNoAnchor
    BY <2>8 DEF PlanStrip, PlanUnchanged, PlanRefused, PlanNoAnchor
  <2>9. CASE PlanReplace \/ PlanInsert
    BY <2>9 DEF PlanReplace, PlanInsert, PlanText
  <2>10. CASE Writer
    BY <2>10 DEF Writer
  <2> QED BY <2>1, <2>2, <2>3, <2>4, <2>5, <2>6, <2>7, <2>8, <2>9, <2>10 DEF Step
<1>3. halt' \in {todo[1], halt}
  BY <1>2 DEF Settle
<1> QED BY <1>1, <1>3 DEF Steps

\* What the list of hints says of a run that is under way; a probe promises nothing.
Told == HintsTyped /\ RefusalIsTerminal /\ LastCluster \in LastWords

\* What a step that is settled says is added.
LEMMA StepSays ==
  ASSUME IInv, HintsTyped, Step, ~BuilderRaises, halt = None, Spoken,
         NEW step, todo[1] = step, StepHint(step, st') \in SomeHint, RunHints(step, st') \subseteq SomeHint
  PROVE  /\ HintsTyped' /\ (Terminal => Terminal')
         /\ \A c \in Clusters : StepHint(step, st') = Hint(c) => LastCluster' = c
         /\ \A c \in Clusters : StepHint(step, st') = TerminalHint(c) => LastCluster' = c /\ Terminal'
         /\ StepHint(step, st') = Silent =>
              \E said \in RunHints(step, st') :
                /\ said = Silent => LastCluster' = LastCluster
                /\ \A c \in Clusters : said = Hint(c) => LastCluster' = c
                /\ \A c \in Clusters : said = TerminalHint(c) => LastCluster' = c /\ Terminal'
<1>1. PICK said \in RunHints(step, st') : hints' = hints \o said \o StepHint(step, st')
  BY OnlyBuilderRaises, NoneAssumption DEF Spoken
<1>2. said \in SomeHint
  BY <1>1
<1> QED BY <1>1, <1>2, HintsAdded

\* Most steps say nothing while they run.
LEMMA StepSpeaks ==
  ASSUME IInv, HintsTyped, Step, ~BuilderRaises, halt = None, Spoken,
         NEW step, todo[1] = step, StepHint(step, st') \in SomeHint, RunHints(step, st') = {Silent}
  PROVE  /\ HintsTyped' /\ (Terminal => Terminal')
         /\ StepHint(step, st') = Silent => LastCluster' = LastCluster
         /\ \A c \in Clusters : StepHint(step, st') = Hint(c) => LastCluster' = c
         /\ \A c \in Clusters : StepHint(step, st') = TerminalHint(c) => LastCluster' = c /\ Terminal'
<1>1. RunHints(step, st') \subseteq SomeHint
  BY DEF SomeHint
<1> QED BY <1>1, StepSays

\* The steps that say nothing while they run.
LEMMA QuietSteps ==
  \A s : \A step \in {"resolver", "prober", "reader", "builder", "comparer", "stripper", "planner",
                      "patcher", "writer"} : RunHints(step, s) = {Silent}
BY DEF RunHints

\* Up to the scanner: silence while nothing is refused.
LEMMA ResolvingTold ==
  ASSUME TextBase, CourseInv, Told, Resolver \/ Prober, Spoken, mode.cmd # "probe"
  PROVE  Told'
<1>1. IInv /\ AxesAgree /\ Step /\ ~BuilderRaises /\ ~Patcher
  BY DEF TextBase, Base, CourseInv, Step, Resolver, Prober, BuilderRaises, Patcher, Running
<1>2. /\ todo[1] = "resolver" /\ st'.resolve = ftype.resolve
      /\ OthersKept({"resolve"}) /\ mode # None /\ todo # <<>> /\ halt = None
  <2>1. todo[1] \in {"resolver", "prober"} /\ mode # None /\ todo # <<>>
    BY <1>1, ResolveEffect DEF WentOn
  <2>2. todo[1] = "resolver"
    BY <1>1, <2>1, AtHand
  <2>3. halt = None
    BY <1>1, <2>1, StepAtHand DEF IInv, TodoOfPipeline
  <2> QED BY <1>1, <2>2, <2>3, ResolveEffect DEF WentOn
<1>3. st.resolve = "PENDING" /\ st.fs = "PENDING" /\ st.content = "PENDING"
  <2>1. st.resolve = "PENDING"
    BY <1>1, <1>2, StepAtHand, AxisOfStep
  <2> QED BY <1>1, <2>1, LaterAxes
<1>4. ftype.resolve # "PENDING"
  BY <1>1, SetupsAssumption DEF IInv, TypeOK, ftype, FileType
<1>5. /\ st'.fs = "PENDING" /\ st'.content = "PENDING" /\ st'.header = "PENDING" /\ st'.strip = "PENDING"
      /\ st'.comparison = "PENDING" /\ st'.plan = "PENDING" /\ st'.patch = "PENDING" /\ st'.write = "PENDING"
      /\ st.render = "PENDING" /\ st'.render = "PENDING" /\ st.header = "PENDING" /\ st.strip = "PENDING" /\ st.comparison = "PENDING"
      /\ st.plan = "PENDING" /\ st.patch = "PENDING" /\ st.write = "PENDING"
  BY <1>1, <1>2, <1>3, LaterAxes, PatchIsPatchers DEF OthersKept
<1>6. StepHint("resolver", st') = IF st'.resolve = "RESOLVED" THEN Silent ELSE TerminalHint("skipped")
  BY <1>2, <1>4 DEF StepHint, ResolverHint
<1>7. LastCluster \in {"none", "blocked_policy"}
  BY <1>3, <1>5 DEF Told, LastWords, ReadableFs
<1>8. "skipped" \in Clusters
  BY DEF Clusters
<1> HIDE DEF StepHint
<1>9. HintsTyped' /\ IF st'.resolve = "RESOLVED" THEN LastCluster' = LastCluster
                     ELSE LastCluster' = "skipped" /\ Terminal'
  BY <1>1, <1>2, <1>6, <1>8, StepSpeaks, QuietSteps DEF Told, SomeHint
<1> QED BY <1>4, <1>5, <1>7, <1>9, <1>2 DEF Told, RefusalIsTerminal, LastWords

\* The sniffer.
LEMMA SniffingTold ==
  ASSUME TextBase, CourseInv, Told, Sniffer, Spoken
  PROVE  Told'
<1>1. IInv /\ AxesAgree /\ Step /\ ~BuilderRaises /\ ~Patcher
  BY DEF TextBase, Base, CourseInv, Step, Sniffer, BuilderRaises, Patcher, Running
<1>2. /\ todo[1] = "sniffer" /\ halt = None /\ OthersKept({"fs"}) /\ mode # None /\ todo # <<>>
      /\ \/ st'.fs = IF SnifferStat = "open" THEN SniffStream ELSE SnifferStat
         \/ st'.fs = "UNREADABLE"
  BY <1>1, SnifferEffect DEF WentOn
<1>3. st.fs = "PENDING" /\ st.content = "PENDING" /\ st.resolve = "RESOLVED"
  <2>1. st.fs = "PENDING" /\ st.resolve = "RESOLVED"
    BY <1>1, <1>2, StepAtHand, AxisOfStep DEF Sniffer, Running, MayProceed, Gate
  <2> QED BY <1>1, <2>1, LaterAxes
<1>4. st'.fs \in {"NOT_FOUND", "NO_WRITE_PERMISSION", "EMPTY", "NO_READ_PERMISSION", "BINARY", "BOM_BEFORE_SHEBANG",
                  "UNICODE_DECODE_ERROR", "MIXED_LINE_ENDINGS", "OK", "UNREADABLE"}
  BY <1>2 DEF SnifferStat, SniffStream
<1>5. /\ st'.content = "PENDING" /\ st'.header = "PENDING" /\ st'.strip = "PENDING" /\ st'.resolve = "RESOLVED"
      /\ st'.comparison = "PENDING" /\ st'.plan = "PENDING" /\ st'.patch = "PENDING" /\ st'.write = "PENDING"
      /\ st.render = "PENDING" /\ st'.render = "PENDING" /\ st.header = "PENDING" /\ st.strip = "PENDING" /\ st.comparison = "PENDING"
      /\ st.plan = "PENDING" /\ st.patch = "PENDING" /\ st.write = "PENDING"
  BY <1>1, <1>2, <1>3, LaterAxes, PatchIsPatchers DEF OthersKept
<1>6. /\ st'.fs \notin ReadableFs => StepHint("sniffer", st') = TerminalHint("skipped")
      /\ st'.fs \in ReadableFs => StepHint("sniffer", st') \in {Silent, Hint("blocked_policy")}
  BY <1>4 DEF StepHint, SnifferHint, ReadableFs
<1>7. LastCluster \in {"none", "blocked_policy"}
  BY <1>3, <1>5 DEF Told, LastWords
<1>8. "skipped" \in Clusters /\ "blocked_policy" \in Clusters
  BY DEF Clusters
<1>9. RunHints("sniffer", st') \subseteq {Silent, Hint("blocked_policy")}
  BY DEF RunHints, SnifferSays
<1> HIDE DEF StepHint, RunHints
<1>10. HintsTyped' /\ IF st'.fs \in ReadableFs THEN LastCluster' \in {"none", "blocked_policy"}
                      ELSE LastCluster' = "skipped" /\ Terminal'
  BY <1>1, <1>2, <1>6, <1>7, <1>8, <1>9, StepSays DEF Told, SomeHint
<1> QED BY <1>2, <1>4, <1>5, <1>10 DEF Told, RefusalIsTerminal, LastWords

\* The reader.
LEMMA ReadingTold ==
  ASSUME TextBase, CourseInv, Told, ReaderRefuses \/ ReaderFails \/ ReaderFindsEmpty \/ ReaderLoads, Spoken
  PROVE  Told'
<1>1. IInv /\ AxesAgree /\ Step /\ ~BuilderRaises /\ ~Patcher
  BY DEF TextBase, Base, CourseInv, Step, ReaderRefuses, ReaderFails, ReaderFindsEmpty, ReaderLoads,
         BuilderRaises, Patcher, Running
<1>2. /\ todo[1] = "reader" /\ halt = None /\ OthersKept({"fs", "content"})
      /\ st'.fs = st.fs \/ st'.fs \in {"EMPTY", "MIXED_LINE_ENDINGS"}
      /\ st'.content \in {"OK", "SKIPPED_MIXED_LINE_ENDINGS", "SKIPPED_POLICY_BOM_BEFORE_SHEBANG",
                          "SKIPPED_REFLOW", "UNREADABLE"}
      /\ st.content = "PENDING" /\ mode # None /\ todo # <<>>
  <2>1. CASE ReaderRefuses \/ ReaderFails
    BY <1>1, <2>1, NotReadingEffect, ReaderVerdicts DEF OthersKept, WentOn
  <2>2. CASE ReaderFindsEmpty
    BY <1>1, <2>2, EmptyEffect DEF WentOn
  <2>3. CASE ReaderLoads
    BY <1>1, <2>3, LoadEffect, ReaderVerdicts DEF WentOn
  <2> QED BY <2>1, <2>2, <2>3
<1>3. /\ st.fs \in ReadableFs /\ st'.fs \in ReadableFs
      /\ st.resolve = "RESOLVED" /\ st'.resolve = "RESOLVED"
  <2>1. st.fs # "PENDING" /\ st.resolve = "RESOLVED"
    BY <1>1, <1>2, AtHand DEF AxesAgree
  <2>2. st.fs \in ReadableFs
    BY <1>2, <2>1 DEF TextBase, Base, ReportInv
  <2> QED BY <1>2, <2>1, <2>2 DEF OthersKept, ReadableFs
<1>4. /\ st'.header = "PENDING" /\ st'.strip = "PENDING"
      /\ st'.comparison = "PENDING" /\ st'.plan = "PENDING" /\ st'.patch = "PENDING" /\ st'.write = "PENDING"
      /\ st.render = "PENDING" /\ st'.render = "PENDING" /\ st.header = "PENDING" /\ st.strip = "PENDING" /\ st.comparison = "PENDING"
      /\ st.plan = "PENDING" /\ st.patch = "PENDING" /\ st.write = "PENDING"
  BY <1>1, <1>2, LaterAxes, PatchIsPatchers DEF OthersKept
<1>5. /\ st'.content = "OK" => StepHint("reader", st') = Silent
      /\ st'.content # "OK" => StepHint("reader", st') \in {TerminalHint("skipped"), TerminalHint("blocked_policy")}
  BY <1>2 DEF StepHint, ReaderHint
<1>6. LastCluster \in {"none", "blocked_policy"}
  BY <1>2, <1>3, <1>4 DEF Told, LastWords
<1>7. "skipped" \in Clusters /\ "blocked_policy" \in Clusters
  BY DEF Clusters
<1> HIDE DEF StepHint
<1>8. HintsTyped' /\ IF st'.content = "OK" THEN LastCluster' \in {"none", "blocked_policy"}
                     ELSE LastCluster' \in {"skipped", "blocked_policy"} /\ Terminal'
  BY <1>1, <1>2, <1>5, <1>6, <1>7, StepSpeaks, QuietSteps DEF Told, SomeHint
<1> QED BY <1>2, <1>3, <1>4, <1>8 DEF Told, RefusalIsTerminal, LastWords

\* The scanner says in any case what it found, whatever it said before.
LEMMA ScanningTold ==
  ASSUME TextBase, CourseInv, Told, Scanner, Spoken
  PROVE  Told'
<1>1. IInv /\ AxesAgree /\ Step /\ ~BuilderRaises /\ ~Patcher
  BY DEF TextBase, Base, CourseInv, Step, Scanner, BuilderRaises, Patcher, Running
<1>2. /\ todo[1] = "scanner" /\ halt = None /\ OthersKept({"header"})
      /\ st.content = "OK" /\ st.header = "PENDING" /\ views.image \in FileContent
      /\ st'.header = ScannedStatus /\ mode # None /\ todo # <<>>
  BY <1>1, ScannerEffect DEF WentOn
<1>3. ScannedHeader \in HeaderKinds \cup {"missing"}
  BY <1>2, ElementOfSeq, EmptySeq DEF ScannedHeader, TopHeader, FileContent
<1>4. st'.header \in {"MISSING", "DETECTED", "EMPTY", "MALFORMED", "MALFORMED_ALL_FIELDS", "MALFORMED_SOME_FIELDS"}
  BY <1>2, <1>3 DEF ScannedStatus, HeaderKinds
<1>5. /\ st'.strip = "PENDING" /\ st'.resolve = st.resolve /\ st'.fs = st.fs /\ st'.content = "OK"
      /\ st'.comparison = "PENDING" /\ st'.plan = "PENDING" /\ st'.patch = "PENDING" /\ st'.write = "PENDING"
      /\ st'.render = "PENDING"
  BY <1>1, <1>2, LaterAxes, PatchIsPatchers DEF OthersKept
<1>6. /\ st'.header = "MALFORMED" => StepHint("scanner", st') = TerminalHint("skipped")
      /\ st'.header # "MALFORMED" => StepHint("scanner", st') \in {Hint("pending"), Hint("blocked_policy")}
  BY <1>4 DEF StepHint, ScannerHint
<1>7. "skipped" \in Clusters /\ "blocked_policy" \in Clusters /\ "pending" \in Clusters
  BY DEF Clusters
<1>8. RunHints("scanner", st') \subseteq {Silent, TerminalHint("error")} /\ "error" \in Clusters
  BY DEF RunHints, ScannerSays, Clusters
<1> HIDE DEF StepHint, RunHints
<1>9. /\ HintsTyped' /\ (Terminal => Terminal')
      /\ IF st'.header = "MALFORMED" THEN LastCluster' = "skipped" /\ Terminal'
         ELSE LastCluster' \in {"pending", "blocked_policy"}
  BY <1>1, <1>2, <1>6, <1>7, <1>8, StepSays DEF Told, SomeHint
<1> QED BY <1>2, <1>4, <1>5, <1>9 DEF Told, RefusalIsTerminal, LastWords

\* The builder.
LEMMA BuildingTold ==
  ASSUME TextBase, CourseInv, Told, Builder, Spoken
  PROVE  Told'
<1>1. IInv /\ AxesAgree /\ Step /\ ~BuilderRaises /\ ~Patcher /\ AxesAgree'
  BY BuildingCourse DEF TextBase, Base, CourseInv, Step, Builder, BuilderRaises, Patcher, Running
<1>2. /\ todo[1] = "builder" /\ halt = None /\ OthersKept({"generation"})
      /\ mode # None /\ todo # <<>> /\ mode.cmd = "check"
  BY <1>1, BuilderEffect DEF WentOn
<1>3. /\ st.header \notin {"PENDING", "MALFORMED"} /\ st.comparison = "PENDING" /\ st.strip = "PENDING"
      /\ st.plan = "PENDING" /\ st.patch = "PENDING" /\ st.write = "PENDING" /\ st.content = "OK"
      /\ st.render = "PENDING"
  <2>1. st.render = "PENDING"
    BY <1>1, <1>2, StepAtHand, AxisOfStep, LaterAxes
  <2>2. st.strip = "PENDING"
    BY <1>1, <1>2, LaterAxes DEF IInv, TypeOK, RunOptions
  <2>3. st.header \notin {"PENDING", "MALFORMED"}
    BY <1>1, <1>2, WhoseStep
  <2> QED BY <1>1, <2>1, <2>2, <2>3, LaterAxes
<1>4. /\ st'.strip = "PENDING" /\ st'.resolve = st.resolve /\ st'.fs = st.fs /\ st'.content = "OK"
      /\ st'.comparison = "PENDING" /\ st'.plan = "PENDING" /\ st'.patch = "PENDING" /\ st'.write = "PENDING"
      /\ st'.header = st.header /\ st'.render = "PENDING"
  BY <1>1, <1>2, <1>3, PatchIsPatchers DEF OthersKept
<1>5. LastCluster \in {"pending", "blocked_policy", "unchanged"}
  BY <1>3 DEF Told, LastWords
<1>6. st'.generation # "SKIPPED"
  BY <1>1 DEF AxesAgree
<1>7. StepHint("builder", st') \in {Silent, Hint("blocked_policy")}
  BY <1>6 DEF StepHint, BuilderHint
<1>8. "blocked_policy" \in Clusters
  BY DEF Clusters
<1> HIDE DEF StepHint
<1>9. /\ HintsTyped' /\ (Terminal => Terminal') /\ LastCluster' \in {"pending", "blocked_policy", "unchanged"}
  BY <1>1, <1>2, <1>5, <1>7, <1>8, StepSpeaks, QuietSteps DEF Told, SomeHint
<1> QED BY <1>3, <1>4, <1>9 DEF Told, RefusalIsTerminal, LastWords

\* The renderer has no hint of its status, only what it says while it runs: that field values
\* are invalid, or that fields are wide.
LEMMA RenderingTold ==
  ASSUME TextBase, CourseInv, Told, Renderer, Spoken
  PROVE  Told'
<1>1. IInv /\ RenderedAsConfigured /\ AxesAgree /\ Step /\ ~BuilderRaises /\ ~Patcher
  BY DEF TextBase, Base, CourseInv, Step, Renderer, BuilderRaises, Patcher, Running
<1>2. /\ todo[1] = "renderer" /\ halt = None /\ OthersKept({"render"})
      /\ mode # None /\ todo # <<>> /\ mode.cmd = "check" /\ st.render = "PENDING"
      /\ st'.render \in {"SKIPPED", "FAILED", "RENDERED"}
  BY <1>1, RendererEffect DEF WentOn, RenderingStatus
<1>3. /\ st.header \notin {"PENDING", "MALFORMED"} /\ st.comparison = "PENDING" /\ st.strip = "PENDING"
      /\ st.plan = "PENDING" /\ st.patch = "PENDING" /\ st.write = "PENDING" /\ st.content = "OK"
  <2>1. st.header \notin {"PENDING", "MALFORMED"}
    BY <1>1, <1>2, WhoseStep
  <2>2. st.strip = "PENDING"
    BY <1>1, <1>2, LaterAxes
  <2> QED BY <1>1, <1>2, <2>1, <2>2, LaterAxes
<1>4. /\ st'.strip = "PENDING" /\ st'.resolve = st.resolve /\ st'.fs = st.fs /\ st'.content = "OK"
      /\ st'.comparison = "PENDING" /\ st'.plan = "PENDING" /\ st'.patch = "PENDING" /\ st'.write = "PENDING"
      /\ st'.header = st.header
  BY <1>1, <1>2, <1>3, PatchIsPatchers DEF OthersKept
<1>5. LastCluster \in {"pending", "blocked_policy", "unchanged"}
  BY <1>2, <1>3 DEF Told, LastWords
<1>6. StepHint("renderer", st') = Silent
  BY DEF StepHint
<1>7. IF st'.render = "FAILED" THEN RunHints("renderer", st') = {TerminalHint("error")}
      ELSE RunHints("renderer", st') \subseteq {Silent, Hint("unchanged")}
  BY DEF RunHints, RendererSays
<1>8. "unchanged" \in Clusters /\ "error" \in Clusters
  BY DEF Clusters
<1> HIDE DEF StepHint, RunHints
<1>9. /\ HintsTyped' /\ (Terminal => Terminal')
      /\ IF st'.render = "FAILED" THEN LastCluster' = "error" /\ Terminal'
         ELSE LastCluster' \in {"pending", "blocked_policy", "unchanged"}
  BY <1>1, <1>2, <1>5, <1>6, <1>7, <1>8, StepSays DEF Told, SomeHint
<1> QED BY <1>2, <1>3, <1>4, <1>9 DEF Told, RefusalIsTerminal, LastWords

\* The comparer and the stripper announce a change in the tense of the run.
LEMMA ComparingTold ==
  ASSUME TextBase, CourseInv, Told, Comparer, Spoken
  PROVE  Told'
<1>1. IInv /\ AxesAgree /\ Step /\ ~BuilderRaises /\ ~Patcher
  BY DEF TextBase, Base, CourseInv, Step, Comparer, BuilderRaises, Patcher, Running
<1>2. /\ todo[1] = "comparer" /\ halt = None /\ OthersKept({"comparison"})
      /\ st'.comparison \in {"SKIPPED", "CHANGED", "UNCHANGED"}
      /\ mode # None /\ todo # <<>> /\ mode' = mode
  BY <1>1, ComparerEffect DEF WentOn
<1>3. st.plan = "PENDING" /\ st.patch = "PENDING" /\ st.write = "PENDING"
  <2>1. st.plan = "PENDING"
    BY <1>1, <1>2, StepAtHand DEF AxesAgree
  <2> QED BY <1>1, <2>1, LaterAxes
<1>4. /\ st'.strip = st.strip /\ st'.resolve = st.resolve /\ st'.fs = st.fs /\ st'.content = st.content
      /\ st'.plan = "PENDING" /\ st'.patch = "PENDING" /\ st'.write = "PENDING"
      /\ st'.header = st.header /\ st'.render = st.render
  BY <1>1, <1>2, <1>3, PatchIsPatchers DEF OthersKept
<1>5. /\ st'.comparison = "CHANGED" => StepHint("comparer", st') = Hint(Tense)
      /\ st'.comparison = "UNCHANGED" => StepHint("comparer", st') = Hint("unchanged")
      /\ st'.comparison = "SKIPPED" => StepHint("comparer", st') = TerminalHint("skipped")
  BY DEF StepHint, ComparerHint, Effective, Tense
<1>6. "unchanged" \in Clusters /\ "skipped" \in Clusters /\ Tense \in Clusters /\ Tense' = Tense
  BY <1>2 DEF Clusters, Tense
<1> HIDE DEF StepHint, Tense
<1>7. /\ HintsTyped' /\ (Terminal => Terminal')
      /\ LastCluster' = IF st'.comparison = "CHANGED" THEN Tense
                        ELSE IF st'.comparison = "UNCHANGED" THEN "unchanged" ELSE "skipped"
      /\ st'.comparison = "SKIPPED" => Terminal'
  BY <1>1, <1>2, <1>5, <1>6, StepSpeaks, QuietSteps DEF Told, SomeHint
<1> QED BY <1>2, <1>4, <1>6, <1>7 DEF Told, RefusalIsTerminal, LastWords

\* The stripper.
LEMMA StrippingTold ==
  ASSUME TextBase, CourseInv, Told, Stripper, Spoken
  PROVE  Told'
<1>1. IInv /\ AxesAgree /\ Step /\ ~BuilderRaises /\ ~Patcher
  BY DEF TextBase, Base, CourseInv, Step, Stripper, BuilderRaises, Patcher, Running
<1>2. /\ todo[1] = "stripper" /\ halt = None /\ OthersKept({"strip"})
      /\ st'.strip \in {"NOT_NEEDED", "READY", "FAILED"} /\ st.strip = "PENDING" /\ mode.cmd = "strip"
      /\ mode # None /\ todo # <<>> /\ mode' = mode
  BY <1>1, StripperEffect DEF WentOn, StripVerdict
<1>3. st.comparison = "PENDING" /\ st.plan = "PENDING" /\ st.patch = "PENDING" /\ st.write = "PENDING"
  <2>1. st.generation = "PENDING"
    BY <1>1, <1>2 DEF IInv, DecidedFromBelow
  <2> QED BY <1>1, <1>2, <2>1, LaterAxes
<1>4. /\ st'.resolve = st.resolve /\ st'.fs = st.fs /\ st'.content = st.content /\ st'.header = st.header
      /\ st'.render = st.render /\ st'.comparison = "PENDING" /\ st'.plan = "PENDING" /\ st'.patch = "PENDING" /\ st'.write = "PENDING"
  BY <1>1, <1>2, <1>3, PatchIsPatchers DEF OthersKept
<1>5. /\ st'.strip = "READY" => StepHint("stripper", st') = Hint(Tense)
      /\ st'.strip = "NOT_NEEDED" => StepHint("stripper", st') = Hint("unchanged")
      /\ st'.strip = "FAILED" => StepHint("stripper", st') = TerminalHint("error")
  BY DEF StepHint, StripperHint, Effective, Tense
<1>6. "unchanged" \in Clusters /\ "error" \in Clusters /\ Tense \in Clusters /\ Tense' = Tense
  BY <1>2 DEF Clusters, Tense
<1> HIDE DEF StepHint, Tense
<1>7. /\ HintsTyped' /\ (Terminal => Terminal')
      /\ LastCluster' = IF st'.strip = "READY" THEN Tense
                        ELSE IF st'.strip = "NOT_NEEDED" THEN "unchanged" ELSE "error"
      /\ st'.strip = "FAILED" => Terminal'
  BY <1>1, <1>2, <1>5, <1>6, StepSpeaks, QuietSteps DEF Told, SomeHint
<1> QED BY <1>2, <1>4, <1>6, <1>7 DEF Told, RefusalIsTerminal, LastWords

\* The planner.
LEMMA PlanningTold ==
  ASSUME TextBase, CourseInv, Told, Spoken,
         PlanStrip \/ PlanUnchanged \/ PlanRefused \/ PlanReplace \/ PlanInsert \/ PlanNoAnchor
  PROVE  Told'
<1>1. IInv /\ AxesAgree /\ Step /\ ~BuilderRaises /\ ~Patcher
  BY DEF TextBase, Base, CourseInv, Step, PlanStrip, PlanUnchanged, PlanRefused, PlanReplace, PlanInsert,
         PlanNoAnchor, Updating, BuilderRaises, Patcher, Running
<1>2. /\ todo[1] = "planner" /\ halt = None /\ OthersKept({"plan"}) /\ st.plan = "PENDING"
      /\ mode # None /\ todo # <<>> /\ mode' = mode
  BY <1>1, PlannerEffect
     DEF PlanStrip, PlanUnchanged, PlanRefused, PlanReplace, PlanInsert, PlanNoAnchor, Updating, Running,
         PlanText, Settle
<1>3. st'.plan \in ConcretePlans \cup {"PREVIEWED", "SKIPPED", "FAILED"}
  <2>1. \A plan, stop, updated, edit : PlanLeaves(plan, stop, updated, edit) => st'.plan = plan
    BY DEF PlanLeaves
  <2>2. /\ PlanKind("REMOVED") \in ConcretePlans \cup {"PREVIEWED"}
        /\ PlanKind(NewPlan) \in ConcretePlans \cup {"PREVIEWED"}
    BY DEF PlanKind, NewPlan, ConcretePlans
  <2> HIDE DEF PlanKind, NewPlan
  <2>3. CASE PlanStrip
    BY <1>1, <2>1, <2>2, <2>3, PlanStripEffect
  <2>4. CASE PlanUnchanged
    BY <1>1, <2>1, <2>4, PlanUnchangedEffect DEF PlanSkips
  <2>5. CASE PlanRefused \/ PlanNoAnchor
    BY <1>1, <2>1, <2>5, PlanGivenUpEffect DEF PlanSkips
  <2>6. CASE PlanReplace \/ PlanInsert
    BY <1>1, <2>1, <2>2, <2>6, PlanUpdateEffect DEF PlanSkips
  <2> QED BY <2>3, <2>4, <2>5, <2>6
<1>4. st.patch = "PENDING" /\ st.write = "PENDING"
  BY <1>1, <1>2, LaterAxes
<1>5. /\ st'.resolve = st.resolve /\ st'.fs = st.fs /\ st'.content = st.content /\ st'.header = st.header
      /\ st'.strip = st.strip /\ st'.comparison = st.comparison /\ st'.render = st.render
      /\ st'.patch = "PENDING" /\ st'.write = "PENDING"
  BY <1>1, <1>2, <1>4, PatchIsPatchers DEF OthersKept
<1>6. /\ st'.plan \in ConcretePlans => StepHint("planner", st') = Hint(Tense)
      /\ st'.plan = "PREVIEWED" => StepHint("planner", st') = TerminalHint("would_change")
      /\ st'.plan \in {"SKIPPED", "FAILED"} => StepHint("planner", st') = TerminalHint("skipped")
  BY DEF StepHint, PlannerHint, Effective, Tense, ConcretePlans
<1>7. "would_change" \in Clusters /\ "skipped" \in Clusters /\ Tense \in Clusters /\ Tense' = Tense
  BY <1>2 DEF Clusters, Tense
<1> HIDE DEF StepHint, Tense
<1>8. /\ HintsTyped' /\ (Terminal => Terminal')
      /\ LastCluster' = IF st'.plan \in ConcretePlans THEN Tense
                        ELSE IF st'.plan = "PREVIEWED" THEN "would_change" ELSE "skipped"
      /\ st'.plan \in {"SKIPPED", "FAILED"} => Terminal'
  BY <1>1, <1>2, <1>3, <1>6, <1>7, StepSpeaks, QuietSteps DEF Told, SomeHint, ConcretePlans
<1>9. st'.plan # "PENDING"
  BY <1>3 DEF ConcretePlans
<1> QED BY <1>2, <1>5, <1>7, <1>8, <1>9 DEF Told, RefusalIsTerminal, LastWords

\* The patcher confirms the change, or takes it back.
LEMMA PatchingTold ==
  ASSUME TextBase, CourseInv, Told, Patcher, Spoken
  PROVE  Told'
<1>1. IInv /\ AxesAgree /\ Step /\ ~BuilderRaises
  BY DEF TextBase, Base, CourseInv, Step, BuilderRaises, Patcher, Running
<1>2. /\ todo[1] = "patcher" /\ halt = None /\ OthersKept({"comparison"}) /\ ~mode.apply
      /\ mode # None /\ todo # <<>> /\ mode' = mode
  BY <1>1, PatcherEffect DEF WentOn
<1>3. \/ st'.patch = "SKIPPED" /\ st'.comparison = "UNCHANGED"
      \/ st'.patch = "GENERATED" /\ st'.comparison = "CHANGED"
  BY <1>1, PatchIsPatchers
<1>4. /\ st'.resolve = st.resolve /\ st'.fs = st.fs /\ st'.content = st.content /\ st'.header = st.header
      /\ st'.strip = st.strip /\ st'.plan = st.plan /\ st'.write = "PENDING" /\ st'.render = st.render
  BY <1>1, <1>2 DEF OthersKept, AxesAgree
<1>5. /\ st'.patch = "GENERATED" => StepHint("patcher", st') = Hint(Tense)
      /\ st'.patch = "SKIPPED" => StepHint("patcher", st') = Hint("unchanged")
  BY DEF StepHint, PatcherHint, Effective, Tense
<1>6. "unchanged" \in Clusters /\ Tense \in Clusters /\ Tense' = Tense
  BY <1>2 DEF Clusters, Tense
<1> HIDE DEF StepHint, Tense
<1>7. /\ HintsTyped' /\ (Terminal => Terminal')
      /\ LastCluster' = IF st'.patch = "GENERATED" THEN Tense ELSE "unchanged"
  BY <1>1, <1>2, <1>3, <1>5, <1>6, StepSpeaks, QuietSteps DEF Told, SomeHint
<1> QED BY <1>3, <1>4, <1>6, <1>7 DEF Told, RefusalIsTerminal, LastWords

\* The writer reports what became of it.
LEMMA WritingTold ==
  ASSUME TextBase, CourseInv, Told, Writer, Spoken
  PROVE  Told'
<1>1. IInv /\ AxesAgree /\ Step /\ ~BuilderRaises /\ ~Patcher /\ AxesAgree'
  BY WritingCourse DEF TextBase, Base, CourseInv, Step, Writer, BuilderRaises, Patcher, Running
<1>2. /\ todo[1] = "writer" /\ halt = None /\ OthersKept({"write"}) /\ st'.write \in WriteResults
      /\ mode # None /\ todo # <<>>
  BY <1>1, WriterEffect DEF WentOn
<1>3. st'.write \in {"WRITTEN", "FAILED"}
  BY <1>1, <1>2 DEF WriteResults, AxesAgree
<1>4. /\ st'.resolve = st.resolve /\ st'.fs = st.fs /\ st'.content = st.content /\ st'.header = st.header
      /\ st'.strip = st.strip /\ st'.plan = st.plan /\ st'.comparison = st.comparison /\ st'.render = st.render
  BY <1>2 DEF OthersKept
<1>5. /\ st'.write = "WRITTEN" => StepHint("writer", st') = Hint("changed")
      /\ st'.write = "FAILED" => StepHint("writer", st') = TerminalHint("error")
  BY DEF StepHint, WriterHint
<1>6. "changed" \in Clusters /\ "error" \in Clusters
  BY DEF Clusters
<1> HIDE DEF StepHint
<1>7. /\ HintsTyped' /\ (Terminal => Terminal')
      /\ LastCluster' = IF st'.write = "WRITTEN" THEN "changed" ELSE "error"
      /\ st'.write = "FAILED" => Terminal'
  BY <1>1, <1>2, <1>3, <1>5, <1>6, StepSpeaks, QuietSteps DEF Told, SomeHint
<1> QED BY <1>3, <1>4, <1>7 DEF Told, RefusalIsTerminal, LastWords

\* A step that ran nothing finds its own axis open, and says nothing of it.
LEMMA PassingTold ==
  ASSUME TextBase, CourseInv, HintsInv, Pass \/ BuilderRaises, Spoken
  PROVE  HintsInv'
<1>1. CASE BuilderRaises
  <2>1. hints' = hints /\ st' = st /\ mode' = mode
    BY <1>1 DEF BuilderRaises, Spoken
  <2> QED BY <2>1 DEF HintsInv, HintsTyped, RefusalIsTerminal, Terminal, LastCluster, LastWords, Tense
<1>2. CASE Pass
  <2>1. IInv /\ mode # None /\ todo # <<>> /\ st' = st /\ mode' = mode
    BY <1>2, PassEffect DEF TextBase, Base, Pass, WentOn
  <2>2. todo[1] \in Steps /\ PrimaryStatus(todo[1], st') = "PENDING"
    BY <2>1, StepAtHand
  <2>3. StepHint(todo[1], st') = Silent
    BY <2>2 DEF StepHint, PrimaryStatus, Steps, ResolverHint, SnifferHint, ReaderHint, ScannerHint, BuilderHint,
                ComparerHint, StripperHint, PlannerHint, PatcherHint, WriterHint, ConcretePlans
  <2>4. RunHints(todo[1], st') = {Silent}
    BY <2>2, AxisOfStep DEF RunHints, SnifferSays, ScannerSays, RendererSays
  <2>5. hints' = hints
    BY <2>3, <2>4 DEF Spoken, Silent, HintsInv, HintsTyped
  <2> QED BY <2>1, <2>5 DEF HintsInv, HintsTyped, RefusalIsTerminal, Terminal, LastCluster, LastWords, Tense
<1> QED BY <1>1, <1>2

\* Typing alone, which is all that is known of the hints of a probe.
LEMMA ProbingTold ==
  ASSUME TextBase, CourseInv, HintsTyped, Step, mode.cmd = "probe", mode # None, Spoken
  PROVE  HintsInv'
<1>1. IInv /\ AxesAgree /\ todo # <<>>
  BY DEF TextBase, Base, CourseInv, Step, Pass, Resolver, Prober, Sniffer, ReaderRefuses, ReaderFails,
         ReaderFindsEmpty, ReaderLoads, Scanner, Builder, BuilderRaises, Renderer, Comparer, Stripper,
         PlanStrip, PlanUnchanged, PlanRefused, PlanReplace, PlanInsert, PlanNoAnchor, Updating, Patcher,
         Writer, Running
<1>2. todo[1] = "prober"
  BY <1>1, AtHand
<1>3. StepHint("prober", st') = Silent /\ RunHints("prober", st') = {Silent}
  BY QuietSteps DEF StepHint
<1>4. hints' = hints
  BY <1>2, <1>3 DEF Spoken, Silent, HintsTyped
<1>5. mode' = mode
  BY <1>1, <1>2 DEF Step, Pass, Resolver, Prober, Sniffer, ReaderRefuses, ReaderFails,
         ReaderFindsEmpty, ReaderLoads, Scanner, Builder, BuilderRaises, Renderer, Comparer, Stripper,
         PlanStrip, PlanUnchanged, PlanRefused, PlanReplace, PlanInsert, PlanNoAnchor, Updating, Patcher,
         Writer, Running, Settle
<1> QED BY <1>4, <1>5 DEF HintsInv, HintsTyped

\* The hints keep up with the run.
LEMMA HintsKept ==
  ASSUME TextBase, CourseInv, HintsInv, [HintsNext]_<<vars, hints>>
  PROVE  HintsInv'
<1>1. CASE StartRun /\ hints' = <<>>
  <2>1. st' = AllPending
    BY <1>1 DEF TextBase, Base, StartRun, IInv, FreshBetweenRuns
  <2> QED BY <1>1, <2>1 DEF HintsInv, HintsTyped, RefusalIsTerminal, LastCluster, LastWords, AllPending
<1>2. CASE EndRun /\ hints' = <<>>
  BY <1>2 DEF EndRun, HintsInv, HintsTyped
<1>3. CASE ((ExternalEdit \/ ExternalChmod) /\ UNCHANGED hints) \/ UNCHANGED <<vars, hints>>
  <2>1. UNCHANGED <<mode, st, hints>>
    BY <1>3 DEF ExternalEdit, ExternalChmod, vars, run
  <2> QED BY <2>1 DEF HintsInv, HintsTyped, RefusalIsTerminal, Terminal, LastCluster, LastWords, Tense
<1>4. CASE Step /\ Spoken
  <2>1. mode # None
    BY <1>4 DEF Step, Pass, Resolver, Prober, Sniffer, ReaderRefuses, ReaderFails,
         ReaderFindsEmpty, ReaderLoads, Scanner, Builder, BuilderRaises, Renderer, Comparer, Stripper,
         PlanStrip, PlanUnchanged, PlanRefused, PlanReplace, PlanInsert, PlanNoAnchor, Updating, Patcher,
         Writer, Running
  <2>2. CASE mode.cmd = "probe"
    BY <1>4, <2>1, <2>2, ProbingTold DEF HintsInv
  <2>3. CASE Pass \/ BuilderRaises
    BY <1>4, <2>3, PassingTold
  <2>4. CASE mode.cmd # "probe" /\ ~(Pass \/ BuilderRaises)
    <3>1. Told
      BY <2>1, <2>4 DEF HintsInv, Told
    <3>2. Told'
      BY <1>4, <2>4, <3>1, ResolvingTold, SniffingTold, ReadingTold, ScanningTold, BuildingTold, RenderingTold,
         ComparingTold, StrippingTold, PlanningTold, PatchingTold, WritingTold DEF Step
    <3> QED BY <3>2 DEF HintsInv, Told
  <2> QED BY <2>2, <2>3, <2>4
<1> QED BY <1>1, <1>2, <1>3, <1>4 DEF HintsNext

\* A finished check or strip has an outcome, a refusal is explained by a terminal hint and a
\* change announced in the tense of the run: the hints of eleven steps, each of its own axis,
\* agree with the classification of all of them (pipeline/hints.py, outcomes.py).
THEOREM OutcomesAreExplained == HintsSpec => []OutcomeIsExplained
<1>1. HintsInit => HintsInv
  BY DEF HintsInit, Init, HintsInv, HintsTyped
<1>2. TextBase /\ CourseInv /\ HintsInv /\ [HintsNext]_<<vars, hints>> => HintsInv'
  BY HintsKept
<1>3. HintsSpec => [](TextBase /\ CourseInv)
  BY HintsAreReadByNothing, Courses, PTL
<1>4. TextBase /\ CourseInv /\ HintsInv => OutcomeIsExplained
  BY EveryOutcomeDecided, EveryRefusalExplained, EveryChangeAnnounced DEF CourseInv, OutcomeIsExplained
<1> QED BY <1>1, <1>2, <1>3, <1>4, PTL DEF HintsSpec
==============================================================================
