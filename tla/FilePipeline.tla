---------------------------- MODULE FilePipeline ----------------------------
(***************************************************************************)
(* One file going through TopMark: engine.iter_steps_for_files bootstraps  *)
(* a ProcessingContext, runner.run calls the steps of the selected         *)
(* pipeline on it in order, and the command reports the outcome.  The file *)
(* itself lives in a file system that other programs may touch at any      *)
(* moment, also between two steps of a run.                                *)
(*                                                                         *)
(* A behaviour is a sequence of runs over one path under one resolved      *)
(* configuration; each run may be another command, with or without         *)
(* --apply and --diff.                                                     *)
(***************************************************************************)
EXTENDS PolicyRules

CONSTANTS
  Contents,  \* what the user or another program may put at the path
  Setups,    \* effective policy, configured header fields and file type
  Modes,     \* the run options a command may be started with
  Accesses,  \* what the process may be allowed to do with the file
  Races,     \* BOOLEAN: others may touch the file while a run is in progress
  IOMayFail, \* BOOLEAN: reads and writes may fail for reasons of their own
  None       \* no file, no view, no run

\* Where an applied plan goes: file_write_strategy, or output_target STDOUT.
Sinks == {"atomic", "inplace", "stdout"}

RunOptions == [cmd : {"check", "strip", "probe"}, apply : BOOLEAN, diff : BOOLEAN, sink : Sinks]

(***************************************************************************)
(* A file type as the steps see it: does its policy support a shebang line,*)
(* has it a pre-insert checker, and does its processor insert at a         *)
(* character offset ("text"), at a line ("line") or, as a plugin's         *)
(* processor may, offer neither for this file ("none").  The resolve       *)
(* status is what resolving the path comes to.                             *)
(***************************************************************************)
FileType == [shebang : BOOLEAN, checker : BOOLEAN, insert : {"text", "line", "none"},
             resolve : ResolveStatus \ {"PENDING"}]

\* header_fields: "some" known ones, "none" at all, only "unknown" names,
\* or values that fail validation ("invalid").
Fields == {"some", "none", "unknown", "invalid"}

\* A file without bytes has no line ends either.
ASSUME ContentsAssumption ==
  Contents \subseteq {c \in FileContent : Sized(c) \/ (c.enc = "utf8" /\ c.eol = "one")}
ASSUME SetupsAssumption ==
  Setups \subseteq [policy : FrozenPolicy, fields : Fields, ftype : FileType]
ASSUME ModesAssumption == Modes \subseteq RunOptions
ASSUME AccessesAssumption == Accesses \subseteq {"rw", "r", "none"}
ASSUME SwitchesAssumption == Races \in BOOLEAN /\ IOMayFail \in BOOLEAN
ASSUME NoneAssumption ==
  None \notin FileContent \cup RunOptions \cup Steps \cup HeaderKinds
              \cup {"single", "text", "nolines", "missing", "exception"}

VARIABLES
  setup,  \* the resolved configuration, fixed for the behaviour
  disk,   \* the file at the path, None when there is none
  access, \* what the process may do with it: "rw", "r" or "none"
  mode,   \* run options of the run in progress, None between runs
  todo,   \* steps of the pipeline still to be called
  st,     \* ProcessingContext.status
  halt,   \* the step that requested a halt, None while not halted
  facts,  \* leading_bom, has_shebang, emptiness flags, pre-insert capability
  views,  \* ProcessingContext.views; a released or absent view is None
  read,   \* history: what the reader read in this run
  last    \* history: the last completed run, if nobody touched the file since

run == <<mode, todo, st, halt, facts, views, read>>
vars == <<setup, disk, access, run, last>>

policy == setup.policy
ftype == setup.ftype

Facts == [bom : BOOLEAN, shebang : BOOLEAN, leff : BOOLEAN, llog : BOOLEAN,
          cap : Capabilities \cup {"UNEVALUATED"}]
NoFacts == [bom |-> FALSE, shebang |-> FALSE, leff |-> FALSE, llog |-> FALSE,
            cap |-> "UNEVALUATED"]
NoViews == [image |-> None, header |-> None, build |-> None, render |-> None,
            updated |-> None, edit |-> None, diff |-> None]
RenderedKinds == {"current", "empty", "missing"}
Views == [image : FileContent \cup {None}, header : HeaderKinds \cup {None},
          build : RenderedKinds \cup {None}, render : RenderedKinds \cup {"nolines", None},
          updated : FileContent \cup {None}, edit : {"single", None}, diff : {"text", None}]

Outcome == MapBucket(st, policy, facts, mode.apply)

\* The pipeline the command selected.
Pipeline == SelectPipeline(mode.cmd, mode.apply, mode.diff)

\* The steps of a run have all been called and the engine is about to report it.
Finished == mode # None /\ todo = <<>>

Init ==
  /\ setup \in Setups
  /\ disk \in Contents \cup {None}
  /\ access \in Accesses
  /\ mode = None /\ todo = <<>> /\ st = AllPending /\ halt = None
  /\ facts = NoFacts /\ views = NoViews /\ read = None /\ last = None

------------------------------------------------------------------------------
(***************************************************************************)
(* The engine and the runner.                                              *)
(***************************************************************************)

StartRun ==
  /\ mode = None
  /\ \E m \in Modes :
       /\ mode' = m
       /\ todo' = SelectPipeline(m.cmd, m.apply, m.diff)
  /\ UNCHANGED <<setup, disk, access, st, halt, facts, views, read, last>>

EndRun ==
  /\ Finished
  /\ last' = IF halt = "exception" THEN None
             ELSE [cmd |-> mode.cmd, apply |-> mode.apply, outcome |-> Outcome,
                   wrote |-> st.write = "WRITTEN" /\ mode.sink # "stdout"]
  /\ mode' = None /\ st' = AllPending /\ halt' = None /\ facts' = NoFacts
  /\ views' = NoViews /\ read' = None
  /\ UNCHANGED <<setup, disk, access, todo>>

\* release_consumed: views no remaining step reads; a --diff run keeps its diff.
Release(v, remaining) ==
  LET Kept(slot, view) == IF slot \in remaining THEN view ELSE None IN
  [image |-> Kept("image", v.image), header |-> Kept("header", v.header),
   build |-> Kept("build", v.build), render |-> Kept("render", v.render),
   updated |-> Kept("updated", v.updated), edit |-> Kept("edit", v.edit),
   diff |-> IF mode.diff THEN v.diff ELSE None]

\* Mutant: a step that leaves its axis undecided does not halt the run.
Settle_LeavesAxisOpen(s, stop, v) ==
  /\ st' = s
  /\ halt' = IF halt = None /\ stop THEN todo[1] ELSE halt
  /\ todo' = Tail(todo)
  /\ views' = Release(v, RemainingConsumers(Tail(todo)))
  /\ UNCHANGED <<setup, mode, last>>

\* BaseStep.__call__ and the runner's loop around one step: record the status s and
\* the views v it leaves, halt if it asked to stop or left its own axis undecided.
Settle(s, stop, v) ==
  LET step == todo[1] IN
  /\ st' = s
  /\ halt' = IF halt = None /\ (stop \/ PrimaryStatus(step, s) = "PENDING")
             THEN step ELSE halt
  /\ todo' = Tail(todo)
  /\ views' = Release(v, RemainingConsumers(Tail(todo)))
  /\ UNCHANGED <<setup, mode, last>>

\* What a step asks of the context besides not being halted.
Gate(step) ==
  CASE step = "sniffer" -> st.resolve = "RESOLVED"
    [] step \in {"scanner", "builder", "stripper"} -> st.content = "OK"
    [] step = "renderer" -> st.generation \in {"GENERATED", "NO_FIELDS"}
    [] step = "comparer" -> st.render = "RENDERED" \/ views.updated # None
    [] step = "planner" ->
         st.strip = "READY" \/ st.render = "RENDERED" \/ st.comparison = "CHANGED"
    [] step = "patcher" -> st.comparison \in {"CHANGED", "UNCHANGED"}
    [] step = "writer" ->
         /\ views.updated # None
         /\ IF mode.sink = "stdout" THEN st.plan \in ConcretePlans \cup {"PREVIEWED"}
            ELSE mode.apply /\ st.plan \in ConcretePlans /\ CanChange(st, policy, facts)
    [] OTHER -> TRUE

\* Mutant: the builder does not look whether the run was halted.
MayProceed_BuilderIgnoresHalt(step) ==
  (step \in {"resolver", "prober", "builder"} \/ halt = None) /\ Gate(step)

\* The first step of a run never asks whether it was halted.
MayProceed(step) == (step \in {"resolver", "prober"} \/ halt = None) /\ Gate(step)

Running(step) == mode # None /\ todo # <<>> /\ todo[1] = step /\ MayProceed(step)

\* A step whose gate is closed runs nothing, but still passes through __call__.
Pass ==
  /\ mode # None /\ todo # <<>> /\ ~MayProceed(todo[1])
  /\ Settle(st, FALSE, views)
  /\ UNCHANGED <<disk, access, facts, read>>

------------------------------------------------------------------------------
(***************************************************************************)
(* Discovery: resolver or prober, sniffer, reader, scanner.                *)
(***************************************************************************)

Resolver ==
  /\ Running("resolver")
  /\ Settle([st EXCEPT !.resolve = ftype.resolve], ftype.resolve # "RESOLVED", views)
  /\ UNCHANGED <<disk, access, facts, read>>

\* The prober halts even on success: a probe never looks into the file.
Prober ==
  /\ Running("prober")
  /\ Settle([st EXCEPT !.resolve = ftype.resolve], TRUE, views)
  /\ UNCHANGED <<disk, access, facts, read>>

\* SnifferStep.run up to the point where it would open the file.
SnifferStat ==
  IF disk = None THEN "NOT_FOUND"
  ELSE IF mode.apply /\ access # "rw" THEN "NO_WRITE_PERMISSION"
  ELSE IF ~Sized(disk) THEN "EMPTY"
  ELSE "open"

\* _sniff_stream: a BOM before #! is returned before anything after it is decoded.
SniffStream ==
  IF access = "none" THEN "NO_READ_PERMISSION"
  ELSE IF disk.enc = "nul" THEN "BINARY"
  ELSE IF disk.bom /\ disk.shebang /\ ftype.shebang THEN "BOM_BEFORE_SHEBANG"
  ELSE IF disk.enc = "early" THEN "UNICODE_DECODE_ERROR"
  ELSE IF disk.eol = "mixed" THEN "MIXED_LINE_ENDINGS"
  ELSE "OK"

Sniffer ==
  /\ Running("sniffer")
  /\ \E fs \in {IF SnifferStat = "open" THEN SniffStream ELSE SnifferStat}
               \cup (IF SnifferStat = "open" /\ IOMayFail THEN {"UNREADABLE"} ELSE {}) :
       /\ Settle([st EXCEPT !.fs = fs],
                 fs \notin {"OK", "EMPTY", "BOM_BEFORE_SHEBANG", "MIXED_LINE_ENDINGS"}, views)
       /\ facts' = IF fs \in {"OK", "BOM_BEFORE_SHEBANG", "UNICODE_DECODE_ERROR",
                              "MIXED_LINE_ENDINGS"}
                   THEN [facts EXCEPT !.bom = disk.bom, !.shebang = disk.shebang] ELSE facts
  /\ UNCHANGED <<disk, access, read>>

\* The two policy gates of ReaderStep.run before it opens the file.
ReaderGate ==
  IF st.fs = "BOM_BEFORE_SHEBANG" /\ policy.bom = "reject"
  THEN "SKIPPED_POLICY_BOM_BEFORE_SHEBANG"
  ELSE IF st.fs = "MIXED_LINE_ENDINGS" /\ ~AllowMixedLineEndings(st, policy)
  THEN "SKIPPED_MIXED_LINE_ENDINGS"
  ELSE "OK"

ReaderRefuses ==
  /\ Running("reader") /\ ReaderGate # "OK"
  /\ Settle([st EXCEPT !.content = ReaderGate], TRUE, views)
  /\ UNCHANGED <<disk, access, facts, read>>

\* The file cannot be opened or read any more.
ReaderFails ==
  /\ Running("reader") /\ ReaderGate = "OK"
  /\ disk = None \/ access = "none" \/ IOMayFail
  /\ Settle([st EXCEPT !.content = "UNREADABLE"], TRUE, views)
  /\ facts' = IF st.fs = "EMPTY" THEN [facts EXCEPT !.leff = TRUE, !.llog = TRUE] ELSE facts
  /\ UNCHANGED <<disk, access, read>>

\* No decoded lines and no bytes: the context becomes that of an empty file,
\* whatever the sniffer had found.
ReaderFindsEmpty ==
  /\ Running("reader") /\ ReaderGate = "OK"
  /\ disk # None /\ access # "none" /\ ~Sized(disk)
  /\ Settle([st EXCEPT !.fs = "EMPTY", !.content = "OK"], FALSE, [views EXCEPT !.image = disk])
  /\ facts' = [facts EXCEPT !.leff = TRUE, !.llog = TRUE]
  /\ read' = disk
  /\ UNCHANGED <<disk, access>>

\* The pre-insert checker's verdict on decoded text.
Capability(c) == IF EffectivelyEmpty(c) THEN "OTHER" ELSE c.ins

(***************************************************************************)
(* The reader loads the text.  It counts line ends itself, over the whole  *)
(* file: a mixture the sniffer did not see is refused here, and an allowed *)
(* one overwrites the file system status.  The advisory run of the checker *)
(* can still refuse the file.                                              *)
(***************************************************************************)
ReaderLoads ==
  /\ Running("reader") /\ ReaderGate = "OK"
  /\ disk # None /\ access # "none" /\ Sized(disk)
  /\ LET text == Decoded(disk)
         refused == MixedEol(text) /\ policy.mixed = "reject"
         cap == IF ftype.checker /\ ~refused THEN Capability(text) ELSE facts.cap
         reflow == ftype.checker /\ cap = "REFLOW" /\ ~policy.reflow
     IN
     /\ Settle([st EXCEPT !.content = IF refused THEN "SKIPPED_MIXED_LINE_ENDINGS"
                                      ELSE IF reflow THEN "SKIPPED_REFLOW" ELSE "OK",
                          !.fs = IF MixedEol(text) /\ ~refused THEN "MIXED_LINE_ENDINGS" ELSE @],
               refused \/ reflow, [views EXCEPT !.image = text])
     /\ facts' = [facts EXCEPT !.bom = @ \/ disk.bom, !.cap = cap,
                               !.leff = EffectivelyEmpty(text), !.llog = LogicallyEmpty(text)]
     /\ read' = disk
  /\ UNCHANGED <<disk, access>>

\* A file the sniffer called empty is not searched for a header at all.
ScannedHeader ==
  IF st.fs = "EMPTY" THEN "missing" ELSE TopHeader(views.image)

ScannedStatus ==
  CASE ScannedHeader = "missing" -> "MISSING"
    [] ScannedHeader \in {"current", "stale"} -> "DETECTED"
    [] ScannedHeader = "empty" -> "EMPTY"
    [] ScannedHeader = "malformed" -> "MALFORMED"
    [] ScannedHeader = "badall" -> "MALFORMED_ALL_FIELDS"
    [] ScannedHeader = "badsome" -> "MALFORMED_SOME_FIELDS"

Scanner ==
  /\ Running("scanner")
  /\ LET s == [st EXCEPT !.header = ScannedStatus] IN
     Settle(s, \/ ScannedStatus = "MALFORMED"
               \/ ScannedStatus \in {"MISSING", "DETECTED", "EMPTY"} /\ ~PermittedByPolicy(s, policy),
            [views EXCEPT !.header = IF ScannedHeader = "missing" THEN None ELSE ScannedHeader])
  /\ UNCHANGED <<disk, access, facts, read>>

------------------------------------------------------------------------------
(***************************************************************************)
(* Check: builder, renderer, comparer.  Strip: stripper.                   *)
(***************************************************************************)

\* The header the configured fields build; nothing when every name is unknown.
Selected == IF setup.fields = "unknown" THEN "missing" ELSE "current"

Builder ==
  /\ Running("builder")
  /\ LET generation == IF ~PermittedByPolicy(st, policy) THEN "SKIPPED"
                       ELSE IF setup.fields = "none" THEN "NO_FIELDS" ELSE "GENERATED"
     IN /\ generation = "GENERATED" => disk # None
        /\ Settle([st EXCEPT !.generation = generation], generation = "SKIPPED",
                  IF generation = "GENERATED" THEN [views EXCEPT !.build = Selected] ELSE views)
  /\ UNCHANGED <<disk, access, facts, read>>

\* resolve(strict=True) raises when the file has vanished: no step catches it, the
\* engine logs it, sets the exit code and yields no context for the file.
BuilderRaises ==
  /\ Running("builder") /\ PermittedByPolicy(st, policy) /\ setup.fields # "none" /\ disk = None
  /\ halt' = "exception" /\ todo' = <<>>
  /\ UNCHANGED <<setup, disk, access, mode, st, facts, views, read, last>>

Renderer ==
  /\ Running("renderer")
  /\ LET noFields == st.generation = "NO_FIELDS"
         result == IF noFields THEN (IF policy.renderEmpty THEN "empty" ELSE "nolines")
                   ELSE IF setup.fields = "invalid" THEN "failed"
                   ELSE IF views.build = None THEN "missing" ELSE views.build
         status == CASE result = "nolines" -> "SKIPPED"
                     [] result = "failed" -> "FAILED"
                     [] OTHER -> "RENDERED"
     IN Settle([st EXCEPT !.render = status], status # "RENDERED",
               IF result = "failed" THEN views ELSE [views EXCEPT !.render = result])
  /\ UNCHANGED <<disk, access, facts, read>>

\* What the comparer sets the header found against: "missing" is the empty block.
ExistingHeader == IF views.header = None THEN "missing" ELSE views.header

Comparer ==
  /\ Running("comparer")
  /\ LET malformed == st.header \in {"MALFORMED_ALL_FIELDS", "MALFORMED_SOME_FIELDS"}
         changed == \/ views.edit = "single"
                    \/ views.updated # None /\ views.updated # views.image
                    \/ views.updated = None /\ ExistingHeader # views.render
                    \/ views.updated = None /\ ShouldRemoveBom(st, policy, facts)
     IN Settle([st EXCEPT !.comparison = IF malformed THEN "SKIPPED"
                                         ELSE IF changed THEN "CHANGED" ELSE "UNCHANGED"],
               malformed, views)
  /\ UNCHANGED <<disk, access, facts, read>>

\* Mutant: remove_bom is forgotten where the BOM is put back.
KeptBom_Always == facts.bom

\* BOM the updated text starts with: kept unless the policy removes it.
KeptBom == facts.bom /\ ~ShouldRemoveBom(st, policy, facts)

Stripper ==
  /\ Running("stripper")
  /\ LET found == st.header \in {"DETECTED", "EMPTY"}
         nothing == st.header = "MISSING" /\ ~ShouldRemoveBom(st, policy, facts)
         status == IF nothing THEN "NOT_NEEDED"
                   ELSE IF found \/ st.header = "MISSING" THEN "READY" ELSE "FAILED"
         stripped == IF found THEN [Stripped(views.image) EXCEPT !.bom = KeptBom]
                     ELSE views.image
     IN Settle([st EXCEPT !.strip = status], status = "FAILED",
               IF status = "READY"
               THEN [views EXCEPT !.updated = stripped, !.edit = "single"] ELSE views)
  /\ UNCHANGED <<disk, access, facts, read>>

------------------------------------------------------------------------------
(***************************************************************************)
(* Planner, patcher, writer.                                               *)
(***************************************************************************)

\* source_lines_with_remediated_bom: what a plan has to differ from.  The BOM counts
\* as text only while it is about to be removed.
SourceText == [views.image EXCEPT !.bom = ShouldRemoveBom(st, policy, facts)]

\* Mutant: the BOM the reader took off is not put back.
PrependBom_Forgotten(c) == c

\* _prepend_bom_to_lines_if_needed: no BOM is put back before a shebang.
PrependBom(c) == [c EXCEPT !.bom = @ \/ (Sized(c) /\ facts.bom /\ ~facts.shebang)]

PlanKind(concrete) == IF mode.apply THEN concrete ELSE "PREVIEWED"

PlanStrip ==
  /\ Running("planner") /\ st.strip = "READY"
  /\ Settle([st EXCEPT !.plan = PlanKind("REMOVED")], FALSE,
            [views EXCEPT !.updated = PrependBom(@)])
  /\ UNCHANGED <<disk, access, facts, read>>

PlanUnchanged ==
  /\ Running("planner") /\ st.strip # "READY" /\ st.comparison = "UNCHANGED"
  /\ Settle([st EXCEPT !.plan = "SKIPPED"], FALSE, [views EXCEPT !.updated = views.image])
  /\ UNCHANGED <<disk, access, facts, read>>

Updating == Running("planner") /\ st.strip # "READY" /\ st.comparison # "UNCHANGED"

\* The checker is asked now if the reader had no reason to.
PlannerCapability ==
  IF ftype.checker /\ facts.cap = "UNEVALUATED" THEN Capability(views.image) ELSE facts.cap

\* An insert checker guards replacements as well as insertions; a verdict the planner
\* had to ask for must be OK, the reader's REFLOW may be overridden by policy.
CheckerRefuses ==
  /\ ftype.checker
  /\ IF facts.cap = "UNEVALUATED" THEN PlannerCapability # "OK"
     ELSE \/ facts.cap = "OTHER"
          \/ facts.cap = "REFLOW" /\ ~policy.reflow

PlanRefused ==
  /\ Updating /\ CheckerRefuses
  /\ Settle([st EXCEPT !.plan = "SKIPPED"], TRUE, [views EXCEPT !.updated = views.image])
  /\ facts' = [facts EXCEPT !.cap = PlannerCapability]
  /\ UNCHANGED <<disk, access, read>>

\* Plan the text new, or nothing when it is what the file has already.
PlanText(new, concrete) ==
  /\ IF new = SourceText
     THEN Settle([st EXCEPT !.plan = "SKIPPED"], FALSE, [views EXCEPT !.updated = views.image])
     ELSE Settle([st EXCEPT !.plan = PlanKind(concrete)], FALSE,
                 [views EXCEPT !.updated = new, !.edit = "single"])
  /\ facts' = [facts EXCEPT !.cap = PlannerCapability]
  /\ UNCHANGED <<disk, access, read>>

\* Mutant: the block found stays where it is.
Replaced_KeepsOldBlock == [views.image EXCEPT !.headers = Prepend(views.render, @)]

\* The rendered lines take the place of the block the scanner found.
Replaced == [views.image EXCEPT !.headers = Prepend(views.render, Tail(@))]

PlanReplace ==
  /\ Updating /\ ~CheckerRefuses /\ views.header # None
  /\ PlanText(PrependBom(Replaced), "REPLACED")

\* Mutant: a body of whitespace lines counts as a placeholder, too.
Inserted_DropsWhitespace ==
  [views.image EXCEPT !.headers = Prepend(views.render, @),
                      !.body = IF facts.leff THEN "none" ELSE @]

\* A logically empty body is a placeholder the inserted header takes the place of.
Inserted ==
  [views.image EXCEPT !.headers = Prepend(views.render, @),
                      !.body = IF facts.llog THEN "none" ELSE @]

PlanInsert ==
  /\ Updating /\ ~CheckerRefuses /\ views.header = None /\ ftype.insert # "none"
  /\ PlanText(IF ftype.insert = "text" THEN [Inserted EXCEPT !.bom = KeptBom]
              ELSE PrependBom(Inserted), "INSERTED")

\* NO_LINE_ANCHOR
PlanNoAnchor ==
  /\ Updating /\ ~CheckerRefuses /\ views.header = None /\ ftype.insert = "none"
  /\ Settle([st EXCEPT !.plan = "FAILED"], TRUE, views)
  /\ facts' = [facts EXCEPT !.cap = PlannerCapability]
  /\ UNCHANGED <<disk, access, read>>

Patcher ==
  /\ Running("patcher")
  /\ LET same == st.comparison = "UNCHANGED" \/ (views.edit = None /\ views.updated = SourceText)
     IN Settle([st EXCEPT !.patch = IF same THEN "SKIPPED" ELSE "GENERATED",
                          !.comparison = IF same THEN "UNCHANGED" ELSE @], FALSE,
               IF same THEN views ELSE [views EXCEPT !.diff = "text"])
  /\ UNCHANGED <<disk, access, facts, read>>

\* WriterStep.run repeats the mutation mode for the plan at hand.
WriterForbidden ==
  \/ st.plan = "INSERTED" /\ policy.mutation = "update_only"
  \/ st.plan = "REPLACED" /\ policy.mutation = "add_only"

\* The atomic sink replaces the file whatever its mode bits say; the in-place one needs
\* write permission.  Neither needs the file to be there still.
SinkCanWrite == mode.sink = "inplace" /\ disk # None => access = "rw"

\* What a failed sink leaves: the atomic one never touches the file, the in-place
\* one may have truncated it and written a part.
LeftByFailure ==
  {disk} \cup (IF mode.sink = "inplace" /\ SinkCanWrite THEN Torn(views.updated) ELSE {})

\* The write status a run of the writer may end with, and the file it then leaves.
WriteResults ==
  IF WriterForbidden THEN {"SKIPPED"}
  ELSE (IF SinkCanWrite THEN {"WRITTEN"} ELSE {})
       \cup (IF IOMayFail \/ ~SinkCanWrite THEN {"FAILED"} ELSE {})

\* Mutant: text printed to stdout goes to the file as well.
Left_IgnoresTarget(result) ==
  CASE result = "WRITTEN" -> {views.updated}
    [] result = "FAILED" -> LeftByFailure
    [] OTHER -> {disk}

Left(result) ==
  CASE result = "WRITTEN" /\ mode.sink # "stdout" -> {views.updated}
    [] result = "FAILED" -> LeftByFailure
    [] OTHER -> {disk}

Writer ==
  /\ Running("writer")
  /\ \E result \in WriteResults :
       /\ disk' \in Left(result)
       /\ Settle([st EXCEPT !.write = result], FALSE, views)
  /\ UNCHANGED <<access, facts, read>>

------------------------------------------------------------------------------
(***************************************************************************)
(* Other programs.                                                         *)
(***************************************************************************)

\* Another program replaces, creates or deletes the file during a run.
ExternalEdit ==
  /\ Races /\ mode # None
  /\ disk' \in Contents \cup {None}
  /\ last' = None
  /\ UNCHANGED <<setup, access, run>>

ExternalChmod ==
  /\ Races /\ mode # None
  /\ access' \in Accesses
  /\ last' = None
  /\ UNCHANGED <<setup, disk, run>>

Step ==
  \/ Pass \/ Resolver \/ Prober \/ Sniffer
  \/ ReaderRefuses \/ ReaderFails \/ ReaderFindsEmpty \/ ReaderLoads
  \/ Scanner \/ Builder \/ BuilderRaises \/ Renderer \/ Comparer \/ Stripper
  \/ PlanStrip \/ PlanUnchanged \/ PlanRefused \/ PlanReplace \/ PlanInsert \/ PlanNoAnchor
  \/ Patcher \/ Writer

Next == StartRun \/ Step \/ EndRun \/ ExternalEdit \/ ExternalChmod

Spec == Init /\ [][Next]_vars

------------------------------------------------------------------------------
(***************************************************************************)
(* Type invariant.                                                         *)
(***************************************************************************)

CompletedRun == [cmd : {"check", "strip", "probe"}, apply : BOOLEAN, outcome : Outcomes,
                 wrote : BOOLEAN]

\* Every variable stays within the values the code's types give it.
TypeOK ==
  /\ setup \in Setups
  /\ disk \in FileContent \cup {None}
  /\ access \in Accesses
  /\ mode \in RunOptions \cup {None}
  /\ todo \in Seq(Steps)
  /\ st \in ProcessingStatus
  /\ halt \in Steps \cup {None, "exception"}
  /\ facts \in Facts
  /\ views \in Views
  /\ read \in FileContent \cup {None}
  /\ last \in CompletedRun \cup {None}

(***************************************************************************)
(* Safety, whatever other programs do to the file meanwhile.               *)
(***************************************************************************)

\* Once a step has halted the context no later step of the run decides an axis or
\* touches the file: request_halt is terminal although the runner calls every step.
HaltIsFinal ==
  [][Step /\ halt # None => UNCHANGED <<st, halt, facts, read, disk>>]_vars

\* The file changes only in a run with --apply whose target is the file, and only to carry
\* out what the earlier steps decided: strip removes what the stripper made ready, check
\* inserts or replaces what the comparer found changed and the policy permits.
OnlyDecidedChangesAreWritten ==
  [][Step /\ disk' # disk =>
       /\ mode.apply /\ mode.sink # "stdout" /\ st.content = "OK"
       /\ \/ mode.cmd = "strip" /\ st.strip = "READY" /\ st.plan = "REMOVED"
          \/ /\ mode.cmd = "check" /\ st.comparison = "CHANGED"
             /\ st.plan \in {"INSERTED", "REPLACED"} /\ PermittedByPolicy(st, policy)]_vars

\* The writer has just put the updated text into the file.
FileWritten == Running("writer") /\ st'.write = "WRITTEN" /\ mode.sink # "stdout"

\* Text c holds the user's own text of d: the body, its line ends and its shebang line
\* survive; an empty body may gain or lose its one line end.
SameUserText(c, d) ==
  /\ c.shebang = d.shebang /\ c.eol = d.eol
  /\ c.body = d.body \/ {c.body, d.body} \subseteq {"none", "blank"}

\* A completed write leaves the user's text as this run read it: inserting, replacing
\* and removing headers never eats whitespace-only bodies or normalizes line ends.
WriteKeepsUserText ==
  [][FileWritten => SameUserText(disk', read)]_vars

BadFields == st.header \in {"MALFORMED_ALL_FIELDS", "MALFORMED_SOME_FIELDS"}

\* map_bucket has a rule for every path through the steps, halted or not, but one: only
\* check --apply on a header with malformed fields ends in the fallback PENDING.
OutcomeDecided ==
  Finished /\ halt # "exception" /\ Outcome = "PENDING" =>
    mode.cmd = "check" /\ mode.apply /\ BadFields

\* Every step of the selected pipeline decides its own axis, exactly once: nothing before
\* it writes the axis, and a run that was not halted leaves none of them open behind it.
AxesDecidedInOrder ==
  mode # None =>
    /\ \A step \in ToSet(todo) : PrimaryStatus(step, st) = "PENDING"
    /\ halt = None => \A step \in ToSet(Pipeline) \ ToSet(todo) :
                         PrimaryStatus(step, st) # "PENDING"

\* Pruning never releases a view some later step still works on: the image of a file that
\* was read, the header that was rendered, the text that is to be planned or written.
ViewsAtHand ==
  mode # None =>
    LET ToCome(steps) == ToSet(todo) \cap steps # {} IN
    /\ st.content = "OK" /\ ToCome({"scanner", "renderer", "stripper", "planner", "patcher"})
         => views.image # None
    /\ st.render = "RENDERED" /\ ToCome({"comparer", "planner"}) => views.render \in RenderedKinds
    /\ st.strip = "READY" /\ ToCome({"comparer", "planner", "writer"}) => views.updated # None
    /\ st.plan \in ConcretePlans /\ ToCome({"writer"}) => views.updated # None

\* The mutation mode binds what check plans, previews included: update_only never
\* inserts and add_only never replaces.
PlanObeysMutationMode ==
  mode # None /\ mode.cmd = "check" /\ st.plan \in ConcretePlans \cup {"PREVIEWED"} =>
    /\ policy.mutation = "update_only" => st.header # "MISSING"
    /\ policy.mutation = "add_only" => st.header = "MISSING"

\* A run that wrote the file says so, and a check that failed to write says that - unless a
\* BOM before a shebang that the sniffer saw was gone when the reader looked: then text
\* that now counts as empty is still rewritten, and reported as unchanged.
WriteIsReported ==
  Finished /\ mode.sink # "stdout"
  /\ (st.fs = "BOM_BEFORE_SHEBANG" => read # None /\ read.shebang) =>
    /\ st.write = "WRITTEN" => Outcome \in {"INSERTED", "UPDATED", "STRIPPED"}
    /\ st.write = "FAILED" /\ mode.cmd = "check" => Outcome = "ERROR"

(***************************************************************************)
(* Safety, when nobody touches the file during a run.                      *)
(***************************************************************************)

EmptyLike(c) ==
  \/ ~Sized(c)
  \/ policy.emptyMode = "logical" /\ LogicallyEmpty(c)
  \/ policy.emptyMode = "whitespace" /\ EffectivelyEmpty(c)

\* Text some rule of the effective policy excludes from any change.
Excluded(c) ==
  \/ TopHeader(c) \in MalformedKinds
  \/ MixedEol(c) /\ policy.mixed = "reject"
  \/ c.bom /\ c.shebang /\ ftype.shebang /\ policy.bom = "reject"
  \/ EmptyLike(c) /\ ~policy.allowEmpty
  \/ ftype.checker /\ c.ins = "REFLOW" /\ ~EffectivelyEmpty(c) /\ ~policy.reflow

\* Excluded files are never written, by check or by strip, whichever step notices:
\* the sniffer sees only the first 64 KiB and stops at a BOM before a shebang.
ExcludedIsNeverWritten ==
  [][FileWritten => ~Excluded(disk)]_vars

\* No command ever leaves two TopMark headers in a file that had at most one.
AtMostOneHeader == disk # None => Len(disk.headers) <= 1

\* A BOM that no shebang follows survives every write that leaves anything.
BomSurvives ==
  [][FileWritten /\ disk.bom /\ ~disk.shebang =>
       (Sized(disk') => disk'.bom)]_vars

Changes == AppliedOutcomes \cup WouldOutcomes

\* The engine reports a context for the file, after the same command ran before.
ReportsAgain ==
  Finished /\ halt # "exception" /\ last # None /\ mode.cmd = last.cmd

\* After a write the same command finds nothing more to do.
ApplyIsIdempotent ==
  ReportsAgain /\ last.wrote => Outcome \notin Changes

AppliedForm(outcome) ==
  CASE outcome = "WOULD_INSERT" -> "INSERTED"
    [] outcome = "WOULD_UPDATE" -> "UPDATED"
    [] outcome = "WOULD_STRIP" -> "STRIPPED"
    [] OTHER -> "CHANGED"

\* A dry run, with or without --diff, predicts what --apply then reports, and a file it
\* calls unaffected is not written.  (Two promises are not kept: of headers with malformed
\* fields, and of any file when no fields are configured and no empty header is wanted.)
DryRunPredictsApply ==
  /\ ReportsAgain /\ ~last.apply /\ mode.apply /\ mode.sink # "stdout"
  /\ ~BadFields /\ st.render # "SKIPPED"
  => IF last.outcome \in WouldOutcomes THEN Outcome = AppliedForm(last.outcome)
     ELSE Outcome \notin AppliedOutcomes /\ st.write # "WRITTEN"

------------------------------------------------------------------------------
(***************************************************************************)
(* What the documentation says and the code does not do.                   *)
(***************************************************************************)

\* "Header insertion/update policies, including header_mutation_mode, do not apply to
\* strip": a well-formed header that was found is made ready for removal.
StripIgnoresMutationMode ==
  Finished /\ mode.cmd = "strip" /\ st.header \in {"DETECTED", "EMPTY"} => st.strip = "READY"

\* "strip removes the BOM even when no TopMark header is present.  check removes it even
\* when the header is already compliant": no applied run that accepted the text under
\* remove_bom leaves a BOM before the shebang.
RemoveBomRemediates ==
  Finished /\ mode.apply /\ mode.sink # "stdout" /\ st.content = "OK" /\ ftype.shebang
  /\ policy.bom = "remove_bom" => ~(disk.bom /\ disk.shebang)

\* "Changes have been applied": the past-tense outcomes are those of files written.
AppliedOutcomeMeansWritten ==
  Finished /\ halt # "exception" /\ Outcome \in AppliedOutcomes => st.write = "WRITTEN"

\* "Remaining bytes are preserved except for separately planned header changes": no write
\* replaces bytes that are not UTF-8.
RemainingBytesPreserved ==
  [][FileWritten => disk'.enc = disk.enc]_vars
=============================================================================
