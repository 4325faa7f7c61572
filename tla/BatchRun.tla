------------------------------ MODULE BatchRun ------------------------------
(***************************************************************************)
(* One run of a command over a batch of files, from the command line or    *)
(* through the Python API: inputs are planned and checked, files selected, *)
(* the engine takes them one after the other, each result is reduced to a  *)
(* snapshot and sent as an event to a consumer that checks the order of    *)
(* the stream, and the run ends in an exit code or in a RunResult.         *)
(*                                                                         *)
(* What a pipeline makes of one file is FilePipeline's subject; here it is *)
(* a choice among the results it can come to.  Other programs may change   *)
(* the file system between any two steps.                                  *)
(***************************************************************************)
EXTENDS FileSelection

CONSTANTS
  Invocations, \* how the command may be called
  Configs,     \* the configurations it may find
  Trees,       \* the file systems it may be started on
  Temp,        \* the file standard input is copied to
  StdinInode,  \* the inode of that copy
  NewInode,    \* the inode of the file another program creates at a path
  Changes      \* how often other programs change the file system

Invocation ==
  [via : {"cli", "api"}, command : {"check", "strip", "probe"}, apply : BOOLEAN, diff : BOOLEAN,
   stdin : BOOLEAN, named : BOOLEAN, scope : {"actionable", "noncompliant", "all"}]

\* Content on standard input exists on the command line only.
ASSUME InvocationsAssumption ==
  /\ Invocations \subseteq Invocation
  /\ \A i \in Invocations : /\ i.via = "api" => ~i.stdin
                            /\ i.command = "probe" => ~i.apply /\ ~i.diff
ASSUME TempAssumption ==
  /\ Temp \in Path \ DOMAIN Target /\ Ancestors[Temp] = {}
  /\ DOMAIN NewInode = Path /\ StdinInode \notin Special
  /\ \A p \in Path : NewInode[p] \notin Special
ASSUME TreesAssumption ==
  \A t \in Trees : /\ DOMAIN t = Path /\ t[Temp] = "absent"
                   /\ \A p \in Path : /\ t[p] = "link" <=> p \in DOMAIN Target
                                      /\ t[p] # StdinInode /\ \A q \in Path : t[p] # NewInode[q]
                   /\ \A l \in DOMAIN Target : t[Target[l]] # "dir"
ASSUME ConfigsAssumption == \A c \in Configs : c \in Config
ASSUME ChangesAssumption == Changes \in Nat

\* Exit codes a command computes from results, most important first.
Priority == <<"FILE_NOT_FOUND", "PERMISSION_DENIED", "ENCODING_ERROR", "IO_ERROR",
              "PIPELINE_ERROR", "FAILURE">>
Failures == {Priority[i] : i \in DOMAIN Priority}
ExitCodes == Failures \cup {"SUCCESS", "WOULD_CHANGE", "USAGE_ERROR", "CONFIG_ERROR",
                            "UNSUPPORTED_FILE_TYPE", "TRACEBACK", "RETURNED"}

VARIABLES
  inv,       \* the invocation
  cfg,       \* the effective configuration
  pc,        \* where the run is
  node,      \* the file system
  budget,    \* changes other programs may still make
  origin,    \* the file system when the engine started
  found,     \* names that passed the filters, not yet canonical
  selected,  \* FileListResolution.selected
  missing,   \* FileListResolution.missing_literals
  explained, \* FileSelectionProbeResults of probe
  blocked,   \* paths that share storage with another selected one
  next,      \* index of the next selected path
  lost,      \* paths whose pipeline raised
  engine,    \* PipelineExecutionState.exit_code
  results,   \* ProcessingResults in the order they were made
  shown,     \* results the API's report scope leaves in view
  stats,     \* ProcessingStreamStats or ProbeStreamStats
  sent,      \* events given to the consumer
  consumer,  \* what the consumer of the stream has seen
  exit       \* how the command ended: an exit code, or RETURNED from the API

vars == <<inv, cfg, pc, node, budget, origin, found, selected, missing, explained, blocked,
          next, lost, engine, results, shown, stats, sent, consumer, exit>>

input == <<inv, cfg>>
selection == <<found, selected, missing, explained>>
engineState == <<origin, blocked, next, lost, engine, results>>
stream == <<shown, stats, sent, consumer>>

------------------------------------------------------------------------------
(***************************************************************************)
(* Results.  A ProcessingResult is reduced to what commands read of it: a  *)
(* few status axes, whether the command would change the file, whether an  *)
(* error was diagnosed, and how the probe of its file type ended.          *)
(***************************************************************************)
Clean == [path |-> Temp, fs |-> "OK", resolve |-> "RESOLVED", content |-> "OK",
          render |-> "RENDERED", write |-> "PENDING", change |-> FALSE, error |-> FALSE,
          probe |-> "none"]

\* A path without a file; hints are no diagnostics, so no error is on record.
NotFound == [Clean EXCEPT !.fs = "NOT_FOUND", !.resolve = "PENDING", !.content = "PENDING",
                          !.render = "PENDING"]
HardLinked == [NotFound EXCEPT !.fs = "HARD_LINK_DUPLICATE", !.probe = "unsupported"]
Filtered == [NotFound EXCEPT !.fs = "PENDING", !.probe = "filtered"]

Unreadable == {[NotFound EXCEPT !.fs = f, !.error = TRUE] :
                 f \in {"NO_READ_PERMISSION", "UNICODE_DECODE_ERROR", "UNREADABLE"}}
Unsupported == [Clean EXCEPT !.resolve = "UNSUPPORTED", !.content = "PENDING", !.render = "PENDING"]
Unrendered == [Clean EXCEPT !.render = "FAILED", !.error = TRUE]

\* The file is to be changed: announced, written, or failing to be written.
Outdated == [Clean EXCEPT !.change = TRUE]
Changed == IF inv.apply THEN {[Outdated EXCEPT !.write = "WRITTEN"],
                              [Outdated EXCEPT !.write = "FAILED", !.error = TRUE]}
                        ELSE {Outdated}

Probed == {[Clean EXCEPT !.fs = "PENDING", !.content = "PENDING", !.render = "PENDING", !.probe = x] :
             x \in {"resolved", "unsupported"}}

\* What the pipeline can make of a path; the probe does not open the file.
Verdicts(p) ==
  IF inv.command = "probe" THEN Probed
  ELSE IF ~IsFile(node, p) THEN {NotFound}
  ELSE {Clean, Unsupported, Unrendered} \cup Unreadable \cup Changed

------------------------------------------------------------------------------
(***************************************************************************)
(* Exit codes.                                                             *)
(***************************************************************************)

\* exit_code_from_pipeline_results; "none" when the results imply no error.
CodeOf(rs) ==
  LET Some(P(_)) == \E i \in DOMAIN rs : P(rs[i])
  IN IF Some(LAMBDA r : r.fs = "NOT_FOUND") THEN "FILE_NOT_FOUND"
     ELSE IF Some(LAMBDA r : r.fs \in {"NO_READ_PERMISSION", "NO_WRITE_PERMISSION"})
     THEN "PERMISSION_DENIED"
     ELSE IF Some(LAMBDA r : r.fs = "UNICODE_DECODE_ERROR") THEN "ENCODING_ERROR"
     ELSE IF \/ Some(LAMBDA r : r.write = "FAILED")
             \/ Some(LAMBDA r : r.fs = "UNREADABLE" \/ r.content = "UNREADABLE")
     THEN "IO_ERROR"
     ELSE IF Some(LAMBDA r : r.render = "FAILED") THEN "FAILURE"
     ELSE "none"

Rank(code) == CHOOSE i \in DOMAIN Priority : Priority[i] = code

\* Mutant: the last failing result decides.
SelectExitCode_Last(current, candidate) == candidate

\* select_exit_code: the more important of the code so far and a new one.
SelectExitCode(current, candidate) ==
  IF current = "none" \/ Rank(candidate) < Rank(current) THEN candidate ELSE current

NoStats == [exit |-> "none", written |-> 0, failed |-> 0, change |-> FALSE,
            missing |-> FALSE, unresolved |-> FALSE]

ObserveCode(s, r) ==
  LET code == CodeOf(<<r>>)
  IN [s EXCEPT !.exit = IF code = "none" THEN @ ELSE SelectExitCode(@, code)]

\* ProcessingStreamStats.observe, ProbeStreamStats.observe.
ObserveContent(s, r) ==
  [ObserveCode(s, r) EXCEPT !.written = @ + (IF r.write = "WRITTEN" THEN 1 ELSE 0),
                            !.failed = @ + (IF r.write = "FAILED" THEN 1 ELSE 0),
                            !.change = @ \/ r.change]
ObserveProbe(s, r) ==
  [ObserveCode(s, r) EXCEPT !.missing = @ \/ r.probe = "none",
                            !.unresolved = @ \/ r.probe \notin {"none", "resolved"}]

Observe(s, r) == IF inv.command = "probe" THEN ObserveProbe(s, r) ELSE ObserveContent(s, r)

------------------------------------------------------------------------------
(***************************************************************************)
(* The stream.  Every consumer, the JSON and NDJSON writers as well as the *)
(* API's collectors, accepts one start, results with contiguous indices    *)
(* and one completion, in this order and all of one command; anything else *)
(* raises.                                                                 *)
(***************************************************************************)
Event == [kind : {"run_started", "file_result", "run_completed"},
          command : {"check", "strip", "probe"}, index : Nat, count : Nat]

NewConsumer == [state |-> "new", expected |-> 0]

\* The writers for check and strip take the events of either, the others of one command.
TakenByWriter(e) == inv.command # "probe" /\ e.command \in {"check", "strip"}
TakenByProbeWriter(e) == inv.command = "probe" /\ e.command = "probe"
TakenByCollector(e) == e.command = inv.command

Taken(e) == IF inv.via = "api" THEN TakenByCollector(e) ELSE TakenByWriter(e) \/ TakenByProbeWriter(e)

InOrder(c, e) ==
  \/ e.kind = "run_started" /\ c.state = "new"
  \/ e.kind = "file_result" /\ c.state = "started" /\ e.index = c.expected
  \/ e.kind = "run_completed" /\ c.state = "started"
     /\ (inv.via = "api" => e.count = c.expected)

Consume(c, e) ==
  IF ~Taken(e) \/ ~InOrder(c, e) THEN [c EXCEPT !.state = "rejected"]
  ELSE CASE e.kind = "run_started"   -> [c EXCEPT !.state = "started"]
         [] e.kind = "file_result"   -> [c EXCEPT !.expected = @ + 1]
         [] e.kind = "run_completed" -> [c EXCEPT !.state = "completed"]

Send(kind, index, count) ==
  /\ consumer' = Consume(consumer, [kind |-> kind, command |-> inv.command,
                                    index |-> index, count |-> count])
  /\ sent' = sent + 1

\* Mutant: events carry the position of the path, not that of the result.
Emit_AtPosition(p, v) ==
  LET r == [v EXCEPT !.path = p] IN
  /\ results' = Append(results, r)
  /\ IF inv.via = "cli"
     THEN stats' = Observe(stats, r) /\ Send("file_result", next - 1, 0)
     ELSE UNCHANGED <<stats, sent, consumer>>
  /\ UNCHANGED shown

\* On the command line every result is observed and sent as soon as it is made.
Emit(p, v) ==
  LET r == [v EXCEPT !.path = p] IN
  /\ results' = Append(results, r)
  /\ IF inv.via = "cli"
     THEN /\ stats' = Observe(stats, r)
          /\ Send("file_result", Len(results), 0)
     ELSE UNCHANGED <<stats, sent, consumer>>
  /\ UNCHANGED shown

------------------------------------------------------------------------------
Init ==
  /\ inv \in Invocations /\ cfg \in Configs
  /\ node \in Trees /\ origin = node /\ budget = Changes
  /\ pc = (IF inv.via = "cli" THEN "plan" ELSE "prepare") /\ exit = "none"
  /\ found = {} /\ selected = <<>> /\ missing = <<>> /\ explained = <<>>
  /\ blocked = {} /\ next = 1 /\ lost = {} /\ engine = "none" /\ results = <<>>
  /\ shown = <<>> /\ stats = NoStats /\ sent = 0 /\ consumer = NewConsumer

Goto(label) == pc' = label /\ UNCHANGED exit
End(code) == pc' = "done" /\ exit' = code

\* safe_unlink(temp_path)
Unlink(p) == node' = [node EXCEPT ![p] = IF p = Temp THEN "absent" ELSE @]

(***************************************************************************)
(* The options are checked, then plan_cli_inputs copies standard input to  *)
(* a temporary file that the command is to remove.                         *)
(***************************************************************************)
UsageError ==
  \/ inv.diff /\ inv.apply
  \/ inv.stdin /\ ~inv.named
  \/ ~inv.stdin /\ cfg.files = <<>> /\ ~cfg.from.given

Plan ==
  /\ pc = "plan"
  /\ \/ UsageError /\ End("USAGE_ERROR") /\ UNCHANGED node
     \/ ~UsageError /\ Goto("load")
        /\ node' = IF inv.stdin THEN [node EXCEPT ![Temp] = StdinInode] ELSE node
  /\ UNCHANGED <<input, budget, selection, engineState, stream>>

\* ensure_config_valid: an invalid configuration ends a command before selection.
Load ==
  /\ pc = "load"
  /\ IF cfg.valid THEN Goto("find") ELSE End("CONFIG_ERROR")
  /\ UNCHANGED <<input, node, budget, selection, engineState, stream>>

\* The API checks the configuration it builds; ConfigValidationError reaches the caller.
Prepare ==
  /\ pc = "prepare"
  /\ IF cfg.valid THEN Goto("find") ELSE End("CONFIG_ERROR")
  /\ UNCHANGED <<input, node, budget, selection, engineState, stream>>

\* build_file_resolution, up to the filters.
Find ==
  /\ pc = "find"
  /\ found' = IF inv.stdin THEN {Temp} ELSE Candidates(node, cfg)
  /\ missing' = IF inv.stdin THEN <<>> ELSE MissingLiterals(node, cfg)
  /\ Goto("identify")
  /\ UNCHANGED <<input, node, budget, selected, explained, engineState, stream>>

\* The rest of it: canonical_processing_path raises for a file that is gone by now.
Identify ==
  /\ pc = "identify"
  /\ IF \E p \in found : ~Exists(node, p)
     THEN End("TRACEBACK") /\ UNCHANGED selected
     ELSE /\ selected' = Selected(node, found)
          /\ Goto(IF inv.command = "probe" /\ ~inv.stdin THEN "explain" ELSE "check_inputs")
  /\ UNCHANGED <<input, node, budget, found, missing, explained, engineState, stream>>

ExplainInputs ==
  /\ pc = "explain"
  /\ explained' = Explain(node, cfg, selected, missing)
  /\ Goto("check_inputs")
  /\ UNCHANGED <<input, node, budget, found, selected, missing, engineState, stream>>

\* exit_if_no_files; the API runs over no file instead.
CheckInputs ==
  /\ pc = "check_inputs"
  /\ IF inv.via = "cli" /\ selected = <<>> /\ missing = <<>> /\ explained = <<>>
     THEN End("SUCCESS") /\ UNCHANGED <<sent, consumer>>
     ELSE /\ Goto("links")
          /\ IF inv.via = "cli" THEN Send("run_started", 0, 0) ELSE UNCHANGED <<sent, consumer>>
  /\ UNCHANGED <<input, node, budget, selection, engineState, shown, stats>>

(***************************************************************************)
(* The engine, once its first result is asked for, groups the selected     *)
(* paths by inode; a path that is gone belongs to no group.                *)
(***************************************************************************)
Inode(p) == node[Canonical(node, p)]

\* _filesystem_identity: st_nlink counts the names of an inode, links do not add to it.
HasLinks(p) == IsFile(node, p) /\ \E q \in Path \ {Canonical(node, p)} : node[q] = Inode(p)

\* Mutant: the first of a group is let through.
HardLinkDuplicates_KeepsFirst ==
  {selected[j] : j \in {k \in DOMAIN selected :
     HasLinks(selected[k]) /\ \E i \in 1..(k - 1) : Inode(selected[i]) = Inode(selected[k])}}

HardLinkDuplicates ==
  {p \in Elements(selected) :
     HasLinks(p) /\ \E q \in Elements(selected) \ {p} : Inode(q) = Inode(p)}

StartEngine ==
  /\ pc = "links"
  /\ blocked' = HardLinkDuplicates /\ origin' = node
  /\ Goto("files")
  /\ UNCHANGED <<input, node, budget, selection, next, lost, engine, results, stream>>

Current == selected[next]

Turn == pc = "files" /\ next <= Len(selected) /\ next' = next + 1

\* Mutant: a blocked path is passed over.
Block_Silently ==
  /\ Turn /\ Current \in blocked
  /\ Goto("files")
  /\ UNCHANGED <<input, node, budget, selection, origin, blocked, lost, engine, results, stream>>

Block ==
  /\ Turn /\ Current \in blocked
  /\ Emit(Current, HardLinked)
  /\ Goto("files")
  /\ UNCHANGED <<input, node, budget, selection, origin, blocked, lost, engine>>

Process ==
  /\ Turn /\ Current \notin blocked
  /\ \E v \in Verdicts(Current) : Emit(Current, v)
  /\ Goto("files")
  /\ UNCHANGED <<input, node, budget, selection, origin, blocked, lost, engine>>

\* An exception leaves no result; only the first one decides the engine's exit code.
Raise ==
  /\ Turn /\ Current \notin blocked
  /\ \E code \in {"FILE_NOT_FOUND", "PERMISSION_DENIED", "ENCODING_ERROR", "PIPELINE_ERROR"} :
       engine' = IF engine = "none" THEN code ELSE engine
  /\ lost' = lost \cup {Current}
  /\ Goto("files")
  /\ UNCHANGED <<input, node, budget, selection, origin, blocked, results, stream>>

(***************************************************************************)
(* After the selected files come the missing inputs and, for probe, those  *)
(* that were filtered.  The API's check and strip have neither.            *)
(***************************************************************************)
Synthetic ==
  IF inv.via = "api" /\ inv.command # "probe" THEN <<>>
  ELSE [i \in 1..(Len(missing) + Len(explained)) |->
          IF i <= Len(missing) THEN [path |-> missing[i], verdict |-> NotFound]
          ELSE [path |-> explained[i - Len(missing)].path, verdict |-> Filtered]]

\* Results there are to come in all: one per turn that did not raise.
Supplement ==
  LET i == next - Len(selected) IN
  /\ pc = "files" /\ i \in DOMAIN Synthetic
  /\ next' = next + 1
  /\ Emit(Synthetic[i].path, Synthetic[i].verdict)
  /\ Goto("files")
  /\ UNCHANGED <<input, node, budget, selection, origin, blocked, lost, engine>>

\* Mutant: completion is announced when the count of selected paths is reached.
Complete_AtSelectedCount ==
  /\ pc = "files" /\ next = Len(selected) + 1
  /\ IF inv.via = "cli"
     THEN Send("run_completed", 0, 0) /\ Goto("finish")
     ELSE UNCHANGED <<sent, consumer>> /\ Goto("report")
  /\ UNCHANGED <<input, node, budget, selection, engineState, shown, stats>>

Complete ==
  /\ pc = "files" /\ next > Len(selected) + Len(Synthetic)
  /\ IF inv.via = "cli"
     THEN Send("run_completed", 0, 0) /\ Goto("finish")
     ELSE UNCHANGED <<sent, consumer>> /\ Goto("report")
  /\ UNCHANGED <<input, node, budget, selection, engineState, shown, stats>>

(***************************************************************************)
(* The end of a command.  Engine errors go before those of the results,    *)
(* both before WOULD_CHANGE; check and strip of standard input with        *)
(* --apply return as soon as the temporary file is removed.                *)
(***************************************************************************)
\* Mutant: only the results are asked.
Encountered_OfResults == stats.exit

Encountered == IF engine # "none" THEN engine
               ELSE IF stats.exit = "none" /\ inv.apply /\ stats.failed > 0 THEN "IO_ERROR"
               ELSE stats.exit

FinishContent ==
  /\ pc = "finish" /\ inv.command # "probe"
  /\ CASE inv.apply /\ inv.stdin     -> Unlink(Temp) /\ End("SUCCESS")
       [] Encountered # "none" /\ ~(inv.apply /\ inv.stdin) -> Unlink(Temp) /\ End(Encountered)
       [] Encountered = "none" /\ ~inv.apply /\ stats.change -> UNCHANGED node /\ End("WOULD_CHANGE")
       [] OTHER                      -> Unlink(Temp) /\ End("SUCCESS")
  /\ UNCHANGED <<input, budget, selection, engineState, stream>>

FinishProbe ==
  /\ pc = "finish" /\ inv.command = "probe"
  /\ IF Encountered # "none" THEN Unlink(Temp) /\ End(Encountered)
     ELSE IF stats.missing THEN UNCHANGED node /\ End("PIPELINE_ERROR")
     ELSE IF stats.unresolved THEN UNCHANGED node /\ End("UNSUPPORTED_FILE_TYPE")
     ELSE Unlink(Temp) /\ End("SUCCESS")
  /\ UNCHANGED <<input, budget, selection, engineState, stream>>

(***************************************************************************)
(* The API: filter_results_for_report, the totals of finalize_run_result,  *)
(* and the events made of what is left in view.                            *)
(***************************************************************************)
IsUnsupported(r) == r.resolve \in {"UNSUPPORTED", "TYPE_RESOLVED_HEADERS_UNSUPPORTED",
                                   "TYPE_RESOLVED_NO_PROCESSOR_REGISTERED"}

\* Mutant: the file system axis is forgotten.
NeedsAttention_NotOfFs(r) == IsUnsupported(r) \/ r.error

NeedsAttention(r) ==
  \/ IsUnsupported(r) \/ r.error \/ r.fs \notin {"OK", "EMPTY"}
  \/ r.content \notin {"OK", "SKIPPED_MIXED_LINE_ENDINGS"}

InScope(r) ==
  CASE inv.scope = "all"                          -> TRUE
    [] inv.scope = "noncompliant"                 -> r.change \/ NeedsAttention(r)
    [] inv.scope = "actionable"                   -> (r.change \/ NeedsAttention(r)) /\ ~IsUnsupported(r)

\* finalize_run_result and finalize_probe_result; the event stream is made of what they leave.
ReportContent ==
  /\ pc = "report" /\ inv.command # "probe"
  /\ shown' = Picked(results, {i \in DOMAIN results : InScope(results[i])})
  /\ Send("run_started", 0, 0) /\ Goto("events")
  /\ UNCHANGED <<input, node, budget, selection, engineState, stats>>

ReportProbe ==
  /\ pc = "report" /\ inv.command = "probe"
  /\ shown' = results
  /\ Send("run_started", 0, 0) /\ Goto("events")
  /\ UNCHANGED <<input, node, budget, selection, engineState, stats>>

NextEvent ==
  /\ pc = "events" /\ sent <= Len(shown)
  /\ Send("file_result", sent - 1, 0)
  /\ Goto("events")
  /\ UNCHANGED <<input, node, budget, selection, engineState, shown, stats>>

\* RunCompletedEvent carries the totals the collector compares with the results.
Return ==
  /\ pc = "events" /\ sent > Len(shown)
  /\ Send("run_completed", 0, Len(shown)) /\ End("RETURNED")
  /\ UNCHANGED <<input, node, budget, selection, engineState, shown, stats>>

\* Mutant: only diagnostics count.
HadErrors_Diagnosed == \E i \in DOMAIN results : results[i].error

\* RunResult.had_errors.
HadErrors ==
  LET code == IF engine = "none" /\ inv.command = "probe" THEN CodeOf(results) ELSE engine
  IN code # "none" \/ \E i \in DOMAIN results : results[i].error

------------------------------------------------------------------------------
(***************************************************************************)
(* Other programs: a file goes, a file comes, a name is linked to another  *)
(* file's storage.                                                         *)
(***************************************************************************)
Others ==
  /\ pc # "done" /\ budget > 0 /\ budget' = budget - 1
  /\ \E p \in Path \ {Temp} :
       /\ node[p] \notin {"dir", "link"}
       /\ \/ node[p] # "absent" /\ node' = [node EXCEPT ![p] = "absent"]
          \/ node[p] = "absent" /\ node' = [node EXCEPT ![p] = NewInode[p]]
          \/ \E q \in Path \ {p} : node[q] \notin Special /\ node[p] # node[q]
                                   /\ node' = [node EXCEPT ![p] = node[q]]
  /\ UNCHANGED <<input, pc, selection, engineState, stream, exit>>

Command ==
  \/ Plan \/ Load \/ Prepare \/ Find \/ Identify \/ ExplainInputs \/ CheckInputs \/ StartEngine
  \/ Block \/ Process \/ Raise \/ Supplement \/ Complete \/ FinishContent \/ FinishProbe
  \/ ReportContent \/ ReportProbe \/ NextEvent \/ Return

Next == Command \/ Others

\* One thread runs the command to its end; nothing else has to happen.
Spec == Init /\ [][Next]_vars /\ WF_vars(Command)

------------------------------------------------------------------------------
(***************************************************************************)
(* Properties.                                                             *)
(***************************************************************************)
Done == pc = "done"
FromCli == inv.via = "cli"

(***************************************************************************)
(* The run as RunContract sees it.                                         *)
(***************************************************************************)
Phase == CASE pc \in {"plan", "load", "prepare", "find", "identify", "explain",
                         "check_inputs", "links"} -> "idle"
           [] pc = "files" -> "open"
           [] OTHER        -> "closed"

ResultsOf(p) == {i \in DOMAIN results : results[i].path = p}

Task == [p \in Path |->
  IF Phase = "idle" \/ p \notin Elements(selected) THEN "none"
  ELSE IF ResultsOf(p) = {} THEN IF p \in lost THEN "lost" ELSE "waiting"
  ELSE IF p \notin lost /\ \E i \in DOMAIN results : ResultsOf(p) = {i} THEN "reported"
  ELSE "twice"]

Contract == INSTANCE RunContract WITH phase <- Phase, task <- Task, error <- (engine # "none")

\* The engine settles every selected path exactly once, by one result or by an error
\* it remembers, whatever is blocked, raises, vanishes or is reported besides.
ImplementsContract == Contract!Spec

\* Lost results, blocked paths, missing and filtered inputs leave no gap in the stream
\* of events: no consumer ever rejects one, and a stream once begun is completed.
StreamAccepted ==
  /\ consumer.state # "rejected"
  /\ Done /\ sent > 0 => consumer.state = "completed"

\* The code the command line keeps while results stream by is the one it would have
\* computed from all of them at once, as the API does for probe.
ExitCodeIsThatOfAllResults == FromCli => stats.exit = CodeOf(results)

\* Success of a command means that no file was lost, no result failed, no literal input
\* was missing, a dry run has nothing to announce and no copy of standard input stays
\* behind.  Applying to standard input is left out: it succeeds whatever happened.
SuccessHidesNothing ==
  exit = "SUCCESS" /\ ~(inv.apply /\ inv.stdin) =>
    /\ lost = {} /\ missing = <<>> /\ CodeOf(results) = "none" /\ node[Temp] = "absent"
    /\ \A i \in DOMAIN results : results[i].change => results[i].write = "WRITTEN"
    /\ inv.command = "probe" => \A i \in DOMAIN results : results[i].probe = "resolved"

Storage(p) == origin[IF origin[p] = "link" THEN Target[p] ELSE p]

\* No two results of one run wrote to the same file of those the engine found when it
\* started, by whatever names and links the inputs led to it.
NoFileWrittenTwice ==
  \A i, j \in DOMAIN results :
    /\ i # j /\ results[i].write = "WRITTEN" /\ results[j].write = "WRITTEN"
    /\ Storage(results[i].path) # "absent"
    => Storage(results[i].path) # Storage(results[j].path)

\* Of selected paths with the same storage none is processed: each gets the result that
\* says so, also after other files of the batch were replaced or removed.
GroupsBlockedAsAWhole ==
  \A i \in DOMAIN results :
    (\E q \in Elements(selected) \ {results[i].path} :
        /\ results[i].path \in Elements(selected) /\ Storage(q) = Storage(results[i].path)
        /\ Storage(q) # "absent")
    => results[i].fs = "HARD_LINK_DUPLICATE"

\* Storage that several names of a batch share is written once at most, and not at all
\* where hard links make them distinct paths.
SharedStorageIsSafe == NoFileWrittenTwice /\ GroupsBlockedAsAWhole

Explanation(p) == {r \in Reasons : \E i \in DOMAIN explained : explained[i] = [path |-> p, reason |-> r]}

\* While nobody else touches the files, probe accounts for every literal input in
\* exactly one way: it leads to something selected, it is missing, or there is one
\* reason for leaving it out, which is then neither that it does not exist nor unknown.
InputsAccounted ==
  (inv.command = "probe" /\ ~inv.stdin /\ pc = "check_inputs" /\ budget = Changes) =>
    \A p \in Elements(ExplicitInputs(node, cfg)) \ Glob :
      LET leads == \/ Canonical(node, p) \in Elements(selected)
                   \/ IsDir(node, p) /\ \E q \in Elements(selected) : p \in Ancestors[q]
      IN CASE leads      -> p \notin Elements(missing) /\ Explanation(p) = {}
           [] ~leads /\ p \in Elements(missing) -> ~Exists(node, p) /\ Explanation(p) = {}
           [] OTHER      -> \E r \in Reasons \ {"NOT_FOUND", "EXCLUDED_BY_DISCOVERY_FILTER"} :
                              Explanation(p) = {r}

\* RunResult.had_errors is true when a file was lost or failed, also where the report
\* scope hides results.  A file that vanished before it was looked at is not diagnosed
\* as an error, so it does not count for check and strip.
HadErrorsTellsFailures ==
  exit = "RETURNED" /\ (\/ lost # {}
                        \/ \E i \in DOMAIN results : /\ CodeOf(<<results[i]>>) # "none"
                                                     /\ inv.command = "probe" \/ results[i].fs # "NOT_FOUND")
  => HadErrors

\* What a report scope takes out of view is no change, no failure and no blocked file.
HiddenIsHarmless ==
  exit = "RETURNED" =>
    \A i \in DOMAIN results :
      \/ \E j \in DOMAIN shown : shown[j] = results[i]
      \/ results[i].fs = "OK" /\ ~results[i].change /\ CodeOf(<<results[i]>>) = "none"

\* A user who looks at nothing but the exit code and the report misses no failure and no
\* change that is due.
NothingIsHidden == SuccessHidesNothing /\ HiddenIsHarmless

\* Every run ends, also when each of its files raises.
Terminates == <>Done
=============================================================================
