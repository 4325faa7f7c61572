----------------------------- MODULE CommandLine -----------------------------
(***************************************************************************)
(* One call of topmark: the options and arguments a user gives, the checks *)
(* that refuse some combinations and announce that others have no effect,  *)
(* the plan of what to read, the options of the run, and what of it is     *)
(* written to standard output and to standard error.                       *)
(*                                                                         *)
(* An option is given or not; one with a value is given with a value that  *)
(* is not its default.  Selecting files, the engine and the exit codes of  *)
(* results are the subject of BatchRun.                                    *)
(***************************************************************************)
EXTENDS Naturals, Sequences, FiniteSets

CONSTANT Invocations \* the calls a user may make

(***************************************************************************)
(* Options, as the decorators of a command declare them.  "PATH" and "-"   *)
(* are arguments; "--files-from -" is the option with standard input for a *)
(* file; "json" stands for NDJSON too.                                     *)
(***************************************************************************)
ColorOptions == {"--color=always", "--no-color"}
TextOptions == {"--verbose", "--quiet"}
FormatOptions == {"json", "markdown"}
ConfigOptions == {"--no-config", "--config"}
ListOptions == {"--files-from", "--files-from -"}
FilterOptions == {"--include", "--include-from -", "--exclude-from -"}
TypeOptions == {"--include-file-types"}
CommonOptions == ColorOptions \cup TextOptions \cup FormatOptions \cup ConfigOptions
                   \cup ListOptions \cup FilterOptions \cup TypeOptions

RunArguments == {"PATH", "-", "--stdin-filename", "--strict", "--allow-content-probe"}
WriteOptions == {"--apply", "--write-mode=atomic", "--write-mode=inplace", "--write-mode=stdout"}
ReportOptions == {"--diff", "--summary", "--report"}
RemedyOptions == {"--bom-before-shebang"}
HeaderPolicyOptions == {"--header-mutation-mode"}
LayoutOptions == {"--align-fields", "--relative-to"}
LayerOptions == {"--show-layers"}

\* What the parser knows of each command.
Accepted(command) ==
  CommonOptions \cup
  CASE command = "probe" -> RunArguments
    [] command = "strip" -> RunArguments \cup WriteOptions \cup ReportOptions \cup RemedyOptions
    [] command = "check" -> RunArguments \cup WriteOptions \cup ReportOptions \cup RemedyOptions
                              \cup HeaderPolicyOptions \cup LayoutOptions
    [] command = "dump"  -> LayoutOptions \cup LayerOptions

PolicyOptions == {"--allow-content-probe"} \cup RemedyOptions \cup HeaderPolicyOptions
ReadsList == {"--files-from -", "--include-from -", "--exclude-from -"}

\* An option spelled with underscores is trapped, to tell how it is spelled.
Trapped(given) == "--files_from" \in given

Commands == {"check", "strip", "probe", "dump"}
WriteModes == {"--write-mode=atomic", "--write-mode=inplace", "--write-mode=stdout"}

\* What click hands to a command: some tokens, of an option that takes a value the last one.
ParsedCalls ==
  {c \in [command : Commands, given : SUBSET STRING, stdin : {"terminal", "empty", "text"}] :
     /\ \A a, b \in c.given \cap FormatOptions : a = b
     /\ \A a, b \in c.given \cap WriteModes : a = b}

ASSUME CallsAssumption == Invocations \subseteq ParsedCalls

\* The terminals, and configurations, a call is made in.
Surroundings == [terminal : BOOLEAN, strategy : {"none", "inplace", "atomic"}]

VARIABLES
  call,    \* the command, what was given, and what standard input is connected to
  around,  \* the terminal, and what the configuration files say
  stage,   \* what the command does next
  cli,     \* TopmarkCliState
  plan,    \* InputPlan
  options, \* RunOptions
  verdict, \* what validation of the configuration found
  copied,  \* whether standard input was copied to a temporary file
  heard,   \* how often standard input was read to its end
  told,    \* options announced as having no effect
  out,     \* what was written to standard output
  err,     \* what was written to standard error
  put,     \* where the content of a changed file went
  exit     \* how the command ended

lineVars == <<call, around, stage, cli, plan, options, verdict, copied, heard, told, out, err, put, exit>>

------------------------------------------------------------------------------
(***************************************************************************)
(* The functions a command calls before it processes anything.  Each takes *)
(* what was given, so that two calls can be compared.                      *)
(***************************************************************************)
Format(given) == IF "json" \in given THEN "json" ELSE IF "markdown" \in given THEN "markdown" ELSE "text"
IsMachineFormat(format) == format = "json"

\* resolve_color_mode after init_common_state has settled the mode.
ResolveColor(given, terminal) ==
  /\ Format(given) = "text"
  /\ "--no-color" \notin given
  /\ "--color=always" \in given \/ terminal

\* What init_common_state and apply_color_policy_for_output_format leave in the state.
CommonState(given, terminal) ==
  LET text == Format(given) = "text"
  IN  [format |-> Format(given), color |-> ResolveColor(given, terminal), console |-> "stdout",
       verbosity |-> IF text /\ "--verbose" \in given THEN 1 ELSE 0,
       quiet |-> text /\ "--quiet" \in given,
       policy |-> given \cap PolicyOptions, strategy |-> "none"]

\* validate_output_verbosity_policy.
VerbosityRefused(given) == Format(given) = "text" /\ TextOptions \subseteq given

\* The checks that follow: validate_stdin_dash_requires_piped_input,
\* validate_diff_apply_mutual_exclusion.
CombinationRefused(given, stdin) ==
  \/ given \cap ReadsList # {} /\ stdin = "terminal"
  \/ {"--diff", "--apply"} \subseteq given

\* Mutant: the colour policy clears the colour and says nothing.
Announced_ColorSilent(given) ==
  LET machine == IsMachineFormat(Format(given)) summary == "--summary" \in given
  IN  {o \in given : \/ o = "--report" /\ (machine \/ summary)
                     \/ o = "--diff" /\ machine /\ summary}

\* apply_color_policy_for_output_format, warn_if_report_scope_ignored,
\* warn_if_machine_summary_diff_ignored.
Announced(given) ==
  LET machine == IsMachineFormat(Format(given)) summary == "--summary" \in given
  IN  {o \in given : \/ o = "--color=always" /\ Format(given) # "text" /\ "--no-color" \notin given
                     \/ o = "--report" /\ (machine \/ summary)
                     \/ o = "--diff" /\ machine /\ summary}

\* A single "-" asks for content on standard input.
StdinMode(given) == "-" \in given /\ "PATH" \notin given

\* extract_stdin_for_from_options, and the two ways plan_cli_inputs reads: how often
\* standard input is read to its end before the plan is made or refused.
Reads(given, stdin) ==
  LET lists == IF Cardinality(given \cap ReadsList) = 1 THEN 1 ELSE 0
      content == StdinMode(given) /\ given \cap ReadsList = {} /\ "--stdin-filename" \in given
  IN  lists + IF content /\ stdin # "terminal" THEN 1 ELSE 0

\* plan_cli_inputs: the combinations it refuses.
PlanRefused(command, given, stdin) ==
  LET wants == given \cap ReadsList IN
  \/ Cardinality(wants) > 1
  \/ /\ StdinMode(given)
     /\ wants # {} \/ "--stdin-filename" \notin given \/ stdin # "text"
  \/ "-" \in given /\ ~StdinMode(given)
  \/ /\ ~StdinMode(given) /\ command # "dump"
     /\ given \cap {"PATH", "--files-from"} = {}
     /\ ~("--files-from -" \in given /\ stdin = "text")

\* What plan_cli_inputs returns: the copy of standard input, or every path and pattern,
\* those on standard input as though they were given.
PlanCliInputs(given, stdin) ==
  LET content == StdinMode(given)
      listed == {o \in given \cap ReadsList : stdin = "text"}
  IN  [content |-> content, name |-> "--stdin-filename" \in given,
       paths |-> IF content THEN {"copy"} ELSE (given \cap {"PATH"}) \cup (listed \cap ListOptions),
       from |-> given \cap {"--files-from"},
       filters |-> (given \cap {"--include"}) \cup (listed \cap FilterOptions)]

\* select_pipeline: a diff is of a dry run.
SelectPipeline(command, given) ==
  [kind |-> command, mutates |-> "--apply" \in given,
   patch |-> "--diff" \in given /\ "--apply" \notin given]

\* Mutant: the configured strategy beats the one on the command line.
ApplyResolvedWriterOptions_ConfigWins(run, configured) ==
  IF configured = "none" \/ ~run.apply \/ run.content \/ run.target = "stdout" THEN run
  ELSE [run EXCEPT !.target = "file", !.strategy = configured]

\* apply_resolved_writer_options: a configured strategy where the command line has none.
ApplyResolvedWriterOptions(run, configured) ==
  IF configured = "none" \/ ~run.apply \/ run.content \/ run.target = "stdout" \/ run.strategy # "none"
  THEN run
  ELSE [run EXCEPT !.target = "file", !.strategy = configured]

\* build_run_options, with from_pipeline_selection.
BuildRunOptions(command, given, content, configured) ==
  LET pipeline == SelectPipeline(command, given)
      toStdout == (content /\ pipeline.mutates) \/ "--write-mode=stdout" \in given
      chosen == IF toStdout THEN "none" ELSE IF "--write-mode=atomic" \in given THEN "atomic"
                ELSE IF "--write-mode=inplace" \in given THEN "inplace" ELSE "none"
  IN  ApplyResolvedWriterOptions(
        [kind |-> command, apply |-> pipeline.mutates, diff |-> "--diff" \in given, content |-> content,
         target |-> IF toStdout THEN "stdout" ELSE IF chosen # "none" THEN "file" ELSE "none",
         strategy |-> chosen], configured)

\* Mutant: the console follows the diff only.
StdoutReserved_DiffOnly(run) == run.diff

\* resolve_human_console: standard output is kept for a payload.
StdoutReserved(run) == run.diff \/ (run.apply /\ (run.content \/ run.target = "stdout"))

\* _select_sink.
Sink(run) ==
  IF run.target = "stdout" THEN "stdout" ELSE IF run.strategy = "inplace" THEN "inplace" ELSE "atomic"

\* Every reason to refuse a call before anything is read or written.
Refused(c) ==
  \/ Trapped(c.given) \/ ~(c.given \subseteq Accepted(c.command))
  \/ VerbosityRefused(c.given) \/ CombinationRefused(c.given, c.stdin)
  \/ PlanRefused(c.command, c.given, c.stdin)

------------------------------------------------------------------------------
(***************************************************************************)
(* The command.  What goes to its console goes to standard output unless   *)
(* that is kept for a payload; JSON goes to the console the command began  *)
(* with.                                                                   *)
(***************************************************************************)
NoPlan == [content |-> FALSE, name |-> FALSE, paths |-> {}, from |-> {}, filters |-> {}]
NoOptions == [kind |-> "dump", apply |-> FALSE, diff |-> FALSE, content |-> FALSE,
              target |-> "none", strategy |-> "none"]

CommandInit ==
  /\ call \in Invocations /\ around \in Surroundings
  /\ stage = "parse" /\ exit = "none" /\ verdict = "clean"
  /\ cli = CommonState({}, FALSE) /\ plan = NoPlan /\ options = NoOptions
  /\ copied = FALSE /\ heard = 0 /\ told = {} /\ out = <<>> /\ err = <<>> /\ put = "nowhere"

Machine == IsMachineFormat(cli.format)
Console(chunks) ==
  IF cli.console = "stdout" THEN out' = out \o chunks /\ err' = err
                            ELSE err' = err \o chunks /\ out' = out
When(condition, chunk) == IF condition THEN <<chunk>> ELSE <<>>
Speaks == cli.format = "markdown" \/ (cli.format = "text" /\ ~cli.quiet)

Go(to) == stage' = to /\ UNCHANGED exit
End(code) == stage' = "end" /\ exit' = code
Refuse(code) == End(code) /\ err' = Append(err, "error") /\ UNCHANGED <<plan, options, out>>

untouched == <<call, around, verdict, put>>

ParseCall ==
  /\ stage = "parse"
  /\ \/ /\ Trapped(call.given) \/ ~(call.given \subseteq Accepted(call.command))
        /\ Refuse("PARSER_ERROR")
     \/ /\ ~Trapped(call.given) /\ call.given \subseteq Accepted(call.command)
        /\ Go("state") /\ UNCHANGED <<plan, options, out, err>>
  /\ UNCHANGED <<untouched, cli, copied, heard, told>>

InitCommonState ==
  /\ stage = "state"
  /\ cli' = CommonState(call.given, around.terminal)
  /\ IF VerbosityRefused(call.given)
     THEN Refuse("USAGE_ERROR") /\ UNCHANGED told
     ELSE /\ Go("check") /\ told' = Announced(call.given) \cap ColorOptions
          /\ err' = err \o When(told' # {}, "warning") /\ UNCHANGED <<plan, options, out>>
  /\ UNCHANGED <<untouched, copied, heard>>

CheckOptions ==
  /\ stage = "check"
  /\ IF CombinationRefused(call.given, call.stdin)
     THEN Refuse("USAGE_ERROR") /\ UNCHANGED told
     ELSE /\ Go("plan") /\ told' = Announced(call.given)
          /\ err' = err \o When(told' # told, "warning") /\ UNCHANGED <<plan, options, out>>
  /\ UNCHANGED <<untouched, cli, copied, heard>>

PlanInputs ==
  /\ stage = "plan"
  /\ heard' = heard + Reads(call.given, call.stdin)
  /\ IF PlanRefused(call.command, call.given, call.stdin)
     THEN Refuse("USAGE_ERROR") /\ UNCHANGED copied
     ELSE /\ plan' = PlanCliInputs(call.given, call.stdin)
          /\ copied' = plan'.content
          /\ Go("configure") /\ UNCHANGED <<options, out, err>>
  /\ UNCHANGED <<untouched, cli, told>>

\* build_resolved_toml_sources_and_config_for_plan, build_run_options, resolve_human_console.
Configure ==
  /\ stage = "configure"
  /\ options' = IF call.command = "dump" THEN NoOptions
                ELSE BuildRunOptions(call.command, call.given, plan.content, around.strategy)
  /\ cli' = [cli EXCEPT !.strategy = around.strategy,
                        !.console = IF StdoutReserved(options') THEN "stderr" ELSE @]
  /\ Go("validate")
  /\ UNCHANGED <<untouched, plan, copied, heard, told, out, err>>

\* Whether what validation found is shown although the command goes on: a dump does, even
\* if there is nothing; else Markdown shows what there is and text does when verbose.
Diagnosed(v) ==
  IF cli.format = "text" THEN ~cli.quiet /\ (call.command = "dump" \/ cli.verbosity > 0)
  ELSE cli.format = "markdown" /\ (call.command = "dump" \/ v # "clean")

\* A configuration found wrong ends the command; exit_for_config_validation_error leaves
\* the copy of standard input behind.
Validate ==
  /\ stage = "validate"
  /\ \E v \in {"clean", "noted", "invalid"} :
       /\ verdict' = v
       /\ IF v = "invalid" /\ call.command # "dump"
          THEN /\ End("CONFIG_ERROR")
               /\ IF Machine THEN Console(<<"document">>)
                  ELSE LET told2 == When(Speaks, "diagnostics") IN
                       IF cli.console = "stdout" THEN out' = out \o told2 /\ err' = Append(err, "error")
                       ELSE err' = err \o <<"error">> \o told2 /\ out' = out
          ELSE /\ Go(IF call.command = "dump" THEN "dump" ELSE "select")
               /\ Console(When(Diagnosed(v), "diagnostics"))
  /\ UNCHANGED <<call, around, cli, plan, options, copied, heard, told, put>>

\* The rest of config_dump_command.
DumpConfig ==
  /\ stage = "dump"
  /\ Console(IF Machine THEN <<"document">> ELSE When(Speaks, "report"))
  /\ End("SUCCESS")
  /\ UNCHANGED <<untouched, cli, plan, options, copied, heard, told>>

\* build_file_resolution, and exit_if_no_files where nothing was selected and no named
\* file is missing.
SelectFiles ==
  /\ stage = "select"
  /\ \/ Go("process") /\ UNCHANGED <<out, err>>
     \/ ~options.content /\ Console(<<"notice">>) /\ End("SUCCESS")
  /\ UNCHANGED <<untouched, cli, plan, options, copied, heard, told>>

\* What all the files come to: the exit code their results imply, and whether the content
\* of one changes; for a probe, whether one has no type.
Outcomes == [code : {"none", "FILE_NOT_FOUND", "IO_ERROR"}, change : BOOLEAN]

\* The exit code, and whether the copy of standard input stays; applying to standard
\* input succeeds whatever happened.
Ending(o) ==
  IF options.apply /\ options.content THEN [code |-> "SUCCESS", left |-> FALSE]
  ELSE IF o.code # "none" THEN [code |-> o.code, left |-> FALSE]
  ELSE IF o.change /\ call.command = "probe" THEN [code |-> "UNSUPPORTED_FILE_TYPE", left |-> copied]
  ELSE IF o.change /\ ~options.apply THEN [code |-> "WOULD_CHANGE", left |-> copied]
  ELSE [code |-> "SUCCESS", left |-> FALSE]

\* emit_processing_stream_json_machine and emit_probe_stream_json_machine, and what NDJSON
\* makes of the same results.
Document == <<"document">>

\* The report of a command, and the summary of an applied one.
Report == When(Speaks, "report") \o When(Speaks /\ options.apply /\ ~options.content, "summary")

\* render_pipeline_command_human_stream_output: the diffs are a payload, the report is for
\* the console.
Rendered(change) == [stdout |-> When(options.diff /\ change, "diffs"), console |-> Report]

\* The files are processed while the consumer of their results takes them; it prints the
\* document at the end, or the diffs, the report and the summary.
Process ==
  /\ stage = "process"
  /\ \E o \in Outcomes :
       LET wrote == options.apply /\ o.change
           content == When(wrote /\ Sink(options) = "stdout", "content")
           human == Rendered(o.change)
       IN  /\ put' = IF wrote THEN Sink(options) ELSE put
           /\ IF Machine THEN out' = out \o content \o Document /\ err' = err
              ELSE IF cli.console = "stdout"
                   THEN out' = out \o content \o human.stdout \o human.console /\ err' = err
                   ELSE out' = out \o content \o human.stdout /\ err' = err \o human.console
           /\ End(Ending(o).code) /\ copied' = Ending(o).left
  /\ UNCHANGED <<call, around, cli, plan, options, verdict, heard, told>>

CommandNext ==
  \/ ParseCall \/ InitCommonState \/ CheckOptions \/ PlanInputs \/ Configure
  \/ Validate \/ DumpConfig \/ SelectFiles \/ Process

CommandSpec == CommandInit /\ [][CommandNext]_lineVars

------------------------------------------------------------------------------
(***************************************************************************)
(* What a call comes to, as far as the options decide it.                  *)
(***************************************************************************)
Aim(c, s) ==
  IF Refused(c) THEN [refused |-> TRUE]
  ELSE LET state == CommonState(c.given, s.terminal)
           inputs == PlanCliInputs(c.given, c.stdin)
           run == BuildRunOptions(c.command, c.given, inputs.content, s.strategy)
       IN  [refused |-> FALSE, state |-> state, content |-> inputs.content,
            from |-> IF inputs.content THEN {"copy"} ELSE inputs.paths \cup inputs.from,
            filters |-> IF inputs.content THEN {} ELSE inputs.filters,
            diff |-> run.diff, sink |-> IF run.apply THEN Sink(run) ELSE "nowhere",
            report |-> c.given \cap (IF IsMachineFormat(state.format) THEN {"--summary"}
                                     ELSE IF "--summary" \in c.given THEN {"--summary"} ELSE {"--report"}),
            config |-> c.given \cap (ConfigOptions \cup TypeOptions \cup LayoutOptions \cup LayerOptions
                                       \cup {"--strict"})]

\* Taking an option away would have made a difference, on some terminal or with some
\* configuration.
Matters(o) ==
  LET without == [call EXCEPT !.given = @ \ {o}]
  IN  \E s \in Surroundings : Aim(call, s) # Aim(without, s)

\* Options that are dropped without a word: those of text output for another format, as
\* docs/usage/machine-output.md:72 says; the colour that --no-color overrules; a write
\* mode without --apply, or with content on standard input; a name for content that is
\* not on standard input; lists and filters of files where there is only content.  A list
\* on standard input that is empty makes no difference either.
Dropped(o) ==
  LET given == call.given IN
  \/ o \in TextOptions \cup {"--no-color"} /\ Format(given) # "text"
  \/ o = "--color=always" /\ "--no-color" \in given
  \/ o \in WriteOptions \ {"--apply"} /\ ("--apply" \notin given \/ plan.content)
  \/ o = "--stdin-filename" /\ ~plan.content
  \/ o \in ListOptions \cup FilterOptions /\ plan.content
  \/ o \in ReadsList /\ call.stdin = "empty"

Runs == stage = "end" /\ exit \notin {"PARSER_ERROR", "USAGE_ERROR"}

\* No option is lost on the way: in a call that is not refused, every option given makes
\* a difference or is announced as ignored, except for those listed above; changed files
\* go where the command line says, else where the configuration says, and content of
\* standard input never into a file; and standard input is read once at most.
CommandDoesAsTold ==
  Runs =>
    /\ \A o \in call.given : Matters(o) \/ o \in told \/ Dropped(o)
    /\ put = "nowhere" \/ "--apply" \in call.given
    /\ put = "inplace" => \/ "--write-mode=inplace" \in call.given
                          \/ around.strategy = "inplace" /\ "--write-mode=atomic" \notin call.given
    /\ put = "stdout" <=> put # "nowhere" /\ (plan.content \/ "--write-mode=stdout" \in call.given)
    /\ heard <= 1

\* Where a program cannot read standard output: a machine format together with content on
\* standard output, or with a selection without files; and a configuration found wrong
\* when JSON is asked for with a diff or with such content is told on standard error.
Muddled ==
  \/ put = "stdout"
  \/ out = <<"notice">> \/ (err # <<>> /\ err[Len(err)] = "notice")
  \/ verdict = "invalid" /\ cli.console = "stderr"

\* Standard output is for one payload: in a machine format exactly one document and
\* nothing else, with the exceptions above; with a diff only diffs; where content goes to
\* standard output only content.  All else is on standard error.
StdoutIsForOnePayload ==
  Runs =>
    IF Machine THEN out = <<"document">> \/ Muddled
    ELSE /\ options.diff => out \in {<<>>, <<"diffs">>}
         /\ options.apply /\ Sink(options) = "stdout" => out \in {<<>>, <<"content">>}
=============================================================================
