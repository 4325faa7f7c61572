-------------------------- MODULE UserInputProofs --------------------------
(***************************************************************************)
(* Proofs about what a user says: that no option of a call is lost on the  *)
(* way and that standard output carries one payload, of CommandLine, and   *)
(* that no entry of a table is lost in silence, of ConfigEntries.          *)
(***************************************************************************)
EXTENDS CommandLine, ConfigEntries, SequenceLemmas

-----------------------------------------------------------------------------
(* The options of a run.                                                   *)

LEMMA RunOptionsTell ==
  ASSUME NEW command, NEW given, NEW content \in BOOLEAN, NEW configured \in {"none", "inplace", "atomic"},
         NEW run, run = BuildRunOptions(command, given, content, configured)
  PROVE  /\ run.diff <=> "--diff" \in given
         /\ run.apply <=> "--apply" \in given
         /\ run.content = content
         /\ Sink(run) = "stdout" <=> run.target = "stdout"
         /\ run.target = "stdout" <=> (content /\ "--apply" \in given) \/ "--write-mode=stdout" \in given
         /\ Sink(run) \in {"stdout", "inplace", "atomic"}
         /\ Sink(run) = "inplace" =>
              \/ "--write-mode=inplace" \in given
              \/ configured = "inplace" /\ "--write-mode=atomic" \notin given
<1> DEFINE toStdout == (content /\ "--apply" \in given) \/ "--write-mode=stdout" \in given
           chosen == IF toStdout THEN "none" ELSE IF "--write-mode=atomic" \in given THEN "atomic"
                     ELSE IF "--write-mode=inplace" \in given THEN "inplace" ELSE "none"
           bare == [kind |-> command, apply |-> "--apply" \in given, diff |-> "--diff" \in given,
                    content |-> content,
                    target |-> IF toStdout THEN "stdout" ELSE IF chosen # "none" THEN "file" ELSE "none",
                    strategy |-> chosen]
<1>1. run = ApplyResolvedWriterOptions(bare, configured)
  BY DEF BuildRunOptions, SelectPipeline
<1>2. /\ run.diff = bare.diff /\ run.apply = bare.apply /\ run.content = bare.content
      /\ run.target = "stdout" <=> bare.target = "stdout"
      /\ run.strategy = bare.strategy \/ (run.strategy = configured /\ bare.strategy = "none")
  <2> HIDE DEF bare
  <2>1. bare.target # "stdout" => [bare EXCEPT !.target = "file", !.strategy = configured].target # "stdout"
    BY DEF bare
  <2> QED BY <1>1, <2>1 DEF ApplyResolvedWriterOptions, bare
<1>3. bare.target = "stdout" <=> toStdout
  OBVIOUS
<1> QED BY <1>2, <1>3 DEF Sink

-----------------------------------------------------------------------------
(* A call on its way.                                                      *)

Planned == stage \in {"configure", "validate", "dump", "select", "process"} \/ Runs
Chosen == stage \in {"validate", "dump", "select", "process"} \/ Runs

\* What Configure makes of a call.
OptionsOf(c, s) ==
  IF c.command = "dump" THEN NoOptions
  ELSE BuildRunOptions(c.command, c.given, StdinMode(c.given), s.strategy)

\* What the checks so far have let through.
LetThrough ==
  /\ stage \notin {"parse", "end"} => ~Trapped(call.given) /\ call.given \subseteq Accepted(call.command)
  /\ stage \in {"check", "plan"} => ~VerbosityRefused(call.given)
  /\ stage = "plan" => ~CombinationRefused(call.given, call.stdin) /\ told = Announced(call.given)
  /\ Planned => /\ ~Refused(call) /\ told = Announced(call.given)
                /\ plan = PlanCliInputs(call.given, call.stdin)

\* What was made of the options.
SetUp ==
  /\ stage \in {"check", "plan", "configure"} => cli = CommonState(call.given, around.terminal)
  /\ Chosen => /\ options = OptionsOf(call, around)
               /\ cli = [CommonState(call.given, around.terminal) EXCEPT
                           !.strategy = around.strategy,
                           !.console = IF StdoutReserved(options) THEN "stderr" ELSE @]
  /\ stage = "dump" => call.command = "dump"
  /\ stage \in {"select", "process"} => call.command # "dump"

\* What was read and written.
SoFar ==
  /\ stage \in {"parse", "state", "check", "plan"} => heard = 0
  /\ Planned => heard = Reads(call.given, call.stdin)
  /\ stage \in {"parse", "state", "check", "plan", "configure", "validate"} => out = <<>>
  /\ stage \in {"dump", "select", "process"} /\ (Machine \/ cli.console = "stderr") => out = <<>>
  /\ stage # "end" => put = "nowhere"
  /\ put # "nowhere" => Runs /\ options.apply /\ put = Sink(options)

Sound ==
  /\ call \in Invocations /\ around \in Surroundings
  /\ stage \in
      {"parse", "state", "check", "plan", "configure", "validate", "dump", "select", "process", "end"}

CallInv == Sound /\ LetThrough /\ SetUp /\ SoFar /\ StdoutIsForOnePayload

Chunks == {"error", "warning", "diagnostics", "report", "summary", "document", "notice"}
ErrIsText == err \in Seq(Chunks)

\* Standard error takes nothing but chunks of text.
LEMMA ErrStaysText == ErrIsText /\ CommandNext => ErrIsText'
<1> SUFFICES ASSUME ErrIsText, CommandNext PROVE ErrIsText'
  OBVIOUS
<1> USE DEF ErrIsText
<1>a. \A c \in Chunks : <<c>> \in Seq(Chunks) /\ \A s \in Seq(Chunks) : Append(s, c) \in Seq(Chunks)
  OBVIOUS
<1>b. \A s, t \in Seq(Chunks) : s \o t \in Seq(Chunks)
  OBVIOUS
<1>c. <<>> \in Seq(Chunks)
  OBVIOUS
<1>1. \A c : When(c, "warning") \in Seq(Chunks) /\ When(c, "diagnostics") \in Seq(Chunks)
             /\ When(c, "report") \in Seq(Chunks) /\ When(c, "summary") \in Seq(Chunks)
  BY <1>a, <1>c DEF When, Chunks
<1>2. Append(err, "error") \in Seq(Chunks)
  BY <1>a DEF Chunks
<1>3. \A s \in Seq(Chunks) : Console(s) => err' \in Seq(Chunks)
  BY <1>b DEF Console
<1>4. CASE ParseCall
  BY <1>2, <1>4 DEF ParseCall, Refuse
<1>5. CASE InitCommonState
  BY <1>1, <1>2, <1>b, <1>5 DEF InitCommonState, Refuse
<1>6. CASE CheckOptions
  BY <1>1, <1>2, <1>b, <1>6 DEF CheckOptions, Refuse
<1>7. CASE PlanInputs
  BY <1>2, <1>7 DEF PlanInputs, Refuse
<1>8. CASE Configure
  BY <1>8 DEF Configure
<1>9. CASE Validate
  <2>1. When(Speaks, "diagnostics") \in Seq(Chunks) /\ \A v : When(Diagnosed(v), "diagnostics") \in Seq(Chunks)
    BY <1>1
  <2>2. <<"document">> \in Seq(Chunks) /\ <<"error">> \in Seq(Chunks)
    BY <1>a DEF Chunks
  <2>3. err \o <<"error">> \in Seq(Chunks) /\ err \o <<"error">> \o When(Speaks, "diagnostics") \in Seq(Chunks)
    BY <1>b, <2>1, <2>2
  <2>4. PICK v \in {"clean", "noted", "invalid"} :
          \/ Console(<<"document">>) \/ Console(When(Diagnosed(v), "diagnostics"))
          \/ err' = Append(err, "error") \/ err' = err \o <<"error">> \o When(Speaks, "diagnostics")
    BY <1>9 DEF Validate
  <2> QED BY <1>2, <1>3, <2>1, <2>2, <2>3, <2>4
<1>10. CASE DumpConfig
  <2>1. (IF Machine THEN <<"document">> ELSE When(Speaks, "report")) \in Seq(Chunks)
    BY <1>1, <1>a DEF Chunks
  <2> QED BY <1>3, <1>10, <2>1 DEF DumpConfig
<1>11. CASE SelectFiles
  <2>1. <<"notice">> \in Seq(Chunks)
    BY <1>a DEF Chunks
  <2> QED BY <1>3, <1>11, <2>1 DEF SelectFiles
<1>12. CASE Process
  <2>1. Report \in Seq(Chunks)
    BY <1>1, <1>b DEF Report
  <2>2. \A c : Rendered(c).console \in Seq(Chunks)
    BY <2>1 DEF Rendered
  <2> QED BY <1>12, <1>b, <2>2 DEF Process
<1> QED BY <1>4, <1>5, <1>6, <1>7, <1>8, <1>9, <1>10, <1>11, <1>12 DEF CommandNext

LEMMA CallBegins == CommandInit => CallInv
BY DEF CommandInit, CallInv, Sound, LetThrough, SetUp, SoFar, StdoutIsForOnePayload, Planned, Chosen, Runs

LEMMA ParseKeeps == CallInv /\ ParseCall => CallInv'
BY DEF CallInv, Sound, LetThrough, SetUp, SoFar, StdoutIsForOnePayload, Planned, Chosen, Runs, ParseCall,
       Refuse, End, Go, untouched

LEMMA InitCommonStateKeeps == CallInv /\ InitCommonState => CallInv'
BY DEF CallInv, Sound, LetThrough, SetUp, SoFar, StdoutIsForOnePayload, Planned, Chosen, Runs,
       InitCommonState, Refuse, End, Go, untouched

LEMMA CheckOptionsKeeps == CallInv /\ CheckOptions => CallInv'
BY DEF CallInv, Sound, LetThrough, SetUp, SoFar, StdoutIsForOnePayload, Planned, Chosen, Runs,
       CheckOptions, Refuse, End, Go, untouched

LEMMA PlanInputsKeeps == CallInv /\ PlanInputs => CallInv'
<1> SUFFICES ASSUME CallInv, PlanInputs PROVE CallInv'
  OBVIOUS
<1>1. /\ stage = "plan" /\ UNCHANGED <<call, around, verdict, put, cli, told, options, out>>
      /\ heard' = 0 + Reads(call.given, call.stdin)
  BY DEF PlanInputs, CallInv, SoFar, untouched, Refuse
<1>2. heard' = Reads(call.given, call.stdin)
  BY <1>1, FS_CardinalityType DEF Reads
<1>3. CASE PlanRefused(call.command, call.given, call.stdin)
  <2>1. stage' = "end" /\ exit' = "USAGE_ERROR" /\ err' = Append(err, "error")
    BY <1>3 DEF PlanInputs, Refuse, End
  <2> QED BY <1>1, <2>1 DEF CallInv, Sound, LetThrough, SetUp, SoFar, StdoutIsForOnePayload, Planned,
          Chosen, Runs
<1>4. CASE ~PlanRefused(call.command, call.given, call.stdin)
  <2>1. /\ stage' = "configure" /\ exit' = exit /\ err' = err
        /\ plan' = PlanCliInputs(call.given, call.stdin)
    BY <1>4 DEF PlanInputs, Go
  <2>2. ~Refused(call)
    BY <1>1, <1>4 DEF CallInv, LetThrough, Refused
  <2>3. LetThrough'
    BY <1>1, <2>1, <2>2 DEF CallInv, LetThrough, Planned, Runs
  <2>4. Sound' /\ SetUp' /\ SoFar' /\ StdoutIsForOnePayload'
    BY <1>1, <1>2, <2>1 DEF CallInv, Sound, SetUp, SoFar, StdoutIsForOnePayload, Planned, Chosen, Runs
  <2> QED BY <2>3, <2>4 DEF CallInv
<1> QED BY <1>3, <1>4

LEMMA ConfigureKeeps == CallInv /\ Configure => CallInv'
<1> SUFFICES ASSUME CallInv, Configure PROVE CallInv'
  OBVIOUS
<1>1. plan.content = StdinMode(call.given)
  BY DEF CallInv, LetThrough, Planned, Configure, PlanCliInputs
<1>2. options' = OptionsOf(call, around)
  BY <1>1 DEF Configure, OptionsOf
<1>3. /\ stage = "configure" /\ stage' = "validate" /\ exit' = exit
      /\ UNCHANGED <<call, around, verdict, put, plan, copied, heard, told, out, err>>
  BY DEF Configure, Go, untouched
<1>4. Sound'
  BY <1>3 DEF CallInv, Sound
<1>5. LetThrough'
  BY <1>3 DEF CallInv, LetThrough, Planned, Runs
<1>6. SetUp'
  <2>1. cli = CommonState(call.given, around.terminal)
    BY <1>3 DEF CallInv, SetUp
  <2>2. cli' = [cli EXCEPT !.strategy = around.strategy,
                           !.console = IF StdoutReserved(options') THEN "stderr" ELSE @]
    BY DEF Configure
  <2>3. OptionsOf(call, around)' = OptionsOf(call, around)
    BY <1>3
  <2> QED BY <1>2, <1>3, <2>1, <2>2, <2>3 DEF SetUp, Chosen
<1>7. SoFar'
  BY <1>3 DEF CallInv, SoFar, Planned, Runs
<1>8. StdoutIsForOnePayload'
  BY <1>3 DEF StdoutIsForOnePayload, Runs
<1> QED BY <1>4, <1>5, <1>6, <1>7, <1>8 DEF CallInv

\* What a command that was not refused works with.
LEMMA AtWork ==
  ASSUME CallInv, Chosen
  PROVE  /\ cli.format = Format(call.given) /\ cli.console = IF StdoutReserved(options) THEN "stderr" ELSE "stdout"
         /\ plan.content \in BOOLEAN /\ plan.content = StdinMode(call.given)
         /\ options.apply => "--apply" \in call.given
         /\ ~(options.diff /\ options.apply)
         /\ Sink(options) = "stdout" =>
              options.target = "stdout"
         /\ call.command # "dump" => options = BuildRunOptions(call.command, call.given, plan.content, around.strategy)
         /\ call.command = "dump" => options = NoOptions
<1>1. options = OptionsOf(call, around)
  BY DEF CallInv, SetUp
<1>2. cli.format = Format(call.given) /\ cli.console = IF StdoutReserved(options) THEN "stderr" ELSE "stdout"
  BY DEF CallInv, SetUp, CommonState
<1>3. plan.content \in BOOLEAN /\ plan.content = StdinMode(call.given)
  <2>1. plan = PlanCliInputs(call.given, call.stdin)
    BY DEF CallInv, LetThrough, Planned, Chosen
  <2>2. plan.content = StdinMode(call.given)
    BY <2>1 DEF PlanCliInputs
  <2>3. StdinMode(call.given) \in BOOLEAN
    BY DEF StdinMode
  <2> QED BY <2>2, <2>3
<1>4. call \in ParsedCalls /\ around \in Surroundings
  BY CallsAssumption DEF CallInv, Sound
<1>5. ~({"--diff", "--apply"} \subseteq call.given)
  BY DEF CallInv, LetThrough, Planned, Chosen, Refused, CombinationRefused
<1>6. call.command = "dump" => options = NoOptions
  BY <1>1 DEF OptionsOf
<1>7. call.command # "dump" => options = BuildRunOptions(call.command, call.given, plan.content, around.strategy)
  BY <1>1, <1>3 DEF OptionsOf
<1>8. CASE call.command = "dump"
  BY <1>2, <1>3, <1>6, <1>8 DEF NoOptions, Sink
<1>9. CASE call.command # "dump"
  BY <1>2, <1>3, <1>4, <1>5, <1>7, <1>9, RunOptionsTell DEF Surroundings
<1> QED BY <1>8, <1>9

LEMMA ValidateKeeps ==
  ASSUME CallInv, Validate
  PROVE  CallInv'
<1>1. stage = "validate" /\ Chosen /\ out = <<>>
  BY DEF Validate, Chosen, CallInv, SoFar
<1>2. UNCHANGED <<call, around, cli, plan, options, copied, heard, told, put>>
  BY DEF Validate
<1>3. PICK v \in {"clean", "noted", "invalid"} :
        /\ verdict' = v
        /\ IF v = "invalid" /\ call.command # "dump"
           THEN /\ End("CONFIG_ERROR")
                /\ IF Machine THEN Console(<<"document">>)
                   ELSE LET told2 == When(Speaks, "diagnostics") IN
                        IF cli.console = "stdout" THEN out' = out \o told2 /\ err' = Append(err, "error")
                        ELSE err' = err \o <<"error">> \o told2 /\ out' = out
           ELSE /\ Go(IF call.command = "dump" THEN "dump" ELSE "select")
                /\ Console(When(Diagnosed(v), "diagnostics"))
  BY DEF Validate
<1>4. Sound' /\ LetThrough'
  BY <1>1, <1>2, <1>3 DEF CallInv, Sound, LetThrough, Planned, Runs, End, Go, Chosen
<1>5. SetUp'
  BY <1>1, <1>2, <1>3 DEF CallInv, SetUp, Runs, End, Go, Chosen
<1>6. CASE v = "invalid" /\ call.command # "dump"
  <2>1. stage' = "end" /\ exit' = "CONFIG_ERROR" /\ Runs'
    BY <1>3, <1>6 DEF End, Runs
  <2>2. SoFar'
    BY <1>1, <1>2, <2>1 DEF CallInv, SoFar, Planned, Chosen, Runs
  <2>3. CASE Machine
    <3>1. cli.console = "stdout" => out' = <<"document">>
      BY <1>1, <1>3, <1>6, <2>3 DEF Console
    <3> QED BY <1>2, <1>3, <1>4, <1>5, <1>6, <2>2, <2>3, <3>1, AtWork, <1>1
            DEF CallInv, StdoutIsForOnePayload, Muddled, Machine
  <2>4. CASE ~Machine
    <3>1. cli.console = "stderr" => out' = <<>>
      BY <1>1, <1>3, <1>6, <2>4
    <3>2. options.diff \/ (options.apply /\ Sink(options) = "stdout") => cli.console = "stderr"
      BY <1>1, AtWork DEF StdoutReserved
    <3> QED BY <1>2, <1>4, <1>5, <2>2, <2>4, <3>1, <3>2 DEF CallInv, StdoutIsForOnePayload, Machine
  <2> QED BY <2>3, <2>4
<1>7. CASE ~(v = "invalid" /\ call.command # "dump")
  <2>1. stage' = (IF call.command = "dump" THEN "dump" ELSE "select") /\ ~Runs'
    BY <1>3, <1>7 DEF Go, Runs
  <2>2. Machine \/ cli.console = "stderr" => out' = <<>>
    <3>1. Machine => ~Diagnosed(v)
      BY DEF Machine, IsMachineFormat, Diagnosed
    <3> QED BY <1>1, <1>3, <1>7, <3>1 DEF Console, When
  <2>3. SoFar'
    BY <1>1, <1>2, <2>1, <2>2 DEF CallInv, SoFar, Planned, Chosen, Runs, Machine
  <2> QED BY <1>4, <1>5, <2>1, <2>3 DEF CallInv, StdoutIsForOnePayload
<1> QED BY <1>6, <1>7

LEMMA DumpConfigKeeps ==
  ASSUME CallInv, DumpConfig
  PROVE  CallInv'
<1>1. stage = "dump" /\ Chosen /\ call.command = "dump"
  BY DEF DumpConfig, Chosen, CallInv, SetUp
<1>2. /\ UNCHANGED <<call, around, cli, plan, options, copied, heard, told, put>>
      /\ stage' = "end" /\ exit' = "SUCCESS"
  BY DEF DumpConfig, End, untouched
<1>3. Sound' /\ LetThrough' /\ SetUp' /\ SoFar'
  BY <1>1, <1>2 DEF CallInv, Sound, LetThrough, SetUp, SoFar, Planned, Chosen, Runs
<1>4. options = NoOptions /\ cli.console = "stdout"
  BY <1>1, AtWork DEF StdoutReserved, NoOptions
<1>5. Machine => out' = <<"document">>
  <2>1. Machine => out = <<>>
    BY <1>1 DEF CallInv, SoFar
  <2> QED BY <1>4, <2>1 DEF DumpConfig, Console
<1>6. StdoutIsForOnePayload'
  BY <1>2, <1>4, <1>5 DEF StdoutIsForOnePayload, Machine, NoOptions
<1> QED BY <1>3, <1>6 DEF CallInv

LEMMA SelectFilesKeeps ==
  ASSUME CallInv, ErrIsText, SelectFiles
  PROVE  CallInv'
<1>1. stage = "select" /\ Chosen /\ call.command # "dump"
  BY DEF SelectFiles, Chosen, CallInv, SetUp
<1>2. UNCHANGED <<call, around, cli, plan, options, copied, heard, told, put>>
  BY DEF SelectFiles, untouched
<1>3. CASE Go("process") /\ UNCHANGED <<out, err>>
  BY <1>1, <1>2, <1>3 DEF CallInv, Sound, LetThrough, SetUp, SoFar, StdoutIsForOnePayload, Planned,
     Chosen, Runs, Go, Machine
<1>4. CASE Console(<<"notice">>) /\ End("SUCCESS")
  <2>1. stage' = "end" /\ exit' = "SUCCESS"
    BY <1>4 DEF End
  <2>2. Sound' /\ LetThrough' /\ SetUp' /\ SoFar'
    BY <1>1, <1>2, <2>1 DEF CallInv, Sound, LetThrough, SetUp, SoFar, Planned, Chosen, Runs
  <2>3. Machine /\ cli.console = "stdout" => out' = <<"notice">>
    BY <1>1, <1>4 DEF CallInv, SoFar, Console
  <2>4. cli.console # "stdout" => out' = <<>> /\ err' = err \o <<"notice">>
    BY <1>1, <1>4, AtWork DEF CallInv, SoFar, Console
  <2>5. options.diff \/ (options.apply /\ Sink(options) = "stdout") => cli.console # "stdout"
    BY <1>1, AtWork DEF StdoutReserved
  <2>6. cli.console # "stdout" => Muddled'
    <3>1. ASSUME cli.console # "stdout"
          PROVE  err' # <<>> /\ err'[Len(err')] = "notice"
      BY <2>4, <3>1
    <3> QED BY <3>1 DEF Muddled
  <2>7. StdoutIsForOnePayload'
    BY <1>2, <2>3, <2>4, <2>5, <2>6 DEF StdoutIsForOnePayload, Machine, Muddled
  <2> QED BY <2>2, <2>7 DEF CallInv
<1> QED BY <1>3, <1>4 DEF SelectFiles

LEMMA ProcessKeeps ==
  ASSUME CallInv, Process
  PROVE  CallInv'
<1>1. stage = "process" /\ Chosen /\ call.command # "dump" /\ put = "nowhere"
  BY DEF Process, Chosen, CallInv, SetUp, SoFar
<1>2. UNCHANGED <<call, around, cli, plan, options, verdict, heard, told>> /\ stage' = "end"
  BY DEF Process, End
<1>3. PICK o \in Outcomes :
        LET wrote == options.apply /\ o.change
            content == When(wrote /\ Sink(options) = "stdout", "content")
            human == Rendered(o.change)
        IN  /\ put' = IF wrote THEN Sink(options) ELSE put
            /\ IF Machine THEN out' = out \o content \o Document /\ err' = err
               ELSE IF cli.console = "stdout"
                    THEN out' = out \o content \o human.stdout \o human.console /\ err' = err
                    ELSE out' = out \o content \o human.stdout /\ err' = err \o human.console
            /\ End(Ending(o).code) /\ copied' = Ending(o).left
  BY DEF Process
<1> DEFINE wrote == options.apply /\ o.change
           content == When(wrote /\ Sink(options) = "stdout", "content")
           diffs == When(options.diff /\ o.change, "diffs")
<1>4. /\ put' = IF wrote THEN Sink(options) ELSE "nowhere"
      /\ Machine => out' = out \o content \o <<"document">>
      /\ ~Machine /\ cli.console # "stdout" => out' = out \o content \o diffs
  BY <1>1, <1>3 DEF Rendered, Document
<1>5. Runs'
  <2>1. Ending(o).code \in {"SUCCESS", "FILE_NOT_FOUND", "IO_ERROR", "UNSUPPORTED_FILE_TYPE", "WOULD_CHANGE"}
    BY DEF Ending, Outcomes
  <2>2. exit' = Ending(o).code
    BY <1>3 DEF End
  <2> QED BY <1>2, <2>1, <2>2 DEF Runs
<1>6. Sound' /\ LetThrough' /\ SetUp'
  BY <1>1, <1>2, <1>5 DEF CallInv, Sound, LetThrough, SetUp, Planned, Chosen
<1>7. SoFar'
  BY <1>1, <1>2, <1>4, <1>5 DEF CallInv, SoFar, Planned, Chosen
<1>8. Machine \/ cli.console = "stderr" => out = <<>>
  BY <1>1 DEF CallInv, SoFar
<1>9. StdoutIsForOnePayload'
  <2>1. CASE Machine
    <3>1. CASE wrote /\ Sink(options) = "stdout"
      <4>1. put' = "stdout"
        BY <1>4, <3>1
      <4> QED BY <1>2, <2>1, <4>1 DEF StdoutIsForOnePayload, Muddled, Machine
    <3>2. CASE ~(wrote /\ Sink(options) = "stdout")
      <4>1. content = <<>>
        BY <3>2 DEF When
      <4>2. out' = <<"document">>
        BY <1>4, <1>8, <2>1, <4>1
      <4> QED BY <1>2, <2>1, <4>2 DEF StdoutIsForOnePayload, Machine
    <3> QED BY <3>1, <3>2
  <2>2. CASE ~Machine /\ cli.console = "stdout"
    BY <1>1, <1>2, <2>2, AtWork DEF StdoutIsForOnePayload, Machine, StdoutReserved
  <2>3. CASE ~Machine /\ cli.console # "stdout"
    <3>1. out' = <<>> \o content \o diffs
      BY <1>1, <1>4, <1>8, <2>3, AtWork
    <3>2. ~(options.diff /\ options.apply)
      BY <1>1, AtWork
    <3>3. options.diff => content = <<>> /\ diffs \in {<<>>, <<"diffs">>}
      BY <3>2 DEF When
    <3>4. options.apply => diffs = <<>> /\ content \in {<<>>, <<"content">>}
      BY <3>2 DEF When
    <3>5. options.diff => out' \in {<<>>, <<"diffs">>}
      <4> HIDE DEF content, diffs
      <4> QED BY <3>1, <3>3
    <3>6. options.apply => out' \in {<<>>, <<"content">>}
      <4> HIDE DEF content, diffs
      <4> QED BY <3>1, <3>4
    <3> QED BY <1>2, <2>3, <3>5, <3>6 DEF StdoutIsForOnePayload, Machine
  <2>4. QED BY <2>1, <2>2, <2>3
<1> QED BY <1>6, <1>7, <1>9 DEF CallInv

-----------------------------------------------------------------------------
LEMMA CallKeeps ==
  ASSUME CallInv, ErrIsText, [CommandNext]_lineVars
  PROVE  CallInv' /\ ErrIsText'
<1>1. CASE UNCHANGED lineVars
  BY <1>1 DEF CallInv, ErrIsText, Sound, LetThrough, SetUp, SoFar, StdoutIsForOnePayload, Planned, Chosen,
     Runs, Machine, Muddled, lineVars
<1>2. CASE CommandNext
  <2>1. ErrIsText'
    BY <1>2, ErrStaysText
  <2>2. CallInv'
    BY <1>2, ParseKeeps, InitCommonStateKeeps, CheckOptionsKeeps, PlanInputsKeeps, ConfigureKeeps,
       ValidateKeeps, DumpConfigKeeps, SelectFilesKeeps, ProcessKeeps DEF CommandNext
  <2> QED BY <2>1, <2>2
<1> QED BY <1>1, <1>2

LEMMA CallInvHolds ==
  CommandSpec => []CallInv
<1>1. CommandInit => CallInv /\ ErrIsText
  <2>1. CommandInit => ErrIsText
    BY DEF CommandInit, ErrIsText
  <2> QED BY <2>1, CallBegins
<1>2. CallInv /\ ErrIsText /\ [CommandNext]_lineVars => CallInv' /\ ErrIsText'
  BY CallKeeps
<1> QED BY <1>1, <1>2, PTL DEF CommandSpec

\* Whatever a call is given, standard output carries one payload.
THEOREM OnePayload ==
  CommandSpec => []StdoutIsForOnePayload
<1>1. CallInv => StdoutIsForOnePayload
  BY DEF CallInv
<1> QED BY <1>1, CallInvHolds, PTL

-----------------------------------------------------------------------------
(* What an option makes a difference to.                                   *)

\* Where a call reads what is to be processed, and by what it is filtered.
Origin(c) == IF StdinMode(c.given) THEN {"copy"}
             ELSE PlanCliInputs(c.given, c.stdin).paths \cup (c.given \cap {"--files-from"})
FiltersOf(c) == IF StdinMode(c.given) THEN {} ELSE PlanCliInputs(c.given, c.stdin).filters

RunOf(c, s) == BuildRunOptions(c.command, c.given, StdinMode(c.given), s.strategy)
Target(c, s) == IF RunOf(c, s).apply THEN Sink(RunOf(c, s)) ELSE "nowhere"

ReportOf(given) ==
  given \cap (IF IsMachineFormat(Format(given)) THEN {"--summary"}
              ELSE IF "--summary" \in given THEN {"--summary"} ELSE {"--report"})
ConfigOf(given) ==
  given \cap (ConfigOptions \cup TypeOptions \cup LayoutOptions \cup LayerOptions \cup {"--strict"})

Without(c, o) == [c EXCEPT !.given = @ \ {o}]
Idle(c, o) == \A s \in Surroundings : Aim(c, s) = Aim(Without(c, o), s)

LEMMA AimTells ==
  ASSUME NEW c, NEW s, ~Refused(c)
  PROVE  Aim(c, s) = [refused |-> FALSE, state |-> CommonState(c.given, s.terminal),
                      content |-> StdinMode(c.given), from |-> Origin(c), filters |-> FiltersOf(c),
                      diff |-> RunOf(c, s).diff, sink |-> Target(c, s), report |-> ReportOf(c.given),
                      config |-> ConfigOf(c.given)]
<1>1. /\ PlanCliInputs(c.given, c.stdin).content = StdinMode(c.given)
      /\ PlanCliInputs(c.given, c.stdin).from = c.given \cap {"--files-from"}
  BY DEF PlanCliInputs
<1>2. CommonState(c.given, s.terminal).format = Format(c.given)
  BY DEF CommonState
<1> QED BY <1>1, <1>2 DEF Aim, Origin, FiltersOf, RunOf, Target, ReportOf, ConfigOf

\* Of a call and the same call without an option that makes no difference.
LEMMA IdleMeans ==
  ASSUME NEW c \in ParsedCalls, NEW o, ~Refused(c), Idle(c, o), NEW d, d = Without(c, o)
  PROVE  /\ ~Refused(d) /\ d.command = c.command /\ d.stdin = c.stdin /\ d.given = c.given \ {o}
         /\ ReportOf(d.given) = ReportOf(c.given) /\ ConfigOf(d.given) = ConfigOf(c.given)
         /\ StdinMode(d.given) = StdinMode(c.given)
         /\ Origin(d) = Origin(c) /\ FiltersOf(d) = FiltersOf(c)
         /\ \A s \in Surroundings : /\ CommonState(d.given, s.terminal) = CommonState(c.given, s.terminal)
                              /\ RunOf(d, s).diff = RunOf(c, s).diff /\ Target(d, s) = Target(c, s)
<1>1. d.command = c.command /\ d.stdin = c.stdin /\ d.given = c.given \ {o}
  BY DEF Without, ParsedCalls
<1>2. \A s \in Surroundings : Aim(d, s) = Aim(c, s)
  BY DEF Idle
<1>3. PICK s \in Surroundings : s = [terminal |-> TRUE, strategy |-> "none"]
  BY DEF Surroundings
<1>4. ~Refused(d)
  <2>1. Aim(c, s).refused = FALSE
    BY AimTells
  <2>2. Refused(d) => Aim(d, s).refused = TRUE
    BY DEF Aim
  <2> QED BY <1>2, <2>1, <2>2
<1>5. ASSUME NEW q \in Surroundings
      PROVE  /\ ReportOf(d.given) = ReportOf(c.given) /\ ConfigOf(d.given) = ConfigOf(c.given)
             /\ StdinMode(d.given) = StdinMode(c.given)
             /\ Origin(d) = Origin(c) /\ FiltersOf(d) = FiltersOf(c)
             /\ CommonState(d.given, q.terminal) = CommonState(c.given, q.terminal)
             /\ RunOf(d, q).diff = RunOf(c, q).diff /\ Target(d, q) = Target(c, q)
  <2>1. Aim(c, q) = Aim(d, q)
    BY <1>2
  <2>2. /\ Aim(c, q).report = ReportOf(c.given) /\ Aim(c, q).config = ConfigOf(c.given)
        /\ Aim(c, q).content = StdinMode(c.given) /\ Aim(c, q).from = Origin(c)
        /\ Aim(c, q).filters = FiltersOf(c) /\ Aim(c, q).state = CommonState(c.given, q.terminal)
        /\ Aim(c, q).diff = RunOf(c, q).diff /\ Aim(c, q).sink = Target(c, q)
    BY AimTells
  <2>3. /\ Aim(d, q).report = ReportOf(d.given) /\ Aim(d, q).config = ConfigOf(d.given)
        /\ Aim(d, q).content = StdinMode(d.given) /\ Aim(d, q).from = Origin(d)
        /\ Aim(d, q).filters = FiltersOf(d) /\ Aim(d, q).state = CommonState(d.given, q.terminal)
        /\ Aim(d, q).diff = RunOf(d, q).diff /\ Aim(d, q).sink = Target(d, q)
    BY <1>4, AimTells
  <2> QED BY <2>1, <2>2, <2>3
<1> QED BY <1>1, <1>3, <1>4, <1>5

\* The options of the output's format and appearance.
LEMMA LooksCount ==
  ASSUME NEW c \in ParsedCalls, NEW o \in c.given, ~Refused(c), Idle(c, o),
         o \in ColorOptions \cup TextOptions \cup FormatOptions
  PROVE  \/ o \in Announced(c.given)
         \/ o \in TextOptions \cup {"--no-color"} /\ Format(c.given) # "text"
         \/ o = "--color=always" /\ "--no-color" \in c.given
<1> DEFINE d == Without(c, o)
<1>1. /\ d.given = c.given \ {o} /\ ~Refused(d)
      /\ \A s \in Surroundings : CommonState(d.given, s.terminal) = CommonState(c.given, s.terminal)
  BY IdleMeans
<1>2. /\ [terminal |-> TRUE, strategy |-> "none"] \in Surroundings
      /\ [terminal |-> FALSE, strategy |-> "none"] \in Surroundings
  BY DEF Surroundings
<1> HIDE DEF d
<1>3. \A g, t : /\ CommonState(g, t).format = Format(g)
                /\ CommonState(g, t).color = ResolveColor(g, t)
                /\ CommonState(g, t).verbosity = IF Format(g) = "text" /\ "--verbose" \in g THEN 1 ELSE 0
                /\ CommonState(g, t).quiet = (Format(g) = "text" /\ "--quiet" \in g)
  BY DEF CommonState
<1>4. /\ Format(d.given) = Format(c.given)
      /\ \A s \in Surroundings : ResolveColor(d.given, s.terminal) <=> ResolveColor(c.given, s.terminal)
      /\ Format(c.given) = "text" => ("--verbose" \in d.given <=> "--verbose" \in c.given)
      /\ Format(c.given) = "text" => ("--quiet" \in d.given <=> "--quiet" \in c.given)
  <2>1. PICK s \in Surroundings : s = [terminal |-> TRUE, strategy |-> "none"]
    BY <1>2
  <2>2. CommonState(d.given, s.terminal) = CommonState(c.given, s.terminal)
    BY <1>1
  <2>3. Format(d.given) = Format(c.given)
    BY <1>3, <2>2
  <2>4. \A q \in Surroundings : ResolveColor(d.given, q.terminal) = ResolveColor(c.given, q.terminal)
    BY <1>1, <1>3
  <2>5. (IF Format(c.given) = "text" /\ "--verbose" \in c.given THEN 1 ELSE 0)
          = IF Format(c.given) = "text" /\ "--verbose" \in d.given THEN 1 ELSE 0
    BY <1>3, <2>2, <2>3
  <2>6. (Format(c.given) = "text" /\ "--quiet" \in c.given) = (Format(c.given) = "text" /\ "--quiet" \in d.given)
    BY <1>3, <2>2, <2>3
  <2> QED BY <2>3, <2>4, <2>5, <2>6
<1>a. /\ ResolveColor(d.given, TRUE) <=> ResolveColor(c.given, TRUE)
      /\ ResolveColor(d.given, FALSE) <=> ResolveColor(c.given, FALSE)
  <2> DEFINE bright == [terminal |-> TRUE, strategy |-> "none"]
             dull == [terminal |-> FALSE, strategy |-> "none"]
  <2>1. /\ ResolveColor(d.given, bright.terminal) <=> ResolveColor(c.given, bright.terminal)
        /\ ResolveColor(d.given, dull.terminal) <=> ResolveColor(c.given, dull.terminal)
    <3> HIDE DEF bright, dull
    <3>1. bright \in Surroundings /\ dull \in Surroundings
      BY <1>2 DEF bright, dull
    <3> QED BY <1>4, <3>1
  <2>2. bright.terminal = TRUE /\ dull.terminal = FALSE
    OBVIOUS
  <2> QED BY <2>1, <2>2 DEF ResolveColor
<1>5. CASE o = "json"
  BY <1>1, <1>4, <1>5 DEF Format
<1>6. CASE o = "markdown"
  <2>1. "json" \notin c.given
    BY <1>6 DEF ParsedCalls, FormatOptions
  <2> QED BY <1>1, <1>4, <1>6, <2>1 DEF Format
<1>7. CASE o \in TextOptions
  BY <1>1, <1>4, <1>7 DEF TextOptions
<1>8. CASE o = "--color=always"
  BY <1>1, <1>4, <1>a, <1>8 DEF ResolveColor, Announced
<1>9. CASE o = "--no-color"
  BY <1>1, <1>4, <1>a, <1>9 DEF ResolveColor
<1> QED BY <1>5, <1>6, <1>7, <1>8, <1>9 DEF ColorOptions, FormatOptions

\* The options of policies, of the report and of the configuration.
LEMMA SettingsCount ==
  ASSUME NEW c \in ParsedCalls, NEW o \in c.given, ~Refused(c), Idle(c, o),
         o \in PolicyOptions \cup ReportOptions \cup ConfigOptions \cup TypeOptions \cup LayoutOptions
                 \cup LayerOptions \cup {"--strict"}
  PROVE  o \in Announced(c.given)
<1> DEFINE d == Without(c, o)
<1>1. PICK s \in Surroundings : s = [terminal |-> TRUE, strategy |-> "none"]
  BY DEF Surroundings
<1>2. /\ d.given = c.given \ {o} /\ d.command = c.command /\ StdinMode(d.given) = StdinMode(c.given)
      /\ ReportOf(d.given) = ReportOf(c.given) /\ ConfigOf(d.given) = ConfigOf(c.given)
      /\ CommonState(d.given, s.terminal) = CommonState(c.given, s.terminal)
      /\ RunOf(d, s).diff = RunOf(c, s).diff
  BY IdleMeans
<1> HIDE DEF d
<1>3. \A g, t : CommonState(g, t).policy = g \cap PolicyOptions /\ CommonState(g, t).format = Format(g)
  BY DEF CommonState
<1>4. Format(d.given) = Format(c.given) /\ d.given \cap PolicyOptions = c.given \cap PolicyOptions
  BY <1>2, <1>3
<1>5. CASE o \in PolicyOptions
  BY <1>2, <1>4, <1>5
<1>6. CASE o \in ConfigOptions \cup TypeOptions \cup LayoutOptions \cup LayerOptions \cup {"--strict"}
  BY <1>2, <1>6 DEF ConfigOf
<1>7. CASE o = "--diff"
  <2>1. (RunOf(c, s).diff <=> "--diff" \in c.given) /\ (RunOf(d, s).diff <=> "--diff" \in d.given)
    <3>1. \A e : StdinMode(e) \in BOOLEAN
      BY DEF StdinMode
    <3> QED BY <3>1, RunOptionsTell DEF RunOf, Surroundings
  <2> QED BY <1>2, <1>7, <2>1
<1>8. CASE o = "--summary"
  BY <1>2, <1>8 DEF ReportOf
<1>9. CASE o = "--report"
  <2>1. CASE IsMachineFormat(Format(c.given)) \/ "--summary" \in c.given
    BY <1>9, <2>1 DEF Announced
  <2>2. CASE ~IsMachineFormat(Format(c.given)) /\ "--summary" \notin c.given
    BY <1>2, <1>4, <1>9, <2>2 DEF ReportOf
  <2> QED BY <2>1, <2>2
<1> QED BY <1>5, <1>6, <1>7, <1>8, <1>9 DEF ReportOptions

\* What is read.
LEMMA InputsCount ==
  ASSUME NEW c \in ParsedCalls, NEW o \in c.given, ~Refused(c), Idle(c, o),
         o \in ListOptions \cup FilterOptions \cup {"PATH", "-", "--stdin-filename"}
  PROVE  \/ o = "--stdin-filename" /\ ~StdinMode(c.given)
         \/ o \in ListOptions \cup FilterOptions /\ StdinMode(c.given)
         \/ o \in ReadsList /\ c.stdin = "empty"
<1> DEFINE d == Without(c, o)
<1>1. /\ d.given = c.given \ {o} /\ d.command = c.command /\ d.stdin = c.stdin /\ ~Refused(d)
      /\ StdinMode(d.given) = StdinMode(c.given)
      /\ Origin(d) = Origin(c) /\ FiltersOf(d) = FiltersOf(c)
  BY IdleMeans
<1> HIDE DEF d
<1>2. "-" \in c.given => StdinMode(c.given)
  BY DEF Refused, PlanRefused
<1>3. StdinMode(d.given) => "--stdin-filename" \in d.given
  BY <1>1 DEF Refused, PlanRefused
<1>4. o \in ReadsList => c.stdin # "terminal"
  BY DEF Refused, CombinationRefused
<1>5. c.stdin \in {"terminal", "empty", "text"}
  BY DEF ParsedCalls
<1>6. CASE o = "-"
  BY <1>1, <1>2, <1>6 DEF StdinMode
<1>7. CASE o = "--stdin-filename"
  BY <1>1, <1>3, <1>7
<1>8. CASE o # "-" /\ o # "--stdin-filename" /\ ~StdinMode(c.given)
  <2> DEFINE listed(g) == {l \in g \cap ReadsList : c.stdin = "text"}
  <2>1. /\ Origin(c) = (c.given \cap {"PATH"}) \cup (listed(c.given) \cap ListOptions) \cup (c.given \cap {"--files-from"})
        /\ FiltersOf(c) = (c.given \cap {"--include"}) \cup (listed(c.given) \cap FilterOptions)
    BY <1>8 DEF Origin, FiltersOf, PlanCliInputs
  <2>2. /\ Origin(d) = (d.given \cap {"PATH"}) \cup (listed(d.given) \cap ListOptions) \cup (d.given \cap {"--files-from"})
        /\ FiltersOf(d) = (d.given \cap {"--include"}) \cup (listed(d.given) \cap FilterOptions)
    BY <1>1, <1>8 DEF Origin, FiltersOf, PlanCliInputs
  <2>3. /\ Origin(d) = Origin(c) /\ FiltersOf(d) = FiltersOf(c)
    BY <1>1
  <2>4. CASE o = "PATH" \/ o = "--files-from"
    BY <1>1, <2>1, <2>2, <2>3, <2>4 DEF ListOptions
  <2>5. CASE o = "--include"
    BY <1>1, <2>1, <2>2, <2>3, <2>5 DEF FilterOptions, ReadsList
  <2>6. CASE o = "--files-from -"
    BY <1>1, <1>4, <1>5, <2>1, <2>2, <2>3, <2>6 DEF ListOptions, ReadsList
  <2>7. CASE o \in {"--include-from -", "--exclude-from -"}
    BY <1>1, <1>4, <1>5, <2>1, <2>2, <2>3, <2>7 DEF FilterOptions, ReadsList
  <2> QED BY <1>8, <2>4, <2>5, <2>6, <2>7 DEF ListOptions, FilterOptions
<1>9. CASE o # "-" /\ o # "--stdin-filename" /\ StdinMode(c.given)
  <2>1. o # "PATH"
    BY <1>9 DEF StdinMode
  <2> QED BY <1>9, <2>1
<1> QED BY <1>6, <1>7, <1>8, <1>9

\* Where the content of changed files goes.
LEMMA WritingCounts ==
  ASSUME NEW c \in ParsedCalls, NEW o \in c.given, ~Refused(c), Idle(c, o), o \in WriteOptions
  PROVE  o # "--apply" /\ ("--apply" \notin c.given \/ StdinMode(c.given))
<1> DEFINE d == Without(c, o)
<1> DEFINE at(strategy) == [terminal |-> TRUE, strategy |-> strategy]
<1>1. /\ d.given = c.given \ {o} /\ d.command = c.command /\ StdinMode(d.given) = StdinMode(c.given)
      /\ \A s \in Surroundings : Target(d, s) = Target(c, s)
  BY IdleMeans
<1>2. at("none") \in Surroundings /\ at("inplace") \in Surroundings
  BY DEF Surroundings
<1>3. Target(d, at("none")) = Target(c, at("none")) /\ Target(d, at("inplace")) = Target(c, at("inplace"))
  BY <1>1, <1>2
<1> HIDE DEF d
<1>4. ASSUME NEW e, NEW s \in Surroundings
      PROVE  /\ Target(e, s) = "nowhere" <=> "--apply" \notin e.given
             /\ "--apply" \in e.given /\ ~StdinMode(e.given) =>
                  Target(e, s) =
                    IF "--write-mode=stdout" \in e.given THEN "stdout"
                    ELSE IF "--write-mode=atomic" \in e.given THEN "atomic"
                    ELSE IF "--write-mode=inplace" \in e.given \/ s.strategy = "inplace" THEN "inplace"
                    ELSE "atomic"
  <2>1. StdinMode(e.given) \in BOOLEAN /\ s.strategy \in {"none", "inplace", "atomic"}
    BY DEF StdinMode, Surroundings
  <2>2. /\ RunOf(e, s).apply <=> "--apply" \in e.given
        /\ Sink(RunOf(e, s)) \in {"stdout", "inplace", "atomic"}
    BY <2>1, RunOptionsTell DEF RunOf
  <2>3. Target(e, s) = IF "--apply" \in e.given THEN Sink(RunOf(e, s)) ELSE "nowhere"
    BY <2>2 DEF Target
  <2>4. ASSUME "--apply" \in e.given, ~StdinMode(e.given)
        PROVE  Sink(RunOf(e, s)) =
                    IF "--write-mode=stdout" \in e.given THEN "stdout"
                    ELSE IF "--write-mode=atomic" \in e.given THEN "atomic"
                    ELSE IF "--write-mode=inplace" \in e.given \/ s.strategy = "inplace" THEN "inplace"
                    ELSE "atomic"
    BY <2>1, <2>4 DEF RunOf, BuildRunOptions, SelectPipeline, ApplyResolvedWriterOptions, Sink
  <2> QED BY <2>2, <2>3, <2>4
<1>5. CASE o = "--apply"
  BY <1>1, <1>2, <1>3, <1>4, <1>5
<1>6. CASE o # "--apply" /\ "--apply" \in c.given /\ ~StdinMode(c.given)
  <2>1. \A m \in WriteModes : m \in d.given => FALSE
    BY <1>1, <1>6 DEF ParsedCalls, WriteModes, WriteOptions
  <2>2. "--apply" \in d.given /\ ~StdinMode(d.given)
    BY <1>1, <1>6
  <2>3. /\ Target(d, at("none")) = "atomic" /\ Target(d, at("inplace")) = "inplace"
    BY <1>2, <1>4, <2>1, <2>2 DEF WriteModes
  <2>4. Target(c, at("none")) = "atomic" /\ Target(c, at("inplace")) = "inplace"
    BY <1>3, <2>3
  <2>5. /\ "--write-mode=stdout" \in c.given => Target(c, at("none")) = "stdout"
        /\ o = "--write-mode=atomic" /\ "--write-mode=stdout" \notin c.given => Target(c, at("inplace")) = "atomic"
        /\ o = "--write-mode=inplace" /\ "--write-mode=stdout" \notin c.given /\ "--write-mode=atomic" \notin c.given
             => Target(c, at("none")) = "inplace"
    BY <1>2, <1>4, <1>6
  <2>6. \A m \in WriteModes : m \in c.given => m = o
    BY <1>6 DEF ParsedCalls, WriteModes, WriteOptions
  <2> QED BY <1>6, <2>4, <2>5, <2>6 DEF WriteOptions, WriteModes
<1> QED BY <1>5, <1>6

-----------------------------------------------------------------------------
LEMMA AllAccepted ==
  ASSUME NEW command \in Commands
  PROVE  Accepted(command) \subseteq
           ColorOptions \cup TextOptions \cup FormatOptions \cup ConfigOptions \cup ListOptions
             \cup FilterOptions \cup TypeOptions \cup {"PATH", "-", "--stdin-filename", "--strict"}
             \cup PolicyOptions \cup WriteOptions \cup ReportOptions \cup LayoutOptions \cup LayerOptions
<1>1. CASE command = "probe"
  BY <1>1 DEF Accepted, CommonOptions, RunArguments, PolicyOptions
<1>2. CASE command = "strip"
  BY <1>2 DEF Accepted, CommonOptions, RunArguments, PolicyOptions
<1>3. CASE command = "check"
  BY <1>3 DEF Accepted, CommonOptions, RunArguments, PolicyOptions
<1>4. CASE command = "dump"
  BY <1>4 DEF Accepted, CommonOptions, RunArguments, PolicyOptions
<1> QED BY <1>1, <1>2, <1>3, <1>4 DEF Commands

\* Of a call that is not refused, every option counts, is announced or is known to be dropped.
LEMMA EveryOptionCounts ==
  ASSUME NEW c \in ParsedCalls, NEW o \in c.given, ~Refused(c), Idle(c, o)
  PROVE  \/ o \in Announced(c.given)
         \/ o \in TextOptions \cup {"--no-color"} /\ Format(c.given) # "text"
         \/ o = "--color=always" /\ "--no-color" \in c.given
         \/ o \in WriteOptions \ {"--apply"} /\ ("--apply" \notin c.given \/ StdinMode(c.given))
         \/ o = "--stdin-filename" /\ ~StdinMode(c.given)
         \/ o \in ListOptions \cup FilterOptions /\ StdinMode(c.given)
         \/ o \in ReadsList /\ c.stdin = "empty"
<1>1. c.command \in Commands /\ o \in Accepted(c.command)
  BY DEF ParsedCalls, Refused
<1>2. CASE o \in ColorOptions \cup TextOptions \cup FormatOptions
  BY <1>2, LooksCount
<1>3. CASE o \in PolicyOptions \cup ReportOptions \cup ConfigOptions \cup TypeOptions \cup LayoutOptions
                   \cup LayerOptions \cup {"--strict"}
  BY <1>3, SettingsCount
<1>4. CASE o \in ListOptions \cup FilterOptions \cup {"PATH", "-", "--stdin-filename"}
  BY <1>4, InputsCount
<1>5. CASE o \in WriteOptions
  BY <1>5, WritingCounts
<1> QED BY <1>1, <1>2, <1>3, <1>4, <1>5, AllAccepted

LEMMA CallInvTells ==
  CallInv => CommandDoesAsTold
<1> SUFFICES ASSUME CallInv, Runs PROVE CommandDoesAsTold
  BY DEF CommandDoesAsTold
<1>1. call \in ParsedCalls /\ around \in Surroundings /\ Chosen /\ Planned
  BY CallsAssumption DEF CallInv, Sound, Chosen, Planned
<1>2. /\ ~Refused(call) /\ told = Announced(call.given) /\ plan.content = StdinMode(call.given)
      /\ heard = Reads(call.given, call.stdin)
  BY <1>1, AtWork DEF CallInv, LetThrough, SoFar
<1>3. ASSUME NEW o \in call.given PROVE Matters(o) \/ o \in told \/ Dropped(o)
  <2>1. ~Matters(o) => Idle(call, o)
    BY DEF Matters, Idle, Without
  <2> QED BY <1>1, <1>2, <2>1, EveryOptionCounts DEF Dropped
<1>4. ASSUME put # "nowhere"
      PROVE  /\ "--apply" \in call.given
             /\ put = "inplace" => \/ "--write-mode=inplace" \in call.given
                                   \/ around.strategy = "inplace" /\ "--write-mode=atomic" \notin call.given
             /\ put = "stdout" <=> plan.content \/ "--write-mode=stdout" \in call.given
  <2>1. options.apply /\ put = Sink(options)
    BY <1>4 DEF CallInv, SoFar
  <2>2. call.command # "dump"
    BY <1>1, <2>1, AtWork DEF NoOptions
  <2>3. options = BuildRunOptions(call.command, call.given, plan.content, around.strategy)
    BY <1>1, <2>2, AtWork
  <2>4. plan.content \in BOOLEAN /\ around.strategy \in {"none", "inplace", "atomic"}
    BY <1>1, AtWork DEF Surroundings
  <2>5. /\ options.apply <=> "--apply" \in call.given
        /\ Sink(options) = "stdout" <=> options.target = "stdout"
        /\ options.target = "stdout" <=> (plan.content /\ "--apply" \in call.given) \/ "--write-mode=stdout" \in call.given
        /\ Sink(options) = "inplace" =>
             \/ "--write-mode=inplace" \in call.given
             \/ around.strategy = "inplace" /\ "--write-mode=atomic" \notin call.given
    BY <2>3, <2>4, RunOptionsTell
  <2> QED BY <2>1, <2>5
<1>5. heard <= 1
  <2>1. Reads(call.given, call.stdin) <= 1
    BY FS_EmptySet DEF Reads
  <2> QED BY <1>2, <2>1
<1>6. put = "inplace" \/ put = "stdout" => put # "nowhere"
  OBVIOUS
<1> QED BY <1>3, <1>4, <1>5, <1>6 DEF CommandDoesAsTold

\* Whatever a call is given, no option of it is lost on the way, what changes goes where the
\* command line or the configuration says, and standard input is read once at most.
THEOREM NoOptionIsLost ==
  CommandSpec => []CommandDoesAsTold
<1>1. CallInv => CommandDoesAsTold
  BY CallInvTells
<1>2. CommandSpec => []CallInv
  BY CallInvHolds
<1> QED BY <1>1, <1>2, PTL

-----------------------------------------------------------------------------
(* What a value is read as. *)

LEMMA PrefixTells ==
    ASSUME NEW S, NEW T, NEW s \in Seq(S), NEW t \in Seq(T)
    PROVE  IsPrefix(s, t) <=> Len(s) <= Len(t) /\ \A i \in 1 .. Len(s) : s[i] = t[i]
<1>1. ASSUME Len(s) <= Len(t)
      PROVE  SubSeq(s, 1, Len(s)) = SubSeq(t, 1, Len(s)) <=> \A i \in 1 .. Len(s) : s[i] = t[i]
  BY <1>1
<1> QED BY <1>1 DEF IsPrefix

LEMMA Literals ==
    ASSUME NEW a, NEW b
    PROVE  /\ Len(<<a>>) = 1 /\ <<a>>[1] = a /\ <<a>> \in Seq({a})
           /\ Len(<<a, b>>) = 2 /\ <<a, b>>[1] = a /\ <<a, b>>[2] = b /\ <<a, b>> \in Seq({a, b})
OBVIOUS

LEMMA StartOfPath ==
    ASSUME NEW t \in Seq(STRING), NEW k \in 1 .. Len(t)
    PROVE  /\ SubSeq(t, 1, k) \in Seq(STRING) /\ Len(SubSeq(t, 1, k)) = k
           /\ \A i \in 1 .. k : SubSeq(t, 1, k)[i] = t[i]
           /\ IsPrefix(SubSeq(t, 1, k), t)
<1>1. /\ SubSeq(t, 1, k) \in Seq(STRING) /\ Len(SubSeq(t, 1, k)) = k
      /\ \A i \in 1 .. k : SubSeq(t, 1, k)[i] = t[i]
  OBVIOUS
<1>2. IsPrefix(SubSeq(t, 1, k), t) <=>
        Len(SubSeq(t, 1, k)) <= Len(t) /\ \A i \in 1 .. Len(SubSeq(t, 1, k)) : SubSeq(t, 1, k)[i] = t[i]
  BY <1>1, PrefixTells
<1> QED BY <1>1, <1>2

LEMMA PickedItems ==
    ASSUME NEW S, NEW s \in Seq(S), NEW I \in SUBSET DOMAIN s
    PROVE  ToSet(Picked(s, I)) = {s[i] : i \in I}
<1>1. PICK at \in [1..Cardinality(I) -> I] :
         /\ \A k \in 1..Cardinality(I) : Picked(s, I)[k] = s[at[k]]
         /\ \A i \in I : \E k \in 1..Cardinality(I) : at[k] = i
  BY PickedInOrder
<1>2. DOMAIN Picked(s, I) = 1..Cardinality(I)
  BY PickedInOrder
<1> QED BY <1>1, <1>2 DEF ToSet

LEMMA DedupedKeepsNames ==
    ASSUME NEW S, NEW names \in Seq(S)
    PROVE  ToSet(Deduped(names)) = ToSet(names)
<1> DEFINE I == {i \in DOMAIN names : \A j \in 1 .. i - 1 : names[j] # names[i]}
<1>1. DOMAIN names = 1 .. Len(names) /\ Len(names) \in Nat
  OBVIOUS
<1>2. ASSUME NEW i \in DOMAIN names PROVE \E j \in I : names[j] = names[i]
  <2> DEFINE same == {j \in 1 .. Len(names) : names[j] = names[i]}
  <2>1. same \in SUBSET Nat /\ same # {}
    BY <1>1
  <2> DEFINE m == Min(same)
  <2>2. m \in same /\ \A y \in same : m <= y
    BY <2>1, LeastOfNumbers
  <2>3. m \in I
    <3> HIDE DEF m
    <3> QED BY <1>1, <2>2
  <2> QED BY <2>2, <2>3
<1>3. ToSet(Picked(names, I)) = {names[i] : i \in I}
  <2>1. I \in SUBSET DOMAIN names
    OBVIOUS
  <2> HIDE DEF I
  <2> QED BY <2>1, PickedItems
<1>4. {names[i] : i \in I} = ToSet(names)
  BY <1>1, <1>2 DEF ToSet
<1> QED BY <1>3, <1>4 DEF Deduped

\* The keys that are asked for.
LEMMA AskedKeys ==
    ASSUME NEW entries, NEW e \in TomlEntry, Asked(e, entries)
    PROVE  /\ Len(e.at) \in {2, 3}
           /\ Len(e.at) = 3 <=> e.at[1] = "policy_by_type"
           /\ Last(e.at) = e.at[Len(e.at)]
           /\ e.at[1] \in LayeredSections
           /\ e.at[1] # "fields" =>
                Last(e.at) \in ChoiceKeys \cup FlagKeys \cup FilesLists \cup TypeLists \cup Groups
                  \cup {"align_fields", "max_header_line_length", "wrap_fields", "relative_to", "fields"}
           /\ e.at[1] = "policy_by_type" => Last(e.at) \in PolicyKeys
           /\ e.at[1] \in {"header", "formatting", "policy", "files"} =>
                Last(e.at) \in AllowedKeys(e.at[1]) \/ Last(e.at) \in Groups
<1>1. e.at \in Seq(STRING)
  BY DEF TomlEntry
<1>2. CASE Len(e.at) = 2 /\ e.at[1] = "fields"
  BY <1>1, <1>2 DEF Last, LayeredSections
<1>3. CASE /\ Len(e.at) = 2 /\ e.at[1] \in {"header", "formatting", "policy", "files"}
           /\ e.at[2] \in AllowedKeys(e.at[1]) \cup (DumpOnlyKeys(e.at[1]) \cap Groups)
  BY <1>1, <1>3 DEF Last, AllowedKeys, PolicyKeys, LayeredSections
<1>4. CASE Len(e.at) = 3 /\ e.at[1] = "policy_by_type" /\ e.at[3] \in PolicyKeys
  BY <1>1, <1>4 DEF Last, LayeredSections, PolicyKeys
<1> QED BY <1>2, <1>3, <1>4 DEF Asked

(* What a getter makes of a value: takes it as it is, refuses it, or takes something of it
   and complains. *)
Taken(got, v) == got.kept = {v.items} /\ got.levels = {}
TurnedDown(got) == got.kept = {} /\ got.levels \in {{"warning"}, {"error"}}

LEMMA PlainGetters ==
    ASSUME NEW v
    PROVE  /\ \A types : IF v.type \in types THEN Taken(OfType(types, v), v) ELSE TurnedDown(OfType(types, v))
           /\ IF v.type = "str" /\ v.items = <<"choice">> THEN Taken(GetChoice(v), v) ELSE TurnedDown(GetChoice(v))
           /\ v.type # "int" => TurnedDown(GetWidth(v))
           /\ Taken(GetWidth(v), v) \/ TurnedDown(GetWidth(v))
<1>1. \A types : IF v.type \in types THEN Taken(OfType(types, v), v) ELSE TurnedDown(OfType(types, v))
  BY DEF OfType, Taken, TurnedDown, NotTaken, Reading
<1>2. IF v.type = "str" /\ v.items = <<"choice">> THEN Taken(GetChoice(v), v) ELSE TurnedDown(GetChoice(v))
  BY DEF GetChoice, Taken, TurnedDown, NotTaken, Reading
<1>3. CASE v.type = "int" /\ v.items = <<"0">>
  <2>1. GetWidth(v) = [kept |-> {}, levels |-> {"error"}]
    BY <1>3 DEF GetWidth, Reading
  <2> QED BY <1>1, <1>2, <1>3, <2>1 DEF TurnedDown
<1>4. CASE ~(v.type = "int" /\ v.items = <<"0">>)
  <2>1. GetWidth(v) = OfType({"int"}, v)
    BY <1>4 DEF GetWidth
  <2> QED BY <1>1, <1>2, <2>1
<1> QED BY <1>3, <1>4

LEMMA ListGetters ==
    ASSUME NEW v, v.items \in Seq(STRING)
    PROVE  /\ "info" \notin GetList(v).levels \cup GetTypes(v).levels \cup GetWrapFields(v).levels
           /\ v.type # "list" =>
                /\ TurnedDown(GetList(v)) /\ TurnedDown(GetTypes(v))
                /\ GetWrapFields(v).levels # {}
           /\ v.items # <<>> =>
                /\ GetList(v).levels = {} => GetList(v).kept = {v.items}
                /\ GetTypes(v).levels = {} => GetTypes(v).kept = {v.items}
           /\ GetWrapFields(v).levels = {} => GetWrapFields(v).kept = {Deduped(v.items)}
<1>1. CASE v.type # "list"
  <2>1. GetList(v) = [kept |-> {}, levels |-> {"warning"}]
    BY <1>1 DEF GetList, NotTaken, Reading
  <2>2. GetTypes(v).kept = {} /\ GetTypes(v).levels = {"warning"}
    <3> DEFINE more == IF \E l \in GetList(v).kept : ~IsInjective(l) THEN {"warning"} ELSE {}
    <3>1. GetTypes(v) = [GetList(v) EXCEPT !.levels = @ \cup more]
      BY DEF GetTypes
    <3>2. more = {}
      BY <2>1
    <3> HIDE DEF more
    <3> QED BY <2>1, <3>1, <3>2
  <2>3. GetWrapFields(v).levels = {"warning"}
    BY <1>1 DEF GetWrapFields, Reading
  <2> QED BY <1>1, <2>1, <2>2, <2>3 DEF TurnedDown
<1>2. CASE v.type = "list"
  <2> DEFINE texts == TextsIn(v.items)
             names == Picked(texts, {i \in DOMAIN texts : texts[i] # ""})
  <2>1. GetList(v) = [kept |-> IF texts = <<>> THEN {} ELSE {texts},
                      levels |-> IF texts = v.items THEN {} ELSE {"warning"}]
    BY <1>2 DEF GetList, Reading
  <2>2. GetTypes(v).kept = GetList(v).kept /\ GetList(v).levels \subseteq GetTypes(v).levels
        /\ GetTypes(v).levels \subseteq GetList(v).levels \cup {"warning"}
    <3> HIDE DEF texts
    <3> DEFINE more == IF \E l \in GetList(v).kept : ~IsInjective(l) THEN {"warning"} ELSE {}
    <3>1. GetTypes(v) = [GetList(v) EXCEPT !.levels = @ \cup more]
      BY DEF GetTypes
    <3>2. more \subseteq {"warning"}
      OBVIOUS
    <3> HIDE DEF more
    <3> QED BY <2>1, <3>1, <3>2
  <2>3. GetWrapFields(v) = [kept |-> {Deduped(names)},
                            levels |-> (IF texts = v.items THEN {} ELSE {"warning"})
                                         \cup (IF names = texts THEN {} ELSE {"error"})]
    BY <1>2 DEF GetWrapFields, Reading
  <2> HIDE DEF texts, names
  <2>4. GetWrapFields(v).levels = {} => names = v.items
    BY <2>3
  <2> QED BY <1>2, <2>1, <2>2, <2>3, <2>4
<1> QED BY <1>1, <1>2

LEMMA GettersTell ==
    ASSUME NEW entries, NEW e \in TomlEntry, Asked(e, entries),
           e.value.type = "bool" => e.value.items \in {<<"true">>, <<"false">>}
    PROVE  LET got == Getter(e.at, e.value)
               inGroups == e.at[1] # "fields" /\ Last(e.at) \in Groups
           IN  /\ "info" \notin got.levels
               /\ e.value.type = "table" /\ ~inGroups => got.levels # {}
               /\ e.value.type # "list" /\ got.levels # {}
                    /\ Last(e.at) \notin Groups \cup FlagKeys \cup {"wrap_fields"} => got.kept = {}
               /\ \/ e.value.type = "table" \/ e.value.items = <<>> \/ got.levels # {} \/ inGroups
                  \/ \E k \in got.kept : ToSet(k) = ToSet(e.value.items)
                  \/ Last(e.at) = "relative_to" /\ e.value.items = <<"">>
<1> DEFINE key == Last(e.at)
<1>1. PICK v : v = e.value
  OBVIOUS
<1>2. PICK got : got = Getter(e.at, v)
  OBVIOUS
<1>3. v.type \in STRING /\ v.items \in Seq(STRING) /\ v = [type |-> v.type, items |-> v.items]
  BY <1>1 DEF TomlEntry
<1> DEFINE inGroups == e.at[1] # "fields" /\ key \in Groups
           goal == /\ "info" \notin got.levels
                   /\ v.type = "table" /\ ~inGroups => got.levels # {}
                   /\ v.type # "list" /\ got.levels # {}
                        /\ key \notin Groups \cup FlagKeys \cup {"wrap_fields"} => got.kept = {}
                   /\ \/ v.type = "table" \/ v.items = <<>> \/ got.levels # {} \/ inGroups
                      \/ \E k \in got.kept : ToSet(k) = ToSet(v.items)
                      \/ key = "relative_to" /\ v.items = <<"">>
<1>a. ASSUME Taken(got, v), v.type # "table" PROVE goal
  BY <1>a DEF Taken
<1>b. ASSUME TurnedDown(got) PROVE goal
  <2>1. got.levels # {} /\ "info" \notin got.levels /\ got.kept = {}
    BY <1>b DEF TurnedDown
  <2> QED BY <2>1
<1>4. ASSUME e.at[1] = "fields" PROVE goal
  <2>1. got = OfType({"str", "int", "float", "bool"}, v)
    BY <1>2, <1>4 DEF Getter
  <2> HIDE DEF goal
  <2> QED BY <1>a, <1>b, <2>1, PlainGetters
<1>5. ASSUME e.at[1] # "fields" PROVE goal
  <2> USE <1>2, <1>5
  <2>1. CASE key \in ChoiceKeys
    <3>1. got = GetChoice(v)
      BY <2>1 DEF Getter, ChoiceKeys, FlagKeys, FilesLists, TypeLists, Groups
    <3> HIDE DEF goal
    <3> QED BY <1>a, <1>b, <3>1, PlainGetters
  <2>2. CASE key \in FlagKeys
    <3>1. got = GetPolicyFlag(v)
      BY <2>2 DEF Getter, ChoiceKeys, FlagKeys, FilesLists, TypeLists, Groups
    <3> DEFINE flag == <<IF v.items \in {<<>>, <<"false">>, <<"0">>, <<"">>} THEN "false" ELSE "true">>
    <3>a. got = [kept |-> {flag}, levels |-> IF v.type = "bool" THEN {} ELSE {"warning"}]
      BY <3>1 DEF GetPolicyFlag, Reading
    <3>b. v.items = <<"true">> \/ v.items = <<"false">> => flag = v.items
      <4>1. <<"true">> \notin {<<>>, <<"false">>, <<"0">>, <<"">>}
        OBVIOUS
      <4>2. CASE v.items = <<"true">>
        <5>1. v.items \notin {<<>>, <<"false">>, <<"0">>, <<"">>}
          BY <4>1, <4>2
        <5> QED BY <4>2, <5>1
      <4>3. CASE v.items = <<"false">>
        <5>1. v.items \in {<<>>, <<"false">>, <<"0">>, <<"">>}
          BY <4>3
        <5> QED BY <4>3, <5>1
      <4> QED BY <4>2, <4>3
    <3> HIDE DEF flag
    <3>2. got.levels = IF v.type = "bool" THEN {} ELSE {"warning"}
      BY <3>a
    <3>3. v.type = "bool" => got.kept = {v.items}
      <4>1. v.type = "bool" => v.items = <<"true">> \/ v.items = <<"false">>
        BY <1>1
      <4> QED BY <3>a, <3>b, <4>1
    <3>4. "info" \notin got.levels /\ (v.type # "bool" => got.levels # {})
      BY <3>2
    <3> HIDE DEF flag
    <3>5. v.type # "table" => got.levels # {} \/ \E k \in got.kept : ToSet(k) = ToSet(v.items)
      BY <3>3, <3>4
    <3> QED BY <2>2, <3>4, <3>5
  <2>3. CASE key = "align_fields"
    <3>1. got = OfType({"bool"}, v)
      BY <2>3 DEF Getter, ChoiceKeys, FlagKeys, FilesLists, TypeLists, Groups
    <3> HIDE DEF goal
    <3> QED BY <1>a, <1>b, <3>1, PlainGetters
  <2>4. CASE key = "max_header_line_length"
    <3>1. got = GetWidth(v)
      BY <2>4 DEF Getter, ChoiceKeys, FlagKeys, FilesLists, TypeLists, Groups
    <3> HIDE DEF goal
    <3> QED BY <1>a, <1>b, <3>1, PlainGetters
  <2>5. CASE key = "wrap_fields"
    <3>1. got = GetWrapFields(v)
      BY <2>5 DEF Getter, ChoiceKeys, FlagKeys, FilesLists, TypeLists, Groups
    <3>2. ToSet(Deduped(v.items)) = ToSet(v.items)
      BY <1>3, DedupedKeepsNames
    <3>3. "info" \notin got.levels /\ (v.type # "list" => got.levels # {})
          /\ (got.levels = {} => got.kept = {Deduped(v.items)})
      BY <1>3, <3>1, ListGetters
    <3>4. got.levels # {} \/ \E k \in got.kept : ToSet(k) = ToSet(v.items)
      BY <3>2, <3>3
    <3>5. key \in Groups \cup FlagKeys \cup {"wrap_fields"}
      BY <2>5
    <3>6. v.type = "table" => got.levels # {}
      BY <3>3
    <3>7. v.type # "list" /\ got.levels # {}
            /\ key \notin Groups \cup FlagKeys \cup {"wrap_fields"} => got.kept = {}
      BY <3>5
    <3>8. \/ v.type = "table" \/ v.items = <<>> \/ got.levels # {} \/ inGroups
          \/ \E k \in got.kept : ToSet(k) = ToSet(v.items)
          \/ key = "relative_to" /\ v.items = <<"">>
      BY <3>4
    <3>9. v.type = "table" /\ ~inGroups => got.levels # {}
      BY <3>6
    <3> QED BY <3>3, <3>7, <3>8, <3>9
  <2>6. CASE key = "relative_to"
    <3>1. got = GetRelativeTo(v)
      BY <2>6 DEF Getter, ChoiceKeys, FlagKeys, FilesLists, TypeLists, Groups
    <3>2. CASE v = [type |-> "str", items |-> <<"">>]
      <4>1. got = [kept |-> {}, levels |-> {}] /\ v.items = <<"">> /\ v.type = "str"
        BY <3>1, <3>2 DEF GetRelativeTo, Reading
      <4>2. got.kept = {} /\ got.levels = {} /\ v.type # "table"
        <5>1. got = [kept |-> {}, levels |-> {}] => got.kept = {} /\ got.levels = {}
          OBVIOUS
        <5>2. v.type = "str"
          BY <4>1
        <5> QED BY <4>1, <5>1, <5>2
      <4>3. key = "relative_to" /\ v.items = <<"">>
        BY <2>6, <4>1
      <4> HIDE DEF key, inGroups
      <4> QED BY <4>2, <4>3
    <3>3. CASE v # [type |-> "str", items |-> <<"">>]
      <4>1. got = OfType({"str"}, v)
        BY <3>1, <3>3 DEF GetRelativeTo
      <4> HIDE DEF goal
      <4> QED BY <1>a, <1>b, <4>1, PlainGetters
    <3> QED BY <3>2, <3>3
  <2>7. CASE key \in FilesLists \cup {"fields"}
    <3>1. got = GetList(v)
      BY <2>7 DEF Getter, ChoiceKeys, FlagKeys, FilesLists, TypeLists, Groups
    <3>2. /\ "info" \notin got.levels /\ (v.type # "list" => TurnedDown(got))
          /\ v.items # <<>> /\ got.levels = {} => got.kept = {v.items}
      BY <1>3, <3>1, ListGetters
    <3> QED BY <1>b, <3>2
  <2>8. CASE key \in TypeLists
    <3>1. got = GetTypes(v)
      BY <2>8 DEF Getter, ChoiceKeys, FlagKeys, FilesLists, TypeLists, Groups
    <3>2. /\ "info" \notin got.levels /\ (v.type # "list" => TurnedDown(got))
          /\ v.items # <<>> /\ got.levels = {} => got.kept = {v.items}
      BY <1>3, <3>1, ListGetters
    <3> QED BY <1>b, <3>2
  <2>9. CASE key \in Groups
    <3>1. got = GetGroups(v)
      BY <2>9 DEF Getter, ChoiceKeys, FlagKeys, FilesLists, TypeLists, Groups
    <3>2. got.levels \subseteq {"warning"} /\ (v.type # "list" => got.levels = {} /\ got.kept = {})
      BY <3>1 DEF GetGroups, Reading
    <3> QED BY <2>9, <3>2
  <2> HIDE DEF goal
  <2> QED BY <2>1, <2>2, <2>3, <2>4, <2>5, <2>6, <2>7, <2>8, <2>9, AskedKeys
<1>6. goal
  <2> HIDE DEF goal
  <2> QED BY <1>4, <1>5
<1> QED BY <1>1, <1>2, <1>6

-----------------------------------------------------------------------------
(* Entries and what is above them.                                         *)

LEMMA Above ==
    ASSUME NEW X, OfToml(X), NEW e \in X, NEW k \in 1 .. Len(e.at)
    PROVE  \E p \in X : /\ p.at \in Seq(STRING) /\ Len(p.at) = k
                        /\ \A i \in 1 .. k : p.at[i] = e.at[i]
                        /\ IsPrefix(p.at, e.at)
                        /\ IF k = Len(e.at) THEN p = e ELSE p.value.type = "table"
<1>1. e.at \in Seq(STRING) /\ Len(e.at) \in Nat
  BY DEF OfToml, TomlEntry
<1>2. CASE k = Len(e.at)
  <2>1. IsPrefix(e.at, e.at)
    BY <1>1, PrefixTells
  <2> QED BY <1>1, <1>2, <2>1
<1>3. CASE k # Len(e.at)
  <2>1. PICK p \in X : p.at = SubSeq(e.at, 1, k) /\ p.value.type = "table"
    BY <1>1, <1>3 DEF OfToml
  <2> QED BY <1>1, <1>3, <2>1, StartOfPath
<1> QED BY <1>2, <1>3

\* Paths that begin alike.
LEMMA PrefixOf ==
    ASSUME NEW X, OfToml(X), NEW f \in X, NEW e \in X, IsPrefix(f.at, e.at)
    PROVE  /\ e.at \in Seq(STRING) /\ f.at \in Seq(STRING)
           /\ Len(f.at) \in Nat /\ Len(e.at) \in Nat /\ 1 <= Len(f.at) /\ Len(f.at) <= Len(e.at)
           /\ \A i \in 1 .. Len(f.at) : f.at[i] = e.at[i]
           /\ Len(f.at) = Len(e.at) => f = e
           /\ Len(f.at) < Len(e.at) => f.value.type = "table"
<1>1. /\ e.at \in Seq(STRING) /\ f.at \in Seq(STRING) /\ e.at # <<>> /\ f.at # <<>>
  BY DEF OfToml, TomlEntry
<1>2. Len(f.at) <= Len(e.at) /\ \A i \in 1 .. Len(f.at) : f.at[i] = e.at[i]
  BY <1>1, PrefixTells
<1>3. Len(f.at) \in Nat /\ Len(e.at) \in Nat /\ 1 <= Len(f.at)
  BY <1>1
<1>4. PICK p \in X : /\ p.at \in Seq(STRING) /\ Len(p.at) = Len(f.at)
                     /\ \A i \in 1 .. Len(f.at) : p.at[i] = e.at[i]
                     /\ IF Len(f.at) = Len(e.at) THEN p = e ELSE p.value.type = "table"
  BY <1>2, <1>3, Above
<1>5. p.at = f.at
  BY <1>1, <1>2, <1>3, <1>4
<1>6. p = f
  BY <1>5 DEF OfToml
<1> QED BY <1>1, <1>2, <1>3, <1>4, <1>6

\* Others are asked for only because this one is there.
Bears(e) ==
    /\ e.value.type = "table"
    /\ (Len(e.at) = 1 /\ e.at[1] \in LayeredSections) \/ (Len(e.at) = 2 /\ e.at[1] = "policy_by_type")

LEMMA AskedWithout ==
    ASSUME NEW X \in SUBSET TomlEntry, NEW e \in X, ~Bears(e), NEW f \in X
    PROVE  Asked(f, X \ {e}) <=> Asked(f, X)
<1>1. \A p : p # e.at \/ e.value.type # "table" => (Is(X \ {e}, p, TRUE) <=> Is(X, p, TRUE))
  BY DEF Is
<1>2. e.at \in Seq(STRING) /\ f.at \in Seq(STRING)
  BY DEF TomlEntry
<1>3. f.at[1] \in LayeredSections => (Is(X \ {e}, <<f.at[1]>>, TRUE) <=> Is(X, <<f.at[1]>>, TRUE))
  <2>1. CASE e.value.type # "table"
    BY <1>1, <2>1
  <2>2. CASE e.value.type = "table" /\ f.at[1] \in LayeredSections
    <3>1. <<f.at[1]>> # e.at
      BY <2>2, Literals DEF Bears
    <3> QED BY <1>1, <3>1
  <2> QED BY <2>1, <2>2
<1>4. f.at[1] = "policy_by_type" =>
        (Is(X \ {e}, <<f.at[1], f.at[2]>>, TRUE) <=> Is(X, <<f.at[1], f.at[2]>>, TRUE))
  <2>1. CASE e.value.type # "table"
    BY <1>1, <2>1
  <2>2. CASE e.value.type = "table" /\ f.at[1] = "policy_by_type"
    <3>1. <<f.at[1], f.at[2]>> # e.at
      BY <2>2, Literals DEF Bears
    <3> QED BY <1>1, <3>1
  <2> QED BY <2>1, <2>2
<1>5. ASSUME NEW Y, Asked(f, Y) PROVE f.at[1] \in LayeredSections
  BY <1>5, AskedKeys
<1>6. ASSUME f.at[1] \in LayeredSections PROVE Asked(f, X \ {e}) <=> Asked(f, X)
  BY <1>3, <1>4, <1>6 DEF Asked
<1> QED BY <1>5, <1>6

LEMMA SettingsWithout ==
    ASSUME NEW X \in SUBSET TomlEntry, NEW e \in X, ~Bears(e), Asked(e, X) => Getter(e.at, e.value).kept = {}
    PROVE  Settings(X \ {e}) = Settings(X)
<1> DEFINE Of(f) == {[at |-> f.at, to |-> k] : k \in Getter(f.at, f.value).kept}
<1>1. Settings(X) = UNION {Of(f) : f \in {f \in X : Asked(f, X)}}
  BY DEF Settings
<1>2. Settings(X \ {e}) = UNION {Of(f) : f \in {f \in X \ {e} : Asked(f, X \ {e})}}
  BY DEF Settings
<1>3. \A f \in X : Asked(f, X \ {e}) <=> Asked(f, X)
  BY AskedWithout
<1>4. Asked(e, X) => Of(e) = {}
  OBVIOUS
<1> HIDE DEF Of
<1> QED BY <1>1, <1>2, <1>3, <1>4

LEMMA LayeredPartTells ==
    ASSUME NEW X \in SUBSET TomlEntry, NEW f
    PROVE  f \in LayeredPart(X) <=>
             f \in X /\ f.at[1] \in LayeredSections /\ Is(X, <<f.at[1]>>, TRUE)
<1>1. ASSUME NEW g \in X, NEW s
      PROVE  IsPrefix(<<s>>, g.at) <=> g.at[1] = s
  <2>1. g.at \in Seq(STRING) /\ g.at # <<>>
    BY DEF TomlEntry
  <2>2. <<s>> \in Seq({s}) /\ Len(<<s>>) = 1 /\ <<s>>[1] = s
    BY Literals
  <2>3. Len(g.at) \in Nat /\ Len(g.at) >= 1 /\ 1 .. 1 = {1}
    BY <2>1
  <2>4. IsPrefix(<<s>>, g.at) <=> Len(<<s>>) <= Len(g.at) /\ \A i \in 1 .. Len(<<s>>) : <<s>>[i] = g.at[i]
    <3> DEFINE path == <<s>>
    <3>1. path \in Seq({s})
      BY <2>2
    <3> HIDE DEF path
    <3>2. IsPrefix(path, g.at) <=> Len(path) <= Len(g.at) /\ \A i \in 1 .. Len(path) : path[i] = g.at[i]
      BY <2>1, <3>1, PrefixTells
    <3> QED BY <3>2 DEF path
  <2> QED BY <2>2, <2>3, <2>4
<1>2. \A path : f \in Within(X, path) <=> f \in X /\ IsPrefix(path, f.at)
  BY DEF Within
<1>3. f \in LayeredPart(X) <=>
        \E s \in LayeredSections : Is(X, <<s>>, TRUE) /\ f \in X /\ IsPrefix(<<s>>, f.at)
  BY <1>2 DEF LayeredPart
<1> QED BY <1>1, <1>3

LEMMA LayeredPartWithout ==
    ASSUME NEW X \in SUBSET TomlEntry, NEW e \in X, ~Bears(e)
    PROVE  LayeredPart(X \ {e}) = LayeredPart(X) \ {e}
<1>1. \A p : p # e.at \/ e.value.type # "table" => (Is(X \ {e}, p, TRUE) <=> Is(X, p, TRUE))
  BY DEF Is
<1>2. ASSUME NEW f, f.at[1] \in LayeredSections
      PROVE  Is(X \ {e}, <<f.at[1]>>, TRUE) <=> Is(X, <<f.at[1]>>, TRUE)
  <2>1. e.value.type = "table" => <<f.at[1]>> # e.at
    BY <1>2, Literals DEF Bears
  <2> QED BY <1>1, <2>1
<1>3. X \ {e} \in SUBSET TomlEntry
  OBVIOUS
<1>4. \A f : f \in LayeredPart(X \ {e}) <=> f \in LayeredPart(X) \ {e}
  <2> TAKE f
  <2>1. f \in LayeredPart(X \ {e}) <=> f \in X \ {e} /\ f.at[1] \in LayeredSections /\ Is(X \ {e}, <<f.at[1]>>, TRUE)
    BY <1>3, LayeredPartTells
  <2>2. f \in LayeredPart(X) <=> f \in X /\ f.at[1] \in LayeredSections /\ Is(X, <<f.at[1]>>, TRUE)
    BY LayeredPartTells
  <2> QED BY <1>2, <2>1, <2>2
<1> QED BY <1>4

-----------------------------------------------------------------------------
(* What is said of entries.                                                *)

Bad(p) ==
    \/ Len(p.at) = 1 /\ (p.at[1] \notin Sections \/ p.value.type # "table")
    \/ Len(p.at) = 2 /\ p.at[1] \in Sections \ OpenSections /\ p.at[2] \notin AllowedKeys(p.at[1])
    \/ p.at[1] = "policy_by_type" /\ Len(p.at) = 2 /\ p.value.type # "table"
    \/ p.at[1] = "policy_by_type" /\ Len(p.at) = 3 /\ p.at[3] \notin PolicyKeys

LEMMA IssuesTell ==
    ASSUME NEW X
    PROVE  /\ \A p \in X : Bad(p) => [level |-> "warning", at |-> p.at] \in Validated(X)
           /\ \A i \in Validated(X) : i.level # "info" => \E p \in X : Bad(p) /\ i.at = p.at
<1>1. \A p \in X : Bad(p) => [level |-> "warning", at |-> p.at] \in Validated(X)
  BY DEF Validated, Bad, TopLevelIssues, SectionIssues, NestedIssues, Warnings
<1>2. ASSUME NEW i \in Validated(X), i.level # "info"
      PROVE  \E p \in X : Bad(p) /\ i.at = p.at
  <2>1. i \in TopLevelIssues(X) \cup SectionIssues(X) \cup NestedIssues(X)
    BY <1>2 DEF Validated
  <2> QED BY <2>1 DEF Bad, TopLevelIssues, SectionIssues, NestedIssues, Warnings
<1> QED BY <1>1, <1>2

\* What the deserializer is given, and what is said when all is read.
Handled == IF source.via = "mapping" THEN source.entries ELSE LayeredPart(source.entries)
AllRead ==
    /\ issues = IF source.via = "mapping" THEN {} ELSE Validated(source.entries)
    /\ complaints = ComplaintsOf(Handled)

LEMMA HandledTells ==
    ASSUME OfToml(source.entries)
    PROVE  /\ Handled \in SUBSET TomlEntry /\ Handled \in SUBSET source.entries
           /\ source.via # "mapping" =>
                \A e \in source.entries : e.at[1] \in LayeredSections /\ Is(source.entries, <<e.at[1]>>, TRUE)
                                            <=> e \in Handled
<1>1. source.entries \in SUBSET TomlEntry
  BY DEF OfToml
<1> QED BY <1>1, LayeredPartTells DEF Handled

LEMMA BadIsObjected ==
    ASSUME AllRead, source.via # "mapping", NEW p \in source.entries, Bad(p), NEW e, IsPrefix(p.at, e.at)
    PROVE  Objected(e, issues \cup complaints)
<1>1. [level |-> "warning", at |-> p.at] \in issues
  BY IssuesTell DEF AllRead
<1> QED BY <1>1 DEF Objected

LEMMA ComplaintsTell ==
    ASSUME NEW Y
    PROVE  /\ \A y \in Y : Asked(y, Y) =>
                \A l \in Getter(y.at, y.value).levels : [level |-> l, at |-> y.at] \in ComplaintsOf(Y)
           /\ \A c \in ComplaintsOf(Y) :
                \/ \E y \in Y : Asked(y, Y) /\ c.at = y.at /\ Getter(y.at, y.value).levels # {}
                \/ c.at = <<"header", "fields">> /\ ~\E s \in Settings(Y) : s.at = c.at
<1> DEFINE Of(f) == {[level |-> l, at |-> f.at] : l \in Getter(f.at, f.value).levels}
           default == IF \E s \in Settings(Y) : s.at = <<"header", "fields">> THEN {}
                      ELSE {[level |-> "warning", at |-> <<"header", "fields">>]}
<1>1. ComplaintsOf(Y) = (UNION {Of(f) : f \in {f \in Y : Asked(f, Y)}}) \cup default
  BY DEF ComplaintsOf
<1>2. \A f \in Y : \A l \in Getter(f.at, f.value).levels : [level |-> l, at |-> f.at] \in Of(f)
  OBVIOUS
<1>3. \A f \in Y : \A c \in Of(f) : c.at = f.at /\ Getter(f.at, f.value).levels # {}
  OBVIOUS
<1>4. \A c \in default : c.at = <<"header", "fields">> /\ ~\E s \in Settings(Y) : s.at = c.at
  OBVIOUS
<1> HIDE DEF Of, default
<1> QED BY <1>1, <1>2, <1>3, <1>4

LEMMA ComplaintIsObjection ==
    ASSUME AllRead, OfToml(source.entries), NEW p \in Handled, Asked(p, Handled),
           Getter(p.at, p.value).levels # {}, NEW e, IsPrefix(p.at, e.at)
    PROVE  Objected(e, issues \cup complaints)
<1>1. p \in TomlEntry /\ (p.value.type = "bool" => p.value.items \in {<<"true">>, <<"false">>})
  BY HandledTells DEF OfToml
<1>2. "info" \notin Getter(p.at, p.value).levels
  BY <1>1, GettersTell
<1>3. PICK l \in Getter(p.at, p.value).levels : l # "info"
  BY <1>2
<1>4. [level |-> l, at |-> p.at] \in complaints
  BY <1>3, ComplaintsTell DEF AllRead
<1> QED BY <1>3, <1>4 DEF Objected

LEMMA SettingsTell ==
    ASSUME NEW Y
    PROVE  /\ \A s \in Settings(Y) : \E y \in Y : Asked(y, Y) /\ s.at = y.at
           /\ \A y \in Y : Asked(y, Y) => \A k \in Getter(y.at, y.value).kept : [at |-> y.at, to |-> k] \in Settings(Y)
BY DEF Settings

\* A setting of its own is an effect.
LEMMA SettingIsEffect ==
    ASSUME OfToml(source.entries), NEW e \in source.entries,
           NEW s \in Effect(source.entries), s.at = e.at
    PROVE  Effective(e)
<1> DEFINE rest == source.entries \ {e}
<1>1. rest \in SUBSET TomlEntry
  BY DEF OfToml
<1>2. ASSUME NEW r \in Effect(rest) PROVE \E y \in rest : y.at = r.at
  <2>1. CASE source.via = "mapping"
    BY <1>2, <2>1, SettingsTell DEF Effect
  <2>2. CASE source.via # "mapping" /\ r \in Settings(LayeredPart(rest))
    <3>1. PICK y \in LayeredPart(rest) : r.at = y.at
      BY <2>2, SettingsTell
    <3> QED BY <1>1, <3>1, LayeredPartTells
  <2>3. CASE source.via # "mapping" /\ r \notin Settings(LayeredPart(rest))
    BY <1>2, <2>3 DEF Effect, LoadingOptions, WriterOptions
  <2> QED BY <2>1, <2>2, <2>3
<1>3. \A y \in rest : y.at # e.at
  BY DEF OfToml
<1>4. s \notin Effect(rest)
  BY <1>2, <1>3
<1> QED BY <1>4 DEF Effective

LEMMA NoEffect ==
    ASSUME OfToml(source.entries), NEW e \in source.entries, ~Bears(e),
           e \notin LoadingOptions(source.entries) \cup WriterOptions(source.entries),
           e \in Handled /\ Asked(e, Handled) => Getter(e.at, e.value).kept = {}
    PROVE  ~Effective(e)
<1> DEFINE X == source.entries
           rest == X \ {e}
<1>1. X \in SUBSET TomlEntry
  BY DEF OfToml
<1>2. CASE source.via = "mapping"
  <2>1. Settings(rest) = Settings(X)
    BY <1>1, <1>2, SettingsWithout DEF Handled
  <2> QED BY <1>2, <2>1 DEF Effective, Effect
<1>3. CASE source.via # "mapping"
  <2>1. LayeredPart(rest) = LayeredPart(X) \ {e}
    BY <1>1, LayeredPartWithout
  <2>2. Settings(LayeredPart(rest)) = Settings(LayeredPart(X))
    <3>1. CASE e \in LayeredPart(X)
      <4>1. LayeredPart(X) \in SUBSET TomlEntry
        BY <1>3, HandledTells DEF Handled
      <4> QED BY <1>3, <2>1, <3>1, <4>1, SettingsWithout DEF Handled
    <3>2. CASE e \notin LayeredPart(X)
      <4>1. LayeredPart(rest) = LayeredPart(X)
        BY <2>1, <3>2
      <4> QED BY <4>1
    <3> QED BY <3>1, <3>2
  <2>3. LoadingOptions(rest) = LoadingOptions(X) /\ WriterOptions(rest) = WriterOptions(X)
    BY DEF LoadingOptions, WriterOptions
  <2> QED BY <1>3, <2>2, <2>3 DEF Effective, Effect
<1> QED BY <1>2, <1>3

LEMMA NothingIsLost ==
    ASSUME AllRead, OfToml(source.entries), NEW e \in source.entries
    PROVE  \/ e.value.type = "table" \/ e.value.items = <<>>
           \/ EffectiveAsAWhole(e) \/ Objected(e, issues \cup complaints) \/ Unnoticed(e)
<1> DEFINE X == source.entries
           said == Objected(e, issues \cup complaints)
<1> SUFFICES ASSUME e.value.type # "table", e.value.items # <<>>, ~said, ~Unnoticed(e)
             PROVE  EffectiveAsAWhole(e)
  OBVIOUS
<1>1. /\ e \in TomlEntry /\ e.at \in Seq(STRING) /\ Len(e.at) \in Nat /\ Len(e.at) >= 1
      /\ \A f \in X : f.value.type = "bool" => f.value.items \in {<<"true">>, <<"false">>}
      /\ Handled \in SUBSET X /\ X \in SUBSET TomlEntry
  <2>1. X \in SUBSET TomlEntry
        /\ \A f \in X : f.value.type = "bool" => f.value.items \in {<<"true">>, <<"false">>}
    BY DEF OfToml
  <2>2. e \in TomlEntry
    BY <2>1
  <2>3. e.at \in Seq(STRING) /\ e.at # <<>>
    BY <2>2 DEF TomlEntry
  <2>4. Len(e.at) \in Nat /\ Len(e.at) >= 1
    BY <2>3
  <2>5. Handled \in SUBSET X
    BY HandledTells
  <2> QED BY <2>1, <2>2, <2>3, <2>4, <2>5
<1>2. ASSUME NEW s \in Effect(X), s.at = e.at, ToSet(s.to) = ToSet(e.value.items)
      PROVE  EffectiveAsAWhole(e)
  BY <1>2, SettingIsEffect DEF EffectiveAsAWhole
<1>3. ASSUME NEW p \in X, Bad(p), IsPrefix(p.at, e.at), source.via # "mapping"
      PROVE  FALSE
  BY <1>3, BadIsObjected
<1>4. ASSUME NEW p \in Handled, Asked(p, Handled), IsPrefix(p.at, e.at)
      PROVE  Getter(p.at, p.value).levels = {}
  BY <1>4, ComplaintIsObjection
<1>5. CASE e \in Handled /\ Asked(e, Handled)
  <2>1. IsPrefix(e.at, e.at)
    BY <1>1, PrefixTells
  <2>2. Getter(e.at, e.value).levels = {}
    BY <1>4, <1>5, <2>1
  <2>3. ~(e.at[1] # "fields" /\ Last(e.at) \in Groups)
    <3>1. CASE source.via = "mapping"
      BY <3>1 DEF Unnoticed
    <3>2. CASE source.via # "mapping" /\ e.at[1] # "fields" /\ Last(e.at) \in Groups
      <4>1. Last(e.at) \notin PolicyKeys
        BY <3>2 DEF Groups, PolicyKeys, ChoiceKeys, FlagKeys
      <4>2. e.at[1] # "policy_by_type" /\ Len(e.at) = 2 /\ Last(e.at) = e.at[2] /\ e.at[1] \in LayeredSections
        BY <1>1, <1>5, <4>1, AskedKeys
      <4>3. e.at[1] \in {"header", "formatting", "policy", "files"}
        BY <3>2, <4>2 DEF LayeredSections
      <4>4. e.at[2] \notin AllowedKeys(e.at[1])
        BY <3>2, <4>1, <4>2, <4>3 DEF AllowedKeys, Groups, FilesLists, TypeLists
      <4>5. Bad(e)
        BY <4>2, <4>3, <4>4 DEF Bad, Sections, LayeredSections, OpenSections
      <4> QED BY <1>3, <2>1, <3>2, <4>5
    <3> QED BY <3>1, <3>2
  <2>4. PICK k \in Getter(e.at, e.value).kept : ToSet(k) = ToSet(e.value.items)
    <3>1. ~(Last(e.at) = "relative_to" /\ e.value.items = <<"">>)
      BY DEF Unnoticed
    <3> QED BY <1>1, <1>5, <2>2, <2>3, <3>1, GettersTell
  <2>5. [at |-> e.at, to |-> k] \in Settings(Handled)
    BY <1>5, SettingsTell
  <2>6. Settings(Handled) \subseteq Effect(X)
    BY DEF Effect, Handled
  <2> QED BY <1>2, <2>4, <2>5, <2>6
<1>6. CASE source.via = "mapping" /\ ~(e \in Handled /\ Asked(e, Handled))
  BY <1>6 DEF Unnoticed, Handled
<1>7. CASE source.via # "mapping" /\ ~(e \in Handled /\ Asked(e, Handled))
  <2>1. PICK p1 \in X : /\ p1.at \in Seq(STRING) /\ Len(p1.at) = 1 /\ p1.at[1] = e.at[1]
                        /\ IsPrefix(p1.at, e.at)
                        /\ IF 1 = Len(e.at) THEN p1 = e ELSE p1.value.type = "table"
    <3>1. 1 \in 1 .. Len(e.at)
      BY <1>1
    <3>2. OfToml(X)
      OBVIOUS
    <3>3. \E p \in X : /\ p.at \in Seq(STRING) /\ Len(p.at) = 1
                       /\ \A i \in 1 .. 1 : p.at[i] = e.at[i]
                       /\ IsPrefix(p.at, e.at)
                       /\ IF 1 = Len(e.at) THEN p = e ELSE p.value.type = "table"
      BY <3>1, <3>2, Above
    <3> QED BY <3>3
  <2>2. p1.at[1] \in Sections /\ p1.value.type = "table"
    BY <1>3, <1>7, <2>1 DEF Bad
  <2>3. Len(e.at) >= 2
    BY <1>1, <2>1, <2>2
  <2>4. PICK p2 \in X : /\ p2.at \in Seq(STRING) /\ Len(p2.at) = 2
                        /\ p2.at[1] = e.at[1] /\ p2.at[2] = e.at[2]
                        /\ IsPrefix(p2.at, e.at)
                        /\ IF 2 = Len(e.at) THEN p2 = e ELSE p2.value.type = "table"
    <3>1. 2 \in 1 .. Len(e.at)
      BY <1>1, <2>3
    <3>2. OfToml(X)
      OBVIOUS
    <3>3. \E p \in X : /\ p.at \in Seq(STRING) /\ Len(p.at) = 2
                       /\ \A i \in 1 .. 2 : p.at[i] = e.at[i]
                       /\ IsPrefix(p.at, e.at)
                       /\ IF 2 = Len(e.at) THEN p = e ELSE p.value.type = "table"
      BY <3>1, <3>2, Above
    <3> QED BY <3>3
  <2>5. p1.at = <<e.at[1]>> /\ p2.at = <<e.at[1], e.at[2]>> /\ Last(p2.at) = e.at[2]
    BY <2>1, <2>4 DEF Last
  <2>6. e.at[1] \in Sections \ OpenSections => e.at[2] \in AllowedKeys(e.at[1])
    BY <1>3, <1>7, <2>4 DEF Bad
  <2>7. CASE e.at[1] \in {"config", "writer"}
    <3>1. p2.at \in {<<"config", "root">>, <<"config", "strict">>, <<"writer", "strategy">>}
      BY <2>5, <2>6, <2>7 DEF Sections, OpenSections, AllowedKeys
    <3>2. e \in LoadingOptions(X) \cup WriterOptions(X)
      BY <2>4, <3>1 DEF Unnoticed
    <3>3. [at |-> e.at, to |-> e.value.items] \in Effect(X)
      BY <1>7, <3>2 DEF Effect
    <3> QED BY <1>2, <3>3
  <2>8. CASE e.at[1] \in LayeredSections
    <3>1. Is(X, <<e.at[1]>>, TRUE)
      BY <2>2, <2>5 DEF Is
    <3>2. e \in Handled /\ p1 \in Handled /\ p2 \in Handled
      BY <1>7, <2>1, <2>4, <2>8, <3>1, HandledTells
    <3>3. Is(Handled, <<e.at[1]>>, TRUE)
      BY <2>2, <2>5, <3>2 DEF Is
    <3>4. ASSUME NEW p \in Handled, Asked(p, Handled), IsPrefix(p.at, e.at),
                 p = e \/ p.value.type = "table", ~(p.at[1] # "fields" /\ Last(p.at) \in Groups)
          PROVE  FALSE
      <4>1. p.value.type = "table"
        BY <1>7, <3>4
      <4>2. Getter(p.at, p.value).levels # {}
        BY <1>1, <3>4, <4>1, GettersTell
      <4> QED BY <1>4, <3>4, <4>2
    <3>5. CASE e.at[1] = "fields"
      <4>1. Asked(p2, Handled)
        BY <2>4, <3>3, <3>5 DEF Asked
      <4> QED BY <2>4, <3>2, <3>4, <3>5, <4>1
    <3>6. CASE e.at[1] \in {"header", "formatting", "policy", "files"}
      <4>1. e.at[2] \in AllowedKeys(e.at[1])
        BY <2>6, <3>6 DEF Sections, LayeredSections, OpenSections
      <4>2. Asked(p2, Handled)
        BY <2>4, <3>3, <3>6, <4>1 DEF Asked
      <4>3. e.at[2] \notin Groups
        BY <3>6, <4>1 DEF AllowedKeys, Groups, FilesLists, TypeLists, PolicyKeys, ChoiceKeys, FlagKeys
      <4> QED BY <2>4, <2>5, <3>2, <3>4, <4>2, <4>3
    <3>7. CASE e.at[1] = "policy_by_type"
      <4>1. p2.value.type = "table"
        BY <1>3, <1>7, <2>4, <3>7 DEF Bad
      <4>2. Len(e.at) >= 3
        BY <1>1, <2>3, <2>4, <4>1
      <4>3. PICK p3 \in X : /\ p3.at \in Seq(STRING) /\ Len(p3.at) = 3
                            /\ p3.at[1] = e.at[1] /\ p3.at[2] = e.at[2] /\ p3.at[3] = e.at[3]
                            /\ IsPrefix(p3.at, e.at)
                            /\ IF 3 = Len(e.at) THEN p3 = e ELSE p3.value.type = "table"
        <5>1. 3 \in 1 .. Len(e.at)
          BY <1>1, <4>2
        <5>2. OfToml(X)
          OBVIOUS
        <5>3. \E p \in X : /\ p.at \in Seq(STRING) /\ Len(p.at) = 3
                           /\ \A i \in 1 .. 3 : p.at[i] = e.at[i]
                           /\ IsPrefix(p.at, e.at)
                           /\ IF 3 = Len(e.at) THEN p = e ELSE p.value.type = "table"
          BY <5>1, <5>2, Above
        <5> QED BY <5>3
      <4>4. p3.at[3] \in PolicyKeys
        BY <1>3, <1>7, <3>7, <4>3 DEF Bad
      <4>5. p3 \in Handled
        BY <1>7, <2>8, <3>1, <4>3, HandledTells
      <4>6. Is(Handled, <<e.at[1], e.at[2]>>, TRUE)
        BY <2>5, <3>2, <4>1 DEF Is
      <4>7. Asked(p3, Handled)
        BY <3>3, <3>7, <4>3, <4>4, <4>6 DEF Asked
      <4>8. Last(p3.at) \notin Groups
        BY <4>3, <4>4 DEF Last, Groups, PolicyKeys, ChoiceKeys, FlagKeys
      <4> QED BY <3>4, <4>3, <4>5, <4>7, <4>8
    <3> QED BY <2>8, <3>5, <3>6, <3>7 DEF LayeredSections
  <2> QED BY <2>1, <2>2, <2>7, <2>8 DEF Sections
<1> QED BY <1>5, <1>6, <1>7

LEMMA ObjectedHasNone ==
    ASSUME AllRead, OfToml(source.entries), NEW e \in source.entries,
           Objected(e, issues) \/ (e.value.type # "list" /\ Objected(e, complaints))
    PROVE  ~Effective(e) \/ TakenAnyway(e)
<1> DEFINE X == source.entries
<1> SUFFICES ASSUME ~TakenAnyway(e) PROVE ~Effective(e)
  OBVIOUS
<1>1. /\ e \in TomlEntry /\ e.at \in Seq(STRING) /\ Len(e.at) \in Nat /\ Len(e.at) >= 1
      /\ e.value.type = "bool" => e.value.items \in {<<"true">>, <<"false">>}
      /\ Handled \in SUBSET X /\ X \in SUBSET TomlEntry
  <2>1. X \in SUBSET TomlEntry /\ (e.value.type = "bool" => e.value.items \in {<<"true">>, <<"false">>})
    BY DEF OfToml
  <2>2. e \in TomlEntry
    BY <2>1
  <2>3. e.at \in Seq(STRING) /\ e.at # <<>>
    BY <2>2 DEF TomlEntry
  <2>4. Len(e.at) \in Nat /\ Len(e.at) >= 1
    BY <2>3
  <2>5. Handled \in SUBSET X
    BY HandledTells
  <2> QED BY <2>1, <2>2, <2>3, <2>4, <2>5
<1>2. ASSUME e \in LoadingOptions(X) \cup WriterOptions(X)
      PROVE  Len(e.at) = 2 /\ e.at[1] \in {"config", "writer"} /\ e.at[2] \in AllowedKeys(e.at[1])
  BY <1>2 DEF LoadingOptions, WriterOptions, AllowedKeys
<1>3. CASE Objected(e, issues)
  <2>1. source.via # "mapping" /\ issues = Validated(X)
    BY <1>3 DEF Objected, AllRead
  <2>2. PICK p \in X : Bad(p) /\ IsPrefix(p.at, e.at)
    BY <1>3, <2>1, IssuesTell DEF Objected
  <2>3. /\ Len(p.at) \in Nat /\ 1 <= Len(p.at) /\ Len(p.at) <= Len(e.at)
        /\ \A i \in 1 .. Len(p.at) : p.at[i] = e.at[i]
        /\ Len(p.at) = Len(e.at) => p = e
        /\ Len(p.at) < Len(e.at) => p.value.type = "table"
    BY <2>2, PrefixOf
  <2>4. p.at[1] = e.at[1] /\ (Len(p.at) >= 2 => p.at[2] = e.at[2]) /\ (Len(p.at) >= 3 => p.at[3] = e.at[3])
    BY <2>3
  <2>5. ~Bears(e)
    BY <2>2, <2>3, <2>4 DEF Bad, Bears, Sections, LayeredSections, OpenSections
  <2>6. e \notin LoadingOptions(X) \cup WriterOptions(X)
    BY <1>2, <2>2, <2>3, <2>4 DEF Bad, Sections, LayeredSections, OpenSections
  <2>7. ~Asked(e, Handled)
    <3> SUFFICES ASSUME Asked(e, Handled) PROVE FALSE
      OBVIOUS
    <3>1. /\ Len(e.at) \in {2, 3} /\ (Len(e.at) = 3 <=> e.at[1] = "policy_by_type")
          /\ Last(e.at) = e.at[Len(e.at)] /\ e.at[1] \in LayeredSections
          /\ e.at[1] = "policy_by_type" => Last(e.at) \in PolicyKeys
          /\ e.at[1] \in {"header", "formatting", "policy", "files"} =>
               Last(e.at) \in AllowedKeys(e.at[1]) \/ Last(e.at) \in Groups
      BY <1>1, AskedKeys
    <3>2. Last(e.at) \notin Groups
      BY DEF TakenAnyway
    <3>3. Len(p.at) # 1
      BY <2>2, <2>3, <2>4, <3>1 DEF Bad, Sections, LayeredSections
    <3>4. CASE Len(p.at) = 2
      <4>1. p.at[1] = e.at[1] /\ p.at[2] = e.at[2] /\ e.at[1] \in LayeredSections
        BY <2>4, <3>1, <3>4
      <4>2. Len(e.at) # 2 => p.value.type = "table" /\ e.at[1] = "policy_by_type"
        <5>1. ASSUME Len(e.at) # 2 PROVE Len(e.at) = 3
          BY <3>1, <5>1
        <5>2. Len(e.at) = 3 => Len(p.at) < Len(e.at)
          BY <3>4
        <5> QED BY <2>3, <3>1, <5>1, <5>2
      <4>3. Len(e.at) = 2 => e.at[1] # "policy_by_type" /\ Last(e.at) = e.at[2]
        BY <3>1
      <4>4. \/ e.at[1] \in Sections \ OpenSections /\ e.at[2] \notin AllowedKeys(e.at[1])
            \/ e.at[1] = "policy_by_type" /\ p.value.type # "table"
        BY <2>2, <3>4, <4>1 DEF Bad
      <4>5. Len(e.at) = 2
        BY <4>2, <4>4 DEF OpenSections
      <4>6. e.at[1] \in {"header", "formatting", "policy", "files"}
        BY <4>1, <4>3, <4>4, <4>5 DEF LayeredSections, OpenSections
      <4>7. Last(e.at) \in AllowedKeys(e.at[1])
        BY <3>1, <3>2, <4>6
      <4>8. Last(e.at) = e.at[2] /\ e.at[1] # "policy_by_type"
        BY <4>3, <4>5
      <4> QED BY <4>4, <4>7, <4>8
    <3>5. CASE Len(p.at) = 3
      BY <2>2, <2>3, <2>4, <3>1, <3>5 DEF Bad
    <3>6. Len(e.at) = 2 \/ Len(e.at) = 3
      BY <3>1
    <3> DEFINE m == Len(p.at)
               n == Len(e.at)
    <3>7. m \in Nat /\ 1 <= m /\ m <= n /\ (n = 2 \/ n = 3)
      BY <2>3, <3>6
    <3> HIDE DEF m, n
    <3>8. m = 1 \/ m = 2 \/ m = 3
      BY <3>7
    <3> QED BY <3>3, <3>4, <3>5, <3>8 DEF m
  <2> QED BY <2>5, <2>6, <2>7, NoEffect
<1>4. CASE e.value.type # "list" /\ Objected(e, complaints)
  <2>1. PICK c \in ComplaintsOf(Handled) : IsPrefix(c.at, e.at)
    BY <1>4 DEF Objected, AllRead
  <2>2. ASSUME NEW y \in Handled, Asked(y, Handled), c.at = y.at, Getter(y.at, y.value).levels # {}
        PROVE  ~Effective(e)
    <3>1. y \in X /\ y \in TomlEntry
      BY <1>1
    <3>2. /\ Len(y.at) \in Nat /\ 1 <= Len(y.at) /\ Len(y.at) <= Len(e.at)
          /\ \A i \in 1 .. Len(y.at) : y.at[i] = e.at[i]
          /\ Len(y.at) = Len(e.at) => y = e
      BY <2>1, <2>2, <3>1, PrefixOf
    <3>3. y.at[1] = e.at[1]
      BY <3>2
    <3>4. Len(y.at) \in {2, 3} /\ (Len(y.at) = 3 <=> e.at[1] = "policy_by_type") /\ e.at[1] \in LayeredSections
      BY <2>2, <3>1, <3>3, AskedKeys
    <3>5. e \notin LoadingOptions(X) \cup WriterOptions(X)
      BY <1>2, <3>4 DEF LayeredSections
    <3>6. ~Bears(e)
      <4>1. Len(e.at) \in Nat /\ Len(y.at) \in Nat /\ Len(y.at) <= Len(e.at)
        BY <1>1, <3>2
      <4>2. Len(y.at) # 1 /\ (Len(y.at) = 2 => e.at[1] # "policy_by_type")
        BY <3>4
      <4>3. Len(y.at) = 2 \/ Len(y.at) = 3
        BY <3>4
      <4> DEFINE m == Len(y.at)
                 n == Len(e.at)
      <4>a. m \in Nat /\ n \in Nat /\ m <= n /\ (m = 2 \/ m = 3)
        BY <4>1, <4>3
      <4> HIDE DEF m, n
      <4>b. n # 1 /\ (n = 2 => m = 2)
        BY <4>a
      <4>4. Len(e.at) # 1
        BY <4>b DEF n
      <4>5. Len(e.at) = 2 => Len(y.at) = 2
        BY <4>b DEF m, n
      <4>6. Len(e.at) # 1 /\ ~(Len(e.at) = 2 /\ e.at[1] = "policy_by_type")
        BY <4>2, <4>4, <4>5
      <4> QED BY <4>6 DEF Bears
    <3>7. Asked(e, Handled) => Len(e.at) \in {2, 3} /\ (Len(e.at) = 3 <=> e.at[1] = "policy_by_type")
      BY <1>1, AskedKeys
    <3>8. ASSUME e \in Handled, Asked(e, Handled) PROVE Getter(e.at, e.value).kept = {}
      <4>1. y = e
        BY <3>2, <3>4, <3>7, <3>8
      <4>2. Last(e.at) \notin Groups \cup FlagKeys \cup {"wrap_fields"}
        BY DEF TakenAnyway
      <4> QED BY <1>1, <1>4, <2>2, <3>8, <4>1, <4>2, GettersTell
    <3> QED BY <3>5, <3>6, <3>8, NoEffect
  <2>3. ASSUME c.at = <<"header", "fields">>, ~\E s \in Settings(Handled) : s.at = c.at
        PROVE  ~Effective(e)
    <3> DEFINE path == <<"header", "fields">>
    <3>1. path \in Seq({"header", "fields"}) /\ Len(path) = 2 /\ path[1] = "header" /\ path[2] = "fields"
      OBVIOUS
    <3>2. c.at = path
      BY <2>3
    <3> HIDE DEF path
    <3>3. Len(path) <= Len(e.at) /\ \A i \in 1 .. Len(path) : path[i] = e.at[i]
      <4>1. IsPrefix(path, e.at)
        BY <2>1, <3>2
      <4>2. path \in Seq({"header", "fields"})
        BY <3>1
      <4> DEFINE parts == {"header", "fields"}
      <4>3. path \in Seq(parts)
        BY <4>2
      <4> HIDE DEF parts
      <4>4. IsPrefix(path, e.at) <=> Len(path) <= Len(e.at) /\ \A i \in 1 .. Len(path) : path[i] = e.at[i]
        BY <1>1, <4>3, PrefixTells
      <4> QED BY <4>1, <4>4
    <3>4. Len(e.at) >= 2 /\ e.at[1] = "header" /\ e.at[2] = "fields"
      BY <3>1, <3>3
    <3>5. ~Bears(e)
      BY <3>4 DEF Bears
    <3>6. e \notin LoadingOptions(X) \cup WriterOptions(X)
      BY <1>2, <3>4
    <3>7. ASSUME e \in Handled, Asked(e, Handled) PROVE Getter(e.at, e.value).kept = {}
      <4>1. Len(e.at) = 2
        BY <1>1, <3>4, <3>7, AskedKeys
      <4>2. e.at = c.at
        BY <1>1, <3>1, <3>2, <3>4, <4>1
      <4>3. ASSUME NEW k \in Getter(e.at, e.value).kept PROVE FALSE
        <5>1. [at |-> e.at, to |-> k] \in Settings(Handled)
          BY <3>7, SettingsTell
        <5>2. [at |-> e.at, to |-> k].at = c.at
          BY <4>2
        <5> QED BY <2>3, <5>1, <5>2
      <4> QED BY <4>3
    <3> QED BY <3>5, <3>6, <3>7, NoEffect
  <2> QED BY <2>1, <2>2, <2>3, ComplaintsTell
<1> QED BY <1>3, <1>4

-----------------------------------------------------------------------------
(* Loading a table.                                                        *)

EntriesInv ==
    /\ source \in Tables
    /\ step \in {"load", "convert", "validate", "parse", "read", "done", "failed", "raised"}
    /\ step \in {"load", "validate", "parse"} => source.via # "mapping"
    /\ step = "convert" => source.via = "mapping"
    /\ step \in {"load", "convert", "validate"} => issues = {}
    /\ step \in {"parse", "read"} => issues = IF source.via = "mapping" THEN {} ELSE Validated(source.entries)
    /\ step = "read" => layered = Handled
    /\ step = "done" => AllRead

(* Nobody's entry is lost in silence, of any document: what it says has its effect, all of
   it, or is objected to, or is one of the kinds named; and what is objected to as a whole
   has no effect. *)
THEOREM NoEntryIsLost ==
    EntriesSpec => []EntriesAreUsedOrReported
<1>1. EntriesInit => EntriesInv
  BY DEF EntriesInit, EntriesInv
<1>2. EntriesInv /\ [EntriesNext]_entryVars => EntriesInv'
  <2> SUFFICES ASSUME EntriesInv, [EntriesNext]_entryVars PROVE EntriesInv'
    OBVIOUS
  <2>1. CASE Load
    BY <2>1 DEF EntriesInv, Load, NothingFound
  <2>2. CASE Convert
    BY <2>2 DEF EntriesInv, Convert, NothingFound, Handled
  <2>3. CASE ValidateTable
    BY <2>3 DEF EntriesInv, ValidateTable
  <2>4. CASE ParseTable
    BY <2>4 DEF EntriesInv, ParseTable, Handled
  <2>5. CASE Deserialize
    BY <2>5 DEF EntriesInv, Deserialize, Handled, AllRead
  <2>6. CASE UNCHANGED entryVars
    BY <2>6 DEF EntriesInv, entryVars, Handled, AllRead
  <2> QED BY <2>1, <2>2, <2>3, <2>4, <2>5, <2>6 DEF EntriesNext
<1>3. EntriesInv => EntriesAreUsedOrReported
  <2> SUFFICES ASSUME EntriesInv, step = "done" PROVE EntriesAreUsedOrReported
    BY DEF EntriesAreUsedOrReported
  <2>1. AllRead /\ OfToml(source.entries)
    BY TablesAssumption DEF EntriesInv
  <2> QED BY <2>1, NothingIsLost, ObjectedHasNone DEF EntriesAreUsedOrReported
<1> QED BY <1>1, <1>2, <1>3, PTL DEF EntriesSpec
=============================================================================
