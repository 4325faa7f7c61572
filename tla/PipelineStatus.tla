--------------------------- MODULE PipelineStatus ---------------------------
(***************************************************************************)
(* The vocabulary of TopMark's per-file pipeline: the status axes every    *)
(* step writes (pipeline/status.py), the steps and the pipelines built     *)
(* from them (pipeline/pipelines.py), the views each step still needs      *)
(* (consumes_views of every step class) and, abstractly, the bytes of a    *)
(* source file as far as any step can tell two files apart.                *)
(***************************************************************************)
EXTENDS Sequences, SequencesExt

(***************************************************************************)
(* Status axes.  PENDING means that no step has decided the axis yet.      *)
(***************************************************************************)
ResolveStatus == {"PENDING", "RESOLVED", "TYPE_RESOLVED_HEADERS_UNSUPPORTED",
                  "TYPE_RESOLVED_NO_PROCESSOR_REGISTERED", "UNSUPPORTED"}
FsStatus == {"PENDING", "OK", "EMPTY", "NOT_FOUND", "NO_READ_PERMISSION",
             "UNREADABLE", "NO_WRITE_PERMISSION", "HARD_LINK_DUPLICATE", "BINARY",
             "BOM_BEFORE_SHEBANG", "UNICODE_DECODE_ERROR", "MIXED_LINE_ENDINGS"}
ContentStatus == {"PENDING", "OK", "UNSUPPORTED", "SKIPPED_MIXED_LINE_ENDINGS",
                  "SKIPPED_POLICY_BOM_BEFORE_SHEBANG", "SKIPPED_REFLOW", "UNREADABLE"}
HeaderStatus == {"PENDING", "MISSING", "DETECTED", "MALFORMED",
                 "MALFORMED_ALL_FIELDS", "MALFORMED_SOME_FIELDS", "EMPTY"}
GenerationStatus == {"PENDING", "GENERATED", "NO_FIELDS", "SKIPPED"}
RenderStatus == {"PENDING", "RENDERED", "SKIPPED", "FAILED"}
ComparisonStatus == {"PENDING", "CHANGED", "UNCHANGED", "SKIPPED"}
StripStatus == {"PENDING", "NOT_NEEDED", "READY", "FAILED"}
PlanStatus == {"PENDING", "PREVIEWED", "REPLACED", "INSERTED", "REMOVED", "SKIPPED", "FAILED"}
PatchStatus == {"PENDING", "GENERATED", "SKIPPED", "FAILED"}
WriteStatus == {"PENDING", "WRITTEN", "SKIPPED", "FAILED"}

ProcessingStatus ==
  [resolve : ResolveStatus, fs : FsStatus, content : ContentStatus, header : HeaderStatus,
   generation : GenerationStatus, render : RenderStatus, comparison : ComparisonStatus,
   strip : StripStatus, plan : PlanStatus, patch : PatchStatus, write : WriteStatus]

\* The status of a freshly bootstrapped ProcessingContext.
AllPending ==
  [resolve |-> "PENDING", fs |-> "PENDING", content |-> "PENDING", header |-> "PENDING",
   generation |-> "PENDING", render |-> "PENDING", comparison |-> "PENDING",
   strip |-> "PENDING", plan |-> "PENDING", patch |-> "PENDING", write |-> "PENDING"]

\* The plans that put bytes on disk, as opposed to PREVIEWED.
ConcretePlans == {"INSERTED", "REPLACED", "REMOVED"}

(***************************************************************************)
(* Steps, the axis each one must decide, and the views each one reads.     *)
(***************************************************************************)
Steps == {"prober", "resolver", "sniffer", "reader", "scanner", "builder", "renderer",
          "comparer", "stripper", "planner", "patcher", "writer"}

\* The value of the axis a step is responsible for (primary_axis).
PrimaryStatus(step, s) ==
  CASE step \in {"prober", "resolver"} -> s.resolve
    [] step = "sniffer"  -> s.fs
    [] step = "reader"   -> s.content
    [] step = "scanner"  -> s.header
    [] step = "builder"  -> s.generation
    [] step = "renderer" -> s.render
    [] step = "comparer" -> s.comparison
    [] step = "stripper" -> s.strip
    [] step = "planner"  -> s.plan
    [] step = "patcher"  -> s.patch
    [] step = "writer"   -> s.write

ViewSlots == {"image", "header", "build", "render", "updated", "edit", "diff"}

\* Mutant: the writer does not declare that it reads the updated text.
ConsumesViews_WriterForgotten(step) ==
  CASE step = "scanner"  -> {"image"}
    [] step = "renderer" -> {"image", "header", "build"}
    [] step = "comparer" -> {"image", "header", "build", "render", "updated", "edit"}
    [] step = "stripper" -> {"image", "header", "edit"}
    [] step = "planner"  -> {"image", "header", "render", "updated", "edit"}
    [] step = "patcher"  -> {"image", "updated", "edit"}
    [] OTHER -> {}

ConsumesViews(step) ==
  CASE step = "scanner"  -> {"image"}
    [] step = "renderer" -> {"image", "header", "build"}
    [] step = "comparer" -> {"image", "header", "build", "render", "updated", "edit"}
    [] step = "stripper" -> {"image", "header", "edit"}
    [] step = "planner"  -> {"image", "header", "render", "updated", "edit"}
    [] step = "patcher"  -> {"image", "updated", "edit"}
    [] step = "writer"   -> {"updated"}
    [] OTHER -> {}

\* remaining_view_consumers of the runner: what the steps still to come read.
RemainingConsumers(steps) == UNION {ConsumesViews(step) : step \in ToSet(steps)}

ScanPipeline == <<"resolver", "sniffer", "reader", "scanner">>
CheckPipeline == ScanPipeline \o <<"builder", "renderer", "comparer">>
StripPipeline == ScanPipeline \o <<"stripper">>

\* select_pipeline: apply wins over diff; the summary pipelines stop earlier.
SelectPipeline(cmd, apply, diff) ==
  CASE cmd = "probe" -> <<"prober">>
    [] cmd = "check" /\ apply -> CheckPipeline \o <<"planner", "writer">>
    [] cmd = "check" /\ ~apply /\ diff -> CheckPipeline \o <<"planner", "patcher">>
    [] cmd = "check" /\ ~apply /\ ~diff -> CheckPipeline
    [] cmd = "strip" /\ apply -> StripPipeline \o <<"planner", "writer">>
    [] cmd = "strip" /\ ~apply /\ diff -> StripPipeline \o <<"comparer", "planner", "patcher">>
    [] cmd = "strip" /\ ~apply /\ ~diff -> StripPipeline

(***************************************************************************)
(* File contents.  A file is what the steps can tell of its bytes:         *)
(*   enc      "utf8": valid throughout; "early"/"late": an invalid byte    *)
(*            inside/after the 64 KiB the sniffer decodes; "nul": a NUL in *)
(*            the first 4 KiB; "mangled": valid, but invalid bytes of an   *)
(*            earlier version were replaced by U+FFFD                      *)
(*   bom, shebang   starts with a UTF-8 BOM; its first line starts with #! *)
(*   body     what is there besides BOM, shebang line and headers: "none", *)
(*            "blank" (at most spaces and one line end), "white" (several  *)
(*            whitespace lines, not all empty), "user" text, or "cut":     *)
(*            text that a failed write left incomplete                     *)
(*   eol      line ends: "one" style, "mixed" within the sniffed 64 KiB,   *)
(*            or "late" (mixed only after them)                            *)
(*   headers  the TopMark blocks, first block first                        *)
(*   ins      what the file type's pre-insert checker says of the text     *)
(***************************************************************************)
HeaderKinds == {"current", "stale", "empty", "malformed", "badall", "badsome"}
MalformedKinds == {"malformed", "badall", "badsome"}
Encodings == {"utf8", "early", "late", "nul", "mangled"}
Bodies == {"none", "blank", "white", "user", "cut"}
Eols == {"one", "mixed", "late"}
Capabilities == {"OK", "REFLOW", "OTHER"}

FileContent ==
  [enc : Encodings, bom : BOOLEAN, shebang : BOOLEAN, body : Bodies, eol : Eols,
   headers : Seq(HeaderKinds), ins : Capabilities]

Sized(c) == c.bom \/ c.shebang \/ c.body # "none" \/ c.headers # <<>>

\* _compute_empty_flags, on the text the reader decoded (its BOM is gone).
EffectivelyEmpty(c) == ~c.shebang /\ c.headers = <<>> /\ c.body \in {"none", "blank", "white"}
LogicallyEmpty(c) == ~c.shebang /\ c.headers = <<>> /\ c.body \in {"none", "blank"}

\* The kind of the block the scanner finds, "missing" when there is none.
TopHeader(c) == IF c.headers = <<>> THEN "missing" ELSE c.headers[1]

MixedEol(c) == c.eol \in {"mixed", "late"}
Undecodable(c) == c.enc \in {"early", "late"}

\* Text of a file opened with errors="replace", without its BOM.
Decoded(c) == [c EXCEPT !.bom = FALSE, !.enc = IF Undecodable(c) THEN "mangled" ELSE c.enc]

\* The text without its first block.  A file that was nothing but a header keeps the
\* line end it closed with.
Stripped(c) ==
  [c EXCEPT !.headers = Tail(@),
            !.body = IF @ = "none" /\ ~c.shebang /\ Len(c.headers) = 1 THEN "blank" ELSE @]

\* What an interrupted write of c may leave: nothing at all, or a part of it.
NoBytes ==
  [enc |-> "utf8", bom |-> FALSE, shebang |-> FALSE, body |-> "none", eol |-> "one",
   headers |-> <<>>, ins |-> "OK"]
Torn(c) == {NoBytes, [c EXCEPT !.body = "cut"]}

\* A header put in front of the others; the kind "missing" stands for no lines at all.
Prepend(kind, headers) == IF kind = "missing" THEN headers ELSE <<kind>> \o headers
=============================================================================
