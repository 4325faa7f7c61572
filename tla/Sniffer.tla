------------------------------- MODULE Sniffer -------------------------------
(***************************************************************************)
(* _sniff_stream: the sniffer reads a file in chunks, stops after a bounded*)
(* number of them, and has to judge encoding and line ends of what it saw  *)
(* although a CR LF pair or a character may be split between two chunks.   *)
(*                                                                         *)
(* Bytes are symbols: "x" a character of its own, "lead" and "cont" the    *)
(* two bytes of a longer one, "CR", "LF", "NUL"; "BOM" and "#!" stand for  *)
(* the sequences they name.                                                *)
(***************************************************************************)
EXTENDS Sequences, FiniteSets, Naturals

CONSTANTS
  Files,     \* the files to sniff
  ChunkSize, \* bf.read(4096)
  MaxChunks, \* 64 KiB worth of chunks
  None       \* no verdict yet

Symbols == {"x", "lead", "cont", "CR", "LF", "NUL", "BOM", "#!"}

ASSUME FilesAssumption == Files \subseteq Seq(Symbols) \ {<<>>}
ASSUME NoneAssumption ==
  None \notin {"BINARY", "BOM_BEFORE_SHEBANG", "UNICODE_DECODE_ERROR", "MIXED_LINE_ENDINGS", "OK"}
\* A BOM and the shebang behind it are read together.
ASSUME ChunksAssumption == ChunkSize \in Nat \ {0, 1} /\ MaxChunks \in Nat \ {0}

Limit == ChunkSize * MaxChunks

VARIABLES
  file,     \* the bytes at the path, which no step before this one has found empty
  shebangs, \* the file type supports shebang lines
  chunk,    \* the chunk at hand
  taken,    \* total_bytes
  counts,   \* _NLCounts of the chunks done
  carry,    \* carry_cr: the last chunk ended in a CR
  half,     \* the decoder waits for the rest of a character
  verdict,  \* fs status, or None
  style     \* newline_style

vars == <<file, shebangs, chunk, taken, counts, carry, half, verdict, style>>

NoCounts == [lf |-> 0, crlf |-> 0, cr |-> 0]

\* read: the next chunk, shorter or empty at the end of the file.
ReadAt(pos) ==
  LET end == IF pos + ChunkSize <= Len(file) THEN pos + ChunkSize ELSE Len(file) IN
  SubSeq(file, pos + 1, end)

Init ==
  /\ file \in Files /\ shebangs \in BOOLEAN
  /\ chunk = ReadAt(0) /\ taken = Len(chunk)
  /\ counts = NoCounts /\ carry = FALSE /\ half = FALSE
  /\ verdict = None /\ style = None

------------------------------------------------------------------------------
\* inspect_bom_shebang
HasBom(t) == t[1] = "BOM"
ShebangAfterBom(t) == HasBom(t) /\ Len(t) > 1 /\ t[2] = "#!"

\* What the first chunk alone decides, before any of it is decoded.
FirstLook ==
  IF "NUL" \in {chunk[i] : i \in DOMAIN chunk} THEN "BINARY"
  ELSE IF ShebangAfterBom(chunk) /\ shebangs THEN "BOM_BEFORE_SHEBANG"
  ELSE None

RejectPrefix ==
  /\ verdict = None /\ taken = Len(chunk) /\ FirstLook # None
  /\ verdict' = FirstLook
  /\ UNCHANGED <<file, shebangs, chunk, taken, counts, carry, half, style>>

\* The incremental decoder on one chunk: continuation bytes follow lead bytes, and only them.
Decodes(buf, waiting) ==
  \A i \in DOMAIN buf :
    buf[i] = "cont" <=> IF i = 1 THEN waiting ELSE buf[i - 1] = "lead"

CanDecode == Decodes(chunk, half)

Undecodable ==
  /\ verdict = None /\ (taken = Len(chunk) => FirstLook = None) /\ ~CanDecode
  /\ verdict' = "UNICODE_DECODE_ERROR"
  /\ UNCHANGED <<file, shebangs, chunk, taken, counts, carry, half, style>>

Bump(c, kind) == [c EXCEPT ![kind] = @ + 1]

\* The loop of _count_newlines from position i on: a CR at the very end is left to the
\* next chunk.
ScanFrom(buf, start) ==
  LET n == Len(buf)
      From[i \in 1 .. n + 2] ==
        IF i > n THEN NoCounts
        ELSE IF buf[i] = "CR" /\ i = n THEN NoCounts
        ELSE IF buf[i] = "CR" /\ buf[i + 1] = "LF" THEN Bump(From[i + 2], "crlf")
        ELSE IF buf[i] = "CR" THEN Bump(From[i + 1], "cr")
        ELSE IF buf[i] = "LF" THEN Bump(From[i + 1], "lf")
        ELSE From[i + 1]
  IN From[start]

\* Mutant: the CR that ended the last chunk is counted, but not paired with an LF.
CountNewlines_ForgetsPairs(buf, carried) ==
  IF carried THEN Bump(ScanFrom(buf, 1), "cr") ELSE ScanFrom(buf, 1)

CountNewlines(buf, carried) ==
  IF ~carried THEN ScanFrom(buf, 1)
  ELSE IF buf[1] = "LF" THEN Bump(ScanFrom(buf, 2), "crlf")
  ELSE Bump(ScanFrom(buf, 1), "cr")

Plus(c, d) == [lf |-> c.lf + d.lf, crlf |-> c.crlf + d.crlf, cr |-> c.cr + d.cr]

AtLimit == taken >= Limit

\* One round of the loop: decode the chunk, count its line ends, read the next one while
\* the limit is not reached.  An empty chunk stands for the end of the loop.
TakeChunk ==
  /\ verdict = None /\ chunk # <<>> /\ (taken = Len(chunk) => FirstLook = None) /\ CanDecode
  /\ counts' = Plus(counts, CountNewlines(chunk, carry))
  /\ carry' = (chunk[Len(chunk)] = "CR")
  /\ half' = (chunk[Len(chunk)] = "lead")
  /\ chunk' = IF AtLimit THEN <<>> ELSE ReadAt(taken)
  /\ taken' = taken + Len(chunk')
  /\ UNCHANGED <<file, shebangs, verdict, style>>

\* Mutant: a CR at the end of the sample is not counted.
FinalCounts_DropsCarry == counts

FinalCounts == IF carry THEN Bump(counts, "cr") ELSE counts

\* The most frequent style, the first of LF, CRLF and CR among equals; LF if there is none.
DominantStyle(c) ==
  CASE c.lf >= c.crlf /\ c.lf >= c.cr -> "LF"
    [] c.crlf > c.lf /\ c.crlf >= c.cr -> "CRLF"
    [] OTHER -> "CR"

MixedCounts(c) == Cardinality({kind \in {"lf", "crlf", "cr"} : c[kind] > 0}) > 1

Finish ==
  /\ verdict = None /\ chunk = <<>>
  /\ IF half THEN verdict' = "UNICODE_DECODE_ERROR" /\ style' = style
     ELSE /\ verdict' = IF MixedCounts(FinalCounts) THEN "MIXED_LINE_ENDINGS" ELSE "OK"
          /\ style' = DominantStyle(FinalCounts)
  /\ UNCHANGED <<file, shebangs, chunk, taken, counts, carry, half>>

Next == RejectPrefix \/ Undecodable \/ TakeChunk \/ Finish

Spec == Init /\ [][Next]_vars

------------------------------------------------------------------------------
(***************************************************************************)
(* The same questions asked of a text as a whole.                          *)
(***************************************************************************)
LineEndCounts(t) ==
  LET At(i, s) == i \in DOMAIN t /\ t[i] = s IN
  [crlf |-> Cardinality({i \in DOMAIN t : At(i, "CR") /\ At(i + 1, "LF")}),
   cr |-> Cardinality({i \in DOMAIN t : At(i, "CR") /\ ~At(i + 1, "LF")}),
   lf |-> Cardinality({i \in DOMAIN t : At(i, "LF") /\ ~At(i - 1, "CR")})]

ValidUtf8(t) == Decodes(t, FALSE) /\ t[Len(t)] # "lead"

Classify(t) ==
  IF "NUL" \in {t[i] : i \in DOMAIN t \cap 1..ChunkSize} THEN "BINARY"
  ELSE IF ShebangAfterBom(t) /\ shebangs THEN "BOM_BEFORE_SHEBANG"
  ELSE IF ~ValidUtf8(t) THEN "UNICODE_DECODE_ERROR"
  ELSE IF MixedCounts(LineEndCounts(t)) THEN "MIXED_LINE_ENDINGS"
  ELSE "OK"

Sample == SubSeq(file, 1, IF Limit < Len(file) THEN Limit ELSE Len(file))

\* However the sample is cut into chunks, the verdict is that on the sample as a whole.
VerdictIsThatOfTheSample == verdict # None => verdict = Classify(Sample)

\* The tentative newline style is one no other style outnumbers in the sample, so that of a
\* file that is not mixed is the one it has.
StyleDominates ==
  style # None =>
    LET n == LineEndCounts(Sample)
        Count == [LF |-> n.lf, CRLF |-> n.crlf, CR |-> n.cr]
    IN \A other \in {"LF", "CRLF", "CR"} : Count[style] >= Count[other]

\* Reading by chunks is never seen in the result: verdict and style are those of the sample.
SampleIsJudgedAsAWhole == VerdictIsThatOfTheSample /\ StyleDominates

------------------------------------------------------------------------------
\* "Invalid UTF-8 sequence at end-of-file": a file refused as undecodable has such a sequence.
RefusedTextIsInvalid == verdict = "UNICODE_DECODE_ERROR" => ~ValidUtf8(file)
==============================================================================
