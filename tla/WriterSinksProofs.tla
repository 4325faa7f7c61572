-------------------------- MODULE WriterSinksProofs --------------------------
(***************************************************************************)
(* Proofs about WriterSinks, for updated texts of any length: readers of   *)
(* the path never get a part of the text from the atomic sink, what is     *)
(* reported as WRITTEN is durable, and both sinks keep SinkContract.       *)
(***************************************************************************)
EXTENDS WriterSinks, TLAPS

\* The in-place sink leaves the directory alone and fills the file from the first line on.
InplaceInv ==
  sink = "inplace" =>
    /\ dir = [path |-> "O", tmp |-> "none"] /\ dirDisk = dir
    /\ pc \notin {"chmod", "replace", "fsyncdir", "cleanup"}
    /\ textDisk["O"] = Lines => text["O"] = Lines
    /\ pc \in {"stat", "open"} => text["O"] = Old

\* The atomic sink leaves the old text alone; its own is complete, and on stable storage,
\* before the directory knows it under the path.
AtomicInv ==
  sink = "atomic" =>
    /\ text["O"] = Old /\ textDisk["O"] = Old
    /\ dir.path = "T" => text["T"] = Lines /\ textDisk["T"] = Lines
    /\ dirDisk.path = "T" => dir.path = "T"
    /\ pc \notin {"fsyncdir", "return", "done", "dead"} => dir.path = "O"
    /\ pc \in {"fsyncdir", "return"} => dir.path = "T"
    /\ status = "FAILED" => dir.path = "O"

\* How far the text has come when a call is due.
ProgressInv ==
  /\ pc \in {"chmod", "write", "fsync", "replace", "fsyncdir", "return"} => text[Out] \in 0..sent
  /\ pc \in {"fsync", "replace", "fsyncdir", "return"} \/ status = "WRITTEN" => text[Out] = Lines
  /\ pc \in {"replace", "fsyncdir", "return"} \/ status = "WRITTEN" => textDisk[Out] = Lines
  /\ pc = "return" \/ status = "WRITTEN" =>
       (sink = "atomic" /\ ~MayFail("fsyncdir") => dirDisk.path = "T")
  /\ pc \notin {"done", "dead"} => status = "PENDING"
  /\ pc = "done" => status # "PENDING"

SInv == TypeOK /\ InplaceInv /\ AtomicInv /\ ProgressInv

USE LinesAssumption

\* A write starts from a file nobody has touched.
LEMMA InitEstablishes == Init => SInv
<1> SUFFICES ASSUME Init
             PROVE  SInv
  OBVIOUS
<1>1. /\ text = [i \in Inodes |-> IF i = "O" THEN Old ELSE 0] /\ textDisk = text
      /\ dir = [path |-> "O", tmp |-> "none"] /\ dirDisk = dir
      /\ pc = "stat" /\ sent = 0 /\ status = "PENDING" /\ sink \in {"atomic", "inplace"}
      /\ failing \in SUBSET Calls /\ known = FALSE
  BY DEF Init
<1>2. text["O"] = Old /\ text["T"] = 0 /\ text \in [Inodes -> Texts]
  BY <1>1 DEF Inodes, Texts
<1>3. mode \in [Inodes -> {"user", "default"}]
  BY DEF Init
<1>4. TypeOK
  <2>1. dir \in Entries /\ dirDisk \in Entries /\ pc \in Pcs /\ textDisk \in [Inodes -> Texts]
    BY <1>1, <1>2 DEF Entries, Inodes, Pcs
  <2>2. sent \in 0..Lines
    BY <1>1
  <2> QED BY <1>1, <1>2, <1>3, <2>1, <2>2 DEF TypeOK
<1>5. InplaceInv /\ AtomicInv /\ ProgressInv
  BY <1>1, <1>2 DEF InplaceInv, AtomicInv, ProgressInv, Old
<1> QED BY <1>4, <1>5 DEF SInv

\* The calls that leave the text alone.
LEMMA CallsKeep ==
  ASSUME SInv,
         Stat \/ Chmod \/ Fsync \/ Replace \/ FsyncDir \/ Cleanup \/ Return \/ ReportFailure
  PROVE  SInv'
<1> USE DEF SInv, TypeOK, InplaceInv, AtomicInv, ProgressInv, Pcs, Entries, Inodes, Texts, Out, Old
<1>1. CASE Stat
  BY <1>1 DEF Stat, cache, disk, MayFail
<1>2. CASE Chmod
  <2>1. PICK m \in {"user", "default"} : mode' = [mode EXCEPT !["T"] = m]
    BY <1>2 DEF Chmod, ChmodResults
  <2> QED BY <1>2, <2>1 DEF Chmod, cache, disk, MayFail
<1>3. CASE Fsync
  BY <1>3 DEF Fsync, Synced, Fail, cache, disk, MayFail
<1>4. CASE Replace
  BY <1>4 DEF Replace, Fail, cache, disk, MayFail
<1>5. CASE FsyncDir
  BY <1>5 DEF FsyncDir, DirSynced, cache, disk, MayFail
<1>6. CASE Cleanup
  BY <1>6 DEF Cleanup, CleanedUp, cache, disk, MayFail
<1>7. CASE Return \/ ReportFailure
  BY <1>7 DEF Return, ReportFailure, cache, disk, MayFail
<1> QED BY <1>1, <1>2, <1>3, <1>4, <1>5, <1>6, <1>7

\* The calls that empty and fill the file written to.
LEMMA WritingKeeps ==
  ASSUME SInv, Open \/ WriteLine \/ Flush
  PROVE  SInv'
<1> USE DEF SInv, TypeOK, InplaceInv, AtomicInv, ProgressInv, Pcs, Entries, Inodes, Texts, Out, Old
<1>1. CASE Open
  BY <1>1 DEF Open, Fail, cache, disk, MayFail
<1>2. CASE WriteLine
  BY <1>2 DEF WriteLine, MoreToSend, Fail, cache, disk, MayFail
<1>3. CASE Flush
  BY <1>3 DEF Flush, MoreToSend, AfterFlush, Fail, cache, disk, MayFail
<1> QED BY <1>1, <1>2, <1>3

\* The kernel writes back, the process is killed, the machine stops.
LEMMA OthersKeep ==
  ASSUME SInv, WriteBackText \/ WriteBackDir \/ Kill \/ PowerLoss \/ UNCHANGED vars
  PROVE  SInv'
<1> USE DEF SInv, TypeOK, InplaceInv, AtomicInv, ProgressInv, Pcs, Entries, Inodes, Texts, Out, Old
<1>1. CASE WriteBackText
  <2>1. PICK i \in Inodes : textDisk' = [textDisk EXCEPT ![i] = text[i]]
    BY <1>1 DEF WriteBackText
  <2>2. UNCHANGED <<sink, failing, pc, sent, known, mode, text, dir, dirDisk, status>>
    BY <1>1 DEF WriteBackText, cache
  <2>3. CASE i = "O"
    BY <2>1, <2>2, <2>3 DEF MayFail
  <2>4. CASE i = "T"
    BY <2>1, <2>2, <2>4 DEF MayFail
  <2> QED BY <2>1, <2>3, <2>4
<1>2. CASE WriteBackDir
  BY <1>2 DEF WriteBackDir, cache, disk, MayFail
<1>3. CASE Kill \/ PowerLoss
  BY <1>3 DEF Kill, PowerLoss, cache, disk, MayFail
<1>4. CASE UNCHANGED vars
  BY <1>4 DEF vars, cache, disk, MayFail
<1> QED BY <1>1, <1>2, <1>3, <1>4

\* The inductive invariant holds throughout a write and after it.
THEOREM SinkInvariance == Spec => []SInv
<1>1. SInv /\ [Next]_vars => SInv'
  BY CallsKeep, WritingKeeps, OthersKeep DEF Next, Sink
<1> QED BY <1>1, InitEstablishes, PTL DEF Spec

\* AtomicFileSink: "readers will either see the old file or the complete new file, never a
\* partial write", nor does a power loss leave one.
THEOREM NeverAPart == Spec => []NeverPartial
<1>1. SInv => NeverPartial
  BY DEF SInv, TypeOK, AtomicInv, NeverPartial, Entries, Inodes
<1> QED BY <1>1, SinkInvariance, PTL

\* Both sinks sync before they report: a file reported as WRITTEN survives a power loss.
THEOREM WhatIsReportedIsDurable == Spec => []WrittenIsDurable
<1>1. SInv => WrittenIsDurable
  BY DEF SInv, TypeOK, InplaceInv, AtomicInv, ProgressInv, WrittenIsDurable, Out
<1> QED BY <1>1, SinkInvariance, PTL
------------------------------------------------------------------------------
(***************************************************************************)
(* What else a write could change: who may read the file, and what is left *)
(* beside it.                                                              *)
(***************************************************************************)

\* Where permissions can be read and set, the temporary file has the user's before it holds
\* any text or gets the name of the file.
ModeInv ==
  /\ mode["O"] = "user"
  /\ ~MayFail("stat") /\ ~MayFail("chmod") =>
       /\ pc \in {"open", "chmod"} => known
       /\ sink = "atomic" /\ pc \in {"write", "fsync", "replace", "fsyncdir", "return"} => mode["T"] = "user"
       /\ text["T"] # 0 \/ textDisk["T"] # 0 \/ dir.path = "T" => mode["T"] = "user"

\* The temporary file has no name before it is opened, after it is moved, and once it is removed.
TmpInv ==
  ~MayFail("unlink") =>
    (pc \in {"stat", "open", "fsyncdir", "return", "failed", "done"} => dir.tmp = "none")

SidesInv == ModeInv /\ TmpInv

LEMMA StepKeepsMode ==
  ASSUME SInv, ModeInv, [Next]_vars
  PROVE  ModeInv'
<1> USE DEF SInv, TypeOK, InplaceInv, AtomicInv, ModeInv, Entries, Inodes, Out, MayFail
<1>1. CASE Stat
  BY <1>1 DEF Stat, cache, disk
<1>2. CASE Open
  <2>1. /\ pc = "open" /\ UNCHANGED <<sink, failing, known, mode, textDisk>>
        /\ text'["T"] \in {text["T"], 0} /\ dir'.path = dir.path
        /\ pc' \in {"cleanup", "failed"} \cup (IF sink = "atomic" THEN {"chmod"} ELSE {"write"})
    BY <1>2 DEF Open, Fail, disk, cache
  <2> QED BY <2>1
<1>3. CASE Chmod
  <2>1. PICK m \in ChmodResults : mode' = [mode EXCEPT !["T"] = m]
    BY <1>3 DEF Chmod
  <2>2. ~MayFail("stat") /\ ~MayFail("chmod") => m = "user"
    BY <1>3, <2>1 DEF Chmod, ChmodResults
  <2> QED BY <1>3, <2>1, <2>2 DEF Chmod, cache, disk
<1>4. CASE WriteLine
  BY <1>4 DEF WriteLine, Fail, disk
<1>5. CASE Flush
  BY <1>5 DEF Flush, AfterFlush, Fail, disk
<1>6. CASE Fsync
  BY <1>6 DEF Fsync, Synced, Fail, cache
<1>7. CASE Replace
  BY <1>7 DEF Replace, Fail, disk
<1>8. CASE FsyncDir \/ Return \/ ReportFailure \/ WriteBackDir
  BY <1>8 DEF FsyncDir, Return, ReportFailure, WriteBackDir, cache, disk
<1>9. CASE Cleanup
  BY <1>9 DEF Cleanup, CleanedUp, disk
<1>10. CASE WriteBackText
  BY <1>10 DEF WriteBackText, cache
<1>11. CASE Kill \/ PowerLoss
  BY <1>11 DEF Kill, PowerLoss, cache, disk
<1>12. CASE UNCHANGED vars
  BY <1>12 DEF vars, cache, disk
<1> QED BY <1>1, <1>2, <1>3, <1>4, <1>5, <1>6, <1>7, <1>8, <1>9, <1>10, <1>11, <1>12 DEF Next, Sink

LEMMA StepKeepsTmp ==
  ASSUME SInv, TmpInv, [Next]_vars
  PROVE  TmpInv'
<1> USE DEF TmpInv, MayFail
<1>1. CASE Stat \/ Chmod \/ FsyncDir \/ Return \/ ReportFailure \/ WriteBackText \/ WriteBackDir
           \/ Kill \/ PowerLoss \/ UNCHANGED vars
  BY <1>1 DEF Stat, Chmod, FsyncDir, Return, ReportFailure, WriteBackText, WriteBackDir, Kill, PowerLoss,
              vars, cache
<1>2. CASE Open \/ WriteLine \/ Flush \/ Fsync
  <2>1. sink = "inplace" => dir.tmp = "none" /\ dir' = dir
    BY <1>2 DEF SInv, InplaceInv, Open, WriteLine, Flush, Fsync, cache
  <2>2. sink = "atomic" => pc' \notin {"stat", "open", "fsyncdir", "return", "failed", "done"}
    BY <1>2 DEF Open, WriteLine, Flush, AfterFlush, Fsync, Fail
  <2> QED BY <1>2, <2>1, <2>2 DEF SInv, TypeOK, Open, WriteLine, Flush, Fsync, cache
<1>3. CASE Replace
  <2>1. sink = "atomic"
    BY <1>3 DEF Replace, SInv, TypeOK, InplaceInv
  <2> QED BY <1>3, <2>1 DEF Replace, Fail
<1>4. CASE Cleanup
  BY <1>4 DEF Cleanup, CleanedUp, SInv, TypeOK, Entries
<1> QED BY <1>1, <1>2, <1>3, <1>4 DEF Next, Sink

\* Beyond the text of the file a write changes nothing, whichever calls fail and whenever
\* the process or the machine stops: the new text is never in a file with other permissions
\* than the old one, and a sink that comes to its end leaves no temporary file.
THEOREM NothingElseIsChanged == Spec => []NothingElseChanges
<1>1. Init => SidesInv
  BY DEF Init, SidesInv, ModeInv, TmpInv, Inodes
<1>2. SInv /\ SidesInv /\ [Next]_vars => SidesInv'
  BY StepKeepsMode, StepKeepsTmp DEF SidesInv
<1>3. SInv /\ SidesInv => NothingElseChanges
  BY DEF SInv, TypeOK, SidesInv, ModeInv, TmpInv, NothingElseChanges, PermissionsKept, NoTemporaryLeft,
         Entries, Inodes
<1> QED BY <1>1, <1>2, <1>3, SinkInvariance, PTL DEF Spec

------------------------------------------------------------------------------
(***************************************************************************)
(* The sinks keep SinkContract.                                            *)
(***************************************************************************)

\* What the contract calls visible, settled and status.
Visible == Look(text[dir.path])
Settled == textDisk[dirDisk.path] = Lines
Reported == IF status = "PENDING" /\ pc = "dead" THEN "UNKNOWN" ELSE status

\* A reader sees the whole new text just when there are as many new lines as there should be.
LEMMA LookAtText ==
  \A t \in Texts : /\ Look(t) \in {"old", "new", "partial"}
                   /\ Look(t) = "new" <=> t = Lines
                   /\ Look(t) = "old" <=> t = Old
BY DEF Look, Texts, Old

\* What the contract says of a state in which the sinks' invariant holds.
LEMMA ContractState ==
  ASSUME SInv
  PROVE  /\ sink \in {"atomic", "inplace"}
         /\ Visible \in {"old", "new", "partial"}
         /\ Visible = "new" <=> text[dir.path] = Lines
         /\ Visible = "old" <=> text[dir.path] = Old
         /\ sink = "atomic" => Visible \in {"old", "new"}
         /\ Settled => Visible = "new"
BY LookAtText DEF SInv, TypeOK, InplaceInv, AtomicInv, Visible, Settled, Entries, Inodes, Old

\* Calls before the sink touches the path, and failures of any call.
LEMMA QuietCalls ==
  ASSUME SInv, Stat \/ Chmod \/ Cleanup
  PROVE  UNCHANGED <<sink, Visible, Settled, Reported>>
BY DEF SInv, TypeOK, InplaceInv, AtomicInv, ProgressInv, Stat, Chmod, Cleanup, CleanedUp, cache,
       disk, Visible, Settled, Reported, Entries, Inodes

\* Opening, writing and flushing: the in-place sink tears the file and completes it again.
LEMMA FillingSteps ==
  ASSUME SInv, SInv', Open \/ WriteLine \/ Flush
  PROVE  /\ UNCHANGED <<sink, Settled, Reported>> /\ Reported = "PENDING"
         /\ \/ Visible' = Visible
            \/ sink = "inplace" /\ Visible # "new" /\ Visible' # "old"
<1>1. /\ sink' = sink /\ status' = status /\ status = "PENDING"
      /\ textDisk' = textDisk /\ dirDisk' = dirDisk
      /\ pc # "dead" /\ pc' # "dead"
  BY DEF SInv, ProgressInv, Open, WriteLine, Flush, AfterFlush, Fail, cache, disk
<1>2. UNCHANGED <<sink, Settled, Reported>> /\ Reported = "PENDING"
  BY <1>1 DEF Settled, Reported
<1>3. CASE sink = "atomic"
  <2>1. dir.path = "O" /\ dir'.path = "O" /\ text["O"] = Old /\ text'["O"] = Old
    BY <1>1, <1>3 DEF SInv, AtomicInv, Open, WriteLine, Flush, AfterFlush, Fail
  <2> QED BY <1>2, <2>1 DEF Visible
<1>4. CASE sink = "inplace"
  <2>1. dir.path = "O" /\ dir'.path = "O" /\ text["O"] \in Texts /\ text'["O"] \in Texts
    BY <1>1, <1>4 DEF SInv, TypeOK, InplaceInv, Inodes
  <2>2. \/ text'["O"] = text["O"]
        \/ text["O"] # Lines /\ text'["O"] # Old
    BY <1>4, <2>1 DEF SInv, TypeOK, InplaceInv, ProgressInv, Open, WriteLine, Flush, AfterFlush,
                Fail, Out, Old, Texts, Inodes, cache, MoreToSend
  <2> QED BY <1>2, <1>4, <2>1, <2>2, LookAtText DEF Visible
<1> QED BY <1>3, <1>4 DEF SInv, TypeOK

\* Syncing settles the text and changes nothing anybody sees; only then is it moved.
LEMMA SyncingSteps ==
  ASSUME SInv, SInv', Fsync \/ FsyncDir \/ WriteBackText \/ WriteBackDir
  PROVE  /\ UNCHANGED <<sink, Visible, Reported>>
         /\ Settled => Settled'
         /\ Settled' => Visible = "new"
<1>1. UNCHANGED <<sink, text, dir, status>> /\ (pc = "dead" <=> pc' = "dead")
  BY DEF SInv, ProgressInv, Fsync, FsyncDir, WriteBackText, WriteBackDir, Fail, cache
<1>2. UNCHANGED <<sink, Visible, Reported>>
  BY <1>1 DEF Visible, Reported
<1>3. Settled' => Visible' = "new"
  BY LookAtText DEF SInv, TypeOK, InplaceInv, AtomicInv, Visible, Settled, Entries, Inodes, Old
<1>4. ASSUME Settled
      PROVE  Settled'
  <2>1. Visible = "new" /\ text[dir.path] = Lines
    BY <1>4, ContractState
  <2>2. CASE sink = "inplace"
    BY <1>1, <1>4, <2>1, <2>2
       DEF SInv, TypeOK, InplaceInv, Settled, Fsync, Synced, FsyncDir, WriteBackText,
           WriteBackDir, Fail, cache, disk, Out, Inodes
  <2>3. CASE sink = "atomic"
    <3>1. dirDisk.path = "T" /\ dir.path = "T"
      BY <1>4, <2>3 DEF SInv, TypeOK, AtomicInv, Settled, Entries, Inodes, Old
    <3>2. dirDisk'.path = "T"
      BY <3>1 DEF Fsync, FsyncDir, DirSynced, WriteBackText, WriteBackDir, Fail
    <3>3. textDisk'["T"] = Lines
      BY <1>1, <2>3, <3>1 DEF SInv, AtomicInv
    <3> QED BY <3>2, <3>3 DEF Settled
  <2> QED BY <2>2, <2>3 DEF SInv, TypeOK
<1> QED BY <1>2, <1>3, <1>4

\* os.replace is the step that commits the text of the atomic sink.
LEMMA ReplaceCommits ==
  ASSUME SInv, SInv', Replace
  PROVE  /\ UNCHANGED <<sink, Settled, Reported>> /\ Reported = "PENDING"
         /\ Visible' = Visible \/ (sink = "atomic" /\ Visible = "old" /\ Visible' = "new")
<1>1. /\ UNCHANGED <<sink, text, textDisk, dirDisk, status>> /\ status = "PENDING"
      /\ pc # "dead" /\ pc' # "dead" /\ sink = "atomic"
  BY DEF SInv, TypeOK, InplaceInv, ProgressInv, Replace, Fail, disk
<1>2. UNCHANGED <<sink, Settled, Reported>> /\ Reported = "PENDING"
  BY <1>1 DEF Settled, Reported
<1>3. dir.path = "O" /\ Visible = "old"
  BY <1>1, ContractState DEF SInv, AtomicInv, Replace
<1>4. CASE dir' = dir
  BY <1>1, <1>2, <1>4 DEF Visible
<1>5. CASE dir' # dir
  <2>1. dir'.path = "T" /\ text'["T"] = Lines
    BY <1>1, <1>5 DEF SInv, AtomicInv, Replace
  <2> QED BY <1>1, <1>2, <1>3, <2>1, LookAtText DEF Visible, SInv, TypeOK, Texts
<1> QED BY <1>4, <1>5

\* The sink returns.
LEMMA ReportingSteps ==
  ASSUME SInv, Return \/ ReportFailure
  PROVE  /\ UNCHANGED <<sink, Visible, Settled>> /\ Reported = "PENDING"
         /\ \/ Reported' = "WRITTEN" /\ Visible = "new" /\ (sink = "inplace" => Settled)
            \/ Reported' = "FAILED" /\ (sink = "atomic" => Visible = "old")
<1>1. UNCHANGED <<sink, Visible, Settled>> /\ Reported = "PENDING"
  BY DEF SInv, ProgressInv, Return, ReportFailure, cache, disk, Visible, Settled, Reported
<1>2. CASE Return
  <2>1. Reported' = "WRITTEN"
    BY <1>2 DEF Return, Reported
  <2>2. text[dir.path] = Lines /\ (sink = "inplace" => Settled)
    BY <1>2 DEF SInv, TypeOK, InplaceInv, AtomicInv, ProgressInv, Return, Settled, Out
  <2> QED BY <1>1, <2>1, <2>2, ContractState
<1>3. CASE ReportFailure
  <2>1. Reported' = "FAILED" /\ (sink = "atomic" => Visible = "old")
    BY <1>3, ContractState DEF SInv, AtomicInv, ReportFailure, Reported
  <2> QED BY <1>1, <2>1
<1> QED BY <1>2, <1>3

\* The process or the machine stops.
LEMMA StoppingSteps ==
  ASSUME SInv, SInv', Kill \/ PowerLoss
  PROVE  /\ UNCHANGED <<sink, Settled>>
         /\ Reported' = IF Reported = "PENDING" THEN "UNKNOWN" ELSE Reported
         /\ \/ Visible' = Visible
            \/ ~Settled /\ Visible' \in {"old"} \cup (IF sink = "inplace" THEN {"partial"} ELSE {})
<1>1. UNCHANGED <<sink, textDisk, dirDisk, status>> /\ pc' = "dead"
  BY DEF Kill, PowerLoss, disk
<1>2. UNCHANGED <<sink, Settled>> /\ Reported' = IF Reported = "PENDING" THEN "UNKNOWN" ELSE Reported
  BY <1>1 DEF Settled, Reported
<1>3. CASE Kill
  BY <1>2, <1>3 DEF Kill, cache, Visible
<1>4. CASE PowerLoss
  <2>1. text'[dir'.path] = textDisk[dirDisk.path]
    BY <1>4 DEF PowerLoss
  <2>2. CASE Settled
    <3>1. text'[dir'.path] = Lines /\ text[dir.path] = Lines
      BY <2>1, <2>2, ContractState DEF Settled
    <3> QED BY <1>2, <3>1 DEF Visible
  <2>3. CASE ~Settled
    <3>1. textDisk[dirDisk.path] \in Texts \ {Lines}
      BY <2>3 DEF Settled, SInv, TypeOK, Entries
    <3>2. sink = "atomic" => textDisk[dirDisk.path] = Old
      BY <2>3 DEF Settled, SInv, TypeOK, AtomicInv, Entries, Inodes
    <3> QED BY <1>2, <2>1, <2>3, <3>1, <3>2, LookAtText DEF Visible, SInv, TypeOK
  <2> QED BY <2>2, <2>3
<1> QED BY <1>3, <1>4

\* A write begins the way the contract says.
LEMMA InitKeepsContract == Init => Contract!Init
<1> SUFFICES ASSUME Init
             PROVE  Contract!Init
  OBVIOUS
<1>1. SInv /\ text[dir.path] = Old /\ textDisk[dirDisk.path] = Old
  BY InitEstablishes DEF Init, Inodes
<1>2. Visible = "old" /\ Settled = FALSE /\ Reported = "PENDING"
  BY <1>1, ContractState DEF Init, Settled, Reported, Old
<1> QED BY <1>1, <1>2 DEF Contract!Init, Visible, Settled, Reported, SInv, TypeOK

\* Every step of a sink, and of what may happen to it, is a step of the contract or none.
LEMMA StepKeepsContract ==
  ASSUME SInv, SInv', [Next]_vars
  PROVE  [Contract!Next]_Contract!vars
<1> DEFINE Same == UNCHANGED <<sink, Visible, Settled, Reported>>
<1>1. Same => UNCHANGED Contract!vars
  BY DEF Contract!vars, Visible, Settled, Reported
<1>2. CASE Stat \/ Chmod \/ Cleanup
  BY <1>1, <1>2, QuietCalls
<1>3. CASE Open \/ WriteLine \/ Flush
  <2>1. CASE Visible' = Visible
    BY <1>1, <1>3, <2>1, FillingSteps
  <2>2. CASE Visible' # Visible
    <3>1. /\ UNCHANGED <<sink, Settled, Reported>> /\ Reported = "PENDING"
          /\ sink = "inplace" /\ Visible \in {"old", "partial"} /\ Visible' \in {"partial", "new"}
          /\ Visible' # Visible
      BY <1>3, <2>2, FillingSteps, ContractState, LookAtText DEF SInv, TypeOK, Visible, Entries
    <3> QED BY <3>1 DEF Contract!Next, Contract!Tear, Contract!Commit, Visible, Settled, Reported
  <2> QED BY <2>1, <2>2
<1>4. CASE Fsync \/ FsyncDir \/ WriteBackText \/ WriteBackDir
  <2>1. Settled \in BOOLEAN /\ Settled' \in BOOLEAN
    BY DEF Settled
  <2>2. CASE Settled' = Settled
    BY <1>1, <1>4, <2>2, SyncingSteps
  <2>3. CASE Settled' # Settled
    <3>1. /\ UNCHANGED <<sink, Visible, Reported>>
          /\ Visible = "new" /\ Settled' = TRUE
      BY <1>4, <2>1, <2>3, SyncingSteps
    <3> QED BY <3>1 DEF Contract!Next, Contract!Settle, Visible, Settled, Reported
  <2> QED BY <2>2, <2>3
<1>5. CASE Replace
  <2>1. CASE Visible' = Visible
    BY <1>1, <1>5, <2>1, ReplaceCommits
  <2>2. CASE Visible' # Visible
    BY <1>5, <2>2, ReplaceCommits DEF Contract!Next, Contract!Commit, Visible, Settled, Reported
  <2> QED BY <2>1, <2>2
<1>6. CASE Return \/ ReportFailure
  BY <1>6, ReportingSteps DEF Contract!Next, Contract!Report, Visible, Settled, Reported
<1>7. CASE Kill \/ PowerLoss
  BY <1>7, StoppingSteps DEF Contract!Next, Contract!Stop, Visible, Settled, Reported
<1>8. CASE UNCHANGED vars
  BY <1>8 DEF vars, cache, disk, Contract!vars
<1> QED BY <1>2, <1>3, <1>4, <1>5, <1>6, <1>7, <1>8 DEF Next, Sink

\* Both file sinks keep the contract, for a text of any length and whatever fails or stops.
THEOREM SinksKeepContract == Spec => ImplementsContract
<1>1. SInv /\ SInv' /\ [Next]_vars => [Contract!Next]_Contract!vars
  BY StepKeepsContract
<1> QED BY <1>1, InitKeepsContract, SinkInvariance, PTL DEF Spec, ImplementsContract, Contract!Spec
==============================================================================
