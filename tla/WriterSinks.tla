----------------------------- MODULE WriterSinks -----------------------------
(***************************************************************************)
(* AtomicFileSink and InplaceFileSink of the writer step, one system call  *)
(* at a time, over a file system whose cached state reaches stable storage *)
(* when it is synced or whenever the kernel likes.  Every call may fail    *)
(* the way the sinks catch it (OSError); the process may be killed and the *)
(* machine may lose power between any two calls.                           *)
(*                                                                         *)
(* The sinks stream the Lines lines of the updated text.  A file's text is *)
(* Old, or the number of new lines that are in it.                         *)
(***************************************************************************)
EXTENDS Integers

CONSTANTS Lines \* number of lines of the updated text

ASSUME LinesAssumption == Lines \in Nat

\* The calls that may fail.  Where there is no os.O_DIRECTORY, as on Windows, syncing the
\* directory is as good as a call that always fails.
Calls == {"stat", "open", "chmod", "write", "fsync", "replace", "fsyncdir", "unlink"}

\* The file that is there, and the temporary one of the atomic sink.
Inodes == {"O", "T"}
Old == -1
Texts == {Old} \cup (0..Lines)

VARIABLES
  sink,     \* "atomic" or "inplace", see _select_sink
  failing,  \* calls that may fail during this write
  pc,       \* the call that comes next
  sent,     \* lines given to the buffered file object
  known,    \* the permissions of the old file could be read
  mode,     \* permissions per inode: the "user"'s, or the process's "default"
  text,     \* text per inode, as any process sees it
  textDisk, \* text per inode on stable storage
  dir,      \* directory entries "path" and "tmp": an inode, or "none"
  dirDisk,  \* the same on stable storage
  status    \* WriteStatus

cache == <<text, dir>>
disk == <<textDisk, dirDisk>>
vars == <<sink, failing, pc, sent, known, mode, cache, disk, status>>

MayFail(call) == call \in failing

\* The inode the lines go to.
Out == IF sink = "atomic" THEN "T" ELSE "O"

Init ==
  /\ sink \in {"atomic", "inplace"}
  /\ failing \in SUBSET Calls
  /\ pc = "stat" /\ sent = 0 /\ known = FALSE /\ status = "PENDING"
  /\ mode = [i \in Inodes |-> IF i = "O" THEN "user" ELSE "default"]
  /\ text = [i \in Inodes |-> IF i = "O" THEN Old ELSE 0]
  /\ textDisk = text
  /\ dir = [path |-> "O", tmp |-> "none"]
  /\ dirDisk = dir

------------------------------------------------------------------------------
\* What an exception that the sink catches leads to.
Fail(call) ==
  /\ MayFail(call)
  /\ pc' = IF sink = "atomic" THEN "cleanup" ELSE "failed"

Stat ==
  /\ pc = "stat" /\ pc' = "open"
  /\ known' \in {TRUE} \cup (IF MayFail("stat") THEN {FALSE} ELSE {})
  /\ UNCHANGED <<sink, failing, sent, mode, cache, disk, status>>

\* open("wb"): the atomic sink creates a file, the in-place sink truncates the one there is.
Open ==
  /\ pc = "open"
  /\ \/ /\ pc' = IF sink = "atomic" THEN "chmod" ELSE "write"
        /\ text' = [text EXCEPT ![Out] = 0]
        /\ dir' = IF sink = "atomic" THEN [dir EXCEPT !.tmp = "T"] ELSE dir
     \/ Fail("open") /\ UNCHANGED cache
  /\ UNCHANGED <<sink, failing, sent, known, mode, disk, status>>

\* Mutant: the in-place sink is done before its text is on stable storage.
AfterFlush_InplaceSkipsSync == IF sink = "atomic" THEN "fsync" ELSE "return"

\* After the last line comes flush() and then os.fsync().
AfterFlush == "fsync"

\* Mutant: no attempt to set the permissions of the temporary file.
ChmodResults_NeverTried == {"default"}

\* Best effort, early: before the first line is written.
ChmodResults ==
  IF ~known THEN {"default"}
  ELSE {"user"} \cup (IF MayFail("chmod") THEN {"default"} ELSE {})

Chmod ==
  /\ pc = "chmod" /\ pc' = "write"
  /\ mode' \in {[mode EXCEPT !["T"] = m] : m \in ChmodResults}
  /\ UNCHANGED <<sink, failing, sent, known, cache, disk, status>>

MoreToSend == sent < Lines

\* A line goes to the buffered file object, which may pass on what it holds or keep it.
WriteLine ==
  /\ pc = "write" /\ MoreToSend
  /\ \/ sent' = sent + 1 /\ pc' = pc
     \/ Fail("write") /\ sent' = sent
  /\ \E n \in text[Out]..sent' : text' = [text EXCEPT ![Out] = n]
  /\ UNCHANGED <<sink, failing, known, mode, dir, disk, status>>

Flush ==
  /\ pc = "write" /\ ~MoreToSend
  /\ \/ pc' = AfterFlush /\ text' = [text EXCEPT ![Out] = sent]
     \/ /\ Fail("write")
        /\ \E n \in text[Out]..sent : text' = [text EXCEPT ![Out] = n]
  /\ UNCHANGED <<sink, failing, sent, known, mode, dir, disk, status>>

\* Mutant: the atomic sink does not wait for its text to reach stable storage.
Synced_InplaceOnly == IF sink = "inplace" THEN [textDisk EXCEPT ![Out] = text[Out]] ELSE textDisk

Synced == [textDisk EXCEPT ![Out] = text[Out]]

\* The in-place sink then sets the permissions it found, which are the ones there are.
Fsync ==
  /\ pc = "fsync"
  /\ \/ pc' = (IF sink = "atomic" THEN "replace" ELSE "return") /\ textDisk' = Synced
     \/ Fail("fsync") /\ UNCHANGED textDisk
  /\ UNCHANGED <<sink, failing, sent, known, mode, cache, dirDisk, status>>

Replace ==
  /\ pc = "replace"
  /\ \/ pc' = "fsyncdir" /\ dir' = [path |-> "T", tmp |-> "none"]
     \/ Fail("replace") /\ UNCHANGED dir
  /\ UNCHANGED <<sink, failing, sent, known, mode, text, disk, status>>

\* Mutant: no attempt to sync the directory.
DirSynced_NeverTried == {dirDisk}

\* Best effort: failures are logged and forgotten.
DirSynced == {dir} \cup (IF MayFail("fsyncdir") THEN {dirDisk} ELSE {})

FsyncDir ==
  /\ pc = "fsyncdir" /\ pc' = "return"
  /\ dirDisk' \in DirSynced
  /\ UNCHANGED <<sink, failing, sent, known, mode, cache, textDisk, status>>

Return ==
  /\ pc = "return" /\ pc' = "done" /\ status' = "WRITTEN"
  /\ UNCHANGED <<sink, failing, sent, known, mode, cache, disk>>

\* Mutant: the temporary file stays behind after a failure.
CleanedUp_Never == {dir}

\* if tmp.exists(): tmp.unlink(), best effort.
CleanedUp ==
  {[dir EXCEPT !.tmp = "none"]} \cup (IF MayFail("unlink") THEN {dir} ELSE {})

Cleanup ==
  /\ pc = "cleanup" /\ pc' = "failed"
  /\ dir' \in CleanedUp
  /\ UNCHANGED <<sink, failing, sent, known, mode, text, disk, status>>

ReportFailure ==
  /\ pc = "failed" /\ pc' = "done" /\ status' = "FAILED"
  /\ UNCHANGED <<sink, failing, sent, known, mode, cache, disk>>

Sink ==
  \/ Stat \/ Open \/ Chmod \/ WriteLine \/ Flush \/ Fsync \/ Replace \/ FsyncDir
  \/ Cleanup \/ Return \/ ReportFailure

------------------------------------------------------------------------------
\* The kernel writes back what it likes when it likes; a rename is one change.
WriteBackText ==
  /\ \E i \in Inodes : textDisk' = [textDisk EXCEPT ![i] = text[i]]
  /\ UNCHANGED <<sink, failing, pc, sent, known, mode, cache, dirDisk, status>>

WriteBackDir ==
  /\ dirDisk' = dir
  /\ UNCHANGED <<sink, failing, pc, sent, known, mode, cache, textDisk, status>>

\* The process dies: what the file object still held is lost, nothing is cleaned up.
Kill ==
  /\ pc \notin {"done", "dead"} /\ pc' = "dead"
  /\ UNCHANGED <<sink, failing, sent, known, mode, cache, disk, status>>

\* The machine dies: what had not been written back is lost.
PowerLoss ==
  /\ pc' = "dead" /\ text' = textDisk /\ dir' = dirDisk
  /\ UNCHANGED <<sink, failing, sent, known, mode, disk, status>>

Next == Sink \/ WriteBackText \/ WriteBackDir \/ Kill \/ PowerLoss

Spec == Init /\ [][Next]_vars

------------------------------------------------------------------------------
Pcs == {"stat", "open", "chmod", "write", "fsync", "replace", "fsyncdir", "return",
        "cleanup", "failed", "done", "dead"}
Entries == [path : Inodes, tmp : {"T", "none"}]

\* Every variable stays in its range; a text never has more lines than were sent.
TypeOK ==
  /\ sink \in {"atomic", "inplace"} /\ failing \in SUBSET Calls /\ pc \in Pcs
  /\ sent \in 0..Lines /\ known \in BOOLEAN
  /\ mode \in [Inodes -> {"user", "default"}]
  /\ text \in [Inodes -> Texts] /\ textDisk \in [Inodes -> Texts]
  /\ dir \in Entries /\ dirDisk \in Entries
  /\ status \in {"PENDING", "WRITTEN", "FAILED"}

\* The atomic sink: readers of the path, and readers after a power loss, get the old text
\* or the complete new one ("never a partial write").
NeverPartial ==
  sink = "atomic" =>
    /\ text[dir.path] \in {Old, Lines}
    /\ textDisk[dirDisk.path] \in {Old, Lines}

\* What is reported as WRITTEN survives a power loss: always with the in-place sink, and
\* with the atomic one wherever the directory could be synced.
WrittenIsDurable ==
  status = "WRITTEN" /\ (sink = "atomic" => ~MayFail("fsyncdir")) =>
    textDisk[dirDisk.path] = Lines

\* Where permissions can be read and set, no new text is ever in a file that has others
\* than the user's, and the file at the path keeps them.
PermissionsKept ==
  ~MayFail("stat") /\ ~MayFail("chmod") =>
    /\ mode[dir.path] = "user"
    /\ text["T"] # 0 => mode["T"] = "user"

\* A sink that comes to its end leaves no temporary file where it could be removed.
NoTemporaryLeft ==
  pc = "done" /\ ~MayFail("unlink") => dir.tmp = "none"

\* Beyond the text of the file a write changes nothing, whichever calls fail on the way:
\* not who may read it, and not what else is in its directory.
NothingElseChanges == PermissionsKept /\ NoTemporaryLeft

------------------------------------------------------------------------------
Look(t) == CASE t = Old -> "old" [] t = Lines -> "new" [] OTHER -> "partial"

Contract == INSTANCE SinkContract WITH
  kind <- sink,
  visible <- Look(text[dir.path]),
  settled <- textDisk[dirDisk.path] = Lines,
  status <- IF status = "PENDING" /\ pc = "dead" THEN "UNKNOWN" ELSE status

\* Both sinks keep their promises to readers of the path and to the pipeline.
ImplementsContract == Contract!Spec
==============================================================================
