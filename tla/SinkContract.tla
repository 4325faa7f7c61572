---------------------------- MODULE SinkContract ----------------------------
(***************************************************************************)
(* What the two file sinks of the writer promise about one file, seen from *)
(* outside: which text a reader of the path gets, whether that text would  *)
(* survive a power loss, and what the sink has reported.                   *)
(*                                                                         *)
(* The atomic sink goes from the old text to the new one in one step and   *)
(* reports FAILED only if the old text is still there.  The in-place sink  *)
(* tears the file first, but reports WRITTEN only when the new text is on  *)
(* stable storage.                                                         *)
(***************************************************************************)

VARIABLES
  kind,    \* file_write_strategy: "atomic" or "inplace"
  visible, \* what a reader gets: the "old" text, the "new" one or a "partial" one
  settled, \* the new text is on stable storage
  status   \* what the sink returned; "UNKNOWN" when it never came to that

vars == <<kind, visible, settled, status>>

Init ==
  /\ kind \in {"atomic", "inplace"}
  /\ visible = "old" /\ settled = FALSE /\ status = "PENDING"

Tear ==
  /\ kind = "inplace" /\ status = "PENDING" /\ visible = "old"
  /\ visible' = "partial"
  /\ UNCHANGED <<kind, settled, status>>

Commit ==
  /\ status = "PENDING" /\ visible \in {"old"} \cup (IF kind = "inplace" THEN {"partial"} ELSE {})
  /\ visible' = "new"
  /\ UNCHANGED <<kind, settled, status>>

Settle ==
  /\ visible = "new" /\ settled' = TRUE
  /\ UNCHANGED <<kind, visible, status>>

Report ==
  /\ status = "PENDING"
  /\ \/ status' = "WRITTEN" /\ visible = "new" /\ (kind = "inplace" => settled)
     \/ status' = "FAILED" /\ (kind = "atomic" => visible = "old")
  /\ UNCHANGED <<kind, visible, settled>>

\* The process or the machine stops: text that had not settled may be gone again.
Stop ==
  /\ status' = IF status = "PENDING" THEN "UNKNOWN" ELSE status
  /\ \/ visible' = visible
     \/ ~settled /\ visible' \in {"old"} \cup (IF kind = "inplace" THEN {"partial"} ELSE {})
  /\ UNCHANGED <<kind, settled>>

Next == Tear \/ Commit \/ Settle \/ Report \/ Stop

Spec == Init /\ [][Next]_vars
=============================================================================
