----------------------------- MODULE RunContract -----------------------------
(***************************************************************************)
(* What a command promises about the files it selected, seen from outside: *)
(* it selects them once, settles each of them exactly once, either with a  *)
(* result or with an error that it remembers, and it closes only when none *)
(* is left.  A command that refuses to start selects nothing.              *)
(***************************************************************************)
CONSTANTS Path

VARIABLES
  phase, \* "idle", "open" or "closed"
  task,  \* per path: "none", "waiting", "reported" or "lost"
  error  \* an engine error is on record

vars == <<phase, task, error>>

Init == phase = "idle" /\ task = [p \in Path |-> "none"] /\ error = FALSE

Open ==
  /\ phase = "idle" /\ phase' = "open"
  /\ \E selected \in SUBSET Path :
       task' = [p \in Path |-> IF p \in selected THEN "waiting" ELSE "none"]
  /\ UNCHANGED error

Report(p) ==
  /\ phase = "open" /\ task[p] = "waiting"
  /\ task' = [task EXCEPT ![p] = "reported"]
  /\ UNCHANGED <<phase, error>>

Lose(p) ==
  /\ phase = "open" /\ task[p] = "waiting"
  /\ task' = [task EXCEPT ![p] = "lost"]
  /\ error' = TRUE /\ UNCHANGED phase

Close ==
  /\ phase \in {"idle", "open"} /\ \A p \in Path : task[p] # "waiting"
  /\ phase' = "closed" /\ UNCHANGED <<task, error>>

Next == Open \/ (\E p \in Path : Report(p) \/ Lose(p)) \/ Close

Spec == Init /\ [][Next]_vars
=============================================================================
