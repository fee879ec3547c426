-------------------------- MODULE EvaluationContract --------------------------
(***************************************************************************)
(* What the evaluation module promises to the modules behind the event bus  *)
(* and to the teacher who reads a result: an evaluation is marked while it   *)
(* is open, merged, locked, announced while locked, and reopened only after  *)
(* its result went to the archive.  Every operation is one atomic step.      *)
(* Module Evaluation implements this when requests do not overlap; with two  *)
(* requests in flight it does not.                                           *)
(***************************************************************************)
EXTENDS Naturals, Sequences

VARIABLES
  status,     \* lifecycle status, "ABSENT" before the evaluation exists
  marks,      \* the mark sheet
  total,      \* the merged total
  archive,    \* snapshots [no, status, total], in order
  announced   \* totals announced to the other modules

vars == <<status, marks, total, archive, announced>>

Init ==
  /\ status = "ABSENT"
  /\ archive = <<>>
  /\ announced = <<>>

Open ==
  /\ status = "ABSENT"
  /\ status' = "PENDING"
  /\ UNCHANGED <<marks, total, archive, announced>>

\* A scanned sheet: possible until a teacher has marked or the result is closed.
Scan ==
  /\ status \in {"ABSENT", "PENDING", "STARTED", "OBJECTIVE_COMPLETED"}
  /\ status' = "OBJECTIVE_COMPLETED"
  /\ UNCHANGED <<total, archive, announced>>

\* A teacher's mark: any time but before the evaluation exists or while LOCKED.
Mark ==
  /\ \/ /\ status \in {"PENDING", "STARTED", "OBJECTIVE_COMPLETED"}
        /\ status' = "SUBJECTIVE_PENDING"
     \/ /\ status \in {"SUBJECTIVE_PENDING", "COMPLETED"}
        /\ status' = status
  /\ UNCHANGED <<total, archive, announced>>

Merge ==
  /\ status \in {"STARTED", "OBJECTIVE_COMPLETED", "SUBJECTIVE_PENDING", "COMPLETED"}
  /\ status' = "COMPLETED"
  /\ UNCHANGED <<marks, archive, announced>>

Lock ==
  /\ status = "COMPLETED"
  /\ status' = "LOCKED"
  /\ UNCHANGED <<marks, total, archive, announced>>

Announce ==
  /\ status = "LOCKED"
  /\ announced' = Append(announced, total)
  /\ UNCHANGED <<status, marks, total, archive>>

Reopen ==
  /\ status \in {"PENDING", "STARTED", "COMPLETED", "LOCKED"}
  /\ status' = "STARTED"
  /\ archive' = Append(archive,
       [no |-> Len(archive) + 1, status |-> status, total |-> total])
  /\ UNCHANGED <<marks, total, announced>>

Next == Open \/ Scan \/ Mark \/ Merge \/ Lock \/ Announce \/ Reopen

Spec == Init /\ [][Next]_vars

=============================================================================
