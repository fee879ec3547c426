--------------------------- MODULE EvaluationProofs ---------------------------
(***************************************************************************)
(* Proofs about module Evaluation, for any number of workers and questions,   *)
(* and then for requests that do not overlap: at most one worker, but any     *)
(* number of questions, uploads, reviews and versions, and with the           *)
(* ExamSubmitted handler still running in between.                            *)
(***************************************************************************)
EXTENDS Evaluation, FiniteSetTheorems, SequenceTheorems, TLAPS

-----------------------------------------------------------------------------
(* Lemmas about the operators of the model.                                *)

\* Rewriting an element keeps a sequence's type, even out of its range.
LEMMA ReplaceInSeq ==
  ASSUME NEW S, NEW s \in Seq(S), NEW i, NEW e \in S
  PROVE  [s EXCEPT ![i] = e] \in Seq(S)
<1>1. CASE i \in 1 .. Len(s)
  BY <1>1, ExceptSeq
<1>2. CASE i \notin 1 .. Len(s)
  <2>1. DOMAIN s = 1 .. Len(s) /\ s \in [1 .. Len(s) -> S]
    BY LenProperties
  <2>2. [s EXCEPT ![i] = e] = s
    BY <2>1, <1>2
  <2> QED BY <2>2
<1> QED BY <1>1, <1>2

\* The sum of an evaluator's marks is a natural number.
LEMMA MarksType ==
  ASSUME NEW sheet, NEW who
  PROVE  Marks(sheet, who) \in Nat
<1>1. IsFiniteSet(1 .. MaxRows) /\ IsFiniteSet(1 .. MaxMark)
  <2>1. MaxRows \in Nat /\ MaxMark \in Nat
    BY FS_CardinalityType, ConstantsAssumption DEF MaxRows
  <2> QED BY <2>1, FS_Interval
<1>2. IsFiniteSet((1 .. MaxRows) \X (1 .. MaxMark))
  BY <1>1, FS_Product
<1>3. IsFiniteSet(Questions \X ((1 .. MaxRows) \X (1 .. MaxMark)))
  BY <1>2, FS_Product, ConstantsAssumption
<1>4. IsFiniteSet(Points(sheet, who))
  BY <1>3, FS_Subset DEF Points
<1> QED BY <1>4, FS_CardinalityType DEF Marks

\* A row that is read, inserted, merged or reopened keeps the columns' types.
LEMMA NewRowType ==
  ASSUME NEW status \in Status \cup {Absent}
  PROVE  NewRow(status) \in Row
BY DEF NewRow, Row, NoMarks

\* The merge of complete_evaluation leaves a row of the table.
LEMMA MergedType ==
  ASSUME TypeOK, NEW sheet, NEW seen
  PROVE  Merged(sheet, seen) \in Row
<1> DEFINE obj == Marks(sheet, "OMR")
           subj == Marks(sheet, "TEACHER")
<1>1. obj \in Nat /\ subj \in Nat
  BY MarksType
<1>2. obj + subj \in Nat
  BY <1>1
<1> HIDE DEF obj, subj
<1>3. row \in Row
  BY DEF TypeOK
<1>4. /\ Written(row.objective, seen.objective, obj) \in Nat \cup {NoMarks}
      /\ Written(row.subjective, seen.subjective, subj) \in Nat \cup {NoMarks}
      /\ Written(row.total, seen.total, obj + subj) \in Nat \cup {NoMarks}
      /\ Written(row.status, seen.status, "COMPLETED") \in Status \cup {Absent}
  BY <1>1, <1>2, <1>3 DEF Written, Row, Status
<1> QED BY <1>3, <1>4 DEF Merged, Row, obj, subj

\* The approval of a re-evaluation leaves a row of the table.
LEMMA ReopenedType ==
  ASSUME TypeOK, NEW seen \in Row
  PROVE  Reopened(seen) \in Row
<1>1. row \in Row
  BY DEF TypeOK
<1>2. seen.version + 1 \in Nat \ {0}
  BY DEF Row
<1>3. /\ Written(row.locked_at, seen.locked_at, FALSE) \in BOOLEAN
      /\ Written(row.status, seen.status, "STARTED") \in Status \cup {Absent}
  BY <1>1 DEF Written, Row, Status
<1> QED BY <1>1, <1>2, <1>3 DEF Reopened, Row

\* An upsert yields a mark sheet, whatever stale copy it started from.
LEMMA UpsertType ==
  ASSUME NEW sheet \in Sheet, NEW seen, NEW entry \in Entry,
         NEW who \in {"OMR", "TEACHER"}
  PROVE  Upsert(sheet, seen, entry, who) \in Sheet
<1> SUFFICES ASSUME NEW q \in Questions
             PROVE  Upsert(sheet, seen, entry, who)[q] \in Seq(Detail)
  BY DEF Upsert, Sheet
<1>1. sheet[q] \in Seq(Detail)
  BY DEF Sheet
<1>2. CASE q \notin DOMAIN entry
  BY <1>1, <1>2 DEF Upsert
<1>3. CASE q \in DOMAIN entry /\ seen[q] = <<>>
  <2>1. entry[q] \in 0 .. MaxMark
    BY <1>3 DEF Entry
  <2>2. [marks |-> entry[q], by |-> who] \in Detail
    BY <2>1 DEF Detail
  <2> QED BY <1>1, <1>3, <2>2 DEF Upsert
<1>4. CASE q \in DOMAIN entry /\ seen[q] # <<>>
  <2> DEFINE new == [marks |-> Written(sheet[q][1].marks, seen[q][1].marks, entry[q]),
                     by    |-> Written(sheet[q][1].by, seen[q][1].by, who)]
  <2>1. Upsert(sheet, seen, entry, who)[q] = [sheet[q] EXCEPT ![1] = new]
    BY <1>4 DEF Upsert
  <2>2. CASE sheet[q] = <<>>
    <3>1. DOMAIN sheet[q] = {}
      BY <2>2
    <3>2. [sheet[q] EXCEPT ![1] = new] = [i \in {} |-> sheet[q][i]]
      BY <3>1
    <3>3. [i \in {} |-> sheet[q][i]] = <<>>
      OBVIOUS
    <3> QED BY <2>1, <3>2, <3>3, EmptySeq
  <2>3. CASE sheet[q] # <<>>
    <3>1. 1 \in 1 .. Len(sheet[q])
      BY <1>1, <2>3, EmptySeq, LenProperties
    <3>2. sheet[q][1] \in Detail
      BY <1>1, <3>1, ElementOfSeq
    <3>3. entry[q] \in 0 .. MaxMark
      BY <1>4 DEF Entry
    <3>4. new \in Detail
      BY <3>2, <3>3 DEF Detail, Written
    <3> QED BY <1>1, <2>1, <3>1, <3>4, ExceptSeq
  <2> QED BY <2>2, <2>3
<1> QED BY <1>2, <1>3, <1>4

SawRow ==
  \A w \in Workers :
    task[w].op \in {"idle", "omr"} \/ task[w].row.status \in Status

\* A worker without a request is a task, and loads nothing it needs a row for.
LEMMA IdleType == Idle \in Task
<1>1. NewRow(Absent) \in Row
  BY NewRowType
<1>2. EmptySheet \in Sheet
  BY EmptySeq DEF EmptySheet, Sheet
<1>3. NoEntry \in [{} -> 0 .. MaxMark] /\ {} \in SUBSET Questions
  BY DEF NoEntry
<1>4. NoEntry \in Entry
  BY <1>3 DEF Entry
<1> QED BY <1>1, <1>2, <1>4 DEF Idle, Task

\* A task stays well-formed when it ends, moves on or loads the details.
LEMMA TaskMoves ==
  ASSUME TypeOK, NEW w \in Workers,
         \/ Finish(w)
         \/ task' = [task EXCEPT ![w].step = "commit"]
         \/ task' = [task EXCEPT ![w].step = "publish"]
         \/ task' = [task EXCEPT ![w].step = "commit", ![w].sheet = details]
  PROVE  task' \in [Workers -> Task] /\ SawRow'
<1>1. task \in [Workers -> Task] /\ details \in Sheet /\ task[w] \in Task
  BY DEF TypeOK
<1>2. SawRow
  BY DEF TypeOK, SawRow
<1>3. CASE Finish(w)
  <2>1. Idle.op = "idle"
    BY DEF Idle
  <2> QED BY <1>1, <1>2, <1>3, <2>1, IdleType DEF Finish, SawRow
<1>4. ASSUME NEW s \in {"commit", "publish"}, task' = [task EXCEPT ![w].step = s]
      PROVE  task' \in [Workers -> Task] /\ SawRow'
  <2>1. [task[w] EXCEPT !.step = s] \in Task
    BY <1>1 DEF Task
  <2>2. task' \in [Workers -> Task]
    BY <1>1, <1>4, <2>1
  <2>3. ASSUME NEW v \in Workers
        PROVE  task'[v].op = task[v].op /\ task'[v].row = task[v].row
    BY <1>1, <1>4 DEF Task
  <2> QED BY <1>2, <2>2, <2>3 DEF SawRow
<1>5. CASE task' = [task EXCEPT ![w].step = "commit", ![w].sheet = details]
  <2>1. [task[w] EXCEPT !.step = "commit", !.sheet = details] \in Task
    BY <1>1 DEF Task
  <2>2. task' \in [Workers -> Task]
    BY <1>1, <1>5, <2>1
  <2>3. ASSUME NEW v \in Workers
        PROVE  task'[v].op = task[v].op /\ task'[v].row = task[v].row
    BY <1>1, <1>5 DEF Task
  <2> QED BY <1>2, <2>2, <2>3 DEF SawRow
<1> QED BY <1>3, <1>4, <1>5

\* The first query of a request makes a well-formed task out of its inputs.
LEMMA BeginType ==
  ASSUME TypeOK, NEW w \in Workers,
         NEW op \in {"marks", "omr", "complete", "lock", "approve"},
         NEW step \in {"details", "upload"},
         NEW entry \in Entry, NEW review \in BOOLEAN, NEW req \in Nat,
         NEW seen \in Row,
         Begin(w, op, step, entry, review, req, seen),
         op = "omr" \/ seen.status \in Status
  PROVE  TypeOK'
<1>1. EmptySheet \in Sheet
  BY EmptySeq DEF EmptySheet, Sheet
<1>2. task' \in [Workers -> Task]
  BY <1>1 DEF Begin, Task, TypeOK
<1>3. SawRow'
  BY DEF Begin, SawRow, TypeOK
<1> QED BY <1>2, <1>3 DEF Begin, TypeOK, SawRow

\* The parts of the row that a session keeps are rows themselves.
LEMMA SeenTypes ==
  ASSUME TypeOK
  PROVE  \A seen \in {SeenStatus, SeenMarks, SeenTotal, SeenResult} :
           seen \in Row /\ (Exists => seen.status \in Status)
<1>1. row \in Row
  BY DEF TypeOK
<1>2. NewRow(row.status) \in Row
  BY <1>1, NewRowType DEF Row
<1>3. NewRow(row.status).status = row.status
  BY DEF NewRow
<1>4. SeenStatus \in Row /\ SeenStatus.status = row.status
  BY <1>2, <1>3 DEF SeenStatus
<1>5. SeenMarks \in Row /\ SeenMarks.status = row.status
  <2>1. 1 \in Nat \ {0} /\ FALSE \in BOOLEAN
    OBVIOUS
  <2>2. SeenMarks \in Row
    BY <1>1, <2>1 DEF SeenMarks, Row
  <2>3. SeenMarks.status = row.status
    BY <1>1 DEF SeenMarks, Row
  <2> QED BY <2>2, <2>3
<1>6. SeenTotal \in Row /\ SeenTotal.status = row.status
  BY <1>1, <1>2, <1>3 DEF SeenTotal, Row
<1>7. SeenResult \in Row /\ SeenResult.status = row.status
  BY <1>1 DEF SeenResult, Row
<1>8. Exists => row.status \in Status
  BY <1>1 DEF Exists, Row
<1> QED BY <1>4, <1>5, <1>6, <1>7, <1>8

\* A single entry and the answers detected on a sheet are entries.
LEMMA EntryTypes ==
  /\ NoEntry \in Entry
  /\ \A q \in Questions, m \in 0 .. MaxMark : [x \in {q} |-> m] \in Entry
  /\ [ObjectiveQs -> {0, MaxMark}] \subseteq Entry
<1>1. NoEntry \in [{} -> 0 .. MaxMark] /\ {} \in SUBSET Questions
  BY DEF NoEntry
<1>2. ASSUME NEW q \in Questions, NEW m \in 0 .. MaxMark
      PROVE  [x \in {q} |-> m] \in Entry
  <2>1. {q} \in SUBSET Questions /\ [x \in {q} |-> m] \in [{q} -> 0 .. MaxMark]
    OBVIOUS
  <2> QED BY <2>1 DEF Entry
<1>3. ASSUME NEW scan \in [ObjectiveQs -> {0, MaxMark}]
      PROVE  scan \in Entry
  <2>1. ObjectiveQs \in SUBSET Questions
    BY DEF Questions
  <2>2. scan \in [ObjectiveQs -> 0 .. MaxMark]
    BY ConstantsAssumption
  <2> QED BY <2>1, <2>2 DEF Entry
<1> QED BY <1>1, <1>2, <1>3 DEF Entry

-----------------------------------------------------------------------------
(* Type correctness.                                                       *)

\* Reading steps, refusals and aborts change nothing but the worker's task.
LEMMA ReadsKeepTypes ==
  ASSUME TypeOK, NEW w \in Workers,
         \/ ReadForMarks(w) \/ ReadForOMR(w) \/ ReadForComplete(w)
         \/ ReadForLock(w) \/ ReadForApprove(w)
         \/ ReadDetails(w) \/ ReadUpload(w) \/ Refuse(w)
  PROVE  TypeOK'
<1>1. CASE ReadForMarks(w)
  BY <1>1, BeginType, SeenTypes, EntryTypes DEF ReadForMarks
<1>2. CASE ReadForOMR(w)
  BY <1>2, BeginType, SeenTypes, EntryTypes DEF ReadForOMR
<1>3. CASE ReadForComplete(w)
  BY <1>3, BeginType, SeenTypes, EntryTypes DEF ReadForComplete
<1>4. CASE ReadForLock(w)
  BY <1>4, BeginType, SeenTypes, EntryTypes DEF ReadForLock
<1>5. CASE ReadForApprove(w)
  <2>1. PICK r \in DOMAIN reviews :
          Exists /\ Begin(w, "approve", "details", NoEntry, FALSE, r, SeenResult)
    BY <1>5 DEF ReadForApprove
  <2>2. r \in Nat
    BY LenProperties DEF TypeOK
  <2> QED BY <2>1, <2>2, BeginType, SeenTypes, EntryTypes
<1>6. CASE ReadDetails(w)
  <2>1. task' \in [Workers -> Task] /\ SawRow'
    BY <1>6, TaskMoves DEF ReadDetails
  <2> QED BY <1>6, <2>1 DEF ReadDetails, TypeOK, SawRow
<1>7. CASE ReadUpload(w)
  <2>1. task' \in [Workers -> Task] /\ SawRow'
    BY <1>7, TaskMoves DEF ReadUpload
  <2> QED BY <1>7, <2>1 DEF ReadUpload, TypeOK, SawRow
<1>8. CASE Refuse(w)
  <2>1. task' \in [Workers -> Task] /\ SawRow'
    BY <1>8, TaskMoves DEF Refuse
  <2> QED BY <1>8, <2>1 DEF Refuse, TypeOK, SawRow
<1> QED BY <1>1, <1>2, <1>3, <1>4, <1>5, <1>6, <1>7, <1>8

\* The commits write values of the columns' types: the upserts, the merge, the
\* lock, the event that follows it, and the approval.
LEMMA CommitsKeepTypes ==
  ASSUME TypeOK, NEW w \in Workers,
         \/ CommitMarks(w) \/ CommitOMR(w) \/ CommitComplete(w)
         \/ CommitLock(w) \/ PublishCompleted(w) \/ CommitApprove(w)
  PROVE  TypeOK'
<1>1. /\ task[w] \in Task /\ row \in Row /\ details \in Sheet
      /\ task[w].row \in Row /\ task[w].entry \in Entry
  BY DEF TypeOK, Task
<1>2. CASE CommitMarks(w)
  <2>1. details' \in Sheet
    BY <1>1, <1>2, UpsertType DEF CommitMarks
  <2>2. row' \in Row
    <3>1. row'.status \in Status \cup {Absent}
      BY <1>1, <1>2 DEF CommitMarks, Written, Row, Status
    <3> QED BY <1>1, <1>2, <3>1 DEF CommitMarks, Row
  <2>3. task' \in [Workers -> Task] /\ SawRow'
    BY <1>2, TaskMoves DEF CommitMarks
  <2> QED BY <1>2, <2>1, <2>2, <2>3 DEF CommitMarks, TypeOK, SawRow
<1>3. CASE CommitOMR(w) /\ ~Refuse(w)
  <2>1. details' \in Sheet
    BY <1>1, <1>3, UpsertType DEF CommitOMR
  <2>2. row' \in Row
    <3>1. NewRow("OBJECTIVE_COMPLETED") \in Row
      BY NewRowType DEF Status
    <3>2. [row EXCEPT !.status = Written(@, task[w].row.status, "OBJECTIVE_COMPLETED")]
            \in Row
      BY <1>1 DEF Written, Row, Status
    <3> QED BY <1>3, <3>1, <3>2 DEF CommitOMR
  <2>3. uploads' \in Seq({"DETECTED", "NEEDS_MANUAL_REVIEW"})
    <3>1. uploads \in Seq({"DETECTED", "NEEDS_MANUAL_REVIEW"})
      BY DEF TypeOK
    <3> QED BY <1>3, <3>1, AppendProperties DEF CommitOMR
  <2>4. Finish(w) /\ UNCHANGED <<versions, reviews, published>>
    BY <1>3 DEF CommitOMR
  <2>5. task' \in [Workers -> Task] /\ SawRow'
    BY <2>4, TaskMoves
  <2> QED BY <2>1, <2>2, <2>3, <2>4, <2>5 DEF TypeOK, SawRow
<1>4. CASE CommitComplete(w) /\ ~Refuse(w)
  <2>1. row' \in Row
    BY <1>4, MergedType DEF CommitComplete
  <2>2. Finish(w) /\ UNCHANGED <<details, uploads, versions, reviews, published>>
    BY <1>4 DEF CommitComplete
  <2>3. task' \in [Workers -> Task] /\ SawRow'
    BY <2>2, TaskMoves
  <2> QED BY <2>1, <2>2, <2>3 DEF TypeOK, SawRow
<1>5. CASE CommitLock(w) /\ ~Refuse(w)
  <2>1. row' \in Row
    <3>1. row' = [row EXCEPT !.locked_at = TRUE,
                    !.status = Written(@, task[w].row.status, "LOCKED")]
      BY <1>5 DEF CommitLock
    <3> QED BY <1>1, <3>1 DEF Written, Row, Status
  <2>2. task' \in [Workers -> Task] /\ SawRow'
    BY <1>5, TaskMoves DEF CommitLock
  <2> QED BY <1>5, <2>1, <2>2 DEF CommitLock, TypeOK, SawRow
<1>6. CASE PublishCompleted(w)
  <2>1. published \in Seq(Nat \cup {NoMarks}) /\ task[w].row.total \in Nat \cup {NoMarks}
    BY <1>1 DEF TypeOK, Row
  <2>2. published' \in Seq(Nat \cup {NoMarks})
    BY <1>6, <2>1, AppendProperties DEF PublishCompleted
  <2>3. task' \in [Workers -> Task] /\ SawRow'
    BY <1>6, TaskMoves DEF PublishCompleted
  <2> QED BY <1>6, <2>2, <2>3 DEF PublishCompleted, TypeOK, SawRow
<1>7. CASE CommitApprove(w) /\ ~Refuse(w)
  <2>1. task[w].row.status \in Status
    BY <1>7 DEF CommitApprove, At, TypeOK
  <2>2. Snapshot(task[w].row, task[w].req) \in Version
    BY <1>1, <2>1 DEF Snapshot, Row, Task, Version
  <2>3. row' \in Row
    BY <1>1, <1>7, ReopenedType DEF CommitApprove
  <2>4. reviews' \in Seq(Review)
    <3>1. reviews \in Seq(Review)
      BY DEF TypeOK
    <3>2. reviews' = [reviews EXCEPT ![task[w].req] = "APPROVED"]
      BY <1>7 DEF CommitApprove
    <3> QED BY <3>1, <3>2, ReplaceInSeq DEF Review
  <2>5. versions' \in Seq(Version)
    <3>1. versions \in Seq(Version)
      BY DEF TypeOK
    <3>2. versions' = Append(versions, Snapshot(task[w].row, task[w].req))
      BY <1>7 DEF CommitApprove
    <3> QED BY <2>2, <3>1, <3>2, AppendProperties
  <2>6. Finish(w) /\ UNCHANGED <<details, uploads, published>>
    BY <1>7 DEF CommitApprove
  <2>7. task' \in [Workers -> Task] /\ SawRow'
    BY <2>6, TaskMoves
  <2> QED BY <2>3, <2>4, <2>5, <2>6, <2>7 DEF TypeOK, SawRow
<1>8. CASE Refuse(w)
  BY <1>8, ReadsKeepTypes
<1> QED BY <1>2, <1>3, <1>4, <1>5, <1>6, <1>7, <1>8

\* No evaluation, no request: the tables start empty.
LEMMA InitType == Init => TypeOK
<1> SUFFICES ASSUME Init PROVE TypeOK
  OBVIOUS
<1>1. row \in Row
  BY NewRowType DEF Init
<1>2. details \in Sheet
  BY EmptySeq DEF Init, EmptySheet, Sheet
<1>3. task \in [Workers -> Task] /\ SawRow
  <2>1. Idle.op = "idle"
    BY DEF Idle
  <2> QED BY <2>1, IdleType DEF Init, SawRow
<1> QED BY <1>1, <1>2, <1>3, EmptySeq DEF Init, TypeOK, SawRow

\* Type correctness is inductive: every action of Next keeps it.
LEMMA StepType == TypeOK /\ [Next]_vars => TypeOK'
<1> SUFFICES ASSUME TypeOK, [Next]_vars PROVE TypeOK'
  OBVIOUS
<1>1. CASE GetOrCreateEvaluation
  <2>1. row' \in Row
    BY <1>1, NewRowType DEF GetOrCreateEvaluation, Status
  <2> QED BY <1>1, <2>1 DEF GetOrCreateEvaluation, TypeOK
<1>2. CASE RequestReEvaluation
  <2>1. reviews \in Seq(Review)
    BY DEF TypeOK
  <2>2. reviews' \in Seq(Review)
    BY <1>2, <2>1, AppendProperties DEF RequestReEvaluation, Review
  <2> QED BY <1>2, <2>2 DEF RequestReEvaluation, TypeOK
<1>3. ASSUME NEW w \in Workers, Step(w)
      PROVE  TypeOK'
  BY <1>3, ReadsKeepTypes, CommitsKeepTypes DEF Step, Abort
<1>4. CASE UNCHANGED vars
  BY <1>4 DEF vars, TypeOK
<1> QED BY <1>1, <1>2, <1>3, <1>4 DEF Next

\* Every reachable state is well-typed: no session ever loads or writes a value
\* outside its column, and no request but an upload works without a row.
THEOREM TypeCorrect == Spec => []TypeOK
<1> QED BY InitType, StepType, PTL DEF Spec

-----------------------------------------------------------------------------
(* No archived version is lost.  NumbersArchived is not inductive: an approval  *)
(* computes the new number from the copy it loaded, so the copies must be     *)
(* covered by the archive too.                                                *)

Archived(n) == \E i \in DOMAIN versions : versions[i].no = n

ArchiveCovers(r) == \A n \in 1 .. r.version - 1 : Archived(n)

VersionInv ==
  /\ ArchiveCovers(row)
  /\ \A w \in Workers : task[w].op = "approve" => ArchiveCovers(task[w].row)

\* Only an approval touches the archive; nothing else moves the version number,
\* except that a new row starts at 1.
LEMMA OnlyApproveMovesVersion ==
  ASSUME TypeOK, [Next]_vars, \A w \in Workers : ~(CommitApprove(w) /\ ~Refuse(w))
  PROVE  versions' = versions /\ row'.version \in {row.version, 1}
<1>1. row \in Row /\ \A s : NewRow(s).version = 1
  BY DEF TypeOK, NewRow
<1>2. CASE GetOrCreateEvaluation
  BY <1>1, <1>2 DEF GetOrCreateEvaluation
<1>3. CASE RequestReEvaluation
  BY <1>3 DEF RequestReEvaluation
<1>4. ASSUME NEW w \in Workers, Step(w)
      PROVE  versions' = versions /\ row'.version \in {row.version, 1}
  <2>1. CASE \/ ReadForMarks(w) \/ ReadForOMR(w) \/ ReadForComplete(w)
             \/ ReadForLock(w) \/ ReadForApprove(w)
    BY <2>1 DEF ReadForMarks, ReadForOMR, ReadForComplete, ReadForLock,
                ReadForApprove, Begin
  <2>2. CASE ReadDetails(w) \/ ReadUpload(w) \/ Refuse(w) \/ Abort(w)
    BY <2>2 DEF ReadDetails, ReadUpload, Refuse, Abort
  <2>3. CASE CommitMarks(w)
    BY <1>1, <2>3 DEF CommitMarks, Row
  <2>4. CASE CommitOMR(w) /\ ~Refuse(w)
    <3>1. row' = NewRow("OBJECTIVE_COMPLETED") \/
          row' = [row EXCEPT !.status =
                    Written(@, task[w].row.status, "OBJECTIVE_COMPLETED")]
      BY <2>4 DEF CommitOMR
    <3>2. versions' = versions
      BY <2>4 DEF CommitOMR
    <3> QED BY <1>1, <3>1, <3>2 DEF Row
  <2>5. CASE CommitComplete(w) /\ ~Refuse(w)
    BY <1>1, <2>5 DEF CommitComplete, Merged, Row
  <2>6. CASE CommitLock(w) /\ ~Refuse(w)
    BY <1>1, <2>6 DEF CommitLock, Row
  <2>7. CASE PublishCompleted(w)
    BY <2>7 DEF PublishCompleted
  <2> QED BY <1>4, <2>1, <2>2, <2>3, <2>4, <2>5, <2>6, <2>7 DEF Step
<1>5. CASE UNCHANGED vars
  BY <1>5 DEF vars
<1> QED BY <1>2, <1>3, <1>4, <1>5 DEF Next

\* A task holds the row it held before, or it has just loaded a current one.
LEMMA ApproveCopies ==
  ASSUME TypeOK, [Next]_vars, NEW v \in Workers, task'[v].op = "approve"
  PROVE  \/ task'[v].row.version = row.version
         \/ (task[v].op = "approve" /\ task'[v].row = task[v].row)
<1>1. task \in [Workers -> Task] /\ row \in Row
  BY DEF TypeOK
<1>2. Idle.op = "idle"
  BY DEF Idle
<1>3. CASE GetOrCreateEvaluation \/ RequestReEvaluation \/ UNCHANGED vars
  BY <1>3 DEF GetOrCreateEvaluation, RequestReEvaluation, vars
<1>4. ASSUME NEW w \in Workers, Step(w)
      PROVE  \/ task'[v].row.version = row.version
             \/ (task[v].op = "approve" /\ task'[v].row = task[v].row)
  <2>1. CASE \/ ReadForMarks(w) \/ ReadForOMR(w) \/ ReadForComplete(w)
             \/ ReadForLock(w)
    <3>1. ASSUME NEW op, op # "approve", NEW step, NEW entry, NEW review, NEW req,
                 NEW seen, Begin(w, op, step, entry, review, req, seen)
          PROVE  task[v].op = "approve" /\ task'[v].row = task[v].row
      BY <1>1, <3>1 DEF Begin
    <3> QED BY <2>1, <3>1 DEF ReadForMarks, ReadForOMR, ReadForComplete, ReadForLock
  <2>2. CASE ReadForApprove(w)
    <3>1. SeenResult.version = row.version
      BY <1>1 DEF SeenResult, Row
    <3> QED BY <1>1, <2>2, <3>1 DEF ReadForApprove, Begin
  <2>3. CASE task' = [task EXCEPT ![w].step = "commit", ![w].sheet = details]
    BY <1>1, <2>3 DEF Task
  <2>4. ASSUME NEW s, task' = [task EXCEPT ![w].step = s]
        PROVE  task[v].op = "approve" /\ task'[v].row = task[v].row
    BY <1>1, <2>4 DEF Task
  <2>5. CASE Finish(w)
    BY <1>1, <1>2, <2>5 DEF Finish
  <2>6. CASE ReadDetails(w) \/ ReadUpload(w) \/ Abort(w)
    BY <2>3, <2>4, <2>5, <2>6 DEF ReadDetails, ReadUpload, Abort, Refuse
  <2>7. CASE \/ CommitMarks(w) \/ CommitOMR(w) \/ CommitComplete(w)
             \/ CommitLock(w) \/ PublishCompleted(w) \/ CommitApprove(w)
    BY <2>4, <2>5, <2>7 DEF CommitMarks, CommitOMR, CommitComplete, CommitLock,
                            PublishCompleted, CommitApprove, Refuse
  <2> QED BY <1>4, <2>1, <2>2, <2>6, <2>7 DEF Step
<1> QED BY <1>3, <1>4 DEF Next

\* The strengthened version invariant is inductive: a session's copy of the
\* version number never runs ahead of what the archive covers.
LEMMA StepVersionInv == TypeOK /\ VersionInv /\ [Next]_vars => VersionInv'
<1> SUFFICES ASSUME TypeOK, VersionInv, [Next]_vars PROVE VersionInv'
  OBVIOUS
<1>1. /\ row \in Row /\ row.version \in Nat \ {0}
      /\ \A v \in Workers : task[v].row.version \in Nat \ {0}
  BY DEF TypeOK, Row, Task
<1>2. ASSUME \A n : Archived(n) => Archived(n)', ArchiveCovers(row)'
      PROVE  VersionInv'
  <2>1. ASSUME NEW v \in Workers, task'[v].op = "approve"
        PROVE  ArchiveCovers(task[v].row)'
    BY <1>2, <2>1, ApproveCopies DEF VersionInv, ArchiveCovers
  <2> QED BY <1>2, <2>1 DEF VersionInv
<1>3. CASE \A w \in Workers : ~(CommitApprove(w) /\ ~Refuse(w))
  <2>1. versions' = versions /\ row'.version \in {row.version, 1}
    BY <1>3, OnlyApproveMovesVersion
  <2>2. \A n : Archived(n) => Archived(n)'
    BY <2>1 DEF Archived
  <2>3. ArchiveCovers(row)'
    BY <1>1, <2>1, <2>2 DEF VersionInv, ArchiveCovers
  <2> QED BY <1>2, <2>2, <2>3
<1>4. ASSUME NEW w \in Workers, CommitApprove(w), ~Refuse(w)
      PROVE  VersionInv'
  <2> DEFINE seen == task[w].row
             snap == Snapshot(seen, task[w].req)
  <2>1. /\ versions' = Append(versions, snap)
        /\ row' = Reopened(seen)
        /\ task[w].op = "approve"
    BY <1>4 DEF CommitApprove, At
  <2>2. Len(versions) \in Nat /\ DOMAIN versions = 1 .. Len(versions)
    BY LenProperties DEF TypeOK
  <2>3. /\ DOMAIN versions' = 1 .. Len(versions) + 1
        /\ \A i \in DOMAIN versions : versions'[i] = versions[i]
        /\ versions'[Len(versions) + 1] = snap
    BY <2>1, <2>2
  <2>4. snap.no = seen.version
    BY DEF Snapshot
  <2>5. \A n : Archived(n) => Archived(n)'
    BY <2>2, <2>3 DEF Archived
  <2>6. \A n : n = seen.version => Archived(n)'
    BY <2>2, <2>3, <2>4 DEF Archived
  <2>7. row'.version = seen.version + 1
    BY <1>1, <2>1 DEF Reopened, Row
  <2>8. ArchiveCovers(row)'
    <3> SUFFICES ASSUME NEW n \in 1 .. row'.version - 1 PROVE Archived(n)'
      BY DEF ArchiveCovers
    <3>1. CASE n = seen.version
      BY <2>6, <3>1
    <3>2. CASE n # seen.version
      <4>1. n \in 1 .. seen.version - 1
        BY <1>1, <2>7, <3>2
      <4> QED BY <2>1, <2>5, <4>1 DEF VersionInv, ArchiveCovers
    <3> QED BY <3>1, <3>2
  <2> QED BY <1>2, <2>5, <2>8
<1> QED BY <1>3, <1>4

\* Every version number below the current one has its snapshot in the archive,
\* however many approvals race (approve_re_evaluation).
THEOREM VersionsKept == Spec => []NumbersArchived
<1>1. Init => VersionInv
  <2> SUFFICES ASSUME Init PROVE VersionInv
    OBVIOUS
  <2>1. row.version = 1
    BY DEF Init, NewRow
  <2>2. \A w \in Workers : task[w].op = "idle"
    BY DEF Init, Idle
  <2> QED BY <2>1, <2>2 DEF VersionInv, ArchiveCovers
<1>2. VersionInv => NumbersArchived
  BY DEF VersionInv, ArchiveCovers, Archived, NumbersArchived
<1> QED BY <1>1, <1>2, StepVersionInv, TypeCorrect, PTL DEF Spec

-----------------------------------------------------------------------------
(* What one step does to a session, and to the row.                        *)

\* The first query of a request of v.
Loads(v) ==
  /\ task[v] = Idle
  /\ task'[v].sheet = EmptySheet
  /\ UNCHANGED <<row, details, uploads, versions, reviews, published>>
  /\ \/ /\ Exists /\ row.status # "LOCKED"
        /\ task'[v].op = "marks" /\ task'[v].step = "details"
        /\ task'[v].row = SeenStatus
     \/ /\ task'[v].op = "omr" /\ task'[v].step = "details"
        /\ task'[v].row = SeenStatus /\ DOMAIN task'[v].entry = ObjectiveQs
     \/ /\ Exists
        /\ task'[v].op = "complete" /\ task'[v].step = "details"
        /\ task'[v].row = SeenMarks
     \/ /\ Exists
        /\ task'[v].op = "lock" /\ task'[v].step = "upload"
        /\ task'[v].row = SeenTotal
     \/ /\ Exists
        /\ task'[v].op = "approve" /\ task'[v].step = "details"
        /\ task'[v].row = SeenResult

\* v goes on with what it loaded.
SameRequest(v) ==
  /\ task'[v].op = task[v].op /\ task'[v].entry = task[v].entry
  /\ task'[v].req = task[v].req /\ task'[v].row = task[v].row

\* A later query of v that lets the request go on.
Reads(v) ==
  /\ SameRequest(v)
  /\ task'[v].step = "commit"
  /\ UNCHANGED <<row, details, uploads, versions, reviews, published>>
  /\ \/ task[v].step = "details" /\ task'[v].sheet = details
     \/ /\ At(v, "lock", "upload") /\ task'[v].sheet = task[v].sheet
        /\ ~(Len(uploads) > 1 \/ uploads = <<"NEEDS_MANUAL_REVIEW">>)

\* The commit of a lock, which the session outlives.
Locks(v) ==
  /\ CommitLock(v) /\ ~Refuse(v)
  /\ SameRequest(v)
  /\ task'[v].step = "publish" /\ task'[v].sheet = task[v].sheet

\* A session is left alone, ends, or takes one of the steps above.
LEMMA TaskAfter ==
  ASSUME TypeOK, [Next]_vars, NEW v \in Workers
  PROVE  task'[v] \in {task[v], Idle} \/ Loads(v) \/ Reads(v) \/ Locks(v)
<1>1. task \in [Workers -> Task] /\ task[v] \in Task
  BY DEF TypeOK
<1>2. CASE GetOrCreateEvaluation \/ RequestReEvaluation \/ UNCHANGED vars
  BY <1>2 DEF GetOrCreateEvaluation, RequestReEvaluation, vars
<1>3. ASSUME NEW w \in Workers, Step(w)
      PROVE  task'[v] \in {task[v], Idle} \/ Loads(v) \/ Reads(v) \/ Locks(v)
  <2>1. ASSUME v # w PROVE task'[v] = task[v]
    BY <1>1, <1>3, <2>1
    DEF Step, ReadForMarks, ReadForOMR, ReadForComplete, ReadForLock,
        ReadForApprove, Begin, ReadDetails, ReadUpload, CommitMarks, CommitOMR,
        CommitComplete, CommitLock, PublishCompleted, CommitApprove, Abort,
        Refuse, Finish
  <2> SUFFICES ASSUME v = w
               PROVE  task'[v] = Idle \/ Loads(v) \/ Reads(v) \/ Locks(v)
    BY <2>1
  <2>2. CASE Finish(v)
    BY <1>1, <2>2 DEF Finish
  <2>3. ASSUME NEW op, NEW step, NEW entry, NEW review, NEW req, NEW seen,
               Begin(v, op, step, entry, review, req, seen)
        PROVE  /\ task[v] = Idle
               /\ UNCHANGED <<row, details, uploads, versions, reviews, published>>
               /\ task'[v].op = op /\ task'[v].step = step
               /\ task'[v].entry = entry /\ task'[v].row = seen
               /\ task'[v].sheet = EmptySheet
    BY <1>1, <2>3 DEF Begin
  <2>4. CASE ReadForMarks(v)
    BY ZenonT(120), <2>3, <2>4 DEF ReadForMarks, Loads
  <2>5. CASE ReadForOMR(v)
    <3>1. PICK scan \in [ObjectiveQs -> {0, MaxMark}], review \in BOOLEAN :
            Begin(v, "omr", "details", scan, review, 0, SeenStatus)
      BY <2>5 DEF ReadForOMR
    <3>2. DOMAIN task'[v].entry = ObjectiveQs
      BY <2>3, <3>1
    <3> QED BY <2>3, <3>1, <3>2 DEF Loads
  <2>6. CASE ReadForComplete(v)
    BY ZenonT(120), <2>3, <2>6 DEF ReadForComplete, Loads
  <2>7. CASE ReadForLock(v)
    BY <2>3, <2>7 DEF ReadForLock, Loads
  <2>8. CASE ReadForApprove(v)
    BY <2>3, <2>8 DEF ReadForApprove, Loads
  <2>9. CASE ReadDetails(v) /\ ~Finish(v)
    <3>1. task' = [task EXCEPT ![v].step = "commit", ![v].sheet = details]
      BY <2>9 DEF ReadDetails
    <3>2. SameRequest(v) /\ task'[v].step = "commit" /\ task'[v].sheet = details
      BY <1>1, <3>1 DEF Task, SameRequest
    <3> QED BY <2>9, <3>2 DEF ReadDetails, Reads
  <2>10. CASE ReadUpload(v) /\ ~Finish(v)
    <3>1. task' = [task EXCEPT ![v].step = "commit"]
      BY <2>10 DEF ReadUpload
    <3>2. /\ SameRequest(v) /\ task'[v].step = "commit"
          /\ task'[v].sheet = task[v].sheet
      BY <1>1, <3>1 DEF Task, SameRequest
    <3> QED BY <2>10, <3>2 DEF ReadUpload, Reads
  <2>11. CASE CommitLock(v) /\ ~Refuse(v)
    <3>1. task' = [task EXCEPT ![v].step = "publish"]
      BY <2>11 DEF CommitLock
    <3>2. /\ SameRequest(v) /\ task'[v].step = "publish"
          /\ task'[v].sheet = task[v].sheet
      BY <1>1, <3>1 DEF Task, SameRequest
    <3> QED BY <2>11, <3>2 DEF Locks
  <2>12. CASE \/ CommitMarks(v) \/ CommitOMR(v) \/ CommitComplete(v)
              \/ PublishCompleted(v) \/ CommitApprove(v) \/ Abort(v) \/ Refuse(v)
    BY <2>2, <2>12 DEF CommitMarks, CommitOMR, CommitComplete, PublishCompleted,
                       CommitApprove, Abort, Refuse
  <2> QED
    BY <1>3, <2>2, <2>4, <2>5, <2>6, <2>7, <2>8, <2>9, <2>10, <2>11, <2>12 DEF Step
<1> QED BY <1>2, <1>3 DEF Next

\* The columns of the row after a step: what each commit may do to it.
LEMMA RowAfter ==
  ASSUME TypeOK, [Next]_vars
  PROVE  \/ row' = row
         \/ ~Exists /\ row' \in {NewRow("PENDING"), NewRow("OBJECTIVE_COMPLETED")}
         \/ \E w \in Workers : CommitMarks(w)
         \/ \E w \in Workers : CommitOMR(w) /\ ~Refuse(w)
         \/ \E w \in Workers : CommitComplete(w) /\ ~Refuse(w)
         \/ \E w \in Workers : CommitLock(w) /\ ~Refuse(w)
         \/ \E w \in Workers : CommitApprove(w) /\ ~Refuse(w)
<1>1. CASE GetOrCreateEvaluation
  BY <1>1 DEF GetOrCreateEvaluation
<1>2. CASE RequestReEvaluation \/ UNCHANGED vars
  BY <1>2 DEF RequestReEvaluation, vars
<1>3. ASSUME NEW w \in Workers, Step(w), row' # row
      PROVE  \/ CommitMarks(w) \/ (CommitOMR(w) /\ ~Refuse(w))
             \/ (CommitComplete(w) /\ ~Refuse(w)) \/ (CommitLock(w) /\ ~Refuse(w))
             \/ (CommitApprove(w) /\ ~Refuse(w))
  BY <1>3 DEF Step, ReadForMarks, ReadForOMR, ReadForComplete, ReadForLock,
              ReadForApprove, Begin, ReadDetails, ReadUpload, PublishCompleted,
              Abort, Refuse
<1> QED BY <1>1, <1>2, <1>3 DEF Next

\* Only the commit of marks and of an upload write the mark sheet.
LEMMA WritersOfDetails ==
  ASSUME [Next]_vars, details' # details
  PROVE  \E w \in Workers : CommitMarks(w) \/ (CommitOMR(w) /\ ~Refuse(w))
<1>1. ~UNCHANGED vars /\ ~GetOrCreateEvaluation /\ ~RequestReEvaluation
  BY DEF vars, GetOrCreateEvaluation, RequestReEvaluation
<1>2. PICK w \in Workers : Step(w)
  BY <1>1 DEF Next
<1>3. ~(\/ ReadForMarks(w) \/ ReadForOMR(w) \/ ReadForComplete(w)
        \/ ReadForLock(w) \/ ReadForApprove(w) \/ ReadDetails(w) \/ ReadUpload(w))
  BY DEF ReadForMarks, ReadForOMR, ReadForComplete, ReadForLock,
         ReadForApprove, Begin, ReadDetails, ReadUpload
<1>4. ~(CommitComplete(w) \/ CommitLock(w) \/ PublishCompleted(w)
        \/ CommitApprove(w) \/ Abort(w) \/ Refuse(w))
  BY DEF CommitComplete, CommitLock, PublishCompleted, CommitApprove, Abort, Refuse
<1> QED BY <1>2, <1>3, <1>4 DEF Step

-----------------------------------------------------------------------------
(* What a lock holds: any number of requests, however they overlap.          *)

\* The LOCKED check of enter_subjective_marks, as old as the session's copy.
MarksChecked ==
  \A w \in Workers : task[w].op = "marks" => task[w].row.status # "LOCKED"

\* The check is made with the first query, and the copy does not change.
LEMMA StepMarksChecked == TypeOK /\ MarksChecked /\ [Next]_vars => MarksChecked'
<1> SUFFICES ASSUME TypeOK, MarksChecked, [Next]_vars, NEW v \in Workers,
                    task'[v].op = "marks"
             PROVE  task'[v].row.status # "LOCKED"
  BY DEF MarksChecked
<1>1. Idle.op # "marks" /\ SeenStatus.status = row.status
  BY DEF Idle, SeenStatus, NewRow
<1>2. CASE Loads(v)
  BY <1>1, <1>2 DEF Loads
<1>3. CASE Reads(v) \/ Locks(v)
  BY <1>3 DEF Reads, Locks, SameRequest, MarksChecked
<1>4. CASE task'[v] \in {task[v], Idle}
  BY <1>1, <1>4 DEF MarksChecked
<1> QED BY <1>2, <1>3, <1>4, TaskAfter

\* One step on a LOCKED evaluation.
LEMMA StepLocked ==
  ASSUME TypeOK, MarksChecked, [Next]_vars, row.status = "LOCKED", Result' # Result
  PROVE  \/ /\ details' = details
            /\ \E i \in DOMAIN versions' \ DOMAIN versions :
                 versions'[i] = Snapshot(row, versions'[i].req)
         \/ \E w \in Workers : CommitsStale(w)
<1>1. task \in [Workers -> Task] /\ row \in Row /\ versions \in Seq(Version)
  BY DEF TypeOK
<1>2. ASSUME NEW w \in Workers, task[w].step = "commit", Finish(w),
             task[w].row.status # "LOCKED"
      PROVE  CommitsStale(w)
  BY <1>1, <1>2 DEF Finish, CommitsStale
<1>3. ASSUME NEW w \in Workers, CommitMarks(w) PROVE CommitsStale(w)
  BY <1>2, <1>3 DEF CommitMarks, At, MarksChecked
<1>4. ASSUME NEW w \in Workers, CommitOMR(w), ~Refuse(w) PROVE CommitsStale(w)
  <2>1. ~MayMove("LOCKED", "OBJECTIVE_COMPLETED")
    BY DEF MayMove, EVALUATION_TRANSITIONS
  <2> QED BY <1>2, <1>4, <2>1 DEF CommitOMR, At, Absent
<1>5. ASSUME NEW w \in Workers, CommitComplete(w), ~Refuse(w) PROVE CommitsStale(w)
  <2>1. ~MayMove("LOCKED", "COMPLETED")
    BY DEF MayMove, EVALUATION_TRANSITIONS
  <2> QED BY <1>2, <1>5, <2>1 DEF CommitComplete, At
<1>6. ASSUME NEW w \in Workers, CommitLock(w), ~Refuse(w) PROVE FALSE
  <2>1. /\ row' = [row EXCEPT !.locked_at = TRUE,
                  !.status = Written(row.status, task[w].row.status, "LOCKED")]
        /\ details' = details
    BY <1>6 DEF CommitLock
  <2>2. Written(row.status, task[w].row.status, "LOCKED") = row.status
    BY DEF Written
  <2>3. row' = [row EXCEPT !.locked_at = TRUE]
    BY <1>1, <2>1, <2>2 DEF Row
  <2> QED BY <1>1, <2>1, <2>3 DEF Result, Row
<1>7. ASSUME NEW w \in Workers, CommitApprove(w), ~Refuse(w), ~CommitsStale(w)
      PROVE  /\ details' = details
             /\ \E i \in DOMAIN versions' \ DOMAIN versions :
                  versions'[i] = Snapshot(row, versions'[i].req)
  <2>1. /\ task[w].step = "commit" /\ task[w].op = "approve" /\ Finish(w)
        /\ versions' = Append(versions, Snapshot(task[w].row, task[w].req))
        /\ details' = details
    BY <1>7 DEF CommitApprove, At
  <2>2. task[w].row = SeenResult
    BY <1>1, <1>7, <2>1 DEF CommitsStale, Finish
  <2>3. Snapshot(task[w].row, task[w].req) = Snapshot(row, task[w].req)
    BY <1>1, <2>2 DEF SeenResult, Snapshot, Row
  <2> DEFINE n == Len(versions) + 1
             e == Snapshot(row, task[w].req)
  <2>4. e.req = task[w].req
    BY DEF Snapshot
  <2> HIDE DEF e
  <2>5. n \in DOMAIN versions' \ DOMAIN versions /\ versions'[n] = e
    BY <1>1, <2>1, <2>3, LenProperties DEF e
  <2>6. versions'[n] = Snapshot(row, versions'[n].req)
    BY <2>4, <2>5 DEF e
  <2> QED BY <2>1, <2>5, <2>6
<1>8. row' # row \/ details' # details
  BY DEF Result
<1>9. Exists
  BY DEF Exists, Absent
<1> QED BY <1>3, <1>4, <1>5, <1>6, <1>7, <1>8, <1>9, RowAfter, WritersOfDetails

\* Whatever overlaps, a LOCKED result leaves the row into a snapshot, or else a request
\* commits that had read the evaluation before it became what it is: the checks of
\* enter_subjective_marks, process_omr_upload and complete_evaluation and the copy that
\* approve_re_evaluation archives are good as long as what they saw is.
THEOREM LocksBrokenByStaleOnly == Spec => OnlyStaleRequestsBreakLocks
<1>1. Init => MarksChecked
  BY DEF Init, Idle, MarksChecked
<1>2. TypeOK /\ MarksChecked /\ [Next]_vars =>
        [row.status = "LOCKED" /\ Result' # Result =>
           \/ /\ details' = details
              /\ \E i \in DOMAIN versions' \ DOMAIN versions :
                   versions'[i] = Snapshot(row, versions'[i].req)
           \/ \E w \in Workers : CommitsStale(w)]_vars
  BY StepLocked
<1> QED BY <1>1, <1>2, StepMarksChecked, TypeCorrect, PTL
        DEF Spec, OnlyStaleRequestsBreakLocks

-----------------------------------------------------------------------------
(* A closed evaluation is totalled.  A lock and an approval act on the copy   *)
(* they loaded, so what is true of the row must be true of these copies, and  *)
(* a total, once written, may only disappear while nobody holds a copy.       *)

Closed == {"COMPLETED", "LOCKED"}

TotalledCopy(v) ==
  LET seen == task[v].row
  IN /\ task[v].op \in {"complete", "lock", "approve"} =>
          (seen.total # NoMarks => row.total # NoMarks)
     /\ task[v].op \in {"lock", "approve"} =>
          (seen.status \in Closed => seen.total # NoMarks)
     /\ task[v].step = "publish" => seen.total # NoMarks

ClosedInv ==
  /\ TotalledWhenClosed
  /\ Exists \/ \A w \in Workers : task[w].op \in {"idle", "omr"}
  /\ \A w \in Workers : TotalledCopy(w)

\* Once there is a total, no step takes it away again, and a row that is there
\* stays; a row that appears has no total yet.
LEMMA RowTotal ==
  ASSUME TypeOK, ClosedInv, [Next]_vars
  PROVE  /\ Exists => Exists' /\ (row.total # NoMarks => row'.total # NoMarks)
         /\ row'.status \in Closed => row'.total # NoMarks
<1>1. /\ row \in Row /\ Absent \notin Status
      /\ \A w \in Workers : task[w].row \in Row
  BY DEF TypeOK, Task, Status, Absent
<1>2. \A s : NewRow(s).status = s
  BY DEF NewRow
<1>3. row.status \in Closed => row.total # NoMarks
  BY DEF ClosedInv, TotalledWhenClosed, Closed
<1>4. CASE row' = row
  BY <1>3, <1>4 DEF Exists
<1>5. CASE ~Exists /\ row' \in {NewRow("PENDING"), NewRow("OBJECTIVE_COMPLETED")}
  BY <1>2, <1>5 DEF Closed
<1>6. ASSUME NEW w \in Workers, CommitMarks(w)
      PROVE  /\ Exists => Exists' /\ (row.total # NoMarks => row'.total # NoMarks)
             /\ row'.status \in Closed => row'.total # NoMarks
  <2>1. row'.total = row.total
    BY <1>1, <1>6 DEF CommitMarks, Row
  <2>2. row'.status \in {row.status, "SUBJECTIVE_PENDING"}
    BY <1>1, <1>6 DEF CommitMarks, Row, Written
  <2> QED BY <1>3, <2>1, <2>2 DEF Exists, Closed, Absent
<1>7. ASSUME NEW w \in Workers, CommitOMR(w), ~Refuse(w)
      PROVE  /\ Exists => Exists' /\ (row.total # NoMarks => row'.total # NoMarks)
             /\ row'.status \in Closed => row'.total # NoMarks
  <2>1. CASE ~Exists /\ row' = NewRow("OBJECTIVE_COMPLETED")
    BY <1>2, <2>1 DEF Closed
  <2>2. CASE row' = [row EXCEPT !.status =
                       Written(@, task[w].row.status, "OBJECTIVE_COMPLETED")]
    <3>1. row'.total = row.total
      BY <1>1, <2>2 DEF Row
    <3>2. row'.status \in {row.status, "OBJECTIVE_COMPLETED"}
      BY <1>1, <2>2 DEF Row, Written
    <3> QED BY <1>3, <3>1, <3>2 DEF Exists, Closed, Absent
  <2> QED BY <1>7, <2>1, <2>2 DEF CommitOMR
<1>8. ASSUME NEW w \in Workers, CommitComplete(w), ~Refuse(w)
      PROVE  /\ Exists => Exists' /\ (row.total # NoMarks => row'.total # NoMarks)
             /\ row'.status \in Closed => row'.total # NoMarks
  <2> DEFINE seen == task[w].row
             sum == Marks(task[w].sheet, "OMR") + Marks(task[w].sheet, "TEACHER")
  <2>1. sum \in Nat
    BY MarksType
  <2>2. task[w].op = "complete" /\ row' = Merged(task[w].sheet, seen)
    BY <1>8 DEF CommitComplete, At
  <2>3. row'.total = Written(row.total, seen.total, sum)
    BY <1>1, <2>2 DEF Merged, Row
  <2>4. seen.total # NoMarks => row.total # NoMarks
    BY <2>2 DEF ClosedInv, TotalledCopy
  <2>5. row'.total # NoMarks
    <3> HIDE DEF sum
    <3>1. CASE sum = seen.total
      BY <2>1, <2>3, <2>4, <3>1 DEF Written, NoMarks
    <3>2. CASE sum # seen.total
      BY <2>1, <2>3, <3>2 DEF Written, NoMarks
    <3> QED BY <3>1, <3>2
  <2>6. row'.status \in {row.status, "COMPLETED"}
    BY <1>1, <2>2 DEF Merged, Row, Written
  <2> QED BY <2>5, <2>6 DEF Exists, Absent
<1>9. ASSUME NEW w \in Workers, CommitLock(w), ~Refuse(w)
      PROVE  /\ Exists => Exists' /\ (row.total # NoMarks => row'.total # NoMarks)
             /\ row'.status \in Closed => row'.total # NoMarks
  <2>1. /\ task[w].op = "lock" /\ MayMove(task[w].row.status, "LOCKED")
        /\ row' = [row EXCEPT !.locked_at = TRUE,
                     !.status = Written(@, task[w].row.status, "LOCKED")]
    BY <1>9 DEF CommitLock, At
  <2>2. task[w].row.status \in Status
    BY <2>1 DEF TypeOK
  <2>3. task[w].row.status \in Closed
    BY <2>1, <2>2 DEF MayMove, EVALUATION_TRANSITIONS, Status, Closed
  <2>4. row.total # NoMarks
    BY <2>1, <2>3 DEF ClosedInv, TotalledCopy
  <2>5. row'.total = row.total /\ row'.status \in {row.status, "LOCKED"}
    BY <1>1, <2>1 DEF Row, Written
  <2> QED BY <2>4, <2>5 DEF Exists, Absent
<1>10. ASSUME NEW w \in Workers, CommitApprove(w), ~Refuse(w)
       PROVE  /\ Exists => Exists' /\ (row.total # NoMarks => row'.total # NoMarks)
              /\ row'.status \in Closed => row'.total # NoMarks
  <2>1. row' = Reopened(task[w].row)
    BY <1>10 DEF CommitApprove
  <2>2. row'.total = row.total /\ row'.status \in {row.status, "STARTED"}
    BY <1>1, <2>1 DEF Reopened, Row, Written
  <2> QED BY <1>3, <2>2 DEF Exists, Closed, Absent
<1> QED BY <1>4, <1>5, <1>6, <1>7, <1>8, <1>9, <1>10, RowAfter

\* The copy a lock or an approval acts on stays totalled whenever it is closed.
LEMMA StepTotalledCopy ==
  ASSUME TypeOK, ClosedInv, [Next]_vars, NEW v \in Workers
  PROVE  TotalledCopy(v)'
<1>1. TotalledCopy(v) /\ row \in Row /\ Idle.op = "idle" /\ Idle.step = "idle"
  BY DEF ClosedInv, TypeOK, Idle
<1>2. CASE task'[v] = Idle
  BY <1>1, <1>2 DEF TotalledCopy
<1>3. task[v].op \in {"complete", "lock", "approve"} => Exists
  BY DEF ClosedInv
<1>4. ASSUME task'[v] = task[v] \/ (SameRequest(v) /\ task'[v].step # "publish")
      PROVE  TotalledCopy(v)'
  BY <1>1, <1>3, <1>4, RowTotal DEF TotalledCopy, SameRequest
<1>5. CASE Loads(v)
  <2>1. SeenMarks.total = row.total
    BY <1>1 DEF SeenMarks, Row
  <2>2. SeenTotal.total = row.total /\ SeenTotal.status = row.status
    BY DEF SeenTotal, NewRow
  <2>3. SeenResult.total = row.total /\ SeenResult.status = row.status
    BY <1>1 DEF SeenResult, Row
  <2>4. row.status \in Closed => row.total # NoMarks
    BY DEF ClosedInv, TotalledWhenClosed, Closed
  <2> QED BY <1>5, <2>1, <2>2, <2>3, <2>4 DEF Loads, TotalledCopy
<1>6. CASE Locks(v)
  <2>1. task[v].op = "lock" /\ MayMove(task[v].row.status, "LOCKED")
    BY <1>6 DEF Locks, CommitLock, At
  <2>2. task[v].row.status \in Status
    BY <2>1 DEF TypeOK
  <2>3. task[v].row.status \in Closed
    BY <2>1, <2>2 DEF MayMove, EVALUATION_TRANSITIONS, Status, Closed
  <2> QED BY <1>1, <1>3, <1>6, <2>1, <2>3, RowTotal
          DEF Locks, SameRequest, TotalledCopy
<1> QED BY <1>2, <1>4, <1>5, <1>6, TaskAfter DEF Reads

\* Only an approval appends to the archive, and only a lock that has committed
\* hands its total to the bus.
LEMMA StepArchive ==
  ASSUME TypeOK, ClosedInv, [Next]_vars
  PROVE  /\ \A i \in DOMAIN versions' :
              versions'[i].status \in Closed => versions'[i].total # NoMarks
         /\ \A i \in DOMAIN published' : published'[i] # NoMarks
<1>1. /\ \A i \in DOMAIN versions :
            versions[i].status \in Closed => versions[i].total # NoMarks
      /\ \A i \in DOMAIN published : published[i] # NoMarks
  BY DEF ClosedInv, TotalledWhenClosed, Closed
<1>2. /\ versions \in Seq(Version) /\ published \in Seq(Nat \cup {NoMarks})
      /\ task \in [Workers -> Task]
  BY DEF TypeOK
<1>3. CASE UNCHANGED <<versions, published>>
  BY <1>1, <1>3
<1>4. ASSUME NEW w \in Workers, CommitApprove(w), ~Refuse(w)
      PROVE  /\ \A i \in DOMAIN versions' :
                  versions'[i].status \in Closed => versions'[i].total # NoMarks
             /\ published' = published
  <2> DEFINE snap == Snapshot(task[w].row, task[w].req)
  <2>1. /\ versions' = Append(versions, snap) /\ published' = published
        /\ task[w].op = "approve"
    BY <1>4 DEF CommitApprove, At
  <2>2. snap.status \in Closed => snap.total # NoMarks
    BY <2>1 DEF ClosedInv, TotalledCopy, Snapshot
  <2>3. \A i \in DOMAIN versions' :
          versions'[i] = snap \/ (i \in DOMAIN versions /\ versions'[i] = versions[i])
    <3> HIDE DEF snap
    <3> QED BY <1>2, <2>1, LenProperties
  <2> QED BY <1>1, <2>1, <2>2, <2>3
<1>5. ASSUME NEW w \in Workers, PublishCompleted(w)
      PROVE  /\ \A i \in DOMAIN published' : published'[i] # NoMarks
             /\ versions' = versions
  <2>1. /\ published' = Append(published, task[w].row.total) /\ versions' = versions
        /\ task[w].step = "publish"
    BY <1>5 DEF PublishCompleted, At
  <2>2. task[w].row.total # NoMarks
    BY <2>1 DEF ClosedInv, TotalledCopy
  <2>3. \A i \in DOMAIN published' :
          \/ published'[i] = task[w].row.total
          \/ i \in DOMAIN published /\ published'[i] = published[i]
    BY <1>2, <2>1, LenProperties
  <2> QED BY <1>1, <2>1, <2>2, <2>3
<1>6. ASSUME NEW w \in Workers, Step(w),
             ~PublishCompleted(w), ~(CommitApprove(w) /\ ~Refuse(w))
      PROVE  UNCHANGED <<versions, published>>
  BY <1>6 DEF Step, ReadForMarks, ReadForOMR, ReadForComplete, ReadForLock,
              ReadForApprove, Begin, ReadDetails, ReadUpload, CommitMarks, CommitOMR,
              CommitComplete, CommitLock, Abort, Refuse
<1>7. CASE GetOrCreateEvaluation \/ RequestReEvaluation \/ UNCHANGED vars
  BY <1>3, <1>7 DEF GetOrCreateEvaluation, RequestReEvaluation, vars
<1> QED BY <1>1, <1>3, <1>4, <1>5, <1>6, <1>7 DEF Next

\* The strengthened invariant is inductive.
LEMMA StepClosedInv == TypeOK /\ ClosedInv /\ [Next]_vars => ClosedInv'
<1> SUFFICES ASSUME TypeOK, ClosedInv, [Next]_vars PROVE ClosedInv'
  OBVIOUS
<1>1. TotalledWhenClosed'
  BY RowTotal, StepArchive DEF TotalledWhenClosed, Closed
<1>2. ASSUME ~Exists, NEW v \in Workers
      PROVE  task'[v].op \in {"idle", "omr"}
  <2>1. task[v].op \in {"idle", "omr"} /\ Idle.op = "idle"
    BY <1>2 DEF ClosedInv, Idle
  <2> QED BY <1>2, <2>1, TaskAfter DEF Loads, Reads, Locks, SameRequest, CommitLock, At
<1>3. Exists => Exists'
  BY RowTotal
<1> QED BY <1>1, <1>2, <1>3, StepTotalledCopy DEF ClosedInv

\* Every reachable state satisfies it.
LEMMA ClosedInvHolds == Spec => []ClosedInv
<1>1. Init => ClosedInv
  <2> SUFFICES ASSUME Init PROVE ClosedInv
    OBVIOUS
  <2>1. row.status = Absent /\ versions = <<>> /\ published = <<>>
    BY DEF Init, NewRow
  <2>2. \A w \in Workers : task[w].op = "idle" /\ task[w].step = "idle"
    BY DEF Init, Idle
  <2> QED BY <2>1, <2>2 DEF ClosedInv, TotalledWhenClosed, TotalledCopy, Absent
<1> QED BY <1>1, StepClosedInv, TypeCorrect, PTL DEF Spec

\* A COMPLETED, LOCKED, archived or announced result has been totalled, however
\* the requests interleave (complete_, lock_evaluation, approve_re_evaluation).
THEOREM ClosedIsTotalled == Spec => []TotalledWhenClosed
<1>1. ClosedInv => TotalledWhenClosed
  BY DEF ClosedInv
<1> QED BY <1>1, ClosedInvHolds, PTL

-----------------------------------------------------------------------------
(* The parts of one commit are never seen apart.  An upload looks for the     *)
(* rows of the mark sheet before it writes them, so the argument needs that a *)
(* question that had a row when a session looked still has one.               *)

WholeInv ==
  /\ CommitsWhole
  /\ \A w \in Workers : task[w].op = "omr" => DOMAIN task[w].entry = ObjectiveQs
  /\ \A w \in Workers : \A q \in Questions :
       task[w].sheet[q] # <<>> => details[q] # <<>>

\* An upsert leaves a row for every question it is about, if the rows it found
\* are still there, and it removes none.
LEMMA UpsertKeepsRows ==
  ASSUME NEW sheet \in Sheet, NEW seen, NEW entry, NEW who, NEW q \in Questions,
         seen[q] # <<>> => sheet[q] # <<>>
  PROVE  /\ sheet[q] # <<>> => Upsert(sheet, seen, entry, who)[q] # <<>>
         /\ q \in DOMAIN entry => Upsert(sheet, seen, entry, who)[q] # <<>>
<1>1. sheet[q] \in Seq(Detail)
  BY DEF Sheet
<1>2. CASE q \notin DOMAIN entry
  BY <1>2 DEF Upsert
<1>3. CASE q \in DOMAIN entry /\ seen[q] = <<>>
  <2> DEFINE new == [marks |-> entry[q], by |-> who]
  <2>1. Upsert(sheet, seen, entry, who)[q] = Append(sheet[q], new)
    BY <1>3 DEF Upsert
  <2>2. Len(Append(sheet[q], new)) = Len(sheet[q]) + 1 /\ Len(sheet[q]) \in Nat
    BY <1>1, LenProperties
  <2>3. Append(sheet[q], new) # <<>>
    <3> HIDE DEF new
    <3> QED BY SMTT(30), <2>2
  <2> QED BY <2>1, <2>3
<1>4. CASE q \in DOMAIN entry /\ seen[q] # <<>>
  <2> DEFINE new == [marks |-> Written(sheet[q][1].marks, seen[q][1].marks, entry[q]),
                     by    |-> Written(sheet[q][1].by, seen[q][1].by, who)]
  <2>1. Upsert(sheet, seen, entry, who)[q] = [sheet[q] EXCEPT ![1] = new]
    BY <1>4 DEF Upsert
  <2>2. 1 \in DOMAIN sheet[q]
    BY <1>1, <1>4, EmptySeq, LenProperties
  <2>3. DOMAIN [sheet[q] EXCEPT ![1] = new] = DOMAIN sheet[q]
    OBVIOUS
  <2>4. DOMAIN <<>> = {}
    OBVIOUS
  <2> QED BY <2>1, <2>2, <2>3, <2>4
<1> QED BY <1>2, <1>3, <1>4

\* No step removes the rows of a question.
LEMMA DetailsStay ==
  ASSUME TypeOK, WholeInv, [Next]_vars, NEW q \in Questions, details[q] # <<>>
  PROVE  details'[q] # <<>>
<1>1. CASE details' = details
  BY <1>1
<1>2. CASE details' # details
  <2>1. PICK w \in Workers : CommitMarks(w) \/ (CommitOMR(w) /\ ~Refuse(w))
    BY <1>2, WritersOfDetails
  <2>2. PICK who : details' = Upsert(details, task[w].sheet, task[w].entry, who)
    BY <2>1 DEF CommitMarks, CommitOMR
  <2>3. details \in Sheet
    BY DEF TypeOK
  <2> QED BY <2>2, <2>3, UpsertKeepsRows
<1> QED BY <1>1, <1>2

\* An approval marks its request and archives a snapshot for it in one commit.
LEMMA StepApproved ==
  ASSUME TypeOK, WholeInv, [Next]_vars, NEW r \in DOMAIN reviews',
         reviews'[r] = "APPROVED"
  PROVE  \E i \in DOMAIN versions' : versions'[i].req = r
<1>1. /\ reviews \in Seq(Review) /\ versions \in Seq(Version)
      /\ \A x \in DOMAIN reviews : reviews[x] = "APPROVED" =>
           \E i \in DOMAIN versions : versions[i].req = x
  BY DEF TypeOK, WholeInv, CommitsWhole
<1>2. CASE UNCHANGED <<reviews, versions>>
  BY <1>1, <1>2
<1>3. CASE RequestReEvaluation
  <2>1. reviews' = Append(reviews, "PENDING") /\ versions' = versions
    BY <1>3 DEF RequestReEvaluation
  <2>2. r \in DOMAIN reviews /\ reviews'[r] = reviews[r]
    BY <1>1, <2>1, LenProperties
  <2> QED BY <1>1, <2>1, <2>2
<1>4. ASSUME NEW w \in Workers, CommitApprove(w), ~Refuse(w)
      PROVE  \E i \in DOMAIN versions' : versions'[i].req = r
  <2> DEFINE snap == Snapshot(task[w].row, task[w].req)
  <2>1. /\ versions' = Append(versions, snap)
        /\ reviews' = [reviews EXCEPT ![task[w].req] = "APPROVED"]
    BY <1>4 DEF CommitApprove
  <2>2. snap.req = task[w].req
    BY DEF Snapshot
  <2>3. /\ Len(versions) + 1 \in DOMAIN versions'
        /\ versions'[Len(versions) + 1] = snap
        /\ \A i \in DOMAIN versions :
             i \in DOMAIN versions' /\ versions'[i] = versions[i]
    <3> HIDE DEF snap
    <3> QED BY <1>1, <2>1, LenProperties
  <2>4. r \in DOMAIN reviews /\ (r # task[w].req => reviews'[r] = reviews[r])
    BY <2>1
  <2>5. CASE r = task[w].req
    BY <2>2, <2>3, <2>5
  <2>6. CASE r # task[w].req
    BY <1>1, <2>3, <2>4, <2>6
  <2> QED BY <2>5, <2>6
<1>5. ASSUME NEW w \in Workers, Step(w), ~(CommitApprove(w) /\ ~Refuse(w))
      PROVE  UNCHANGED <<reviews, versions>>
  BY <1>5 DEF Step, ReadForMarks, ReadForOMR, ReadForComplete, ReadForLock,
              ReadForApprove, Begin, ReadDetails, ReadUpload, CommitMarks, CommitOMR,
              CommitComplete, CommitLock, PublishCompleted, Abort, Refuse
<1>6. CASE GetOrCreateEvaluation \/ UNCHANGED vars
  BY <1>2, <1>6 DEF GetOrCreateEvaluation, vars
<1> QED BY <1>2, <1>3, <1>4, <1>5, <1>6 DEF Next

\* An upload comes with the marks of every objective question.
LEMMA StepUploaded ==
  ASSUME TypeOK, WholeInv, [Next]_vars, uploads' # <<>>, NEW q \in ObjectiveQs
  PROVE  details'[q] # <<>>
<1>1. q \in Questions /\ details \in Sheet
  BY DEF Questions, TypeOK
<1>2. CASE uploads' = uploads
  BY <1>1, <1>2, DetailsStay DEF WholeInv, CommitsWhole
<1>3. ASSUME NEW w \in Workers, CommitOMR(w), ~Refuse(w)
      PROVE  details'[q] # <<>>
  <2>1. /\ details' = Upsert(details, task[w].sheet, task[w].entry, "OMR")
        /\ task[w].op = "omr"
    BY <1>3 DEF CommitOMR, At
  <2>2. /\ q \in DOMAIN task[w].entry
        /\ task[w].sheet[q] # <<>> => details[q] # <<>>
    BY <1>1, <2>1 DEF WholeInv
  <2> QED BY <1>1, <2>1, <2>2, UpsertKeepsRows
<1>4. ASSUME NEW w \in Workers, Step(w), ~(CommitOMR(w) /\ ~Refuse(w))
      PROVE  uploads' = uploads
  BY <1>4 DEF Step, ReadForMarks, ReadForOMR, ReadForComplete, ReadForLock,
              ReadForApprove, Begin, ReadDetails, ReadUpload, CommitMarks,
              CommitComplete, CommitLock, PublishCompleted, CommitApprove,
              Abort, Refuse
<1>5. CASE GetOrCreateEvaluation \/ RequestReEvaluation \/ UNCHANGED vars
  BY <1>2, <1>5 DEF GetOrCreateEvaluation, RequestReEvaluation, vars
<1> QED BY <1>2, <1>3, <1>4, <1>5 DEF Next

\* The strengthened invariant is inductive.
LEMMA StepWholeInv == TypeOK /\ WholeInv /\ [Next]_vars => WholeInv'
<1> SUFFICES ASSUME TypeOK, WholeInv, [Next]_vars PROVE WholeInv'
  OBVIOUS
<1>1. CommitsWhole'
  BY StepApproved, StepUploaded DEF CommitsWhole
<1>2. ASSUME NEW v \in Workers, task'[v].op = "omr"
      PROVE  DOMAIN task'[v].entry = ObjectiveQs
  <2>1. Idle.op = "idle"
    BY DEF Idle
  <2> QED BY <1>2, <2>1, TaskAfter
          DEF WholeInv, Loads, Reads, Locks, SameRequest
<1>3. ASSUME NEW v \in Workers, NEW q \in Questions, task'[v].sheet[q] # <<>>
      PROVE  details'[q] # <<>>
  <2>1. Idle.sheet[q] = <<>> /\ EmptySheet[q] = <<>>
    BY DEF Idle, EmptySheet
  <2>2. task'[v].sheet = task[v].sheet \/ task'[v].sheet = details
    BY <1>3, <2>1, TaskAfter DEF Loads, Reads, Locks
  <2>3. details[q] # <<>>
    BY <1>3, <2>2 DEF WholeInv
  <2> QED BY <2>3, DetailsStay
<1> QED BY <1>1, <1>2, <1>3 DEF WholeInv

\* An approved request has its snapshot and an uploaded sheet its marks, however
\* the requests interleave (approve_re_evaluation, process_omr_upload).
THEOREM CommitsAreWhole == Spec => []CommitsWhole
<1>1. Init => WholeInv
  <2> SUFFICES ASSUME Init PROVE WholeInv
    OBVIOUS
  <2>1. reviews = <<>> /\ uploads = <<>>
    BY DEF Init
  <2>2. \A w \in Workers : task[w].op = "idle" /\ task[w].sheet = EmptySheet
    BY DEF Init, Idle
  <2>3. \A q \in Questions : EmptySheet[q] = <<>>
    BY DEF EmptySheet
  <2> QED BY <2>1, <2>2, <2>3 DEF WholeInv, CommitsWhole
<1>2. WholeInv => CommitsWhole
  BY DEF WholeInv
<1> QED BY <1>1, <1>2, StepWholeInv, TypeCorrect, PTL DEF Spec

-----------------------------------------------------------------------------
(* Requests that do not overlap.  The check of enter_subjective_marks and the  *)
(* transition check of the upload are made on a loaded copy; with a single    *)
(* worker the copy is still current.                                         *)

Serial == \A v, w \in Workers : v = w

CopyCurrent ==
  \A w \in Workers :
    /\ task[w].op = "marks" =>
         /\ task[w].row.status = row.status
         /\ row.status \in Status \ {"LOCKED"}
    /\ task[w].op = "omr" =>
         \/ task[w].row.status = Absent
         \/ task[w].row.status = row.status

\* What the first query of a request leaves behind.
LEMMA BeginSets ==
  ASSUME TypeOK, NEW w \in Workers, NEW op, NEW step, NEW entry, NEW review,
         NEW req, NEW seen, Begin(w, op, step, entry, review, req, seen)
  PROVE  row' = row /\ task'[w].op = op /\ task'[w].row = seen
BY DEF Begin, TypeOK

\* With one worker, the status a session loaded is still the status of the row
\* when it commits.
LEMMA StepCopyCurrent == TypeOK /\ Serial /\ CopyCurrent /\ [Next]_vars => CopyCurrent'
<1> SUFFICES ASSUME TypeOK, Serial, CopyCurrent, [Next]_vars PROVE CopyCurrent'
  OBVIOUS
<1>1. task \in [Workers -> Task] /\ row \in Row
  BY DEF TypeOK
<1>2. CASE GetOrCreateEvaluation
  BY <1>2 DEF GetOrCreateEvaluation, CopyCurrent, Exists, Status, Absent
<1>3. CASE RequestReEvaluation
  BY <1>3 DEF RequestReEvaluation, CopyCurrent
<1>4. ASSUME NEW w \in Workers, Step(w)
      PROVE  CopyCurrent'
  <2>1. CASE ReadForMarks(w) \/ ReadForOMR(w)
    <3>1. SeenStatus.status = row.status
      BY DEF SeenStatus, NewRow
    <3>2. row' = row /\ task'[w].row = SeenStatus
      BY <2>1, BeginSets DEF ReadForMarks, ReadForOMR
    <3>3. CASE ReadForMarks(w)
      BY <1>1, <3>1, <3>2, <3>3 DEF ReadForMarks, Exists, Row, CopyCurrent, Serial
    <3>4. CASE ReadForOMR(w)
      <4>1. task'[w].op = "omr"
        BY <3>4, BeginSets DEF ReadForOMR
      <4> QED BY <3>1, <3>2, <4>1 DEF CopyCurrent, Serial
    <3> QED BY <2>1, <3>3, <3>4
  <2>2. ASSUME NEW op, op \notin {"marks", "omr"}, NEW step, NEW seen,
               NEW entry, NEW req, Begin(w, op, step, entry, FALSE, req, seen)
        PROVE  CopyCurrent'
    <3>1. task'[w].op = op
      BY <1>1, <2>2 DEF Begin
    <3> QED BY <2>2, <3>1 DEF CopyCurrent, Serial
  <2>3. CASE ReadForComplete(w) \/ ReadForLock(w) \/ ReadForApprove(w)
    BY <2>2, <2>3 DEF ReadForComplete, ReadForLock, ReadForApprove
  <2>4. ASSUME Finish(w)
        PROVE  CopyCurrent'
    <3>1. task'[w].op = "idle"
      BY <1>1, <2>4 DEF Finish, Idle
    <3> QED BY <3>1 DEF CopyCurrent, Serial
  <2>5. ASSUME NEW s, row' = row, task' = [task EXCEPT ![w].step = s]
        PROVE  CopyCurrent'
    <3>1. task'[w].op = task[w].op /\ task'[w].row = task[w].row
      BY <1>1, <2>5 DEF Task
    <3> QED BY <2>5, <3>1 DEF CopyCurrent, Serial
  <2>6. ASSUME row' = row,
               task' = [task EXCEPT ![w].step = "commit", ![w].sheet = details]
        PROVE  CopyCurrent'
    <3>1. task'[w].op = task[w].op /\ task'[w].row = task[w].row
      BY <1>1, <2>6 DEF Task
    <3> QED BY <2>6, <3>1 DEF CopyCurrent, Serial
  <2>7. CASE ReadDetails(w) \/ ReadUpload(w) \/ Abort(w)
    BY <2>4, <2>5, <2>6, <2>7 DEF ReadDetails, ReadUpload, Abort, Refuse
  <2>8. CASE CommitLock(w) /\ ~Refuse(w)
    <3>1. task'[w].op = "lock"
      BY <1>1, <2>8 DEF CommitLock, At, Task
    <3> QED BY <3>1 DEF CopyCurrent, Serial
  <2>9. CASE \/ CommitMarks(w) \/ CommitOMR(w) \/ CommitComplete(w)
             \/ PublishCompleted(w) \/ CommitApprove(w) \/ Refuse(w)
    BY <2>4, <2>9 DEF CommitMarks, CommitOMR, CommitComplete, PublishCompleted,
                      CommitApprove, Refuse
  <2> QED BY <1>4, <2>1, <2>3, <2>7, <2>8, <2>9 DEF Step
<1>5. CASE UNCHANGED vars
  BY <1>5 DEF vars, CopyCurrent
<1> QED BY <1>2, <1>3, <1>4, <1>5 DEF Next

-----------------------------------------------------------------------------
(* Without overlap a session's copy is exact until its commit, so the blind   *)
(* UPDATEs of the commits are the atomic operations of EvaluationContract.     *)

NoOpenReview == \A i \in DOMAIN uploads : uploads[i] # "NEEDS_MANUAL_REVIEW"

ExactCopy(v) ==
  LET seen == task[v].row
  IN /\ task[v].op = "complete" =>
          /\ seen.status = row.status /\ seen.total = row.total
          /\ task[v].step = "commit" => task[v].sheet = details
     /\ task[v].op = "lock" =>
          /\ task[v].step # "details" /\ seen.total = row.total
          /\ IF task[v].step = "publish" THEN row.status = "LOCKED"
             ELSE seen.status = row.status
          /\ task[v].step = "commit" => NoOpenReview
     /\ task[v].op = "approve" =>
          /\ seen.status = row.status /\ seen.total = row.total
          /\ seen.version = row.version

SerialInv ==
  /\ CopyCurrent
  /\ \A v \in Workers : ExactCopy(v)
  /\ ~Exists => row = NewRow(Absent) /\ versions = <<>>
  /\ row.status # "PUBLISHED"
  /\ row.version = Len(versions) + 1
  /\ NoOpenReviewWhenLocked
  /\ AnnouncedOnRecord

\* The commits, seen through the columns of the row.
SameTotal == row'.total = row.total

\* enter_subjective_marks: the status a teacher's mark leads to.
LEMMA MarksSerially ==
  ASSUME TypeOK, SerialInv, NEW w \in Workers, CommitMarks(w)
  PROVE  /\ Exists /\ SameTotal /\ row'.version = row.version
         /\ \/ /\ row.status \in {"PENDING", "STARTED", "OBJECTIVE_COMPLETED"}
               /\ row'.status = "SUBJECTIVE_PENDING"
            \/ /\ row.status \in {"SUBJECTIVE_PENDING", "COMPLETED"}
               /\ row'.status = row.status
<1> DEFINE seen   == task[w].row
           early  == seen.status \in {"PENDING", "STARTED", "OBJECTIVE_COMPLETED"}
           target == IF early THEN "SUBJECTIVE_PENDING" ELSE seen.status
<1>1. row \in Row /\ task[w].op = "marks"
  BY DEF TypeOK, CommitMarks, At
<1>2. seen.status = row.status /\ row.status \in Status \ {"LOCKED", "PUBLISHED"}
  BY <1>1 DEF SerialInv, CopyCurrent
<1>3. row' = [row EXCEPT !.status = Written(row.status, seen.status, target)]
  BY DEF CommitMarks
<1>4. SameTotal /\ row'.version = row.version
  BY <1>1, <1>3 DEF Row, SameTotal
<1>5. row'.status = target
  BY <1>1, <1>2, <1>3 DEF Row, Written
<1> QED BY <1>2, <1>4, <1>5 DEF Exists, Status, Absent

\* process_omr_upload: a first row, or the objective part of an open evaluation.
LEMMA OMRSerially ==
  ASSUME TypeOK, SerialInv, NEW w \in Workers, CommitOMR(w), ~Refuse(w)
  PROVE  \/ ~Exists /\ row' = NewRow("OBJECTIVE_COMPLETED")
         \/ /\ Exists /\ SameTotal /\ row'.version = row.version
            /\ row.status \in {"PENDING", "STARTED", "OBJECTIVE_COMPLETED"}
            /\ row'.status = "OBJECTIVE_COMPLETED"
<1> DEFINE seen == task[w].row
<1>1. row \in Row /\ task[w].op = "omr"
  BY DEF TypeOK, CommitOMR, At
<1>2. CASE seen.status = Absent
  BY <1>2 DEF CommitOMR
<1>3. CASE seen.status # Absent
  <2>1. seen.status = row.status /\ row.status \in Status
    BY <1>1, <1>3 DEF SerialInv, CopyCurrent, Row
  <2>2. /\ MayMove(row.status, "OBJECTIVE_COMPLETED")
        /\ row' = [row EXCEPT !.status =
                     Written(row.status, row.status, "OBJECTIVE_COMPLETED")]
    BY <1>3, <2>1 DEF CommitOMR
  <2>3. row.status \in {"PENDING", "STARTED", "OBJECTIVE_COMPLETED"}
    BY <2>1, <2>2 DEF MayMove, EVALUATION_TRANSITIONS, Status
  <2>4. SameTotal /\ row'.version = row.version /\ row'.status = "OBJECTIVE_COMPLETED"
    BY <1>1, <2>2 DEF Row, Written, SameTotal
  <2> QED BY <2>3, <2>4 DEF Exists, Absent
<1> QED BY <1>2, <1>3

\* complete_evaluation: the total is that of the mark sheet.
LEMMA CompleteSerially ==
  ASSUME TypeOK, SerialInv, NEW w \in Workers, CommitComplete(w), ~Refuse(w)
  PROVE  /\ Exists /\ row'.version = row.version
         /\ row'.total = Marks(details, "OMR") + Marks(details, "TEACHER")
         /\ row.status \in {"STARTED", "OBJECTIVE_COMPLETED",
                            "SUBJECTIVE_PENDING", "COMPLETED"}
         /\ row'.status = "COMPLETED"
<1> DEFINE seen == task[w].row
           obj  == Marks(details, "OMR")
           subj == Marks(details, "TEACHER")
<1>1. /\ row \in Row /\ task[w].op = "complete" /\ task[w].step = "commit"
      /\ MayMove(seen.status, "COMPLETED") /\ row' = Merged(task[w].sheet, seen)
  BY DEF TypeOK, CommitComplete, At
<1>2. /\ seen.status = row.status /\ seen.total = row.total
      /\ task[w].sheet = details /\ row.status \in Status
  BY <1>1 DEF SerialInv, ExactCopy, TypeOK
<1>3. /\ row'.total = Written(row.total, row.total, obj + subj)
      /\ row'.status = Written(row.status, row.status, "COMPLETED")
      /\ row'.version = row.version
  BY <1>1, <1>2 DEF Merged, Row
<1>4. row.status \in {"STARTED", "OBJECTIVE_COMPLETED", "SUBJECTIVE_PENDING",
                      "COMPLETED"}
  BY <1>1, <1>2 DEF SerialInv, MayMove, EVALUATION_TRANSITIONS, Status
<1>5. \A x, y : Written(x, x, y) = y
  BY DEF Written
<1>6. row'.total = obj + subj /\ row'.status = "COMPLETED" /\ row'.version = row.version
  BY <1>3, <1>5
<1> QED BY <1>4, <1>6 DEF Exists, Absent

\* lock_evaluation: only a COMPLETED or LOCKED evaluation is locked.
LEMMA LockSerially ==
  ASSUME TypeOK, SerialInv, NEW w \in Workers, CommitLock(w), ~Refuse(w)
  PROVE  /\ Exists /\ SameTotal /\ row'.version = row.version
         /\ row.status \in {"COMPLETED", "LOCKED"} /\ row'.status = "LOCKED"
         /\ NoOpenReview
<1> DEFINE seen == task[w].row
<1>1. /\ row \in Row /\ task[w].op = "lock" /\ task[w].step = "commit"
      /\ MayMove(seen.status, "LOCKED")
      /\ row' = [row EXCEPT !.locked_at = TRUE,
                            !.status = Written(row.status, seen.status, "LOCKED")]
  BY DEF TypeOK, CommitLock, At
<1>2. seen.status = row.status /\ NoOpenReview /\ row.status \in Status
  BY <1>1 DEF SerialInv, ExactCopy, TypeOK
<1>3. row.status \in {"COMPLETED", "LOCKED"}
  BY <1>1, <1>2 DEF SerialInv, MayMove, EVALUATION_TRANSITIONS, Status
<1>4. SameTotal /\ row'.version = row.version /\ row'.status = "LOCKED"
  BY <1>1, <1>2 DEF Row, Written, SameTotal
<1> QED BY <1>2, <1>3, <1>4 DEF Exists, Absent

\* approve_re_evaluation: the result goes to the archive as it stands.
LEMMA ApproveSerially ==
  ASSUME TypeOK, SerialInv, NEW w \in Workers, CommitApprove(w), ~Refuse(w)
  PROVE  /\ Exists /\ SameTotal /\ row'.version = row.version + 1
         /\ row.status \in {"PENDING", "STARTED", "COMPLETED", "LOCKED"}
         /\ row'.status = "STARTED"
         /\ \E req : versions' = Append(versions,
              [no |-> row.version, status |-> row.status, total |-> row.total,
               req |-> req])
<1> DEFINE seen == task[w].row
<1>1. /\ row \in Row /\ task[w].op = "approve" /\ MayMove(seen.status, "STARTED")
      /\ row' = Reopened(seen)
      /\ versions' = Append(versions, Snapshot(seen, task[w].req))
  BY DEF TypeOK, CommitApprove, At
<1>2. /\ seen.status = row.status /\ seen.total = row.total
      /\ seen.version = row.version /\ row.status \in Status
  BY <1>1 DEF SerialInv, ExactCopy, TypeOK
<1>3. row.status \in {"PENDING", "STARTED", "COMPLETED", "LOCKED"}
  BY <1>1, <1>2 DEF SerialInv, MayMove, EVALUATION_TRANSITIONS, Status
<1>4. SameTotal /\ row'.version = row.version + 1 /\ row'.status = "STARTED"
  BY <1>1, <1>2 DEF Reopened, Row, Written, SameTotal
<1>5. Snapshot(seen, task[w].req) =
        [no |-> row.version, status |-> row.status, total |-> row.total,
         req |-> task[w].req]
  BY <1>2 DEF Snapshot
<1> QED BY <1>1, <1>3, <1>4, <1>5 DEF Exists, Absent

-----------------------------------------------------------------------------
(* The invariant of serial executions, part by part.                       *)

\* What a step does to the row and to the archive.
LEMMA RowSerially ==
  ASSUME TypeOK, SerialInv, [Next]_vars
  PROVE  \/ row' = row /\ versions' = versions
         \/ /\ ~Exists /\ versions' = versions
            /\ row' \in {NewRow("PENDING"), NewRow("OBJECTIVE_COMPLETED")}
         \/ /\ Exists /\ row'.version = row.version /\ versions' = versions
            /\ SameTotal \/ row.status # "LOCKED"
            /\ \/ /\ row.status # "LOCKED"
                  /\ row'.status \in Status \ {"LOCKED", "PUBLISHED"}
               \/ SameTotal /\ row'.status = "LOCKED"
         \/ \E w \in Workers : CommitApprove(w) /\ ~Refuse(w)
<1>1. CASE \E w \in Workers : CommitApprove(w) /\ ~Refuse(w)
  BY <1>1
<1>2. CASE \A w \in Workers : ~(CommitApprove(w) /\ ~Refuse(w))
  <2>1. versions' = versions
    BY <1>2, OnlyApproveMovesVersion
  <2>2. ASSUME NEW w \in Workers, CommitMarks(w)
        PROVE  /\ Exists /\ row'.version = row.version /\ SameTotal
               /\ row.status # "LOCKED"
               /\ row'.status \in Status \ {"LOCKED", "PUBLISHED"}
    BY <2>2, MarksSerially DEF Status
  <2>3. ASSUME NEW w \in Workers, CommitOMR(w), ~Refuse(w)
        PROVE  \/ ~Exists /\ row' = NewRow("OBJECTIVE_COMPLETED")
               \/ /\ Exists /\ row'.version = row.version /\ SameTotal
                  /\ row.status # "LOCKED"
                  /\ row'.status \in Status \ {"LOCKED", "PUBLISHED"}
    BY <2>3, OMRSerially DEF Status
  <2>4. ASSUME NEW w \in Workers, CommitComplete(w), ~Refuse(w)
        PROVE  /\ Exists /\ row'.version = row.version
               /\ row.status # "LOCKED"
               /\ row'.status \in Status \ {"LOCKED", "PUBLISHED"}
    BY <2>4, CompleteSerially DEF Status
  <2>5. ASSUME NEW w \in Workers, CommitLock(w), ~Refuse(w)
        PROVE  /\ Exists /\ row'.version = row.version /\ SameTotal
               /\ row'.status = "LOCKED"
    BY <2>5, LockSerially
  <2> QED BY <1>2, <2>1, <2>2, <2>3, <2>4, <2>5, RowAfter
<1> QED BY <1>1, <1>2

\* The only session gives up its copy when it writes the row, except a lock.
LEMMA WriterEnds ==
  ASSUME TypeOK, Serial, [Next]_vars, Exists, row' # row, NEW v \in Workers
  PROVE  task'[v] = Idle \/ (CommitLock(v) /\ ~Refuse(v))
<1>1. task \in [Workers -> Task]
  BY DEF TypeOK
<1>2. ASSUME NEW w \in Workers, w = v,
             \/ CommitMarks(w) \/ (CommitOMR(w) /\ ~Refuse(w))
             \/ (CommitComplete(w) /\ ~Refuse(w)) \/ (CommitApprove(w) /\ ~Refuse(w))
      PROVE  task'[v] = Idle
  BY <1>1, <1>2 DEF CommitMarks, CommitOMR, CommitComplete, CommitApprove, Finish
<1> QED BY <1>2, RowAfter DEF Serial

\* Only an upload changes the uploads, and its session ends with it.
LEMMA UploadsSerially ==
  ASSUME TypeOK, Serial, SerialInv, [Next]_vars, uploads' # uploads
  PROVE  /\ row'.status = "OBJECTIVE_COMPLETED"
         /\ \A v \in Workers : task'[v] = Idle
<1>1. \E w \in Workers : CommitOMR(w) /\ ~Refuse(w)
  <2>1. ASSUME NEW w \in Workers, Step(w), ~(CommitOMR(w) /\ ~Refuse(w))
        PROVE  uploads' = uploads
    BY <2>1 DEF Step, ReadForMarks, ReadForOMR, ReadForComplete, ReadForLock,
                ReadForApprove, Begin, ReadDetails, ReadUpload, CommitMarks,
                CommitComplete, CommitLock, PublishCompleted, CommitApprove,
                Abort, Refuse
  <2>2. ~(GetOrCreateEvaluation \/ RequestReEvaluation \/ UNCHANGED vars)
    BY DEF GetOrCreateEvaluation, RequestReEvaluation, vars
  <2> QED BY <2>1, <2>2 DEF Next
<1>2. PICK w \in Workers : CommitOMR(w) /\ ~Refuse(w)
  BY <1>1
<1>3. row'.status = "OBJECTIVE_COMPLETED"
  BY <1>2, OMRSerially DEF NewRow
<1>4. task'[w] = Idle
  BY <1>2 DEF CommitOMR, Finish, TypeOK
<1> QED BY <1>3, <1>4 DEF Serial

\* What the manual-review check of lock_evaluation established.
LEMMA CheckedUploads ==
  ASSUME TypeOK, ~(Len(uploads) > 1 \/ uploads = <<"NEEDS_MANUAL_REVIEW">>)
  PROVE  NoOpenReview
<1>1. uploads \in Seq({"DETECTED", "NEEDS_MANUAL_REVIEW"})
  BY DEF TypeOK
<1>2. SUFFICES ASSUME NEW i \in DOMAIN uploads, uploads[i] = "NEEDS_MANUAL_REVIEW"
               PROVE  FALSE
  BY DEF NoOpenReview
<1>3. Len(uploads) = 1 /\ i = 1
  <2>1. Len(uploads) \in Nat /\ i \in 1 .. Len(uploads) /\ ~(Len(uploads) > 1)
    BY <1>1, LenProperties
  <2> QED BY <2>1
<1>4. uploads = <<"NEEDS_MANUAL_REVIEW">>
  BY <1>1, <1>2, <1>3
<1> QED BY <1>4

\* A session's copy stays exact.
LEMMA StepExactCopy ==
  ASSUME TypeOK, Serial, ClosedInv, SerialInv, [Next]_vars, NEW v \in Workers
  PROVE  ExactCopy(v)'
<1>1. ExactCopy(v) /\ row \in Row /\ Idle.op = "idle"
  BY DEF SerialInv, TypeOK, Idle
<1>2. CASE task'[v] = Idle
  BY <1>1, <1>2 DEF ExactCopy
<1>3. CASE Loads(v)
  <2>1. /\ SeenMarks.status = row.status /\ SeenMarks.total = row.total
    BY <1>1 DEF SeenMarks, Row
  <2>2. SeenTotal.status = row.status /\ SeenTotal.total = row.total
    BY DEF SeenTotal, NewRow
  <2>3. /\ SeenResult.status = row.status /\ SeenResult.total = row.total
        /\ SeenResult.version = row.version
    BY <1>1 DEF SeenResult, Row
  <2>4. /\ row' = row
        /\ \/ task'[v].op \in {"marks", "omr"}
           \/ /\ task'[v].op = "complete" /\ task'[v].row = SeenMarks
              /\ task'[v].step # "commit"
           \/ task'[v].op = "lock" /\ task'[v].step = "upload" /\ task'[v].row = SeenTotal
           \/ task'[v].op = "approve" /\ task'[v].row = SeenResult
    BY <1>3 DEF Loads
  <2> HIDE DEF SeenMarks, SeenTotal, SeenResult
  <2> QED BY <2>1, <2>2, <2>3, <2>4 DEF ExactCopy
<1>4. CASE Reads(v)
  <2>1. /\ task[v].step \in {"details", "upload"} /\ SameRequest(v)
        /\ task'[v].step = "commit" /\ row' = row /\ uploads' = uploads
        /\ details' = details
        /\ (task[v].op = "complete" => task'[v].sheet = details)
    BY <1>4 DEF Reads, At
  <2>2. task[v].step = "upload" => NoOpenReview
    BY <1>4, CheckedUploads DEF Reads
  <2>3. task'[v].op = task[v].op /\ task'[v].row = task[v].row
    BY <2>1 DEF SameRequest
  <2>4. CASE task[v].op = "complete"
    BY <1>1, <2>1, <2>3, <2>4 DEF ExactCopy
  <2>5. CASE task[v].op = "lock"
    <3>1. NoOpenReview'
      BY <1>1, <2>1, <2>2, <2>5 DEF ExactCopy, NoOpenReview
    <3>2. task[v].row.status = row.status /\ task[v].row.total = row.total
      BY <1>1, <2>1, <2>5 DEF ExactCopy
    <3> QED BY <2>1, <2>3, <2>5, <3>1, <3>2 DEF ExactCopy
  <2>6. CASE task[v].op = "approve"
    BY <1>1, <2>1, <2>3, <2>6 DEF ExactCopy
  <2>7. CASE task[v].op \notin {"complete", "lock", "approve"}
    BY <2>3, <2>7 DEF ExactCopy
  <2> QED BY <2>4, <2>5, <2>6, <2>7
<1>5. CASE Locks(v)
  <2>1. task'[v].op = "lock" /\ task'[v].step = "publish"
        /\ task'[v].row = task[v].row /\ task[v].op = "lock"
    BY <1>5 DEF Locks, SameRequest, CommitLock, At
  <2>2. row'.total = row.total /\ row'.status = "LOCKED"
    BY <1>5, LockSerially DEF Locks, SameTotal
  <2> QED BY <1>1, <2>1, <2>2 DEF ExactCopy
<1>6. CASE task'[v] = task[v] /\ task[v].op \in {"complete", "lock", "approve"}
           /\ ~Locks(v) /\ task'[v] # Idle
  <2>1. Exists
    BY <1>6 DEF ClosedInv
  <2>2. ~(CommitLock(v) /\ ~Refuse(v))
    <3>1. task \in [Workers -> Task]
      BY DEF TypeOK
    <3> QED BY <1>6, <3>1 DEF CommitLock, At, Task
  <2>3. row' = row
    BY <1>6, <2>1, <2>2, WriterEnds
  <2>4. uploads' = uploads
    BY <1>6, UploadsSerially
  <2>5. details' = details
    <3>1. \A w \in Workers : w = v
      BY DEF Serial
    <3>2. ~(CommitMarks(v) \/ (CommitOMR(v) /\ ~Refuse(v)))
      BY <1>6 DEF CommitMarks, CommitOMR, Finish, TypeOK
    <3> QED BY <3>1, <3>2, WritersOfDetails
  <2> QED BY <1>1, <1>6, <2>3, <2>4, <2>5 DEF ExactCopy, NoOpenReview
<1>7. CASE task'[v] = task[v] /\ task[v].op \notin {"complete", "lock", "approve"}
  BY <1>7 DEF ExactCopy
<1> QED BY <1>2, <1>3, <1>4, <1>5, <1>6, <1>7, TaskAfter

\* What an approval leaves behind, in one place.
LEMMA ApprovedArchive ==
  ASSUME TypeOK, SerialInv, NEW w \in Workers, CommitApprove(w), ~Refuse(w)
  PROVE  /\ Len(versions') = Len(versions) + 1
         /\ \A i \in DOMAIN versions :
              i \in DOMAIN versions' /\ versions'[i] = versions[i]
         /\ \E i \in DOMAIN versions' :
              versions'[i].status = row.status /\ versions'[i].total = row.total
         /\ published' = published
<1>1. PICK req : versions' = Append(versions,
        [no |-> row.version, status |-> row.status, total |-> row.total, req |-> req])
  BY ApproveSerially
<1>2. versions \in Seq(Version) /\ Len(versions) \in Nat
  BY LenProperties DEF TypeOK
<1>3. /\ Len(versions') = Len(versions) + 1
      /\ \A i \in DOMAIN versions :
           i \in DOMAIN versions' /\ versions'[i] = versions[i]
      /\ Len(versions) + 1 \in DOMAIN versions'
      /\ versions'[Len(versions) + 1] =
           [no |-> row.version, status |-> row.status, total |-> row.total, req |-> req]
  BY <1>1, <1>2, LenProperties
<1>4. published' = published
  BY DEF CommitApprove, Refuse
<1> QED BY <1>3, <1>4

\* The numbering and the statuses.
LEMMA StepSerialColumns ==
  ASSUME TypeOK, SerialInv, [Next]_vars
  PROVE  /\ ~Exists' => row' = NewRow(Absent) /\ versions' = <<>>
         /\ row'.status # "PUBLISHED"
         /\ row'.version = Len(versions') + 1
<1>1. /\ ~Exists => row = NewRow(Absent) /\ versions = <<>>
      /\ row.status # "PUBLISHED" /\ row.version = Len(versions) + 1
  BY DEF SerialInv
<1>2. \A s : NewRow(s).status = s /\ NewRow(s).total = NoMarks /\ NewRow(s).version = 1
  BY DEF NewRow
<1>3. CASE row' = row /\ versions' = versions
  BY <1>1, <1>3 DEF Exists
<1>4. CASE /\ ~Exists /\ versions' = versions
           /\ row' \in {NewRow("PENDING"), NewRow("OBJECTIVE_COMPLETED")}
  <2>1. Len(versions) = 0
    BY <1>1, <1>4
  <2>2. row'.version = Len(versions') + 1
    BY <1>2, <1>4, <2>1
  <2> QED BY <1>2, <1>4, <2>2 DEF Exists, Absent
<1>5. CASE /\ Exists /\ row'.version = row.version /\ versions' = versions
           /\ SameTotal \/ row.status # "LOCKED"
           /\ \/ /\ row.status # "LOCKED"
                 /\ row'.status \in Status \ {"LOCKED", "PUBLISHED"}
              \/ SameTotal /\ row'.status = "LOCKED"
  BY <1>1, <1>5 DEF Exists, SameTotal, Status, Absent
<1>6. ASSUME NEW w \in Workers, CommitApprove(w), ~Refuse(w)
      PROVE  /\ ~Exists' => row' = NewRow(Absent) /\ versions' = <<>>
             /\ row'.status # "PUBLISHED"
             /\ row'.version = Len(versions') + 1
  <2>1. SameTotal /\ row'.version = row.version + 1 /\ row'.status = "STARTED"
    BY <1>6, ApproveSerially
  <2>2. Len(versions') = Len(versions) + 1
    BY <1>6, ApprovedArchive
  <2> QED BY <1>1, <2>1, <2>2 DEF Exists, SameTotal, Absent
<1> QED BY <1>3, <1>4, <1>5, <1>6, RowSerially

\* Only a lock leads to LOCKED, right after its check of the uploads.
LEMMA StepNoOpenReview ==
  ASSUME TypeOK, Serial, SerialInv, [Next]_vars
  PROVE  NoOpenReviewWhenLocked'
<1> SUFFICES ASSUME row'.status = "LOCKED" PROVE NoOpenReview'
  BY DEF NoOpenReviewWhenLocked, NoOpenReview
<1>1. uploads' = uploads
  BY UploadsSerially
<1>2. CASE row.status = "LOCKED"
  BY <1>1, <1>2 DEF SerialInv, NoOpenReviewWhenLocked, NoOpenReview
<1>3. CASE row.status # "LOCKED"
  <2>1. \A s : NewRow(s).status = s
    BY DEF NewRow
  <2>2. ~\E w \in Workers : CommitMarks(w)
    BY <1>3, MarksSerially
  <2>3. ~\E w \in Workers : CommitOMR(w) /\ ~Refuse(w)
    BY <2>1, OMRSerially
  <2>4. ~\E w \in Workers : CommitComplete(w) /\ ~Refuse(w)
    BY CompleteSerially
  <2>5. ~\E w \in Workers : CommitApprove(w) /\ ~Refuse(w)
    BY ApproveSerially
  <2>6. \E w \in Workers : CommitLock(w) /\ ~Refuse(w)
    BY <1>3, <2>1, <2>2, <2>3, <2>4, <2>5, RowAfter
  <2>7. NoOpenReview
    BY <2>6, LockSerially
  <2> QED BY <1>1, <2>7 DEF NoOpenReview
<1> QED BY <1>2, <1>3

OnRecord(total) ==
  \/ row.status = "LOCKED" /\ row.total = total
  \/ \E v \in DOMAIN versions : versions[v].status = "LOCKED" /\ versions[v].total = total

\* A locked total leaves the row only for the archive.
LEMMA StaysOnRecord ==
  ASSUME TypeOK, SerialInv, [Next]_vars, NEW total, OnRecord(total)
  PROVE  OnRecord(total)'
<1>1. CASE row' = row /\ versions' = versions
  BY <1>1 DEF OnRecord
<1>2. CASE ~Exists
  <2>1. row.status # "LOCKED" /\ versions = <<>>
    BY <1>2 DEF SerialInv, Exists, Absent
  <2> QED BY <2>1 DEF OnRecord
<1>3. CASE /\ Exists /\ row'.version = row.version /\ versions' = versions
           /\ SameTotal \/ row.status # "LOCKED"
           /\ \/ /\ row.status # "LOCKED"
                 /\ row'.status \in Status \ {"LOCKED", "PUBLISHED"}
              \/ SameTotal /\ row'.status = "LOCKED"
  BY <1>3 DEF OnRecord, SameTotal
<1>4. ASSUME NEW w \in Workers, CommitApprove(w), ~Refuse(w)
      PROVE  OnRecord(total)'
  BY <1>4, ApprovedArchive DEF OnRecord
<1> QED BY <1>1, <1>2, <1>3, <1>4, RowSerially

\* The event of a lock carries the total of the row that is still LOCKED.
LEMMA PublishSerially ==
  ASSUME TypeOK, SerialInv, NEW w \in Workers, PublishCompleted(w)
  PROVE  /\ row.status = "LOCKED" /\ row' = row /\ versions' = versions
         /\ details' = details /\ published' = Append(published, row.total)
<1>1. task[w].op = "lock" /\ task[w].step = "publish"
  BY DEF PublishCompleted, At
<1>2. row.status = "LOCKED" /\ task[w].row.total = row.total
  BY <1>1 DEF SerialInv, ExactCopy
<1> QED BY <1>2 DEF PublishCompleted

\* Every announced total stays on record.
LEMMA StepAnnounced ==
  ASSUME TypeOK, SerialInv, [Next]_vars
  PROVE  AnnouncedOnRecord'
<1>1. /\ \A i \in DOMAIN published : OnRecord(published[i])
      /\ published \in Seq(Nat \cup {NoMarks})
  BY DEF SerialInv, AnnouncedOnRecord, OnRecord, TypeOK
<1> SUFFICES ASSUME NEW i \in DOMAIN published', NEW total, total = published'[i]
             PROVE  OnRecord(total)'
  BY DEF AnnouncedOnRecord, OnRecord
<1>2. CASE published' = published
  BY <1>1, <1>2, StaysOnRecord
<1>3. ASSUME NEW w \in Workers, PublishCompleted(w)
      PROVE  OnRecord(total)'
  <2>1. /\ row.status = "LOCKED" /\ row' = row /\ versions' = versions
        /\ published' = Append(published, row.total)
    BY <1>3, PublishSerially
  <2>2. \/ published'[i] = row.total
        \/ i \in DOMAIN published /\ published'[i] = published[i]
    BY <1>1, <2>1, LenProperties
  <2>3. OnRecord(total)
    BY <1>1, <2>1, <2>2 DEF OnRecord
  <2> QED BY <2>3, StaysOnRecord
<1>4. ASSUME NEW w \in Workers, Step(w), ~PublishCompleted(w)
      PROVE  published' = published
  BY <1>4 DEF Step, ReadForMarks, ReadForOMR, ReadForComplete, ReadForLock,
              ReadForApprove, Begin, ReadDetails, ReadUpload, CommitMarks, CommitOMR,
              CommitComplete, CommitLock, CommitApprove, Abort, Refuse
<1>5. CASE GetOrCreateEvaluation \/ RequestReEvaluation \/ UNCHANGED vars
  BY <1>2, <1>5 DEF GetOrCreateEvaluation, RequestReEvaluation, vars
<1> QED BY <1>2, <1>3, <1>4, <1>5 DEF Next

\* All of it holds in every reachable state of a serial execution.
LEMMA SerialInvHolds ==
  ASSUME Serial
  PROVE  Spec => []SerialInv
<1>1. Init => SerialInv
  <2> SUFFICES ASSUME Init PROVE SerialInv
    OBVIOUS
  <2>1. \A w \in Workers : task[w].op = "idle"
    BY DEF Init, Idle
  <2>2. /\ row = NewRow(Absent) /\ versions = <<>> /\ published = <<>>
        /\ row.status = Absent /\ row.version = 1 /\ row.total = NoMarks
    BY DEF Init, NewRow
  <2> QED BY <2>1, <2>2 DEF SerialInv, CopyCurrent, ExactCopy, Absent,
          NoOpenReviewWhenLocked, AnnouncedOnRecord
<1>2. TypeOK /\ ClosedInv /\ SerialInv /\ [Next]_vars => SerialInv'
  <2> SUFFICES ASSUME TypeOK, ClosedInv, SerialInv, [Next]_vars PROVE SerialInv'
    OBVIOUS
  <2>1. CopyCurrent'
    BY Serial, StepCopyCurrent DEF SerialInv
  <2>2. \A v \in Workers : ExactCopy(v)'
    BY Serial, StepExactCopy
  <2>3. NoOpenReviewWhenLocked'
    BY Serial, StepNoOpenReview
  <2> QED BY <2>1, <2>2, <2>3, StepSerialColumns, StepAnnounced DEF SerialInv
<1> QED BY <1>1, <1>2, TypeCorrect, ClosedInvHolds, PTL DEF Spec

\* With one request at a time, a LOCKED evaluation rests on no sheet that still
\* needs a manual review (the check of lock_evaluation suffices).
THEOREM NoOpenReviewSerially ==
  ASSUME Serial
  PROVE  Spec => []NoOpenReviewWhenLocked
<1>1. SerialInv => NoOpenReviewWhenLocked
  BY DEF SerialInv
<1> QED BY <1>1, Serial, SerialInvHolds, PTL

\* With one request at a time, every total handed to the bus by lock_evaluation
\* is the total of the LOCKED evaluation or of a LOCKED snapshot.
THEOREM AnnouncedSerially ==
  ASSUME Serial
  PROVE  Spec => []AnnouncedOnRecord
<1>1. SerialInv => AnnouncedOnRecord
  BY DEF SerialInv
<1> QED BY <1>1, Serial, SerialInvHolds, PTL

\* A step of a serial execution that leaves a total out of date.
LEMMA StepStaleTotal ==
  ASSUME TypeOK, SerialInv, [Next]_vars, ~StaleTotal, StaleTotal'
  PROVE  /\ row.status = "COMPLETED" /\ row' = row
         /\ \E w \in Workers : task[w].op = "marks" /\ task[w].step = "commit"
<1>1. row \in Row /\ row'.status \in {"COMPLETED", "LOCKED"}
  BY DEF TypeOK, StaleTotal
<1>2. \A s : NewRow(s).status = s
  BY DEF NewRow
<1>3. ~ \E w \in Workers : CommitOMR(w) /\ ~Refuse(w)
  BY <1>1, <1>2, OMRSerially
<1>4. ASSUME NEW w \in Workers, CommitComplete(w), ~Refuse(w) PROVE FALSE
  <2>1. row'.total = Marks(details, "OMR") + Marks(details, "TEACHER")
    BY <1>4, CompleteSerially
  <2>2. details' = details
    BY <1>4 DEF CommitComplete
  <2> QED BY <2>1, <2>2 DEF StaleTotal
<1>5. ASSUME NEW w \in Workers, CommitLock(w), ~Refuse(w) PROVE FALSE
  <2>1. row'.total = row.total /\ row.status \in {"COMPLETED", "LOCKED"}
    BY <1>5, LockSerially DEF SameTotal
  <2>2. details' = details
    BY <1>5 DEF CommitLock
  <2> QED BY <2>1, <2>2 DEF StaleTotal
<1>6. ~ \E w \in Workers : CommitApprove(w) /\ ~Refuse(w)
  BY <1>1, ApproveSerially
<1>7. ~(row' = row /\ details' = details)
  BY DEF StaleTotal
<1>8. ~(row' \in {NewRow("PENDING"), NewRow("OBJECTIVE_COMPLETED")})
  BY <1>1, <1>2
<1>9. PICK w \in Workers : CommitMarks(w)
  BY <1>3, <1>4, <1>5, <1>6, <1>7, <1>8, RowAfter, WritersOfDetails
<1>10. row.status = "COMPLETED" /\ row'.status = row.status
  BY <1>1, <1>9, MarksSerially
<1>11. \E s : row' = [row EXCEPT !.status = s]
  BY <1>9 DEF CommitMarks
<1>12. row' = row
  BY <1>1, <1>10, <1>11 DEF Row
<1> QED BY <1>9, <1>10, <1>12 DEF CommitMarks, At

\* With one request at a time, the total of a closed evaluation comes out of date only
\* by a teacher's mark on a COMPLETED one (enter_subjective_marks merges nothing); no
\* merge, upload, lock, approval or failure does it.
THEOREM StaleTotalsSerially ==
  ASSUME Serial
  PROVE  Spec => OnlyLateMarksStaleTotals
<1>1. TypeOK /\ SerialInv /\ [Next]_vars =>
        [~StaleTotal /\ StaleTotal' =>
           /\ row.status = "COMPLETED" /\ row' = row
           /\ \E w \in Workers : task[w].op = "marks" /\ task[w].step = "commit"]_vars
  BY StepStaleTotal
<1>2. Spec => []SerialInv
  BY Serial, SerialInvHolds
<1> QED BY <1>1, <1>2, TypeCorrect, PTL DEF Spec, OnlyLateMarksStaleTotals

-----------------------------------------------------------------------------
(* The refinement.                                                         *)

\* The archive of the contract, without the request a snapshot was made for.
ArchiveOf(s) ==
  [i \in DOMAIN s |-> [no |-> s[i].no, status |-> s[i].status, total |-> s[i].total]]

\* Archiving a version appends its entry to the contract's archive.
LEMMA ArchiveAppend ==
  ASSUME NEW s \in Seq(Version), NEW v
  PROVE  ArchiveOf(Append(s, v)) =
           Append(ArchiveOf(s), [no |-> v.no, status |-> v.status, total |-> v.total])
<1> DEFINE e(x) == [no |-> x.no, status |-> x.status, total |-> x.total]
<1>1. /\ Len(s) \in Nat /\ DOMAIN s = 1 .. Len(s)
      /\ DOMAIN Append(s, v) = 1 .. Len(s) + 1
      /\ \A i \in 1 .. Len(s) : Append(s, v)[i] = s[i]
      /\ Append(s, v)[Len(s) + 1] = v
  BY LenProperties
<1> DEFINE a == ArchiveOf(s)
<1>2. a = [i \in 1 .. Len(s) |-> e(s[i])]
  BY <1>1 DEF ArchiveOf
<1>3. PICK R : a \in Seq(R) /\ e(v) \in R
  <2> DEFINE R == {e(s[i]) : i \in 1 .. Len(s)} \cup {e(v)}
  <2>1. a \in [1 .. Len(s) -> R]
    BY <1>2
  <2>2. a \in Seq(R)
    BY <1>1, <2>1, SeqDef
  <2> QED BY <2>2
<1>4. Len(a) = Len(s)
  BY <1>1, <1>2, <1>3, LenProperties
<1>5. /\ DOMAIN Append(a, e(v)) = 1 .. Len(s) + 1
      /\ \A i \in 1 .. Len(s) : Append(a, e(v))[i] = a[i]
      /\ Append(a, e(v))[Len(s) + 1] = e(v)
      /\ Append(a, e(v)) = [i \in DOMAIN Append(a, e(v)) |-> Append(a, e(v))[i]]
  <2> HIDE DEF a, e
  <2>1. Append(a, e(v)) \in Seq(R) /\ Len(Append(a, e(v))) = Len(s) + 1
    BY <1>3, <1>4, AppendProperties
  <2>2. Append(a, e(v)) = [i \in DOMAIN Append(a, e(v)) |-> Append(a, e(v))[i]]
    <3> DEFINE b == Append(a, e(v))
    <3>1. b \in [1 .. Len(b) -> R]
      BY <2>1, LenProperties
    <3> HIDE DEF b
    <3>2. b = [i \in DOMAIN b |-> b[i]]
      BY <3>1
    <3> QED BY <3>2 DEF b
  <2> QED BY <1>3, <1>4, <2>1, <2>2, AppendProperties, LenProperties
<1>6. ArchiveOf(Append(s, v)) = [i \in 1 .. Len(s) + 1 |-> e(Append(s, v)[i])]
  BY <1>1 DEF ArchiveOf
<1>7. \A i \in 1 .. Len(s) + 1 : e(Append(s, v)[i]) = Append(a, e(v))[i]
  <2> HIDE DEF e, a
  <2> SUFFICES ASSUME NEW i \in 1 .. Len(s) + 1
               PROVE  e(Append(s, v)[i]) = Append(a, e(v))[i]
    OBVIOUS
  <2>1. CASE i = Len(s) + 1
    BY <1>1, <1>5, <2>1
  <2>2. CASE i \in 1 .. Len(s)
    BY <1>1, <1>2, <1>5, <2>2
  <2>3. Len(s) \in Nat
    BY <1>1
  <2>4. i = Len(s) + 1 \/ i \in 1 .. Len(s)
    BY <2>3
  <2> QED BY <2>1, <2>2, <2>4
<1> HIDE DEF a, e
<1>8. ArchiveOf(Append(s, v)) = Append(a, e(v))
  BY <1>5, <1>6, <1>7
<1> QED BY <1>8 DEF a, e

\* What the contract calls its archive is the archive of the tables.
LEMMA ContractArchive ==
  /\ ArchiveOf(versions) =
       [i \in DOMAIN versions |->
          [no |-> versions[i].no, status |-> versions[i].status,
           total |-> versions[i].total]]
  /\ ArchiveOf(versions)' =
       [i \in DOMAIN versions |->
          [no |-> versions[i].no, status |-> versions[i].status,
           total |-> versions[i].total]]'
BY DEF ArchiveOf

\* A step that leaves the columns of the contract alone is a stutter of it.
LEMMA ContractStutter ==
  ASSUME UNCHANGED <<row, details, versions, published>>
  PROVE  UNCHANGED Contract!vars
BY DEF Contract!vars

\* The first row of an attempt opens the evaluation: intake and upload.
LEMMA CreateImplements ==
  ASSUME SerialInv, GetOrCreateEvaluation
  PROVE  Contract!Open
<1>1. \A s : NewRow(s).status = s /\ NewRow(s).total = NoMarks
  BY DEF NewRow
<1>2. row = NewRow(Absent) /\ row' = NewRow("PENDING")
  BY DEF GetOrCreateEvaluation, SerialInv
<1> QED BY <1>1, <1>2 DEF GetOrCreateEvaluation, Contract!Open, Absent

\* A teacher's mark.
LEMMA MarksImplements ==
  ASSUME TypeOK, SerialInv, NEW w \in Workers, CommitMarks(w)
  PROVE  Contract!Mark
BY MarksSerially DEF CommitMarks, SameTotal, Contract!Mark

\* A scanned sheet.
LEMMA OMRImplements ==
  ASSUME TypeOK, SerialInv, NEW w \in Workers, CommitOMR(w), ~Refuse(w)
  PROVE  Contract!Scan
<1>1. versions' = versions /\ published' = published
  BY DEF CommitOMR
<1>2. CASE ~Exists /\ row' = NewRow("OBJECTIVE_COMPLETED")
  <2>1. \A s : NewRow(s).status = s /\ NewRow(s).total = NoMarks
    BY DEF NewRow
  <2>2. row = NewRow(Absent)
    BY <1>2 DEF SerialInv
  <2> QED BY <1>1, <1>2, <2>1, <2>2 DEF Contract!Scan, Absent
<1>3. CASE /\ Exists /\ SameTotal /\ row'.version = row.version
           /\ row.status \in {"PENDING", "STARTED", "OBJECTIVE_COMPLETED"}
           /\ row'.status = "OBJECTIVE_COMPLETED"
  BY <1>1, <1>3 DEF SameTotal, Contract!Scan
<1> QED BY <1>2, <1>3, OMRSerially

\* The hybrid merge.
LEMMA CompleteImplements ==
  ASSUME TypeOK, SerialInv, NEW w \in Workers, CommitComplete(w), ~Refuse(w)
  PROVE  Contract!Merge
BY CompleteSerially DEF CommitComplete, Contract!Merge

\* A lock, or a repeated lock that changes nothing the contract sees.
LEMMA LockImplements ==
  ASSUME TypeOK, SerialInv, NEW w \in Workers, CommitLock(w), ~Refuse(w)
  PROVE  Contract!Lock \/ UNCHANGED Contract!vars
<1>1. /\ details' = details /\ versions' = versions /\ published' = published
  BY DEF CommitLock
<1>2. /\ row'.total = row.total /\ row.status \in {"COMPLETED", "LOCKED"}
      /\ row'.status = "LOCKED"
  BY LockSerially DEF SameTotal
<1> QED BY <1>1, <1>2 DEF Contract!Lock, Contract!vars

\* The event after the lock.
LEMMA PublishImplements ==
  ASSUME TypeOK, SerialInv, NEW w \in Workers, PublishCompleted(w)
  PROVE  Contract!Announce
BY PublishSerially DEF Contract!Announce

\* The approval of a re-evaluation.
LEMMA ApproveImplements ==
  ASSUME TypeOK, SerialInv, NEW w \in Workers, CommitApprove(w), ~Refuse(w)
  PROVE  Contract!Reopen
<1>1. details' = details /\ published' = published
  BY DEF CommitApprove
<1>2. /\ row.status \in {"PENDING", "STARTED", "COMPLETED", "LOCKED"}
      /\ row'.status = "STARTED" /\ row'.total = row.total
  BY ApproveSerially DEF SameTotal
<1>3. PICK req : versions' = Append(versions,
        [no |-> row.version, status |-> row.status, total |-> row.total, req |-> req])
  BY ApproveSerially
<1>4. versions \in Seq(Version) /\ Len(versions) \in Nat
  BY LenProperties DEF TypeOK
<1>5. ArchiveOf(versions') = Append(ArchiveOf(versions),
        [no |-> row.version, status |-> row.status, total |-> row.total])
  BY <1>3, <1>4, ArchiveAppend
<1>6. Len(ArchiveOf(versions)) = Len(versions)
  <2> DEFINE e(i) == [no |-> versions[i].no, status |-> versions[i].status,
                      total |-> versions[i].total]
             R == {e(i) : i \in 1 .. Len(versions)}
  <2>1. ArchiveOf(versions) = [i \in 1 .. Len(versions) |-> e(i)]
    BY <1>4, LenProperties DEF ArchiveOf
  <2>2. ArchiveOf(versions) \in [1 .. Len(versions) -> R]
    BY <2>1
  <2>3. ArchiveOf(versions) \in Seq(R)
    BY <1>4, <2>2, SeqDef
  <2>4. DOMAIN ArchiveOf(versions) = 1 .. Len(versions)
    BY <2>1
  <2> HIDE DEF R
  <2> QED BY <1>4, <2>3, <2>4, LenProperties
<1>7. row.version = Len(ArchiveOf(versions)) + 1
  BY <1>6 DEF SerialInv
<1> QED BY <1>1, <1>2, <1>5, <1>7, ContractArchive DEF Contract!Reopen, ArchiveOf

\* Every step of a serial execution is a step of the contract or a stutter.
LEMMA StepImplements ==
  ASSUME TypeOK, SerialInv, [Next]_vars
  PROVE  [Contract!Next]_(Contract!vars)
<1>1. CASE GetOrCreateEvaluation
  BY <1>1, CreateImplements DEF Contract!Next
<1>2. CASE RequestReEvaluation \/ UNCHANGED vars
  BY <1>2, ContractStutter DEF RequestReEvaluation, vars
<1>3. ASSUME NEW w \in Workers, Step(w)
      PROVE  [Contract!Next]_(Contract!vars)
  <2>1. CASE \/ ReadForMarks(w) \/ ReadForOMR(w) \/ ReadForComplete(w)
             \/ ReadForLock(w) \/ ReadForApprove(w)
             \/ ReadDetails(w) \/ ReadUpload(w) \/ Abort(w) \/ Refuse(w)
    BY <2>1, ContractStutter
    DEF ReadForMarks, ReadForOMR, ReadForComplete, ReadForLock,
        ReadForApprove, Begin, ReadDetails, ReadUpload, Abort, Refuse
  <2>2. CASE CommitMarks(w)
    BY <2>2, MarksImplements DEF Contract!Next
  <2>3. CASE CommitOMR(w) /\ ~Refuse(w)
    BY <2>3, OMRImplements DEF Contract!Next
  <2>4. CASE CommitComplete(w) /\ ~Refuse(w)
    BY <2>4, CompleteImplements DEF Contract!Next
  <2>5. CASE CommitLock(w) /\ ~Refuse(w)
    BY <2>5, LockImplements DEF Contract!Next
  <2>6. CASE PublishCompleted(w)
    BY <2>6, PublishImplements DEF Contract!Next
  <2>7. CASE CommitApprove(w) /\ ~Refuse(w)
    BY <2>7, ApproveImplements DEF Contract!Next
  <2> QED BY <1>3, <2>1, <2>2, <2>3, <2>4, <2>5, <2>6, <2>7 DEF Step
<1> QED BY <1>1, <1>2, <1>3 DEF Next

\* With one request at a time, the evaluation module implements its contract:
\* reads, refusals and repeated locks are stutters, each commit is one operation.
THEOREM ContractImplemented ==
  ASSUME Serial
  PROVE  Spec => ImplementsContract
<1>1. Init => Contract!Init
  <2> SUFFICES ASSUME Init PROVE Contract!Init
    OBVIOUS
  <2>1. row.status = "ABSENT" /\ versions = <<>> /\ published = <<>>
    BY DEF Init, NewRow, Absent
  <2>2. ArchiveOf(versions) = <<>>
    BY <2>1 DEF ArchiveOf
  <2> QED BY <2>1, <2>2, ContractArchive DEF Contract!Init
<1>2. TypeOK /\ SerialInv /\ [Next]_vars => [Contract!Next]_(Contract!vars)
  BY StepImplements
<1> QED
  BY <1>1, <1>2, Serial, TypeCorrect, SerialInvHolds, PTL
  DEF Spec, ImplementsContract, Contract!Spec

=============================================================================
