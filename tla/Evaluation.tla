------------------------------ MODULE Evaluation ------------------------------
(***************************************************************************)
(* The evaluation of one student attempt: app/modules/evaluation.           *)
(*                                                                         *)
(* Every HTTP request runs as a coroutine with a database session of its    *)
(* own (core/db/session.py).  A session reads rows at READ COMMITTED, keeps *)
(* what it read (expire_on_commit=False, autoflush=False: the repository's  *)
(* transition_status validates the status it loaded FIRST), and its UPDATEs *)
(* write exactly the columns whose value differs from the loaded one, with  *)
(* no version check.  A request is therefore a few separate reads followed  *)
(* by one commit (the row locks taken at flush are held to the commit, so   *)
(* flush and commit are one step), and lock_evaluation publishes its event  *)
(* after the commit.  Requests of different workers interleave between any  *)
(* two of these steps; any of them may fail or be lost with the process.    *)
(***************************************************************************)
EXTENDS Integers, Sequences, FiniteSets

CONSTANTS
  Workers,          \* requests that may be in flight at the same time
  ObjectiveQs,      \* questions of the OBJECTIVE sections, marked by OMR
  TeacherQs,        \* questions only a teacher marks
  MaxMark,          \* full marks of a question
  MaxUploads,       \* bound: OMR sheets uploaded for the attempt
  MaxReviews,       \* bound: re-evaluation requests
  MaxVersions,      \* bound: re-evaluation approvals
  MaxEvents         \* bound: EvaluationCompleted events

Questions == ObjectiveQs \cup TeacherQs

ASSUME ConstantsAssumption ==
  /\ IsFiniteSet(Workers)
  /\ IsFiniteSet(Questions)
  /\ MaxMark \in Nat
  /\ MaxUploads \in Nat /\ MaxReviews \in Nat
  /\ MaxVersions \in Nat /\ MaxEvents \in Nat

VARIABLES
  row,        \* the evaluations row of the attempt (UNIQUE attempt_id)
  details,    \* evaluation_details: for each question its rows, oldest first
  uploads,    \* omr_uploads: the status of each uploaded sheet
  versions,   \* evaluation_versions: the archived snapshots
  reviews,    \* re_evaluation_requests: their status
  published,  \* total_marks of each EvaluationCompleted event handed to the bus
  task        \* what each worker is doing, and what its session has loaded

vars == <<row, details, uploads, versions, reviews, published, task>>

-----------------------------------------------------------------------------
(* The lifecycle table and its validation.                                 *)

EVALUATION_TRANSITIONS ==
  [PENDING             |-> {"STARTED", "OBJECTIVE_COMPLETED", "SUBJECTIVE_PENDING"},
   STARTED             |-> {"OBJECTIVE_COMPLETED", "SUBJECTIVE_PENDING", "COMPLETED"},
   OBJECTIVE_COMPLETED |-> {"SUBJECTIVE_PENDING", "COMPLETED"},
   SUBJECTIVE_PENDING  |-> {"COMPLETED"},
   COMPLETED           |-> {"LOCKED", "STARTED"},
   LOCKED              |-> {"PUBLISHED", "STARTED"},
   PUBLISHED           |-> {"STARTED"}]

Status == {"PENDING", "STARTED", "OBJECTIVE_COMPLETED", "SUBJECTIVE_PENDING",
           "COMPLETED", "LOCKED", "PUBLISHED"}

MayMoveUnchecked(current, target) == TRUE   \* mutant: no validation

MayMove(current, target) ==
  current = target \/ target \in EVALUATION_TRANSITIONS[current]

-----------------------------------------------------------------------------
(* Data.  The row is absent until the intake or the first OMR upload makes  *)
(* it.  percentage and result_status are functions of the same mark sheet,  *)
(* written by the same UPDATE as total_marks, and locked_by goes with       *)
(* locked_at: they are left out.                                            *)

NoMarks == -1              \* a NULL column
Absent  == "ABSENT"        \* no evaluations row yet

Detail == [marks : 0 .. MaxMark, by : {"OMR", "TEACHER"}]
Sheet  == [Questions -> Seq(Detail)]
Row    == [status    : Status \cup {Absent},
           objective : Nat \cup {NoMarks},
           subjective: Nat \cup {NoMarks},
           total     : Nat \cup {NoMarks},
           version   : Nat \ {0},
           locked_at : BOOLEAN]
Version == [no : Nat \ {0}, status : Status, total : Nat \cup {NoMarks}, req : Nat]
Review  == {"PENDING", "APPROVED"}          \* no service rejects a request
Entry  == UNION {[S -> 0 .. MaxMark] : S \in SUBSET Questions}

EmptySheet == [q \in Questions |-> <<>>]
NoEntry    == [q \in {} |-> 0]

NewRowNumberedZero(status) ==               \* mutant: versions from 0
  [status |-> status, objective |-> NoMarks, subjective |-> NoMarks,
   total |-> NoMarks, version |-> 0, locked_at |-> FALSE]

NewRow(status) ==
  [status |-> status, objective |-> NoMarks, subjective |-> NoMarks,
   total |-> NoMarks, version |-> 1, locked_at |-> FALSE]

\* A question never has more detail rows than there are workers.
MaxRows == Cardinality(Workers)

\* The mark points an evaluator gave: their number is the sum of its marks.
Points(sheet, who) ==
  {p \in Questions \X ((1 .. MaxRows) \X (1 .. MaxMark)) :
     /\ p[2][1] <= Len(sheet[p[1]])
     /\ sheet[p[1]][p[2][1]].by = who
     /\ p[2][2] <= sheet[p[1]][p[2][1]].marks}

Marks(sheet, who) == Cardinality(Points(sheet, who))

\* A column after an UPDATE of a session that loaded `loaded` and assigned
\* `value`: SQLAlchemy writes the column only when the two differ.
Written(stored, loaded, value) == IF value = loaded THEN stored ELSE value

\* Mutant: unanswered questions leave no row.
UpsertSkipsZero(sheet, seen, entry, who) ==
  [q \in Questions |->
     IF q \in DOMAIN entry /\ entry[q] > 0
       THEN Append(sheet[q], [marks |-> entry[q], by |-> who]) ELSE sheet[q]]

\* The upsert of evaluation_details: a question without a row when the session
\* looked gets a new one, the others have the row it found rewritten.
Upsert(sheet, seen, entry, who) ==
  [q \in Questions |->
     IF q \notin DOMAIN entry THEN sheet[q]
     ELSE IF seen[q] = <<>>
       THEN Append(sheet[q], [marks |-> entry[q], by |-> who])
       ELSE [sheet[q] EXCEPT ![1] =
               [marks |-> Written(@.marks, seen[q][1].marks, entry[q]),
                by    |-> Written(@.by, seen[q][1].by, who)]]]

-----------------------------------------------------------------------------
(* Requests.  A task is the handler, the step it runs next, its inputs and  *)
(* the rows its session holds.                                              *)

Idle == [op |-> "idle", step |-> "idle", entry |-> NoEntry, review |-> FALSE,
         req |-> 0, row |-> NewRow(Absent), sheet |-> EmptySheet]

Task == [op     : {"idle", "marks", "omr", "complete", "lock", "approve"},
         step   : {"idle", "details", "upload", "commit", "publish"},
         entry  : Entry,
         review : BOOLEAN,
         req    : Nat,
         row    : Row,
         sheet  : Sheet]

Exists == row.status # Absent

\* A request starts by loading the evaluations row; seen is the part of it the
\* handler comes back to.
Begin(w, op, step, entry, review, req, seen) ==
  /\ task[w] = Idle
  /\ task' = [task EXCEPT ![w] =
       [op |-> op, step |-> step, entry |-> entry, review |-> review,
        req |-> req, row |-> seen, sheet |-> EmptySheet]]
  /\ UNCHANGED <<row, details, uploads, versions, reviews, published>>

SeenStatus == NewRow(row.status)
SeenMarks  == [row EXCEPT !.version = 1, !.locked_at = FALSE]
SeenTotal  == [NewRow(row.status) EXCEPT !.total = row.total]
SeenResult == [row EXCEPT !.objective = NoMarks, !.subjective = NoMarks]

At(w, op, step) == task[w].op = op /\ task[w].step = step

Finish(w) == task' = [task EXCEPT ![w] = Idle]

\* The whole of a request that ends in an exception: get_db rolls it back.
Refuse(w) ==
  /\ Finish(w)
  /\ UNCHANGED <<row, details, uploads, versions, reviews, published>>

\* The ExamSubmitted handler: get_or_create_evaluation in a session of its own.
\* A unique violation against a concurrent upload leaves everything as it was.
GetOrCreateEvaluation ==
  /\ ~Exists
  /\ row' = NewRow("PENDING")
  /\ UNCHANGED <<details, uploads, versions, reviews, published, task>>

ReadForMarksUnguarded(w) ==                 \* mutant: no LOCKED check
  \E q \in Questions, m \in 0 .. MaxMark :
    Exists /\ Begin(w, "marks", "details", [x \in {q} |-> m], FALSE, 0, SeenStatus)

\* enter_subjective_marks, first query: the LOCKED check is made here, once.
\* The question type is the caller's, so an objective question may be re-marked.
ReadForMarks(w) ==
  \E q \in Questions, m \in 0 .. MaxMark :
    /\ Exists
    /\ row.status # "LOCKED"
    /\ Begin(w, "marks", "details", [x \in {q} |-> m], FALSE, 0,
             SeenStatus)

\* process_omr_upload: the evaluation may not exist yet.  Detection gives every
\* objective question full marks or none; low confidence flags the sheet.
ReadForOMR(w) ==
  \E scan \in [ObjectiveQs -> {0, MaxMark}], review \in BOOLEAN :
    /\ Len(uploads) < MaxUploads
    /\ Begin(w, "omr", "details", scan, review, 0, SeenStatus)

ReadForComplete(w) ==
  Exists /\ Begin(w, "complete", "details", NoEntry, FALSE, 0, SeenMarks)

ReadForLock(w) ==
  /\ Exists
  /\ Len(published) < MaxEvents
  /\ Begin(w, "lock", "upload", NoEntry, FALSE, 0, SeenTotal)

\* approve_re_evaluation never looks at the status of the request it approves.
ReadForApprove(w) ==
  \E r \in DOMAIN reviews :
    /\ Exists
    /\ Len(versions) < MaxVersions
    /\ Begin(w, "approve", "details", NoEntry, FALSE, r, SeenResult)

\* request_re_evaluation: one insert, whatever the status of the evaluation.
RequestReEvaluation ==
  /\ Exists
  /\ Len(reviews) < MaxReviews
  /\ reviews' = Append(reviews, "PENDING")
  /\ UNCHANGED <<row, details, uploads, versions, published, task>>

\* get_detail_for_question and list_by_evaluation.  scalar_one_or_none raises
\* when a question the request marks has two rows; completing needs one row.
ReadDetails(w) ==
  /\ task[w].step = "details"
  /\ IF \/ \E q \in DOMAIN task[w].entry : Len(details[q]) > 1
        \/ task[w].op = "complete" /\ details = EmptySheet
     THEN Finish(w)
     ELSE task' = [task EXCEPT ![w].step = "commit", ![w].sheet = details]
  /\ UNCHANGED <<row, details, uploads, versions, reviews, published>>

ReadUploadUnchecked(w) ==                   \* mutant: no manual-review check
  /\ At(w, "lock", "upload")
  /\ task' = [task EXCEPT ![w].step = "commit"]
  /\ UNCHANGED <<row, details, uploads, versions, reviews, published>>

\* lock_evaluation: OMRUploadRepository.get_by_attempt (scalar_one_or_none) and
\* the manual-review check.
ReadUpload(w) ==
  /\ At(w, "lock", "upload")
  /\ IF Len(uploads) > 1 \/ uploads = <<"NEEDS_MANUAL_REVIEW">>
     THEN Finish(w)
     ELSE task' = [task EXCEPT ![w].step = "commit"]
  /\ UNCHANGED <<row, details, uploads, versions, reviews, published>>

-----------------------------------------------------------------------------
(* Commits.  seen is the evaluations row the session loaded.               *)

CommitMarks(w) ==
  LET seen   == task[w].row
      early  == seen.status \in {"PENDING", "STARTED", "OBJECTIVE_COMPLETED"}
      target == IF early THEN "SUBJECTIVE_PENDING" ELSE seen.status
  IN /\ At(w, "marks", "commit")
     /\ details' = Upsert(details, task[w].sheet, task[w].entry, "TEACHER")
     /\ row' = [row EXCEPT !.status = Written(@, seen.status, target)]
     /\ Finish(w)
     /\ UNCHANGED <<uploads, versions, reviews, published>>

\* A session that found no evaluation inserts one and loses to a concurrent
\* insert (unique attempt_id); the others validate the status they loaded.
CommitOMR(w) ==
  LET seen  == task[w].row
      fresh == seen.status = Absent
      done  == "OBJECTIVE_COMPLETED"
  IN /\ At(w, "omr", "commit")
     /\ IF IF fresh THEN Exists ELSE ~MayMove(seen.status, done)
        THEN Refuse(w)
        ELSE /\ row' = IF fresh THEN NewRow(done)
                       ELSE [row EXCEPT !.status = Written(@, seen.status, done)]
             /\ details' = Upsert(details, task[w].sheet, task[w].entry, "OMR")
             /\ uploads' = Append(uploads,
                  IF task[w].review THEN "NEEDS_MANUAL_REVIEW" ELSE "DETECTED")
             /\ Finish(w)
             /\ UNCHANGED <<versions, reviews, published>>

MergedObjectiveOnly(sheet, seen) ==         \* mutant: total without the teacher
  LET obj  == Marks(sheet, "OMR")
      subj == Marks(sheet, "TEACHER")
  IN [row EXCEPT !.objective  = Written(@, seen.objective, obj),
                 !.subjective = Written(@, seen.subjective, subj),
                 !.total      = Written(@, seen.total, obj),
                 !.status     = Written(@, seen.status, "COMPLETED")]

\* The row after the hybrid merge of a mark sheet.
Merged(sheet, seen) ==
  LET obj  == Marks(sheet, "OMR")
      subj == Marks(sheet, "TEACHER")
  IN [row EXCEPT !.objective  = Written(@, seen.objective, obj),
                 !.subjective = Written(@, seen.subjective, subj),
                 !.total      = Written(@, seen.total, obj + subj),
                 !.status     = Written(@, seen.status, "COMPLETED")]

CommitComplete(w) ==
  /\ At(w, "complete", "commit")
  /\ IF ~MayMove(task[w].row.status, "COMPLETED")
     THEN Refuse(w)
     ELSE /\ row' = Merged(task[w].sheet, task[w].row)
          /\ Finish(w)
          /\ UNCHANGED <<details, uploads, versions, reviews, published>>

\* locked_at gets a new timestamp, so it is always written.
CommitLock(w) ==
  LET seen == task[w].row
  IN /\ At(w, "lock", "commit")
     /\ IF ~MayMove(seen.status, "LOCKED")
        THEN Refuse(w)
        ELSE /\ row' = [row EXCEPT
                  !.locked_at = TRUE,
                  !.status    = Written(@, seen.status, "LOCKED")]
             /\ task' = [task EXCEPT ![w].step = "publish"]
             /\ UNCHANGED <<details, uploads, versions, reviews, published>>

\* publish_evaluation_completed, after the commit, from the session's copy.
PublishCompleted(w) ==
  /\ At(w, "lock", "publish")
  /\ Len(published) < MaxEvents
  /\ published' = Append(published, task[w].row.total)
  /\ Finish(w)
  /\ UNCHANGED <<row, details, uploads, versions, reviews>>

\* Mutants of Snapshot: numbered after the increment; taken after the unlock.
SnapshotNumberedNext(seen, req) ==
  [no |-> seen.version + 1, status |-> seen.status, total |-> seen.total, req |-> req]

SnapshotUnlocked(seen, req) ==
  [no |-> seen.version, status |-> "STARTED", total |-> seen.total, req |-> req]

\* The archived version; its list of marks is left out.
Snapshot(seen, req) ==
  [no |-> seen.version, status |-> seen.status, total |-> seen.total, req |-> req]

\* The row after an approval: the number is computed from the loaded copy.
Reopened(seen) ==
  [row EXCEPT !.version   = seen.version + 1,
              !.locked_at = Written(@, seen.locked_at, FALSE),
              !.status    = Written(@, seen.status, "STARTED")]

CommitApprove(w) ==
  /\ At(w, "approve", "commit")
  /\ Len(versions) < MaxVersions
  /\ IF ~MayMove(task[w].row.status, "STARTED")
     THEN Refuse(w)
     ELSE /\ versions' = Append(versions, Snapshot(task[w].row, task[w].req))
          /\ row' = Reopened(task[w].row)
          /\ reviews' = [reviews EXCEPT ![task[w].req] = "APPROVED"]
          /\ Finish(w)
          /\ UNCHANGED <<details, uploads, published>>

\* An exception or the loss of the process: the transaction is rolled back; a
\* lock that already committed loses its event.
Abort(w) == task[w] # Idle /\ Refuse(w)

-----------------------------------------------------------------------------
Init ==
  /\ row = NewRow(Absent)
  /\ details = EmptySheet
  /\ uploads = <<>>
  /\ versions = <<>>
  /\ reviews = <<>>
  /\ published = <<>>
  /\ task = [w \in Workers |-> Idle]

Step(w) ==
  \/ ReadForMarks(w) \/ ReadForOMR(w) \/ ReadForComplete(w)
  \/ ReadForLock(w) \/ ReadForApprove(w)
  \/ ReadDetails(w) \/ ReadUpload(w)
  \/ CommitMarks(w) \/ CommitOMR(w) \/ CommitComplete(w)
  \/ CommitLock(w) \/ PublishCompleted(w) \/ CommitApprove(w)
  \/ Abort(w)

Next ==
  \/ GetOrCreateEvaluation
  \/ RequestReEvaluation
  \/ \E w \in Workers : Step(w)

Spec == Init /\ [][Next]_vars

-----------------------------------------------------------------------------
(* Properties that hold however the requests interleave.                   *)

\* The shape of every variable: in particular a session only ever holds rows
\* and mark sheets of the kinds the tables can store, and only an upload starts
\* without an evaluations row.
TypeOK ==
  /\ row \in Row
  /\ details \in Sheet
  /\ uploads \in Seq({"DETECTED", "NEEDS_MANUAL_REVIEW"})
  /\ versions \in Seq(Version)
  /\ reviews \in Seq(Review)
  /\ published \in Seq(Nat \cup {NoMarks})
  /\ task \in [Workers -> Task]
  /\ \A w \in Workers :
       task[w].op \in {"idle", "omr"} \/ task[w].row.status \in Status

\* Every version number below the current one is in the archive, although approvals
\* race and may even move the number back (approve_re_evaluation archives and
\* increments in one commit).  It is the numbers that have no gap: a result that was
\* locked after a racing approval had loaded its copy is in no snapshot.
NumbersArchived ==
  \A n \in 1 .. row.version - 1 : \E i \in DOMAIN versions : versions[i].no = n

\* All of a result but the time of the lock, which is new with every lock.
Result == <<[row EXCEPT !.locked_at = FALSE], details>>

\* The session of w commits, and what its request decided on is no longer so: the
\* status, or for an approval anything of the result it archives.
CommitsStale(w) ==
  /\ task[w].step = "commit" /\ task'[w] = Idle
  /\ \/ task[w].row.status # row.status
     \/ task[w].op = "approve" /\ task[w].row # SeenResult

\* A LOCKED evaluation is reopened only with a snapshot of the very result it had,
\* and keeps its status, totals, number and marks otherwise, except for one cause: the
\* commit of a request that had loaded the evaluation before it became what it is.
\* Such a commit does change it: the LOCKED check of service.py:407 and the copy of
\* approve_re_evaluation are as old as the first query of the request.
OnlyStaleRequestsBreakLocks ==
  [][row.status = "LOCKED" /\ Result' # Result =>
       \/ /\ details' = details
          /\ \E i \in DOMAIN versions' \ DOMAIN versions :
               versions'[i] = Snapshot(row, versions'[i].req)
       \/ \E w \in Workers : CommitsStale(w)]_vars

\* An evaluation that is COMPLETED, LOCKED or archived as such, and every
\* announced one, has been totalled: lock_evaluation and approve_re_evaluation
\* may act on an old copy, but never on one that was not merged.
TotalledWhenClosed ==
  /\ row.status \in {"COMPLETED", "LOCKED"} => row.total # NoMarks
  /\ \A i \in DOMAIN versions :
       versions[i].status \in {"COMPLETED", "LOCKED"} => versions[i].total # NoMarks
  /\ \A i \in DOMAIN published : published[i] # NoMarks

\* An approved re-evaluation request always left a snapshot made for it, and
\* an uploaded sheet always left marks for every objective question: the parts
\* of one commit are never seen apart.
CommitsWhole ==
  /\ \A r \in DOMAIN reviews : reviews[r] = "APPROVED" =>
       \E i \in DOMAIN versions : versions[i].req = r
  /\ uploads # <<>> => \A q \in ObjectiveQs : details[q] # <<>>

-----------------------------------------------------------------------------
(* Properties of requests that do not overlap (one worker).                *)

\* The total of a closed evaluation is not that of its marks.
StaleTotal ==
  /\ row.status \in {"COMPLETED", "LOCKED"}
  /\ row.total # Marks(details, "OMR") + Marks(details, "TEACHER")

\* A total comes out of date in one way only: a teacher marks a COMPLETED evaluation
\* (enter_subjective_marks refuses only LOCKED ones, and does not merge again).  No
\* merge, upload, lock, approval or failure leaves a total that is not that of the
\* marks; but a lock does not look, so the old total may be locked and announced.
OnlyLateMarksStaleTotals ==
  [][~StaleTotal /\ StaleTotal' =>
       /\ row.status = "COMPLETED" /\ row' = row
       /\ \E w \in Workers : task[w].op = "marks" /\ task[w].step = "commit"]_vars

\* lock_evaluation blocks on an unresolved manual review, so a LOCKED evaluation
\* rests on no sheet that still needs one.
NoOpenReviewWhenLocked ==
  row.status = "LOCKED" =>
    \A i \in DOMAIN uploads : uploads[i] # "NEEDS_MANUAL_REVIEW"

\* Every total that was announced to the other modules is on record: it is the
\* total of the locked evaluation or of a LOCKED snapshot of the archive.
AnnouncedOnRecord ==
  \A i \in DOMAIN published :
    \/ row.status = "LOCKED" /\ row.total = published[i]
    \/ \E v \in DOMAIN versions :
         versions[v].status = "LOCKED" /\ versions[v].total = published[i]

\* Seen through the columns of the tables, serial requests are the atomic
\* operations EvaluationContract promises.
Contract == INSTANCE EvaluationContract WITH
  status <- row.status, marks <- details, total <- row.total,
  archive <- [i \in DOMAIN versions |->
    [no |-> versions[i].no, status |-> versions[i].status,
     total |-> versions[i].total]],
  announced <- published

ImplementsContract == Contract!Spec

=============================================================================
