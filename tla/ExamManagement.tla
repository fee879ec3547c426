---------------------------- MODULE ExamManagement ----------------------------
(***************************************************************************)
(* One exam and its students' attempts: app/modules/exam_management.        *)
(*                                                                         *)
(* The exam goes through its lifecycle, an assignment gives each student a  *)
(* paper, and attempts are started and submitted.  Requests run as in       *)
(* module Evaluation: reads at READ COMMITTED, statuses validated on the    *)
(* copy the session loaded, blind UPDATEs at the commit.  Two things are    *)
(* particular to this component:                                            *)
(*   - start_attempt activates a published exam first and flushes, so it    *)
(*     holds the lock of the exams row while it goes on reading;            *)
(*   - generate_paper commits the session it is called with, in the middle  *)
(*     of generate_papers_for_exam and of a mock start_attempt.             *)
(***************************************************************************)
EXTENDS Integers, Sequences, FiniteSets

CONSTANTS
  Workers,       \* requests that may be in flight at the same time
  Pupils,        \* students with a profile
  Guests,        \* students whose profile join_guest creates
  Configs,       \* exam configurations
  MaxPapers,     \* bound: papers generated
  MaxAttempts,   \* bound: attempts
  MaxHistory,    \* bound: rows of exam_status_history
  MaxEvents      \* bound: ExamSubmitted events

Students == Pupils \cup Guests

None == 0                                   \* a NULL id
NoConfig == "none"                          \* a NULL exam_configuration_id
Shared == "shared"                          \* the student of a shared paper

ASSUME ConstantsAssumption ==
  /\ IsFiniteSet(Workers) /\ IsFiniteSet(Students) /\ IsFiniteSet(Configs)
  /\ Pupils \cap Guests = {}
  /\ NoConfig \notin Configs /\ Shared \notin Students
  /\ MaxPapers \in Nat /\ MaxAttempts \in Nat
  /\ MaxHistory \in Nat /\ MaxEvents \in Nat

VARIABLES
  exam,       \* the exams row: status, exam_type, configuration, join code set
  history,    \* exam_status_history, in commit order
  papers,     \* papers generated for the configurations, oldest first
  seats,      \* exam_student_assignments, UNIQUE(exam_id, student_id)
  attempts,   \* student_attempts, oldest first
  submitted,  \* the attempts whose ExamSubmitted was handed to the bus
  task        \* what each worker is doing, and what its session has loaded

vars == <<exam, history, papers, seats, attempts, submitted, task>>

-----------------------------------------------------------------------------
EXAM_TRANSITIONS ==
  [DRAFT             |-> {"CONFIGURED", "ARCHIVED"},
   CONFIGURED        |-> {"PAPER_GENERATED", "DRAFT", "ARCHIVED"},
   PAPER_GENERATED   |-> {"TEACHER_REVIEWING", "CONFIGURED", "ARCHIVED"},
   TEACHER_REVIEWING |-> {"APPROVED", "PAPER_GENERATED", "ARCHIVED"},
   APPROVED          |-> {"PUBLISHED", "TEACHER_REVIEWING", "ARCHIVED"},
   PUBLISHED         |-> {"SCHEDULED", "ACTIVE", "ARCHIVED"},
   SCHEDULED         |-> {"ACTIVE", "PUBLISHED", "ARCHIVED"},
   ACTIVE            |-> {"COMPLETED", "ARCHIVED"},
   COMPLETED         |-> {"EVALUATING", "ARCHIVED"},
   EVALUATING        |-> {"RESULT_PUBLISHED", "ARCHIVED"},
   RESULT_PUBLISHED  |-> {"ARCHIVED"},
   ARCHIVED          |-> {}]

\* No service writes the statuses after ACTIVE.
Status == {"DRAFT", "CONFIGURED", "PAPER_GENERATED", "TEACHER_REVIEWING",
           "APPROVED", "PUBLISHED", "SCHEDULED", "ACTIVE"}
Absent == "ABSENT"                          \* no exams row yet
Fresh  == "NONE"                            \* from_status of the first history row

MayMoveUnchecked(current, target) == TRUE   \* mutant: no validation

MayMove(current, target) ==
  current = target \/ target \in EXAM_TRANSITIONS[current]

\* See Evaluation: a column is written when it differs from the loaded one.
Written(stored, loaded, value) == IF value = loaded THEN stored ELSE value

Seat == [paper : Nat, status : {"NONE", "ASSIGNED", "STARTED", "SUBMITTED"}]
NoSeat == [paper |-> None, status |-> "NONE"]

HistoryRow == [from : Status \cup {Fresh}, to : Status]

Attempt == [student : Students, paper : Nat, number : Nat \ {0},
            status : {"IN_PROGRESS", "SUBMITTED"}, latest : BOOLEAN]

Task == [op : {"idle", "configure", "generate", "approve", "publish",
               "schedule", "start", "submit"},
         step : {"idle", "activate", "latest", "seat", "list", "paper",
                 "commit", "publish"},
         status : Status, config : Configs \cup {NoConfig},  \* the exam, as loaded
         input : Configs \cup {NoConfig},                   \* what configure sets
         student : Students \cup {Shared},
         attempt : Nat,     \* submit: the attempt; start: attempts listed so far
         number : Nat,      \* start: the number of the attempt found latest
         paper : Nat, seat : Seat,
         held : BOOLEAN]    \* the exams row is updated and not committed

Idle == [op |-> "idle", step |-> "idle", status |-> "DRAFT", config |-> NoConfig,
         input |-> NoConfig, student |-> Shared, attempt |-> None,
         number |-> None, paper |-> None, seat |-> NoSeat, held |-> FALSE]

Exists == exam.status # Absent

At(w, op, step) == task[w].op = op /\ task[w].step = step

\* PaperRepository.list_by_exam_config(...)[0]: the newest paper, None if none.
Newest(config) ==
  LET mine == {p \in DOMAIN papers : papers[p].config = config}
  IN IF mine = {} THEN None ELSE CHOOSE p \in mine : \A q \in mine : q <= p

\* get_latest_attempt, before scalar_one_or_none.
LatestOf(s) == {a \in DOMAIN attempts : attempts[a].student = s /\ attempts[a].latest}

-----------------------------------------------------------------------------
(* Requests.                                                               *)

\* A request loads the exam; fields are its inputs and first step.
Begin(w, fields) ==
  /\ task[w] = Idle
  /\ Exists
  /\ task' = [task EXCEPT ![w] =
       [f \in DOMAIN Idle |->
          IF f \in DOMAIN fields THEN fields[f]
          ELSE IF f = "status" THEN exam.status
          ELSE IF f = "config" THEN exam.config ELSE Idle[f]]]
  /\ UNCHANGED <<exam, history, papers, seats, attempts, submitted>>

Finish(w) == task' = [task EXCEPT ![w] = Idle]

\* The request ends in an exception: get_db rolls back what is not committed.
Refuse(w) ==
  /\ Finish(w)
  /\ UNCHANGED <<exam, history, papers, seats, attempts, submitted>>

\* The lock of the exams row is free for w.
MayWriteExam(w) == \A v \in Workers \ {w} : ~task[v].held

\* ExamRepository.transition_status, through the statuses of path, together
\* with the other columns the handler assigned.
TransitionThrough(w, path, columns) ==
  LET from   == <<task[w].status>> \o path
      target == path[Len(path)]
  IN /\ MayWriteExam(w)
     /\ Len(history) + Len(path) <= MaxHistory
     /\ exam' = [columns EXCEPT !.status = Written(@, task[w].status, target)]
     /\ history' = history \o
          [i \in 1 .. Len(path) |-> [from |-> from[i], to |-> path[i]]]

CreateExam ==
  /\ ~Exists
  /\ \E type \in {"REGULAR", "MOCK"} :
       exam' = [exam EXCEPT !.status = "DRAFT", !.type = type]
  /\ history' = <<[from |-> Fresh, to |-> "DRAFT"]>>
  /\ UNCHANGED <<papers, seats, attempts, submitted, task>>

ReadForConfigure(w) ==
  \E c \in Configs : Begin(w, [op |-> "configure", step |-> "commit", input |-> c])

CommitConfigure(w) ==
  /\ At(w, "configure", "commit")
  /\ IF ~MayMove(task[w].status, "CONFIGURED")
     THEN Refuse(w)
     ELSE /\ TransitionThrough(w, <<"CONFIGURED">>,
               [exam EXCEPT !.config = Written(@, task[w].config, task[w].input)])
          /\ Finish(w)
          /\ UNCHANGED <<papers, seats, attempts, submitted>>

\* generate_papers_for_exam does not look at the status before it generates.
ReadForGenerate(w) ==
  /\ exam.config # NoConfig
  /\ Begin(w, [op |-> "generate", step |-> "paper"])

\* generate_paper for the whole exam; it ends with session.commit().
CommitSharedPaper(w) ==
  /\ At(w, "generate", "paper")
  /\ Len(papers) < MaxPapers
  /\ papers' = Append(papers, [config |-> task[w].config, owner |-> Shared])
  /\ task' = [task EXCEPT ![w].step = "commit"]
  /\ UNCHANGED <<exam, history, seats, attempts, submitted>>

CommitGenerate(w) ==
  /\ At(w, "generate", "commit")
  /\ IF ~MayMove(task[w].status, "PAPER_GENERATED")
     THEN Refuse(w)
     ELSE /\ TransitionThrough(w, <<"PAPER_GENERATED">>, exam)
          /\ Finish(w)
          /\ UNCHANGED <<papers, seats, attempts, submitted>>

ReadForApprove(w) == Begin(w, [op |-> "approve", step |-> "commit"])

ApprovalPathDirect(seen) == <<"APPROVED">>  \* mutant: the review is skipped

\* approve_exam passes through TEACHER_REVIEWING within its transaction.
ApprovalPath(seen) ==
  IF seen = "PAPER_GENERATED" THEN <<"TEACHER_REVIEWING", "APPROVED">>
  ELSE <<"APPROVED">>

CommitApprove(w) ==
  LET seen == task[w].status
  IN /\ At(w, "approve", "commit")
     /\ IF seen # "PAPER_GENERATED" /\ ~MayMove(seen, "APPROVED")
        THEN Refuse(w)
        ELSE /\ TransitionThrough(w, ApprovalPath(seen), exam)
             /\ Finish(w)
             /\ UNCHANGED <<papers, seats, attempts, submitted>>

ReadForPublish(w) == Begin(w, [op |-> "publish", step |-> "commit"])

\* publish_exam sets a new join code first; a refusal rolls it back.
CommitPublish(w) ==
  /\ At(w, "publish", "commit")
  /\ IF ~MayMove(task[w].status, "PUBLISHED")
     THEN Refuse(w)
     ELSE /\ TransitionThrough(w, <<"PUBLISHED">>, [exam EXCEPT !.code = TRUE])
          /\ Finish(w)
          /\ UNCHANGED <<papers, seats, attempts, submitted>>

ReadForSchedule(w) == Begin(w, [op |-> "schedule", step |-> "commit"])

CommitSchedule(w) ==
  /\ At(w, "schedule", "commit")
  /\ IF ~MayMove(task[w].status, "SCHEDULED")
     THEN Refuse(w)
     ELSE /\ TransitionThrough(w, <<"SCHEDULED">>, exam)
          /\ Finish(w)
          /\ UNCHANGED <<papers, seats, attempts, submitted>>

\* join_guest with the current code: it only inserts rows nobody else has, so
\* one step; the guest's profile is created together with the seat.
JoinGuest ==
  /\ exam.code
  /\ exam.status \in {"PUBLISHED", "SCHEDULED", "ACTIVE"}
  /\ Newest(exam.config) # None
  /\ \E g \in Guests :
       /\ seats[g] = NoSeat
       /\ seats' = [seats EXCEPT ![g] =
                      [paper |-> Newest(exam.config), status |-> "ASSIGNED"]]
  /\ UNCHANGED <<exam, history, papers, attempts, submitted, task>>

-----------------------------------------------------------------------------
(* start_attempt.                                                          *)

\* Any status will do: only PUBLISHED and SCHEDULED get special treatment.
ReadForStart(w) ==
  \E s \in Students :
    /\ s \in Guests => seats[s] # NoSeat
    /\ Len(attempts) < MaxAttempts
    /\ Begin(w, [op |-> "start", student |-> s,
                 step |-> IF exam.status \in {"PUBLISHED", "SCHEDULED"}
                          THEN "activate" ELSE "latest"])

\* The UPDATE of the exams row waits for its lock and keeps it to the commit.
Activate(w) ==
  /\ At(w, "start", "activate")
  /\ MayWriteExam(w)
  /\ task' = [task EXCEPT ![w].step = "latest", ![w].held = TRUE]
  /\ UNCHANGED <<exam, history, papers, seats, attempts, submitted>>

ReadLatestUnchecked(w) ==                   \* mutant: no conflict for REGULAR
  LET found == LatestOf(task[w].student)
  IN /\ At(w, "start", "latest")
     /\ IF Cardinality(found) > 1
        THEN Finish(w)
        ELSE task' = [task EXCEPT
               ![w].step = IF exam.type = "REGULAR" THEN "seat"
                           ELSE IF found = {} THEN "paper" ELSE "list",
               ![w].number = IF found = {} THEN None
                             ELSE attempts[CHOOSE a \in found : TRUE].number]
     /\ UNCHANGED <<exam, history, papers, seats, attempts, submitted>>

\* scalar_one_or_none raises on two latest attempts; REGULAR conflicts with one.
ReadLatest(w) ==
  LET found == LatestOf(task[w].student)
  IN /\ At(w, "start", "latest")
     /\ IF Cardinality(found) > 1 \/ (exam.type = "REGULAR" /\ found # {})
        THEN Finish(w)
        ELSE task' = [task EXCEPT
               ![w].step = IF exam.type = "REGULAR" THEN "seat"
                           ELSE IF found = {} THEN "paper" ELSE "list",
               ![w].number = IF found = {} THEN None
                             ELSE attempts[CHOOSE a \in found : TRUE].number]
     /\ UNCHANGED <<exam, history, papers, seats, attempts, submitted>>

ReadSeatNewest(w) ==                        \* mutant: papers[0] for everyone
  LET seat == seats[task[w].student]
  IN /\ task[w].step = "seat"
     /\ IF task[w].op = "start" /\ Newest(task[w].config) = None
        THEN Finish(w)
        ELSE task' = [task EXCEPT ![w].step = "commit", ![w].seat = seat,
               ![w].paper = IF task[w].op = "start" THEN Newest(task[w].config)
                            ELSE None]
     /\ UNCHANGED <<exam, history, papers, seats, attempts, submitted>>

\* REGULAR start: the assignment and its paper, or the newest paper.  Submit
\* loads the assignment too.
ReadSeat(w) ==
  LET seat  == seats[task[w].student]
      paper == IF seat # NoSeat THEN seat.paper ELSE Newest(task[w].config)
  IN /\ task[w].step = "seat"
     /\ IF task[w].op = "start" /\ paper = None
        THEN Finish(w)
        ELSE task' = [task EXCEPT ![w].step = "commit", ![w].seat = seat,
                        ![w].paper = IF task[w].op = "start" THEN paper ELSE None]
     /\ UNCHANGED <<exam, history, papers, seats, attempts, submitted>>

\* mark_previous_attempts_not_latest: the query.
ListAttempts(w) ==
  /\ At(w, "start", "list")
  /\ task' = [task EXCEPT ![w].step = "paper", ![w].attempt = Len(attempts)]
  /\ UNCHANGED <<exam, history, papers, seats, attempts, submitted>>

\* What a start has pending when it commits: the activation, if it made one.
Pending(w) ==
  IF task[w].held THEN TransitionThrough(w, <<"ACTIVE">>, exam)
  ELSE UNCHANGED <<exam, history>>

UnmarkedNone(s, listed) == attempts         \* mutant: the flags are left alone

\* The attempts after the UPDATEs of mark_previous_attempts_not_latest.
Unmarked(s, listed) ==
  [a \in DOMAIN attempts |->
     IF a <= listed /\ attempts[a].student = s
     THEN [attempts[a] EXCEPT !.latest = FALSE] ELSE attempts[a]]

\* MOCK: generate_paper for the student.  Its commit also commits the
\* activation and the flags, before there is a new attempt.
CommitOwnPaper(w) ==
  LET s == task[w].student
  IN /\ At(w, "start", "paper")
     /\ Len(papers) < MaxPapers
     /\ IF task[w].config = NoConfig
        THEN Refuse(w)
        ELSE /\ Pending(w)
             /\ attempts' = Unmarked(s, task[w].attempt)
             /\ papers' = Append(papers, [config |-> task[w].config, owner |-> s])
             /\ task' = [task EXCEPT ![w].step = "commit", ![w].held = FALSE,
                                     ![w].paper = Len(papers')]
             /\ UNCHANGED <<seats, submitted>>

NewAttemptNewest(w) ==                      \* mutant: papers[0] also for a MOCK
  [student |-> task[w].student, paper |-> Newest(task[w].config),
   number |-> IF exam.type = "REGULAR" THEN 1 ELSE task[w].number + 1,
   status |-> "IN_PROGRESS", latest |-> TRUE]

NewAttemptFromZero(w) ==                    \* mutant: attempts numbered from 0
  [student |-> task[w].student, paper |-> task[w].paper, number |-> task[w].number,
   status |-> "IN_PROGRESS", latest |-> TRUE]

NewAttempt(w) ==
  [student |-> task[w].student, paper |-> task[w].paper,
   number |-> IF exam.type = "REGULAR" THEN 1 ELSE task[w].number + 1,
   status |-> "IN_PROGRESS", latest |-> TRUE]

\* A start that found no assignment inserts one, and loses to another insert.
CommitAttempt(w) ==
  LET s    == task[w].student
      seen == task[w].seat
  IN /\ At(w, "start", "commit")
     /\ Len(attempts) < MaxAttempts
     /\ IF exam.type = "REGULAR" /\ seen = NoSeat /\ seats[s] # NoSeat
        THEN Refuse(w)
        ELSE /\ Pending(w)
             /\ attempts' = Append(attempts, NewAttempt(w))
             /\ seats' =
                  IF exam.type # "REGULAR" THEN seats
                  ELSE [seats EXCEPT ![s] =
                    IF seen = NoSeat THEN [paper |-> task[w].paper, status |-> "STARTED"]
                    ELSE [seats[s] EXCEPT !.status =
                            Written(seats[s].status, seen.status, "STARTED")]]
             /\ Finish(w)
             /\ UNCHANGED <<papers, submitted>>

-----------------------------------------------------------------------------
(* submit_attempt.                                                         *)

ReadForSubmitAny(w) ==                      \* mutant: no IN_PROGRESS check
  \E a \in DOMAIN attempts :
    Begin(w, [op |-> "submit", step |-> "seat", attempt |-> a,
              student |-> attempts[a].student])

ReadForSubmit(w) ==
  \E a \in DOMAIN attempts :
    /\ attempts[a].status = "IN_PROGRESS"
    /\ Begin(w, [op |-> "submit", step |-> "seat", attempt |-> a,
                 student |-> attempts[a].student])

CommitSubmit(w) ==
  LET a    == task[w].attempt
      s    == task[w].student
      seen == task[w].seat
  IN /\ At(w, "submit", "commit")
     /\ attempts' = [attempts EXCEPT ![a].status = "SUBMITTED"]
     /\ seats' = IF seen = NoSeat THEN seats
                 ELSE [seats EXCEPT ![s].status = Written(@, seen.status, "SUBMITTED")]
     /\ task' = [task EXCEPT ![w].step = "publish"]
     /\ UNCHANGED <<exam, history, papers, submitted>>

\* publish_exam_submitted, after the commit.
PublishSubmitted(w) ==
  /\ At(w, "submit", "publish")
  /\ Len(submitted) < MaxEvents
  /\ submitted' = Append(submitted, task[w].attempt)
  /\ Finish(w)
  /\ UNCHANGED <<exam, history, papers, seats, attempts>>

\* An exception (generate_paper may raise) or the loss of the process.
Abort(w) == task[w] # Idle /\ Refuse(w)

-----------------------------------------------------------------------------
Init ==
  /\ exam = [status |-> Absent, type |-> "REGULAR", config |-> NoConfig, code |-> FALSE]
  /\ history = <<>>
  /\ papers = <<>>
  /\ seats = [s \in Students |-> NoSeat]
  /\ attempts = <<>>
  /\ submitted = <<>>
  /\ task = [w \in Workers |-> Idle]

ManageStep(w) ==
  \/ ReadForConfigure(w) \/ CommitConfigure(w)
  \/ ReadForGenerate(w) \/ CommitSharedPaper(w) \/ CommitGenerate(w)
  \/ ReadForApprove(w) \/ CommitApprove(w)
  \/ ReadForPublish(w) \/ CommitPublish(w)
  \/ ReadForSchedule(w) \/ CommitSchedule(w)

AttemptStep(w) ==
  \/ ReadForStart(w) \/ Activate(w) \/ ReadLatest(w) \/ ReadSeat(w)
  \/ ListAttempts(w) \/ CommitOwnPaper(w) \/ CommitAttempt(w)
  \/ ReadForSubmit(w) \/ CommitSubmit(w) \/ PublishSubmitted(w)
  \/ Abort(w)

Next ==
  \/ CreateExam
  \/ JoinGuest
  \/ \E w \in Workers : ManageStep(w) \/ AttemptStep(w)

Spec == Init /\ [][Next]_vars

-----------------------------------------------------------------------------
(* Properties that hold however the requests interleave.                   *)

\* The shape of every variable.  Statuses past ACTIVE are never written.
TypeOK ==
  /\ exam \in [status : Status \cup {Absent}, type : {"REGULAR", "MOCK"},
               config : Configs \cup {NoConfig}, code : BOOLEAN]
  /\ history \in Seq(HistoryRow)
  /\ papers \in Seq([config : Configs, owner : Students \cup {Shared}])
  /\ seats \in [Students -> Seat]
  /\ attempts \in Seq(Attempt)
  /\ submitted \in Seq(Nat)
  /\ task \in [Workers -> Task]

\* A mock attempt is on a paper of its own, made for that student.
OwnMockPaper ==
  exam.type = "MOCK" =>
    \A a \in DOMAIN attempts :
      /\ papers[attempts[a].paper].owner = attempts[a].student
      /\ \A b \in DOMAIN attempts : attempts[a].paper = attempts[b].paper => a = b

\* A regular attempt is on the paper the student was assigned, however the first
\* starts of the student race for the assignment (UNIQUE exam_id, student_id).
SeatedPaper ==
  exam.type = "REGULAR" =>
    \A a \in DOMAIN attempts : attempts[a].paper = seats[attempts[a].student].paper

-----------------------------------------------------------------------------
(* Properties of requests that do not overlap (one worker).                *)

\* The history is one path from DRAFT to the present status.
HistoryIsPath ==
  Exists =>
    /\ history[1] = [from |-> Fresh, to |-> "DRAFT"]
    /\ history[Len(history)].to = exam.status
    /\ \A i \in 2 .. Len(history) :
         /\ history[i].from = history[i - 1].to
         /\ history[i].to \in EXAM_TRANSITIONS[history[i].from] \cup {history[i].from}

\* An exam past CONFIGURED has a paper of its present configuration, so a
\* student can start and a guest can join.
PaperReady ==
  exam.status \notin {Absent, "DRAFT", "CONFIGURED"} => Newest(exam.config) # None

\* "Regular exams: attempt_number=1, exactly one attempt."
OneRegularAttempt ==
  exam.type = "REGULAR" =>
    \A a, b \in DOMAIN attempts : attempts[a].student = attempts[b].student => a = b

\* At most one attempt of a student is flagged latest, and it is the newest one,
\* even when a start is lost between its two commits.
LatestIsNewest ==
  \A a, b \in DOMAIN attempts :
    attempts[a].latest /\ attempts[b].student = attempts[a].student => b <= a

\* submit_attempt announces an attempt once: the evaluation intake and whatever
\* else listens to ExamSubmitted see each submission a single time.
AnnouncedOnce ==
  \A d, e \in DOMAIN submitted : submitted[d] = submitted[e] => d = e

=============================================================================
