# Verification of ns-exam

TLA+ models of the exam platform in this repository, the TLC runs that check them on
small instances, and proofs, checked by TLAPS, that nearly all of their safety
properties hold for instances of any size. `PROJECT.json` lists the components, the
runs, the line of code behind every definition (`map`), the hazards and the findings.

## 1. Inventory

The program is one FastAPI process over PostgreSQL. Every HTTP request is a
coroutine with a database session of its own (`app/core/db/session.py`): READ
COMMITTED, `autoflush=False`, `expire_on_commit=False`. What a session has
loaded is never refreshed, an UPDATE writes the columns whose value differs from
the loaded one, no row has a version check, and an exception rolls back what is
not yet committed. There are no SELECT ... FOR UPDATE. Almost every hard
behaviour of the system follows from that discipline, from the in-process event
bus, and from the places that commit in the middle of a request.

| component | state | operations | interacts with | what makes it correct |
|---|---|---|---|---|
| `evaluation` | evaluations, evaluation_details, omr_uploads, evaluation_versions, re_evaluation_requests | OMR upload, subjective mark, complete (hybrid merge), lock, request and approve re-evaluation | consumes ExamSubmitted, publishes EvaluationCompleted | a locked result changes by requests only that had loaded an older one; its total follows the marks but for late ones; reopening archives it; what was announced is on record |
| `exam_management` | exams, exam_status_history, exam_student_assignments, student_attempts | create, configure, generate, approve, publish, schedule, join as guest, start, submit | calls `paper_generation`, publishes ExamSubmitted | the history is a path of the lifecycle; a running exam has its paper; one attempt of a regular exam; a student keeps the paper assigned; a submission is announced once |
| `core/events` | handler lists of the bus | publish (handlers in order, exceptions swallowed), register | every module behind an event | a handler that fails leaves nothing half done |
| `learning_profile` | topic, chapter and subject mastery, history | process_evaluation (EMA per question), queries | consumes EvaluationCompleted | scores and averages are explained by the history |
| `paper_generation` | papers, sections, validations, paper versions | generate, approve | reads `question_bank` and `blueprint`; called by `exam_management` | a paper called GENERATED is complete |
| `question_bank`, `blueprint` | questions and versions; blueprints and configurations | create, import, version, status, search | | versions without a gap; configurations of activated blueprints |
| `identity`, `core/security`, `core/cache` | users, roles, refresh tokens; the role cache | login, register, guest, refresh, logout | ERP login; `integration` creates accounts too | a token carries its account's role; a token has no more successors than requests that presented it at a time; a known person gets in |
| `integration` | ERP copies of the hierarchy and of persons, sync logs, cached pages | sync (FULL, INCREMENTAL), retry of a page, mark missing, invalidate | `academic` reads the copies | after an undisturbed FULL sync the copy is the ERP's, if the ERP's list is not empty; what is committed is in the log |
| `analytics`, `reports` | summaries, report snapshots | dashboard, class figures, report card, exam analysis, publish | publish AnalyticsUpdated and ReportGenerated | a report rests on figures; no unique violation loses more than its request |
| `jobs`, `core/notifications` | job registry of the process, notification log | launch, run item by item, poll, send | call `reports` and `analytics`; handlers of the bus | the status tells what was done; what is said to be sent was |
| migrations | the schema and its version row | upgrade, downgrade | the models of every module | the revision tells the schema, the newest one is what the models declare |
| `recommendation`, `core/rate_limit`, `core/idempotency`, `academic`, `student`, `teacher`, core infrastructure | | look-ups, wiring, and what "Not modelled" says | | |

Hard behaviours, in short: two requests on one row, each deciding on its own
copy; a request that fails or dies between two commits or between a commit and
the event it publishes; a unique constraint, or its absence, that decides a
race; look-ups by `scalar_one_or_none` that raise once a race has left two rows.
Each is listed with its line in `hazards`.

## 2. Modules

| module | models |
|---|---|
| `Evaluation` | the evaluation of one attempt: three services, the ExamSubmitted handler that opens it |
| `EvaluationContract` | what `Evaluation` promises when requests do not overlap: atomic Open, Scan, Mark, Merge, Lock, Announce, Reopen |
| `MCEvaluation` | small instances of `Evaluation` |
| `EvaluationProofs` | theorems about `Evaluation`, with requests that race and with one request at a time, the refinement among the latter |
| `ExamManagement` | one exam: lifecycle, papers as the exam uses them, assignments, attempts |
| `MCExam` | small instances of `ExamManagement`; a start from a published exam |
| `ExamProofs` | theorems about `ExamManagement` |
| `Mastery` | the mastery profile of one student: the event bus, its EvaluationCompleted handlers, `process_evaluation` |
| `MCMastery` | a small instance of `Mastery` |
| `MasteryProofs` | theorems about `Mastery` |
| `QuestionBank` | questions, their versions and status, import, the search for candidates |
| `PaperRules` | the pure functions of paper generation: slots, ranking, the eight validation rules |
| `PaperGeneration` | blueprints, configurations and the generation of papers; extends the two above |
| `MCPaper` | small instances of `PaperGeneration`, with three beginnings |
| `PaperProofs` | theorems about `QuestionBank` and `PaperGeneration` |
| `Identity` | accounts, roles and their cache, refresh tokens |
| `MCIdentity` | a small instance of `Identity` |
| `IdentityProofs` | theorems about `Identity` |
| `ErpSync` | the inbound sync with the ERP, its page cache and its log |
| `MCErpSync` | a small instance of `ErpSync` |
| `ErpProofs` | theorems about `ErpSync` |
| `Reporting` | dashboards, reports, jobs and notices, composed |
| `MCReporting` | a small instance of `Reporting` |
| `ReportingProofs` | theorems about `Reporting` |
| `Schema` | the migrations as scripts of statements, Alembic running them, the schema the models declare |
| `MCSchema` | two concurrent commands of `Schema` |
| `SchemaProofs` | theorems about `Schema` |

### Evaluation

`row` is the evaluations row (UNIQUE on the attempt), `details` holds for each
question its evaluation_details rows in order (normally one; there is no unique
index), `uploads` the status of each OMR sheet, `versions` and `reviews` the
archive and the re-evaluation requests, `published` the totals handed to the bus.
`task[w]` is the request worker `w` is serving: handler, next step, input, and
the copies its session holds, restricted to the columns the handler uses later.

A request is `ReadFor<Operation>` (load the row, early checks), `ReadDetails` or
`ReadUpload` (the later queries), `Commit<Operation>` (validation on the loaded
copy, then the writes), and for a lock `PublishCompleted` after the commit.
Flush and commit are one step because the row locks taken at the flush are held
until the commit. `Written(stored, loaded, value)` is the UPDATE rule: a column is
written when the assigned value differs from the loaded one, so a stale copy that
already had the new value writes nothing. `Abort` is an exception, a cancelled
request or the loss of the process at any step: before the commit nothing is
left, after it the event is lost. `ReadDetails` and `ReadUpload` also model the
exception of `scalar_one_or_none` on two rows.

Left out: bubble detection (a sheet gives each objective question full marks or
none and may be flagged for review), percentage and PASS/FAIL (functions of the
total written by the same UPDATE), comments, audit fields.

### ExamManagement

`exam`, `history`, `papers`, `seats`, `attempts` are the tables, `submitted` the
attempts announced, `task` as above. `start_attempt` takes the steps `Activate`
(the UPDATE that turns PUBLISHED or SCHEDULED into ACTIVE is flushed, so the lock of
the exams row is held: `held`), `ReadLatest`, then for a regular exam `ReadSeat`
and `CommitAttempt`, for a mock `ListAttempts`, `CommitOwnPaper` (generate_paper,
which commits) and `CommitAttempt`. `generate_papers_for_exam` is
`ReadForGenerate`, `CommitSharedPaper` (again the commit inside generate_paper) and
`CommitGenerate`. `TransitionThrough` is `ExamRepository.transition_status`,
one history row per status of the path; approve passes through
TEACHER_REVIEWING.

`generate_paper` itself is external to this module: it adds a paper or raises
(`Abort`). Students are those with a profile (`Pupils`) and those join_guest
creates (`Guests`). Statuses after ACTIVE are in the table but no service writes
them. Schedule times are left out, no decision reads them.

### Mastery

`mastery` holds the rows of the three mastery tables, one for each topic, chapter
and the subject (`NoRow` if there is none), `history` the history rows in commit
order, `details` the marked questions of each evaluation, `asked` how often one was
announced or posted, `task[w]` a processing: the `sheet` of marks it read when it
began, the rows its session `loaded`, what it made of them (`value`), the
rows and unique keys it has written and so `locked`, the history rows inserted.

Marks change (`Remark`) whenever `Evaluation` lets them: before the lock, as
`process_evaluation` does not ask for one, and after a re-evaluation was approved.
A processing keeps what it has read (`Begin`), the next one finds the new marks. The
history variable `read` notes what each one found, and `ProcessedWhole` compares the
history rows with that; `now`, the time a processing takes once and writes as
`evaluated_at`, tells its rows.

The sessions run with autoflush off, so a change of a topic is written by the next
insert: `ReadTopic`, `ApplyScore` (the insert of a missing row and of the history
row, a flush of the topics before; a unique violation if another session has
committed the row since), `FlushTopics`, and for each chapter and the subject
`ReadParts`, `ReadNode` and `SaveNode`, then `Commit`. `NextCall` is the bus: it calls
its handlers one after another, each in a session of its own, and goes on after
an exception. `Fail` is an exception at any step. Row locks and the detection of
deadlocks are PostgreSQL's (`Free`, `EndDeadlock`). Scores are in 1/10000, the
scale of NUMERIC(5,4). One subject; the arbitrary order of the chapters is kept.
`overlapped` and `read` are history variables, not state of the program.

### QuestionBank, PaperRules, PaperGeneration

`questions` and `versions` are the tables of the three question types, `clerk` the
requests on them. `create_version` and `change_status` are a load and a store
(`LoadForVersion`, `StoreVersion`, ...): the store writes the columns that differ
from the loaded copy. `FirstPages` is what a search may return: objective
questions before subjective ones, no order within a type, cut at the page.

`PaperRules` has no state. A distribution is a sequence in the order its JSONB column
gives its keys, by length and then by name: EASY, HARD, MEDIUM. `Slots` is
`expand_slots`, `Best` the candidates `pick_best` may return (the code shuffles, so
ties are a choice), `RuleResults` the eight rules, each with the percentages and
tolerances of the code, in tenths.

`desk[d]` is a request on blueprints, configurations or papers. `Generate` begins
one paper or one for each student, `FillSlot` is one search, ranking and pick,
`WritePaper` the rules, the status and the one commit of the paper with its
sections, questions, validations and first version. The bank changes between
slots (`BankStep`); `steady` notes that it did not. Left out: the logs of the
AI, duplicate detection (it only logs), usage statistics, the filter by board
and the keyword search, the tolerance of a hundredth of a mark, and
`create_paper_version`, which nothing calls.

### Identity

`users` has the committed accounts with their role, `tokens` the refresh tokens, each
with the role of the access token issued with it, `cache` the role cache's entry.
A request is a transaction of several steps: `LookUp`, `Insert` (which waits while
another transaction holds the e-mail or ERP id, `Held`, and fails when that one
commits), `LookAgain` after the rollback, the role through `get_or_set`
(`RoleCached`, or `RoleQueried` and `RoleKept` around its await), `Issue`. What the
cache keeps is not the role's value but the ORM object of the session that loaded it:
the entry names that session while it is open, a commit leaves the object readable
(`Released`; `expire_on_commit=False`), a rollback expires it (`Break`), and who then
reads its id fails. `lost` notes that this has happened. `Present` and
`Rotate` are a refresh, `Revoke` a logout. Around them the ERP sync creates and
disables accounts, the seed script adds the roles, entries and tokens expire, and
connections break. Left out: passwords, the login history and the time of the
last login, permissions, accounts of the seed script.

### ErpSync

`feed` is what the ERP has, `cache` the pages kept, `db` the committed copies, users
and logs, `job` the request: the entity types to do, the session's `view`, the page
and attempt, the ids `seen`, and `poisoned`, the state of a session whose flush
failed and which has not been rolled back. `Ask`/`Answer`/`AnswerError` is one HTTP
call (an error comes back as an empty page of an empty list), `Receive` the retry
rule, `Upsert` one record with its refusal by the database, `AfterPage` the paging,
`MarkAndCommit` `_mark_missing` and the one commit of the entity, `Finish` the log row,
which is only flushed. `Raise` is what `sync_all` does with an exception. `Request`
comes from POST /sync/academic (all types, FULL) or POST /sync/trigger (any mode, all
types or one); `EndRequest` answers and commits what is left, or, at /sync/trigger with
a FAILED or SKIPPED_NO_ERP result, fails and rolls back, as those have no `mode` and
`InboundSyncResult` requires one (`Invalid`). The ERP
changes, pages are invalidated or expire, and the process dies. `clean` and `before`
are history variables. Left out: the columns other than keys and status, sending
reports to the ERP, and the webhook's signature.

### Reporting

`task[w]` is a coroutine: a request or a job. A dashboard reads the profile, the
evaluations one by one and the summary, then stores it (`SaveSummary`, with the UPDATE
rule) and publishes AnalyticsUpdated; a report card is a dashboard, the profile once
more and a snapshot. A job does one such work per item in one session. A notice is
`LogNotice`, `SendNotice`, `MarkNotice`, with sessions of its own. Failures are what
they do to that session: `NoConnection` costs the item, `AbortedStatement` it and all
later items (nothing rolls back), `LostConnection` and `UniqueViolation` the whole job
(after a failed flush even the except clause raises, as it reads an expired
attribute). `Crash` forgets the registry. Left out: push notices, the test notice an
administrator may send (POST /notifications/test), several subjects of one student,
exams without a subject.

### Schema

A migration is a sequence of statements: create or drop a table, add or drop
references, add or drop unique keys, stamp the version row. `Script[from][to]` is
what `alembic upgrade` or `downgrade` runs. A command works in one transaction that
locks what it touches (`Granted`) and sees its own changes (`Visible`); it commits
once, is refused at a statement that does not fit, or dies. `Declared` is the
schema of the ORM classes; `Alone[from][to]` the states a command goes through when
nothing else is at work, and `Right` says that these are as they should be. The
class of table `files` (app/modules/storage) is not in the repository, as
`.gitignore` names it (`NotInRepository`). Left out: columns that are no key, their
types, plain indexes, the offline mode.

## 3. Runs

| run | question | states |
|---|---|---|
| `eval_serial` | one request at a time, failing or lost anywhere: three invariants, what brings a total out of date, and the refinement of `EvaluationContract` | 0.9 M |
| `eval_race` | two requests interleaving at every step: what still holds, and what alone changes a locked result | 6.6 M |
| `exam_serial` | one request at a time from creation to submission | 1.5 M |
| `exam_race` | two requests interleaving on a published exam | 1.5 M |
| `mastery` | two evaluations processed three times in all by two workers, marks changing once | 0.4 M |
| `schema` | two commands moving between revisions, crashing anywhere | 17 k |
| `erp_sync` | two syncs of three kinds of records, at either endpoint, against a changing, failing ERP | 0.7 M |
| `erp_log` | violation of `LogTellsResult` | |
| `paper` | papers generated while two clerks change the bank; stale edits of one question; the status rules of blueprints | 0.9 M |
| `paper_mix` | violation of `DistributionRespected` | |
| `identity` | four requests of two workers on two ERP users, a visitor and a guest | 1.3 M |
| `reporting` | a job and a request over the same students, one failure or change | 0.3 M |

Bounds. One question of each kind is enough in `Evaluation`: questions interact only
through the sum, and a request touches one (marks), the objective ones (OMR) or all
(complete). Two sheets are the fewest that make the look-up raise, two approvals the
fewest that reuse a number or lose a result (the theorems hold for any number of
them), two announcements the fewest that can repeat. In `eval_race` `MaxMark` is 0:
its invariants do not read the value of a mark (whether a total is NULL, how many rows
there are), and a mark on a locked evaluation shows by the row it adds;
`LocksBrokenByStaleOnly` covers other marks. Two workers show every race of two
requests. `exam_serial` has two configurations, so that an exam can be reconfigured
away from its papers, three papers (shared, shared again, own) and three attempts (the
third number of a mock, or a pupil twice and a guest). History rows are bounded at
nine: the six up to PUBLISHED and three more. `exam_race` starts from a published exam
(`PublishedSpec`), a state `exam_serial` reaches, to spend its states on starts and
submissions; the administrators' actions stay enabled in it.

`mastery` has one topic in each of two chapters, and sheets that mark the topics in
opposite orders (the fewest rows that deadlock), one of them twice (the session must
go on from its own row); one sheet is empty, an evaluation processed before any mark
is in. Three processings are the fewest in which two race on rows that exist already,
or in which an evaluation is processed, marked anew and processed again beside
another; one change of marks can fall before, between or during them. One worker at a
time is among the behaviours, and there `HistoryIsChain` and `AggregatesAreAverages`
bind.

`schema` has all three migrations and every table; two commands are the fewest that
overtake each other. `MCSchema` states `AllRight`, which `SchemaProofs` assumes, as an
`ASSUME`, so the run evaluates it first. `erp_sync` has pages of one record, lists of
two that shrink to one and to none and grow again (a second page is then empty while
the first still counted it), a parent that is deleted or not there yet, a record that
cannot be parsed and one the database refuses, and one each of a change, a dropped
page, an error and a crash; the school, session and student types are one without
parents, one with a required parent and one of persons. `paper` has two questions of
one type and one of another, so that ids repeat across types, a blueprint of three
sections, two of them of one type with different marks, one of two questions with a
bloom level that the bank can only half fill, and one of three sections with the same
label, where a complete paper can have a section with the marks of another; it begins
with a bank at rest, with blueprints at rest, or with the bank alone (`BegunSpec`),
which keeps the parts from multiplying; what the second begins with, an active
configuration, is a state the first reaches, and papers look at no status of either.
Two bank operations there are enough to change what a later slot finds (one for the
blueprint that repeats a label); the bank alone has four, as three edits of one
question are the fewest that turn its number back. Two papers are one for each of two
students of one request, or of two. `identity` has a visitor registered under an ERP
user's e-mail; four requests are two first logins, a refresh and another. `reporting`
has a student with two attempts, the fewest failures that put one at risk, and one
event: with two the run does not end in five minutes.

Deadlock is checked where clients may always come back. `mastery`, `erp_sync`, `erp_log`
and `reporting` end when their bounds are used, and check that everything ends by a
liveness property instead.

Fairness. In `Mastery`: each worker's processing, as the event loop runs every
coroutine that can go on, and the end of a deadlock, which PostgreSQL promises. In
`ErpSync`: the sync's own steps, as the HTTP client has a timeout; the ERP need not
change, nor pages expire. In `Reporting`: each coroutine's steps, as connections and
transports answer or time out. For the jobs this supposes that their tasks live:
`tasks.py` keeps no reference to them (271, 287, 302), and the event loop only a weak
one. Nobody has to lock, post, ask or fail. In the other modules liveness would be a
question of clients who may never come back.

### What the violated runs show

- `erp_log`: in a full sync the log row of an entity type is finished after that
  type's commit. When a later type raises, the rollback in `sync_all` takes the
  update back: the log keeps SUCCESS with nothing pulled and no end, although
  the sync answered PARTIAL.
- `paper_mix`: `expand_slots` gives every difficulty a slot, also at 0 %, and cuts the
  list at its end. A section of one question that is to be 100 % MEDIUM gets an EASY
  one, and the paper then fails its own rule `DIFFICULTY_BALANCE`.

### Seen while modelling, no run of their own

Evaluation and exams:

- A teacher's mark on a COMPLETED evaluation is accepted and leaves the merged
  totals as they are; the lock freezes and announces a total that is not the sum of
  the marks. `OnlyLateMarksStaleTotals` says that there is no other way to it.
- `enter_subjective_marks` checks for LOCKED in its first query only; a lock that
  commits before its own commit does not stop it, and locked marks change.
- Two approvals can lose a result: one loads the first, locked result; the other
  archives it, and new marks are merged and locked; the first then archives its old
  copy once more and reopens the new result, which the next merge overwrites. The
  archive's numbers have no gap then (`NumbersArchived`), but the second result is in
  no snapshot. `OnlyStaleRequestsBreakLocks` says that only requests like these two,
  whose copy is older than the locked result, change one.
- Two starts of one student on an ACTIVE regular exam both insert an attempt
  (`OneRegularAttempt` fails in the instance of `exam_race`), and later look-ups of
  that student raise. While the exam is still PUBLISHED the row lock of the
  activation does not help, as a session that waited goes on from its old reads.
- Generating once more on an exam that is approved or running is refused, after
  generate_paper has committed the new paper: the next student is given it.
- Concurrent first entries for one question insert two detail rows, and
  `scalar_one_or_none` then raises for every later entry of it.
- `lock_evaluation` on a LOCKED evaluation is accepted (same status) and announces
  again. `approve_re_evaluation` never looks at the status of the request, so one
  request can reopen several times; a review can be requested on any status.
- After a second OMR sheet `lock_evaluation` raises for ever; NEEDS_MANUAL_REVIEW
  has no operation that resolves it.
- With two administrators, `HistoryIsPath` and `PaperReady` do not hold (each
  transition is valid for the copy it was checked on). They are checked serially.
- A mock start lost after the commit inside generate_paper has cleared the latest
  flags: the student has no latest attempt and the next number is 1 again.
- `start_attempt` does not require a published exam, and the paper it or join_guest
  picks is the newest of the configuration, for a guest of a mock exam possibly
  one made for another student.

Events and mastery:

- Overlapping processings of one student lose updates: both read a row, the later
  commit overwrites score and attempt_count, and correct_count may then exceed
  attempt_count. Averages may miss a topic another session commits later. Hence
  the condition `~overlapped` of `HistoryIsChain` and `AggregatesAreAverages`.
- `process_evaluation` never looks at the status of the evaluation, and each call
  counts the marks again: an evaluation posted before all marks are in, or locked a
  second time after a re-evaluation, counts some questions more often than others,
  the old marks beside the new. So would a second registration of the handlers, which
  the docstring of `register_all_handlers` calls safe.
- Nothing publishes MasteryUpdated or LearningProfileUpdated, so recommendations
  and analytics are not refreshed by events; their handlers would raise anyway
  (handlers.py:134 passes an argument RecommendationService does not have).

Papers:

- No operation moves a paper to UNDER_REVIEW, so `approve_paper` always refuses.
- `create_version` leaves older versions current, two edits may take one number, and
  a late edit may turn a question's own number back below its history's last.
- Neither `generate_paper` nor the search asks for the status of the configuration
  or for the chapters it names; chapters are only looked at by a rule afterwards.
- A rule looks a section up by its label: of two sections with one label the
  last one's figures count for both, so a paper may be GENERATED with a section whose
  marks are not its own, and nothing asks for distinct labels
  (blueprint/schemas.py:41, validation.py:62). `GeneratedIsComplete` promises the marks
  of the last section of a label.

Accounts and the ERP:

- An account the sync creates gets no role, and a later login gives it none: its
  tokens carry no role. `TokenCarriesRole` is about the accounts logins create.
- An ERP user whose e-mail a local account has can never log in
  (identity/service.py:133).
- Two refreshes with one token both succeed, and it has two successors.
- A role looked up before the seed script has run is cached as missing. A role whose
  session was rolled back after the look-up stays in the cache as an expired, detached
  object: for up to a minute every first login and registration that needs it fails
  with a 500 when it reads `role.id` (service.py:95, core/cache.py:69-76).
- A full sync at POST /sync/trigger in which one entity type failed or was skipped
  ends in a 500: the answer's model requires a `mode` these results lack
  (schemas.py:38). What the other types committed stays.
- An ERP whose list of a type is empty changes nothing in a FULL sync: `_mark_missing`
  returns at once (sync_service.py:440) and the rows stay SYNCED, although the
  header (point 5) says that those absent from the answer are flagged.
- An ERP that answers with errors looks like an ERP with an empty list: the sync
  ends as SUCCESS and the retries for errors are never used.

Dashboards, reports and jobs:

- The bulk import calls `QuestionBankService.create_question`, which does not exist:
  every item fails and the job is COMPLETED with nothing imported (tasks.py:67).
- An administrator can send a notice of any type and content to anybody (POST
  /notifications/test); `NoticesTrue` is about the notices of the handlers.
- The routers pass no actor, so nobody is told of a job's end; after a restart
  polling a job finds nothing.
- Two dashboards of one student can tear the summary: each writes the columns it
  changed, and `is_at_risk` may not follow from the others. Every dashboard of a
  student at risk sends the alert again.
- A report published once more gets a new date; a class's number of students is
  only set when its row is created.

## 4. Proofs

Eight modules of theorems, each beside the model it is about; `PROJECT.json` lists
every theorem with the property it states. The constants are only assumed to be
what the models' named `ASSUME`s say (finite sets, natural bounds, records of the
right shape), which TLC evaluates on every run, so a theorem holds for any
number of requests, rows, students, pages or items. The bounds of the runs are
among these constants and arbitrary natural numbers.

A theorem whose name ends in `Serially`, and `ContractImplemented`, has one
assumption more, `Serial`: there is at most one worker, so requests do not overlap.
They still fail, and are lost, at any step. Without `Serial` they are false: with two
workers TLC finds a counterexample to each of these properties (section 3 tells the
stories). All other theorems are about every interleaving; two properties of `Mastery`
promise something only while no processing has begun during another (`overlapped`),
and the theorems say just that. `SchemaProofs` has an assumption of its own (below).

Each proof has the same plan: an inductive invariant that says what the sessions
under way hold, one lemma per action or group of actions that it is preserved, and
the property as a consequence. What the invariants add to the properties is the
content of the proofs:

| module | theorems | what had to be added |
|---|---|---|
| `EvaluationProofs`, racing | `TypeCorrect`, `VersionsKept`, `LocksBrokenByStaleOnly`, `ClosedIsTotalled`, `CommitsAreWhole` | an approval computes the new number from a copy that may be old: the archive also covers the number of every such copy (`VersionInv`). A stale UPDATE may set the status without the total: whoever holds a copy that is closed holds its total, and a row, once totalled, stays so (`ClosedInv`). An upload inserts details for the questions it found without one: what a sheet shows is there (`WholeInv`). A mark's LOCKED check is as old as its session's copy (`MarksChecked`) |
| `EvaluationProofs`, serial | `NoOpenReviewSerially`, `AnnouncedSerially`, `StaleTotalsSerially`, `ContractImplemented` | the session of the request under way holds the row as it is (`CopyCurrent`, `ExactCopy`), and the version is one more than the archive is long (`SerialInv`) |
| `ExamProofs` | `TypeCorrect`, `RegularAttemptOnItsSeat`, `MockAttemptOnItsOwnPaper`; `HistoryIsPathSerially`, `PaperReadySerially`, `OneRegularAttemptSerially`, `LatestIsNewestSerially`, `AnnouncedOnceSerially` | a seat a request holds agrees with the seat in the table (`SeatInv`); the paper a mock start has committed is its own and in no other start or attempt (`MockInv`); what a start has read is true until it inserts (`StartInv`), and an attempt is announced by the request that submitted it, which then ends (`AnnounceInv`) |
| `MasteryProofs` | `ScoresOnRecord`, `ProcessingsAreWhole`, `HistoriesAreChains`, `AggregatesAverage` | each session holds copies of rows, and a topic it changed has a score that one of its own history rows records; the commit writes that score or leaves the stored one, as the count tells a changed row from an untouched one (`SessionInv`, `StoredIs`). A session has a history row for each detail it is past and commits with nothing left to average; its rows are the sheet it read, up to where it is, and bear a time no other processing has (`WholeInv`). While it is undisturbed what it has loaded is what is committed, and its history rows go on from the committed ones (`AloneInv`) |
| `PaperProofs` | `ConfigsStandOnActivated`, `VersionsOfAQuestionRunOn`, `PapersAreComplete`, `EnoughFills` | a blueprint never becomes a draft again, so what a look-up found activated stays so (`StatusInv`); the number in a stale copy is one of the question's versions, ids are unique within a type, and every version has its question (`RowsInv`, `ClerkInv`). What a request has chosen so far fits the sections up to the present slot (`PapersInv`), and as long as the bank stood still each question taken is one of the bank's and fills a slot of its type and difficulty: the demand up to a slot is below the supply, by counting, so one is left for it (`FillInv`, `OneIsLeft`) |
| `IdentityProofs` | `ExchangesAreBounded`, `TokensCarryRole`, `FailsForReason` | two requests never insert one account at a time (`AccountInv`); with the roles there from the start the cache never says "nothing" and every request that goes on to an account has a role (`RoleInv`); who looks again after a refused insert finds the account or someone else's e-mail, and the cached role is unreadable only once a request was rolled back (`MailInv`); the successors of a token and the requests that still hold it are together no more than the workers, by counting (`ExchangeInv`) |
| `ErpProofs` | `TypeCorrect`, `SeenRecordsWritten`, `ResultsMatchLogs`, `CleanSyncIsAMirror` | the copies committed and in the session have the log rows the results tell, entity type by entity type, up to the end of the request, answered or failed (`RecordInv`); a type of which no record was seen has its rows as they were (`BeforeInv`); a clean pull has written exactly the records before the page it is at, and after them the items before the one it is at (`FollowInv`); a session with a failed flush never reaches the commit (`PoisonInv`) |
| `ReportingProofs` | `JobsAccountForAll`, `NoticesAreTrue` | a running job's items are done, failed or to do, its snapshots are as many as it counts, and no two coroutines have one job (`CountInv`); a coroutine that is to tell something has committed it (`TellInv`) |
| `SchemaProofs` | `VersionRowTells`, `NoneIsRefused`, `NewestIsDeclared` | a table a command has changed is locked by it alone and is as it would be if the command were alone, provided it was found as the first revision has it; after its first stamp a command holds the version row, so nobody commits before it does (`ChangesFollow`, `StampFollows`, `SchemaInv`) |

`SchemaProofs` reduces any number of concurrent commands to one: its theorems assume
`AllRight`, that each of the twelve commands, alone, is refused nothing and ends at
the revision it was asked for. That is a question about the text of three fixed
migrations, some hundred statements folded one after another: TLC answers it when the
run `schema` evaluates the `ASSUME` of `MCSchema`. (`NewestIsDeclared` also assumes
that the upgrades of an empty database lead to `Declared`, which `MigratedIsDeclared`
checks there.) `Schema` itself does not assume it: the three theorems name it as their
hypothesis.

The refinement (`ContractImplemented`). `EvaluationContract` sees the row, the archive
and the announcements. The initial states agree, and of every step there is a
lemma: a commit of marks, of an upload, of a merge, of a lock or of an approval
is `Mark`, `Open` or `Scan`, `Merge`, `Lock`, `Reopen`; publishing is `Announce`; all other
steps leave the three alone. `SerialInv` is what turns the blind UPDATE of a copy
into the contract's atomic operation on the row.

What the proofs found. `VersionsRunOn` had said that a question's number is the last
of its history. This is not inductive, and no strengthening makes it so: with three
edits, one that loaded the first version can be stored last and turn the number
back from 3 to 2 (`updated_dict["version_no"]` is written as it differs from the
loaded one). A bound of two edits had hidden that. The property now says what
holds, the history has no gap and the number is in it, and the run checks it with
four operations.

`GeneratedIsComplete` had promised every section its marks. The proof stopped where two
sections share a label, as `bp_map` (validation.py:62) keeps the last one only; no
schema forbids it, and with such a blueprint added to the instance TLC found the
paper. `EnoughIsFilled` had asked for more than it needs, enough questions of all
types and levels; the counting argument showed that only the slots' own matter.

Only model-checked, and why:

- Liveness (`JobsEnd`, `RequestsReturn`, `SyncEnds`): the provers have no rules for
  fairness beyond propositional ones, nor for ENABLED.
- `AllRight`: the scripts are data, and their effect is a fold over them. TLC
  evaluates all twelve.
- What a recursive or folded computation yields for every input (`Marks`, `MarksOf`,
  `Slots`, `Weigh`): induction over data. The proofs use that two applications to the
  same arguments agree, and `PapersAreComplete` that a rule compared the sum.
- `LogTellsResult` and `DistributionRespected` are false.

## 5. Plan

What could be added, in order:

1. A refinement for `Mastery` that says what a processing is to a client when
   sessions do not overlap: the invariant it needs is `AloneInv`.
2. An abstract specification of `Schema`, a database that moves from revision to
   revision, which `SchemaInv` would show implemented.
3. `recommendation`, if its ranking is given a meaning a property could be about.

### Not modelled

- `core/rate_limit`: arithmetic on real time under one lock; only its eviction at
  the limit is of interest, and it is listed as a hazard.
- `core/idempotency`, the retry helper, the unit of work: nothing calls them.
- `recommendation`: accept and dismiss are one read, check and write on a copy,
  as the lifecycles that are modelled; the rest is a ranking in floating point.
  (A personalised mock it proposes takes the first configuration there is, of
  whatever subject: recommendation/service.py:151.)
- Sending reports to the ERP and the webhook: one HTTP call, one signature check.
- `academic`, `student`, `teacher`: look-ups. Logging, configuration, headers, wiring:
  no state a property could be about.
