-------------------------------- MODULE Schema ---------------------------------
(***************************************************************************)
(* The database schema: the three migrations (alembic/versions), the command  *)
(* that runs them (alembic/env.py) and the tables the ORM classes declare     *)
(* (app/modules/*/models.py).  A table is kept as the tables its foreign keys *)
(* refer to and its unique keys besides the primary one; columns without a    *)
(* key, their types and the plain indexes are left out.                      *)
(*                                                                         *)
(* A command runs every pending revision in one transaction, statement by     *)
(* statement, and stamps the revision at the end of each.  PostgreSQL keeps   *)
(* the locks of a statement to the end of the transaction.                   *)
(***************************************************************************)
EXTENDS Integers, Sequences, FiniteSets, SequencesExt

CONSTANT Runners   \* alembic commands that may run at the same time

ASSUME RunnersAssumption == IsFiniteSet(Runners)

Curriculum == {"boards", "chapters", "classes", "subjects", "topics", "units"}

Table(t, refs, keys) == [table |-> t, refs |-> refs, keys |-> keys]
Keys(t, keys)        == Table(t, {}, keys)

\* The columns the first migration's tables have in common.
Base(t, refs, keys)     == Table(t, refs, keys \cup {{"public_id"}})
ErpOwned(t, refs, keys) == Base(t, refs, keys \cup {{"erp_id"}})

-----------------------------------------------------------------------------
(* 0001_identity_academic.  companies, boards and schools get their reference *)
(* to users once that table exists.                                          *)

AcademicRoots ==
  << Base("companies", {}, {}),
     ErpOwned("boards", {}, {}),
     ErpOwned("schools", {"boards"}, {}),
     Base("users", {"boards", "schools", "users"}, {{"email"}, {"erp_user_id"}}) >>

DeletedBy == << Table("companies", {"users"}, {}), Table("boards", {"users"}, {}),
                Table("schools", {"users"}, {}) >>

IdentityTables ==
  << Base("roles", {"users"}, {{"name"}}),
     Base("permissions", {"users"}, {{"code"}}),
     Table("role_permissions", {"permissions", "roles"}, {}),
     Table("user_roles", {"roles", "users"}, {}),
     Base("refresh_tokens", {"users"}, {{"token_hash"}}),
     Table("login_history", {"users"}, {}) >>

AcademicTables ==
  << ErpOwned("academic_sessions", {"schools", "users"}, {}),
     ErpOwned("classes", {"schools", "users"}, {}),
     ErpOwned("subjects", {"boards", "classes", "users"}, {}),
     ErpOwned("chapters", {"subjects", "users"}, {}),
     ErpOwned("units", {"chapters", "users"}, {}),
     ErpOwned("topics", {"units", "users"}, {}),
     Base("student_profiles",
          {"academic_sessions", "boards", "classes", "schools", "users"},
          {{"erp_student_id"}}),
     ErpOwned("teacher_profiles", {"schools", "users"}, {{"erp_teacher_id"}}),
     Table("teacher_subject_map", {"subjects", "teacher_profiles"}, {}) >>

AcademicDrops ==
  << "teacher_subject_map", "teacher_profiles", "student_profiles", "topics", "units",
     "chapters", "subjects", "classes", "academic_sessions", "login_history",
     "refresh_tokens", "user_roles", "role_permissions", "permissions", "roles" >>

RootDrops == << "users", "schools", "boards", "companies" >>

-----------------------------------------------------------------------------
(* 9fedf51dd716: the tables of the feature modules, generated from the ORM.   *)
(* Every one has a public_id with a unique index and a deleted_by column.     *)

Autogenerated(t, refs, keys) ==
  Table(t, refs \cup {"users"}, keys \cup {{"public_id"}})

LogTables ==
  << Autogenerated("files", {}, {}),
     Autogenerated("notification_logs", {}, {}),
     Autogenerated("question_statistics", {}, {}),
     Autogenerated("question_versions", {}, {}),
     Autogenerated("sync_logs", {}, {}),
     Autogenerated("question_files", {"files"}, {}) >>

BlueprintTables ==
  << Autogenerated("blueprints", {"boards", "classes", "subjects"}, {}),
     Autogenerated("student_analytics_summaries", {"student_profiles", "subjects"},
                   {{"student_id", "subject_id"}}),
     Autogenerated("student_subject_masteries", {"student_profiles", "subjects"},
                   {{"student_id", "subject_id"}}),
     Autogenerated("blueprint_sections", {"blueprints"}, {}),
     Autogenerated("exam_configurations", {"academic_sessions", "blueprints"}, {}),
     Autogenerated("question_chapter_map", {"chapters"}, {}) >>

ExamTables ==
  << Autogenerated("student_chapter_masteries",
                   {"chapters", "student_profiles", "subjects"}, {{"student_id", "chapter_id"}}),
     Autogenerated("exams",
                   {"boards", "classes", "exam_configurations", "schools", "subjects"}, {{"join_code"}}),
     Autogenerated("papers",
                   {"blueprints", "exam_configurations", "student_profiles"}, {}),
     Autogenerated("question_unit_map", {"units"}, {}),
     Autogenerated("ai_generation_logs", {"papers"}, {}) >>

AssignmentTables ==
  << Autogenerated("class_analytics_summaries", {"classes", "exams", "subjects"},
                   {{"class_id", "exam_id"}}),
     Autogenerated("exam_status_history", {"exams"}, {}),
     Autogenerated("exam_student_assignments",
                   {"exams", "papers", "student_profiles"}, {{"exam_id", "student_id"}}),
     Autogenerated("fill_blank_questions", Curriculum, {}) >>

PaperTables ==
  << Autogenerated("objective_questions", Curriculum, {}),
     Autogenerated("paper_sections", {"papers"}, {}),
     Autogenerated("paper_validations", {"papers"}, {}),
     Autogenerated("paper_versions", {"papers"}, {}),
     Autogenerated("practice_recommendations",
                   {"papers", "student_profiles", "subjects"}, {}) >>

AttemptTables ==
  << Autogenerated("question_topic_map", {"topics"}, {}),
     Autogenerated("report_snapshots", {"classes", "exams", "student_profiles"},
                   {}),
     Autogenerated("student_attempts", {"exams", "papers", "student_profiles"}, {}),
     Autogenerated("student_papers", {"papers", "student_profiles"},
                   {{"exam_id", "student_id"}}),
     Autogenerated("student_topic_masteries",
                   {"chapters", "student_profiles", "subjects", "topics"}, {{"student_id", "topic_id"}}) >>

AnswerTables ==
  << Autogenerated("subjective_questions", Curriculum, {}),
     Autogenerated("evaluations", {"student_attempts"}, {{"attempt_id"}}),
     Autogenerated("omr_uploads", {"files", "student_attempts"}, {}),
     Autogenerated("paper_questions", {"paper_sections"}, {}),
     Autogenerated("recommendation_feedbacks", {"practice_recommendations"}, {}) >>

MarkingTables ==
  << Autogenerated("recommendation_items",
                   {"chapters", "practice_recommendations", "topics"}, {}),
     Autogenerated("evaluation_details",
                   {"chapters", "evaluations", "paper_questions", "topics"}, {}),
     Autogenerated("evaluation_versions", {"evaluations"}, {}),
     Autogenerated("mastery_history",
                   {"chapters", "evaluations", "student_profiles", "subjects", "topics"}, {}),
     Autogenerated("omr_results", {"omr_uploads"}, {{"omr_upload_id"}}),
     Autogenerated("re_evaluation_requests", {"evaluations"}, {}),
     Autogenerated("subjective_evaluations", {"evaluations", "files"}, {}) >>

FeatureTables == LogTables \o BlueprintTables \o ExamTables \o AssignmentTables \o
                 PaperTables \o AttemptTables \o AnswerTables \o MarkingTables

\* The unique constraints of the first migration become unique indexes.
Rekeyed ==
  << Keys("academic_sessions", {{"erp_id"}, {"public_id"}}),
     Keys("boards", {{"erp_id"}, {"public_id"}}),
     Keys("chapters", {{"erp_id"}, {"public_id"}}),
     Keys("classes", {{"erp_id"}, {"public_id"}}),
     Keys("companies", {{"public_id"}}),
     Keys("permissions", {{"public_id"}}),
     Keys("refresh_tokens", {{"public_id"}}),
     Keys("roles", {{"public_id"}}),
     Keys("schools", {{"erp_id"}, {"public_id"}}),
     Keys("student_profiles", {{"erp_student_id"}, {"public_id"}}),
     Keys("subjects", {{"erp_id"}, {"public_id"}}),
     Keys("teacher_profiles", {{"erp_id"}, {"public_id"}}),
     Keys("topics", {{"erp_id"}, {"public_id"}}),
     Keys("units", {{"erp_id"}, {"public_id"}}),
     Keys("users", {{"email"}, {"erp_user_id"}, {"public_id"}}) >>

FeatureDrops ==
  << "subjective_evaluations", "re_evaluation_requests", "omr_results",
     "mastery_history", "evaluation_versions", "evaluation_details",
     "recommendation_items", "recommendation_feedbacks", "paper_questions",
     "omr_uploads", "evaluations", "subjective_questions",
     "student_topic_masteries", "student_papers", "student_attempts",
     "report_snapshots", "question_topic_map", "practice_recommendations",
     "paper_versions", "paper_validations", "paper_sections",
     "objective_questions", "fill_blank_questions", "exam_student_assignments",
     "exam_status_history", "class_analytics_summaries", "ai_generation_logs",
     "question_unit_map" >>

EarlyFeatureDrops ==
  << "papers", "exams", "student_chapter_masteries", "question_chapter_map",
     "exam_configurations", "blueprint_sections", "student_subject_masteries",
     "student_analytics_summaries", "blueprints", "question_files", "sync_logs",
     "question_versions", "question_statistics", "notification_logs", "files" >>

(* cf6c28066eca                                                               *)

SyncLogTables == << Autogenerated("erp_sync_logs", {}, {}) >>

-----------------------------------------------------------------------------
(* The ORM classes, and what BaseMixin and SnapshotMixin add to a table.      *)

Business(t, refs, keys) == Table(t, refs \cup {"users"}, keys \cup {{"public_id"}})
Snapshot(t, refs, keys) == Business(t, refs, keys \cup {{"erp_id"}})

NotificationClass ==
  { Business("notification_logs", {}, {}) }

AcademicClasses ==
  { Snapshot("boards", {}, {}),
    Snapshot("schools", {"boards"}, {}),
    Snapshot("academic_sessions", {"schools"}, {}),
    Snapshot("classes", {"schools"}, {}),
    Snapshot("subjects", {"boards", "classes"}, {}),
    Snapshot("chapters", {"subjects"}, {}),
    Snapshot("units", {"chapters"}, {}),
    Snapshot("topics", {"units"}, {}) }

AnalyticsClasses ==
  { Business("student_analytics_summaries", {"student_profiles", "subjects"},
             {{"student_id", "subject_id"}}),
    Business("class_analytics_summaries", {"classes", "exams", "subjects"},
             {{"class_id", "exam_id"}}) }

BlueprintClasses ==
  { Business("blueprints", {"boards", "classes", "subjects"}, {}),
    Business("blueprint_sections", {"blueprints"}, {}),
    Business("exam_configurations", {"academic_sessions", "blueprints"}, {}) }

StudentPaperClass ==
  { Business("student_papers", {"papers", "student_profiles"},
             {{"exam_id", "student_id"}}) }

EvaluationClasses ==
  { Business("evaluations", {"student_attempts"}, {{"attempt_id"}}),
    Business("evaluation_details",
             {"chapters", "evaluations", "paper_questions", "topics"}, {}),
    Business("omr_uploads", {"files", "student_attempts"}, {}),
    Business("omr_results", {"omr_uploads"}, {{"omr_upload_id"}}) }

ReviewClasses ==
  { Business("subjective_evaluations", {"evaluations", "files"}, {}),
    Business("evaluation_versions", {"evaluations"}, {}),
    Business("re_evaluation_requests", {"evaluations"}, {}) }

ExamClasses ==
  { Business("exams",
             {"boards", "classes", "exam_configurations", "schools", "subjects"}, {{"join_code"}}),
    Business("exam_status_history", {"exams"}, {}),
    Business("exam_student_assignments", {"exams", "papers", "student_profiles"},
             {{"exam_id", "student_id"}}) }

AttemptsUnique ==                     \* mutant: a key declared without a migration
  { Business("student_attempts", {"exams", "papers", "student_profiles"},
             {{"exam_id", "student_id"}}) }

AttemptClass ==
  { Business("student_attempts", {"exams", "papers", "student_profiles"}, {}) }

IdentityClasses ==
  { Business("companies", {}, {}),
    Business("users", {"boards", "schools"}, {{"email"}, {"erp_user_id"}}),
    Business("roles", {}, {{"name"}}),
    Business("permissions", {}, {{"code"}}),
    Table("role_permissions", {"permissions", "roles"}, {}),
    Table("user_roles", {"roles", "users"}, {}),
    Business("refresh_tokens", {}, {{"token_hash"}}),
    Table("login_history", {"users"}, {}) }

IntegrationClasses ==
  { Business("sync_logs", {}, {}),
    Business("erp_sync_logs", {}, {}) }

MasteryClasses ==
  { Business("student_topic_masteries",
             {"chapters", "student_profiles", "subjects", "topics"}, {{"student_id", "topic_id"}}),
    Business("student_chapter_masteries",
             {"chapters", "student_profiles", "subjects"}, {{"student_id", "chapter_id"}}),
    Business("student_subject_masteries", {"student_profiles", "subjects"},
             {{"student_id", "subject_id"}}) }

MasteryHistoryClass ==
  { Business("mastery_history",
             {"chapters", "evaluations", "student_profiles", "subjects", "topics"}, {}) }

PaperClasses ==
  { Business("papers", {"blueprints", "exam_configurations", "student_profiles"},
             {}),
    Business("paper_sections", {"papers"}, {}),
    Business("paper_questions", {"paper_sections"}, {}) }

PaperLogClasses ==
  { Business("paper_versions", {"papers"}, {}),
    Business("paper_validations", {"papers"}, {}),
    Business("ai_generation_logs", {"papers"}, {}) }

ObjectiveClass ==
  { Business("objective_questions", Curriculum, {}) }

SubjectiveClass ==
  { Business("subjective_questions", Curriculum, {}) }

FillBlankClasses ==
  { Business("fill_blank_questions", Curriculum, {}),
    Business("question_versions", {}, {}) }

QuestionMapClasses ==
  { Business("question_files", {"files"}, {}),
    Business("question_statistics", {}, {}),
    Business("question_chapter_map", {"chapters"}, {}),
    Business("question_unit_map", {"units"}, {}),
    Business("question_topic_map", {"topics"}, {}) }

RecommendationClasses ==
  { Business("practice_recommendations", {"papers", "student_profiles", "subjects"},
             {}),
    Business("recommendation_items",
             {"chapters", "practice_recommendations", "topics"}, {}),
    Business("recommendation_feedbacks", {"practice_recommendations"}, {}) }

ReportClass ==
  { Business("report_snapshots", {"classes", "exams", "student_profiles"}, {}) }

StudentClasses ==
  { Business("student_profiles",
             {"academic_sessions", "boards", "classes", "schools"}, {{"erp_student_id"}}) }

TeacherClasses ==
  { Snapshot("teacher_profiles", {"schools"}, {{"erp_teacher_id"}}),
    Table("teacher_subject_map", {"subjects", "teacher_profiles"}, {}) }

Declared ==
  NotificationClass \cup AcademicClasses \cup AnalyticsClasses \cup BlueprintClasses
  \cup StudentPaperClass \cup EvaluationClasses \cup ReviewClasses \cup ExamClasses
  \cup AttemptClass \cup IdentityClasses \cup IntegrationClasses \cup MasteryClasses
  \cup MasteryHistoryClass \cup PaperClasses \cup PaperLogClasses \cup ObjectiveClass
  \cup SubjectiveClass \cup FillBlankClasses \cup QuestionMapClasses
  \cup RecommendationClasses \cup ReportClass \cup StudentClasses \cup TeacherClasses

\* The class of this table is in app/modules/storage, which .gitignore leaves out.
NotInRepository == {"files"}

-----------------------------------------------------------------------------
(* Statements, and the scripts made of them.                                 *)

Statement(do, row) == [do |-> do, row |-> row]

Creates(rows) == [i \in DOMAIN rows |-> Statement("create", rows[i])]
Drops(names)  == [i \in DOMAIN names |-> Statement("drop", Table(names[i], {}, {}))]
AddRefs(rows) == [i \in DOMAIN rows |-> Statement("add column", rows[i])]
DropRefs(rows) == [i \in DOMAIN rows |-> Statement("drop column", rows[i])]
DropKeys(rows) == [i \in DOMAIN rows |-> Statement("drop keys", rows[i])]
AddKeys(rows) == [i \in DOMAIN rows |-> Statement("add keys", rows[i])]

\* The constraints of a table go and the indexes come, before the next table's.
Rekey(rows) ==
  FlattenSeq([i \in DOMAIN rows |-> DropKeys(<<rows[i]>>) \o AddKeys(<<rows[i]>>)])

Newest == 3

Upgrade(n) ==
  CASE n = 1 -> Creates(AcademicRoots) \o AddRefs(DeletedBy)
                \o Creates(IdentityTables \o AcademicTables)
    [] n = 2 -> Creates(FeatureTables) \o Rekey(Rekeyed)
    [] n = 3 -> Creates(SyncLogTables)

Downgrade(n) ==
  CASE n = 1 -> Drops(AcademicDrops) \o DropRefs(Reverse(DeletedBy)) \o Drops(RootDrops)
    [] n = 2 -> Rekey(Reverse(Rekeyed)) \o Drops(FeatureDrops \o EarlyFeatureDrops)
    [] n = 3 -> Drops(<<"erp_sync_logs">>)

\* Alembic moves the version row at the end of every revision.
Stamp(from, to) ==
  << [do |-> "stamp", row |-> Table("alembic_version", {}, {}), from |-> from, to |-> to] >>

\* All the statements of a command, from one revision to another.
Script ==
  [from \in 0 .. Newest |-> [to \in 0 .. Newest |->
     IF from <= to
     THEN FlattenSeq([i \in 1 .. to - from |->
                        Upgrade(from + i) \o Stamp(from + i - 1, from + i)])
     ELSE FlattenSeq([i \in 1 .. from - to |->
                        Downgrade(from - i + 1) \o Stamp(from - i + 1, from - i)])]]

Names == {r.table : r \in Declared} \cup NotInRepository

Absent == [refs |-> {"none"}, keys |-> {}]
Empty  == [t \in Names |-> Absent]

\* PostgreSQL refuses a statement that does not fit the schema it finds.
Fits(schema, s) ==
  LET t == s.row.table
      there == schema[t] # Absent
  IN CASE s.do = "create" ->
            ~there /\ \A r \in s.row.refs \ {t} : schema[r] # Absent
       [] s.do = "drop" ->
            there /\ \A u \in Names \ {t} : t \notin schema[u].refs
       [] s.do = "add column"  -> there /\ s.row.refs \cap schema[t].refs = {}
       [] s.do = "drop column" -> there /\ s.row.refs \subseteq schema[t].refs
       [] s.do = "add keys"    -> there /\ s.row.keys \cap schema[t].keys = {}
       [] s.do = "drop keys"   -> there /\ s.row.keys \subseteq schema[t].keys

\* The row of the statement's table after it.
Result(schema, s) ==
  LET old == schema[s.row.table]
  IN CASE s.do = "create" -> [refs |-> s.row.refs, keys |-> s.row.keys]
       [] s.do = "drop"   -> Absent
       [] s.do = "add column"  -> [old EXCEPT !.refs = @ \cup s.row.refs]
       [] s.do = "drop column" -> [old EXCEPT !.refs = @ \ s.row.refs]
       [] s.do = "add keys"    -> [old EXCEPT !.keys = @ \cup s.row.keys]
       [] s.do = "drop keys"   -> [old EXCEPT !.keys = @ \ s.row.keys]

\* What a statement locks: its table, and those it takes references to or from.
Touched(schema, s) ==
  {s.row.table} \cup IF s.do = "stamp" THEN {}
                     ELSE s.row.refs \cup (schema[s.row.table].refs \ Absent.refs)

-----------------------------------------------------------------------------
(* The database and the commands at work on it.                              *)

VARIABLES
  db,       \* what is committed: the version row and the tables
  command   \* of each runner: its script, how far it is, what it has changed

vars == <<db, command>>

NoChange == [t \in {} |-> Absent]

Fresh(step, from, to, late) ==
  [step |-> step, from |-> from, to |-> to, at |-> 1, changed |-> NoChange,
   locked |-> {}, stamped |-> -1, overtaken |-> late]

Idle == Fresh("idle", 0, 0, FALSE)

Init ==
  /\ db = [revision |-> 0, schema |-> Empty]
  /\ command = [p \in Runners |-> Idle]

\* Reads see committed tables and the transaction's own.
Visible(p) == [t \in Names |-> IF t \in DOMAIN command[p].changed
                               THEN command[p].changed[t] ELSE db.schema[t]]

\* `alembic upgrade` or `downgrade`: the version row is read, the script is set.
Begin(p) ==
  /\ command[p].step # "open"
  /\ \E to \in 0 .. Newest \ {db.revision} :
       command' = [command EXCEPT ![p] = Fresh("open", db.revision, to, FALSE)]
  /\ UNCHANGED db

Current(p) == Script[command[p].from][command[p].to][command[p].at]

Granted(p) ==
  \A o \in Runners \ {p} : Touched(Visible(p), Current(p)) \cap command[o].locked = {}

AtWork(p) ==
  /\ command[p].step = "open"
  /\ command[p].at <= Len(Script[command[p].from][command[p].to])

\* One statement that fits.
Execute(p) ==
  /\ AtWork(p)
  /\ Granted(p)
  /\ LET s == Current(p)
         t == s.row.table
     IN /\ s.do # "stamp"
        /\ Fits(Visible(p), s)
        /\ command' = [command EXCEPT
             ![p].changed = [u \in DOMAIN @ \cup {t} |->
                               IF u = t THEN Result(Visible(p), s) ELSE @[u]],
             ![p].locked = @ \cup Touched(Visible(p), s),
             ![p].at = @ + 1]
  /\ UNCHANGED db

\* The version row must be the one the script was made for.
StampFits(p) ==
  Current(p).from = IF command[p].stamped = -1 THEN db.revision ELSE command[p].stamped

Stamped(p) ==
  /\ AtWork(p)
  /\ Granted(p)
  /\ Current(p).do = "stamp"
  /\ StampFits(p)
  /\ command' = [command EXCEPT ![p].stamped = Current(p).to,
                                ![p].locked = @ \cup {"alembic_version"},
                                ![p].at = @ + 1]
  /\ UNCHANGED db

\* A statement that does not fit ends the command; its transaction goes.
Refuse(p) ==
  /\ AtWork(p)
  /\ Granted(p)
  /\ IF Current(p).do = "stamp" THEN ~StampFits(p) ELSE ~Fits(Visible(p), Current(p))
  /\ command' = [command EXCEPT ![p] = Fresh("refused", 0, 0, command[p].overtaken)]
  /\ UNCHANGED db

\* The end of begin_transaction(): one commit for all the revisions.
Commit(p) ==
  /\ command[p].step = "open"
  /\ ~AtWork(p)
  /\ db' = [revision |-> command[p].stamped, schema |-> Visible(p)]
  /\ command' = [o \in Runners |->
       IF o = p THEN Idle
       ELSE [command[o] EXCEPT !.overtaken = @ \/ command[o].step = "open"]]

CrashHalfWay(p) ==                    \* mutant: statements commit one by one
  /\ command[p].step = "open"
  /\ db' = [db EXCEPT !.schema = Visible(p)]
  /\ command' = [command EXCEPT ![p] = Idle]

\* The process is killed, the connection is lost, or a deadlock is broken.
Crash(p) ==
  /\ command[p].step = "open"
  /\ command' = [command EXCEPT ![p] = Idle]
  /\ UNCHANGED db

Next == \E p \in Runners :
  Begin(p) \/ Execute(p) \/ Stamped(p) \/ Refuse(p) \/ Commit(p) \/ Crash(p)

Spec == Init /\ [][Next]_vars

-----------------------------------------------------------------------------
(* Properties.                                                               *)

\* The tables a revision stands for: what its upgrades make of an empty database.
SchemaAt ==
  [n \in 0 .. Newest |->
     FoldLeft(LAMBDA schema, s :
                IF s.do = "stamp" THEN schema
                ELSE [schema EXCEPT ![s.row.table] = Result(schema, s)],
              Empty, Script[0][n])]

\* What the database holds at a revision, and what a statement makes of it.
At(n) == [revision |-> n, schema |-> SchemaAt[n]]

Stepped(state, s) ==
  IF s.do = "stamp" THEN [state EXCEPT !.revision = s.to]
  ELSE [state EXCEPT !.schema[s.row.table] = Result(state.schema, s)]

Allowed(state, s) ==
  IF s.do = "stamp" THEN s.row.table = "alembic_version" /\ s.from = state.revision
  ELSE s.row.table \in Names /\ Fits(state.schema, s)

\* The states a command goes through when it is alone: before each statement of
\* its script, and at the end.
Alone ==
  [from \in 0 .. Newest |-> [to \in 0 .. Newest |->
     FoldLeft(LAMBDA states, s : Append(states, Stepped(states[Len(states)], s)),
              <<At(from)>>, Script[from][to])]]

IsState(state) ==
  state \in [revision : 0 .. Newest, schema : [Names -> Range(state.schema)]]

\* Whether a command does what it is asked for when nothing else is at work.
RightScript(from, to) ==
  LET script == Script[from][to]
      alone  == Alone[from][to]
  IN /\ script \in Seq(Range(script)) \ {<<>>}
     /\ script[Len(script)].do = "stamp"
     /\ alone[1] = At(from)
     /\ alone[Len(script) + 1] = At(to)
     /\ \A i \in 1 .. Len(script) :
          /\ IsState(alone[i])
          /\ Allowed(alone[i], script[i])
          /\ alone[i + 1] = Stepped(alone[i], script[i])

Right == [from \in 0 .. Newest |-> [to \in 0 .. Newest |-> RightScript(from, to)]]

\* On its own, no command there can be is refused a statement, and each ends at
\* the revision it was asked for, whichever way it goes: every table is created
\* after those it refers to and dropped before them, every key that is replaced
\* is there, and a downgrade undoes its upgrade table by table and key by key
\* (upgrade() and downgrade() of the three migrations).
AllRight ==
  /\ SchemaAt[0] = Empty
  /\ \A from, to \in 0 .. Newest : from # to => Right[from][to]

\* The version row always tells the tables that are there: neither a command
\* that dies half-way nor two commands at once leave a schema between two
\* revisions (alembic/env.py).
RevisionTellsSchema == db.schema = SchemaAt[db.revision]

\* A command that no other one overtook is never refused a statement, whatever
\* the commands that ran before it and those still at work.
ScriptsFit ==
  \A p \in Runners : command[p].step = "refused" => command[p].overtaken

\* The tables, their references and their unique keys are the ones the ORM
\* classes declare.
Declares(schema) ==
  {Table(t, schema[t].refs, schema[t].keys) :
     t \in {u \in Names : schema[u] # Absent} \ NotInRepository} = Declared

\* At the last revision the database is the one the ORM classes declare.
MigratedIsDeclared == db.revision = Newest => Declares(db.schema)

=============================================================================
