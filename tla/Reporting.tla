------------------------------- MODULE Reporting -------------------------------
(***************************************************************************)
(* What is made of the results: the dashboard of a student (modules/analytics), *)
(* report cards (modules/reports), the jobs that make them in bulk (jobs), and  *)
(* the notices both send through the event bus (core/notifications).           *)
(*                                                                         *)
(* A job is a coroutine of the process with one session for all its items; the  *)
(* services it calls commit that session after each step.  A notice has two     *)
(* sessions of its own, one before the transport is called and one after.       *)
(***************************************************************************)
EXTENDS Integers, Sequences, FiniteSets, FiniteSetsExt, SequencesExt, TLC

CONSTANTS
  Workers,     \* coroutines: requests and jobs
  Students,
  Attempts,    \* the attempts of each student
  Sat,         \* the SUBMITTED attempts of the exam a batch is asked for
  Klass,       \* the class that sat the exam
  Questions,   \* what an import is asked to import
  Configured,  \* there is a mail server
  MaxRequests, \* bound: requests
  MaxJobs,     \* bound: jobs
  MaxEvents    \* bound: failing statements, connections and deliveries, restarts, and
               \* changes of the results

ASSUME ReportingAssumption ==
  /\ DOMAIN Attempts = Students /\ Klass \notin Students
  /\ \A s, t \in Students : s # t => Attempts[s] \cap Attempts[t] = {}
  /\ Sat \subseteq UNION {Attempts[s] : s \in Students} /\ IsFiniteSet(Sat)
  /\ Configured \in BOOLEAN
  /\ {MaxRequests, MaxJobs, MaxEvents} \subseteq Nat

VARIABLES
  fails,      \* the attempts whose evaluation is finished with FAIL
  weak,       \* the students whose mastery is low or declining
  summary,    \* student_analytics_summaries, and the class_analytics_summaries row
  reports,    \* report_snapshots; job is the one that made it, 0 for a request
  notices,    \* notification_logs
  delivered,  \* what a transport has handed over; log is its row, 0 if there is none
  jobs,       \* the registry of the process
  task,       \* the coroutines
  flagged,    \* history: students whose committed summary was at risk once
  spent       \* how much of the bounds is used

vars == <<fails, weak, summary, reports, notices, delivered, jobs, task, flagged, spent>>

NoRow == [failed |-> 0, weak |-> FALSE, atRisk |-> FALSE, there |-> FALSE]

Idle == [at     |-> "idle",
         kind   |-> "none",   \* dashboard, card: of a student; class, exam: figures and
                              \* report of an exam; import
         job    |-> 0,        \* 0: a request
         todo   |-> {},       \* the items of the job still to do
         item   |-> "none",
         made   |-> 0,        \* generated or processed
         failed |-> {},       \* failed_student_ids, by item
         who    |-> "none",   \* the student, or Klass
         left   |-> {},       \* attempts whose evaluation is still to be read
         seen   |-> NoRow,    \* what has been computed of the dashboard
         loaded |-> NoRow,    \* the summary as loaded
         notice |-> "none",   \* AT_RISK, REPORT_READY
         report |-> 0,        \* the report a notice is about
         log    |-> 0,        \* the row of the notice
         result |-> "none"]   \* what the transport returned

Init ==
  /\ fails = UNION {Attempts[s] : s \in Students}
  /\ weak = {}
  /\ summary = [s \in Students \cup {Klass} |-> NoRow]
  /\ reports = <<>>
  /\ notices = <<>>
  /\ delivered = {}
  /\ jobs = <<>>
  /\ task = [w \in Workers |-> Idle]
  /\ flagged = {}
  /\ spent = [requests |-> 0, jobs |-> 0, events |-> 0]

Spend(what) == spent' = [spent EXCEPT ![what] = @ + 1]

MayHappen == spent.events < MaxEvents /\ Spend("events")

Goes(w, t) == task' = [task EXCEPT ![w] = t]

-----------------------------------------------------------------------------
(* Requests and jobs begin.                                                  *)

Request(w) ==
  /\ task[w].at = "idle" /\ spent.requests < MaxRequests
  /\ Spend("requests")
  /\ \/ \E s \in Students, kind \in {"dashboard", "card"} :
          Goes(w, [Idle EXCEPT !.at = "profile", !.kind = kind, !.who = s])
     \/ \E kind \in {"class", "exam"} :
          Goes(w, [Idle EXCEPT !.at = "evaluations", !.kind = kind, !.who = Klass,
                               !.left = Sat, !.seen = [NoRow EXCEPT !.there = TRUE]])
  /\ UNCHANGED <<fails, weak, summary, reports, notices, delivered, jobs, flagged>>

\* A new job in the registry.
Registered(job) ==
  [j \in DOMAIN jobs \cup {spent.jobs + 1} |-> IF j = spent.jobs + 1 THEN job ELSE jobs[j]]

\* The job is registered, and a coroutine started that nobody waits for.  The
\* routers pass no actor, so nobody is told of its end.
Launch(w) ==
  /\ task[w].at = "idle" /\ spent.jobs < MaxJobs
  /\ Spend("jobs")
  /\ \E kind \in {"dashboard", "card", "import"} :
       /\ jobs' = Registered([kind |-> kind, status |-> "PENDING", made |-> 0, failed |-> {}])
       /\ Goes(w, [Idle EXCEPT !.at = "launched", !.kind = kind, !.job = spent.jobs + 1])
  /\ UNCHANGED <<fails, weak, summary, reports, notices, delivered, flagged>>

Running(w) ==
  /\ task[w].at = "launched"
  /\ jobs' = [jobs EXCEPT ![task[w].job].status = "RUNNING"]
  /\ Goes(w, [task[w] EXCEPT !.at = IF task[w].kind = "import" THEN "import"
                                              ELSE "list"])
  /\ UNCHANGED <<fails, weak, summary, reports, notices, delivered, flagged, spent>>

\* Report cards are made for each attempt, dashboards for each student.
Items(kind) == IF kind = "card" THEN Sat ELSE Students

StudentOf(kind, item) ==
  IF kind = "card" THEN CHOOSE s \in Students : item \in Attempts[s] ELSE item

ListWork(w) ==
  /\ task[w].at = "list"
  /\ Goes(w, [task[w] EXCEPT !.at = "next", !.todo = Items(task[w].kind)])
  /\ UNCHANGED <<fails, weak, summary, reports, notices, delivered, jobs, flagged, spent>>

\* The subject of the exam, or the subjects of a student: one without attempts
\* has none and is passed over.
NextItem(w) ==
  /\ task[w].at = "next"
  /\ \E item \in task[w].todo :
       LET s == StudentOf(task[w].kind, item)
           t == [task[w] EXCEPT !.todo = @ \ {item}, !.item = item, !.who = s]
       IN Goes(w, IF Attempts[s] = {} THEN t ELSE [t EXCEPT !.at = "profile"])
  /\ UNCHANGED <<fails, weak, summary, reports, notices, delivered, jobs, flagged, spent>>

Ended(w, status) ==
  /\ jobs' = [jobs EXCEPT ![task[w].job] =
                IF status = "COMPLETED"
                THEN [@ EXCEPT !.status = status, !.made = task[w].made,
                               !.failed = task[w].failed]
                ELSE [@ EXCEPT !.status = status]]
  /\ Goes(w, Idle)

Complete(w) ==
  /\ task[w].at = "next" /\ task[w].todo = {}
  /\ Ended(w, "COMPLETED")
  /\ UNCHANGED <<fails, weak, summary, reports, notices, delivered, flagged, spent>>

\* QuestionBankService has no create_question: each question fails.
Import(w) ==
  /\ task[w].at = "import"
  /\ jobs' = [jobs EXCEPT ![task[w].job] = [@ EXCEPT !.status = "COMPLETED",
                                                     !.failed = Questions]]
  /\ Goes(w, Idle)
  /\ UNCHANGED <<fails, weak, summary, reports, notices, delivered, flagged, spent>>

-----------------------------------------------------------------------------
(* A dashboard.                                                              *)

ReadProfile(w) ==
  /\ task[w].at = "profile"
  /\ LET s == task[w].who
     IN Goes(w, [task[w] EXCEPT !.at = "evaluations", !.left = Attempts[s],
                                !.seen = [NoRow EXCEPT !.there = TRUE, !.weak = s \in weak]])
  /\ UNCHANGED <<fails, weak, summary, reports, notices, delivered, jobs, flagged, spent>>

\* The evaluations are read one by one.
ReadEvaluation(w) ==
  /\ task[w].at = "evaluations"
  /\ \E a \in task[w].left :
       Goes(w, [task[w] EXCEPT !.left = @ \ {a},
                               !.seen.failed = IF a \in fails THEN @ + 1 ELSE @])
  /\ UNCHANGED <<fails, weak, summary, reports, notices, delivered, jobs, flagged, spent>>

AtRisk(seen) == seen.weak \/ seen.failed >= 2

ReadSummary(w) ==
  /\ task[w].at = "evaluations" /\ task[w].left = {}
  /\ Goes(w, [task[w] EXCEPT !.at = "summary", !.loaded = summary[task[w].who],
                             !.seen.atRisk = task[w].who # Klass /\ AtRisk(task[w].seen)])
  /\ UNCHANGED <<fails, weak, summary, reports, notices, delivered, jobs, flagged, spent>>

\* An UPDATE writes the columns that differ from the loaded ones.
Written(stored, loaded, value) ==
  [c \in DOMAIN stored |-> IF value[c] = loaded[c] THEN stored[c] ELSE value[c]]

Onward(t) == [Idle EXCEPT !.at = "next", !.kind = t.kind, !.job = t.job, !.todo = t.todo,
                          !.made = t.made, !.failed = t.failed]

Finished(t) == IF t.job = 0 THEN Idle ELSE [Onward(t) EXCEPT !.made = @ + 1]

AfterDashboard(t) ==
  IF t.kind \notin {"card", "exam"} THEN Finished(t)
  ELSE [t EXCEPT !.at = IF t.kind = "exam" THEN "report" ELSE "profile again",
                 !.loaded = NoRow, !.notice = "none", !.log = 0, !.result = "none"]

\* The commit, and the event: AnalyticsUpdated alerts if the student is at risk.
SaveSummary(w) ==
  LET t == task[w]
      s == t.who
  IN /\ t.at = "summary"
     /\ t.loaded.there \/ ~summary[s].there
     /\ summary' = [summary EXCEPT ![s] = Written(@, t.loaded, t.seen)]
     /\ flagged' = IF summary'[s].atRisk THEN flagged \cup {s} ELSE flagged
     /\ Goes(w, IF t.seen.atRisk
                THEN [t EXCEPT !.at = "log", !.notice = "AT_RISK", !.report = 0]
                ELSE AfterDashboard(t))
     /\ UNCHANGED <<fails, weak, reports, notices, delivered, jobs, spent>>

-----------------------------------------------------------------------------
(* A report: a dashboard, for a student the profile once more, and a snapshot.  *)
(* Only reports of students are announced to somebody.                         *)

ReadProfileAgain(w) ==
  /\ task[w].at = "profile again"
  /\ Goes(w, [task[w] EXCEPT !.at = "report"])
  /\ UNCHANGED <<fails, weak, summary, reports, notices, delivered, jobs, flagged, spent>>

SaveReport(w) ==
  LET t == task[w]
  IN /\ t.at = "report"
     /\ reports' = Append(reports, [student |-> t.who, dashboard |-> t.seen,
                                    job |-> t.job, status |-> "GENERATED"])
     /\ Goes(w, IF t.who = Klass THEN Finished(t)
                ELSE [t EXCEPT !.at = "log", !.notice = "REPORT_READY",
                               !.report = Len(reports) + 1])
     /\ UNCHANGED <<fails, weak, summary, notices, delivered, jobs, flagged, spent>>

\* A published report may be published again; nothing archives one.
PublishReport ==
  /\ spent.requests < MaxRequests /\ Spend("requests")
  /\ \E r \in DOMAIN reports :
       /\ reports[r].status = "GENERATED"
       /\ reports' = [reports EXCEPT ![r].status = "PUBLISHED"]
  /\ UNCHANGED <<fails, weak, summary, notices, delivered, jobs, task, flagged>>

-----------------------------------------------------------------------------
(* A notice.  The bus and the dispatcher catch every exception.               *)

AfterNotice(t) == IF t.notice = "AT_RISK" THEN AfterDashboard(t) ELSE Finished(t)

\* Mutation: the notice is marked before the transport is called.
LogNoticeSent(w) ==
  LET t == task[w]
  IN /\ t.at = "log"
     /\ \/ /\ notices' = Append(notices, [kind |-> t.notice, student |-> t.who,
                                          status |-> "SENT"])
           /\ Goes(w, [t EXCEPT !.at = "send", !.log = Len(notices) + 1])
           /\ UNCHANGED spent
        \/ /\ MayHappen
           /\ Goes(w, [t EXCEPT !.at = "send", !.log = 0])
           /\ UNCHANGED notices
     /\ UNCHANGED <<fails, weak, summary, reports, delivered, jobs, flagged>>

LogNotice(w) ==
  LET t == task[w]
  IN /\ t.at = "log"
     /\ \/ /\ notices' = Append(notices, [kind |-> t.notice, student |-> t.who,
                                          status |-> "PENDING"])
           /\ Goes(w, [t EXCEPT !.at = "send", !.log = Len(notices) + 1])
           /\ UNCHANGED spent
        \/ /\ MayHappen
           /\ Goes(w, [t EXCEPT !.at = "send", !.log = 0])
           /\ UNCHANGED notices
     /\ UNCHANGED <<fails, weak, summary, reports, delivered, jobs, flagged>>

Delivery(t) == [kind |-> t.notice, student |-> t.who, report |-> t.report, log |-> t.log]

\* Without a mail server the transport says MOCKED; an answer that is lost counts
\* as FAILED, whether the mail went out or not.
SendNotice(w) ==
  LET t == task[w]
  IN /\ t.at = "send"
     /\ \/ /\ Goes(w, [t EXCEPT !.at = "mark",
                               !.result = IF Configured THEN "SENT" ELSE "MOCKED"])
           /\ delivered' = IF Configured THEN delivered \cup {Delivery(t)} ELSE delivered
           /\ UNCHANGED spent
        \/ /\ MayHappen
           /\ Goes(w, [t EXCEPT !.at = "mark", !.result = "FAILED"])
           /\ delivered' \in {delivered, delivered \cup {Delivery(t)}}
     /\ UNCHANGED <<fails, weak, summary, reports, notices, jobs, flagged>>

MarkNotice(w) ==
  LET t == task[w]
  IN /\ t.at = "mark"
     /\ Goes(w, AfterNotice(t))
     /\ \/ /\ t.log # 0
           /\ notices' = [notices EXCEPT ![t.log].status = t.result]
           /\ UNCHANGED spent
        \/ /\ t.log # 0 /\ MayHappen
           /\ UNCHANGED notices
        \/ /\ t.log = 0
           /\ UNCHANGED <<notices, spent>>
     /\ UNCHANGED <<fails, weak, summary, reports, delivered, jobs, flagged>>

-----------------------------------------------------------------------------
(* Failures.  A request that fails is answered with an error.  A job catches an *)
(* exception for each item, but all items share its session.                   *)

Reading == {"list", "next", "profile", "evaluations", "profile again"}

AtItem(t) == (t.at = "next" /\ t.todo # {}) \/ t.at \in Reading \ {"list", "next"}

\* No connection can be had for a new transaction: the next item finds the session
\* as it was.
NoConnection(w) ==
  LET t == task[w]
  IN /\ t.job # 0 /\ MayHappen
     /\ \/ /\ t.at = "next"
           /\ \E item \in t.todo : Goes(w, [t EXCEPT !.todo = @ \ {item},
                                                  !.failed = @ \cup {item}])
        \/ /\ t.at = "profile again"
           /\ Goes(w, [Onward(t) EXCEPT !.failed = @ \cup {t.item}])
     /\ UNCHANGED <<fails, weak, summary, reports, notices, delivered, jobs, flagged>>

\* Mutation: only the item at hand is noted when the transaction is aborted.
RestOne(t) == IF t.at = "next" THEN {} ELSE {t.item}

\* What fails with the item at hand: in an aborted transaction no later statement
\* is accepted, and nothing rolls it back before the end of the job.
Rest(t) == t.todo \cup (IF t.at = "next" THEN {} ELSE {t.item})

AbortedStatement(w) ==
  LET t == task[w]
  IN /\ t.job # 0 /\ AtItem(t) /\ MayHappen
     /\ Goes(w, [Onward(t) EXCEPT !.todo = {}, !.failed = @ \cup Rest(t)])
     /\ UNCHANGED <<fails, weak, summary, reports, notices, delivered, jobs, flagged>>

\* Mutation: nothing catches what is raised outside the loop over the items.
BrokenUncaught(w) ==
  /\ Goes(w, Idle) /\ UNCHANGED jobs
  /\ UNCHANGED <<fails, weak, summary, reports, notices, delivered, flagged>>

\* The whole job fails, or the request: a failed flush leaves a session whose
\* objects cannot be read, not even to note the student; after a lost connection
\* the commit at the end raises.
Broken(w) ==
  /\ IF task[w].job = 0 THEN Goes(w, Idle) /\ UNCHANGED jobs ELSE Ended(w, "FAILED")
  /\ UNCHANGED <<fails, weak, summary, reports, notices, delivered, flagged>>

LostConnection(w) ==
  /\ task[w].at \in Reading \cup {"summary", "report"}
  /\ MayHappen
  /\ Broken(w)

\* Another dashboard has inserted the summary since it was looked for.
UniqueViolation(w) ==
  /\ task[w].at = "summary" /\ ~task[w].loaded.there /\ summary[task[w].who].there
  /\ UNCHANGED spent
  /\ Broken(w)

\* A restart: the registry is forgotten with the coroutines.
Crash ==
  /\ MayHappen
  /\ jobs' = <<>>
  /\ task' = [w \in Workers |-> Idle]
  /\ UNCHANGED <<fails, weak, summary, reports, notices, delivered, flagged>>

-----------------------------------------------------------------------------
(* The results behind the dashboards change (Evaluation, Mastery).             *)

Reevaluate ==
  /\ MayHappen
  /\ \E a \in UNION {Attempts[s] : s \in Students} : fails' = (fails \ {a}) \cup ({a} \ fails)
  /\ UNCHANGED <<weak, summary, reports, notices, delivered, jobs, task, flagged>>

MasteryMoves ==
  /\ MayHappen
  /\ \E s \in Students : weak' = (weak \ {s}) \cup ({s} \ weak)
  /\ UNCHANGED <<fails, summary, reports, notices, delivered, jobs, task, flagged>>

\* A coroutine goes on.
Step(w) ==
  \/ Running(w) \/ ListWork(w) \/ NextItem(w) \/ Complete(w) \/ Import(w)
  \/ ReadProfile(w) \/ ReadEvaluation(w) \/ ReadSummary(w) \/ SaveSummary(w)
  \/ ReadProfileAgain(w) \/ SaveReport(w)
  \/ LogNotice(w) \/ SendNotice(w) \/ MarkNotice(w)
  \/ NoConnection(w) \/ AbortedStatement(w) \/ LostConnection(w) \/ UniqueViolation(w)

Next ==
  \/ \E w \in Workers : Request(w) \/ Launch(w) \/ Step(w)
  \/ PublishReport \/ Crash \/ Reevaluate \/ MasteryMoves

\* The event loop runs every coroutine that can go on; the database and the
\* transports answer or time out.
Spec == Init /\ [][Next]_vars /\ \A w \in Workers : WF_vars(Step(w))

-----------------------------------------------------------------------------
(* Properties.                                                               *)

Made(j) == {r \in DOMAIN reports : reports[r].job = j}

\* The result of a COMPLETED job of report cards accounts for every attempt it
\* listed: as many snapshots of the job are committed as it says, and each other
\* attempt is among the failed ones, however its session failed in between
\* (jobs/tasks.py:145-180).
JobsTellAll ==
  \A j \in DOMAIN jobs :
    jobs[j].kind = "card" /\ jobs[j].status = "COMPLETED" =>
      /\ jobs[j].made = Cardinality(Made(j))
      /\ jobs[j].made + Cardinality(jobs[j].failed) = Cardinality(Sat)

\* Nothing is said that is not so: a row of the audit log that is SENT has been
\* handed over, a student is alerted about only after a summary at risk has been
\* committed, and a report is ready only after it has been (notifications/
\* service.py:109-151, analytics/service.py:148-166, reports/service.py:104-124).
\* These are the notices of the bus's handlers: what an administrator sends through
\* POST /notifications/test says what he likes.
NoticesTrue ==
  /\ \A n \in DOMAIN notices :
       notices[n].status = "SENT" =>
         \E d \in delivered : d.log = n /\ d.kind = notices[n].kind
                                       /\ d.student = notices[n].student
  /\ \A d \in delivered :
       IF d.kind = "AT_RISK" THEN d.student \in flagged
       ELSE d.report \in DOMAIN reports /\ reports[d.report].student = d.student

\* Whatever fails, a job that is registered is COMPLETED or FAILED in the end, or
\* forgotten by a restart: nobody polls a job that stays RUNNING (jobs/tasks.py).
JobsEnd ==
  \A j \in 1..MaxJobs :
    j \in DOMAIN jobs ~> (j \in DOMAIN jobs => jobs[j].status \in {"COMPLETED", "FAILED"})

=============================================================================
