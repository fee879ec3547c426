---------------------------- MODULE ReportingProofs ----------------------------
(***************************************************************************)
(* Proofs about module Reporting, for any number of coroutines, students,      *)
(* attempts, requests, jobs, failures and restarts.                           *)
(***************************************************************************)
EXTENDS Reporting, FiniteSetTheorems, SequenceTheorems, TLAPS

Kinds == {"none", "dashboard", "card", "class", "exam", "import"}

\* The steps at which a coroutine has an item, or the subject of a request, in hand.
Working == {"profile", "evaluations", "summary", "profile again", "report",
            "log", "send", "mark"}

Places == Working \cup {"idle", "launched", "list", "next", "import"}

Whoever == Students \cup {Klass}

Row == [failed : Nat, weak : BOOLEAN, atRisk : BOOLEAN, there : BOOLEAN]

Columns ==
  [at : Places, kind : Kinds, job : Nat, todo : SUBSET (Sat \cup Students),
   item : Sat \cup Students \cup {"none"}, made : Nat,
   failed : SUBSET (Sat \cup Students \cup {"none"}),
   who : Whoever \cup {"none"}, left : SUBSET UNION {Attempts[s] : s \in Students},
   seen : Row, loaded : Row, notice : {"none", "AT_RISK", "REPORT_READY"},
   report : Nat, log : Nat, result : {"none", "SENT", "MOCKED", "FAILED"}]

\* The columns of a coroutine fit together.
Fits(t) ==
  /\ t.todo \subseteq Items(t.kind)
  /\ t.at \in Working => t.who \in Whoever
  /\ t.at = "profile" \/ (t.at \in Working /\ t.job # 0) => t.who \in Students
  /\ t.at = "import" => t.kind = "import"
  /\ t.at = "mark" => t.result # "none"
  /\ t.at \in {"launched", "list", "next", "import"} => t.job # 0

Task == {t \in Columns : Fits(t)}

JobRow == [kind : Kinds, status : {"PENDING", "RUNNING", "COMPLETED", "FAILED"},
           made : Nat, failed : SUBSET (Sat \cup Students \cup {"none"} \cup Questions)]

Notice == [kind : {"AT_RISK", "REPORT_READY"}, student : Whoever,
           status : {"PENDING", "SENT", "MOCKED", "FAILED"}]

Report == [student : Whoever, dashboard : Row, job : Nat,
           status : {"GENERATED", "PUBLISHED"}]

Spent == [requests : Nat, jobs : Nat, events : Nat]

\* A registry of some of the n jobs there have been.
JobsTyped(js, n) == js \in [DOMAIN js -> JobRow] /\ DOMAIN js \subseteq 1 .. n

TypeInv ==
  /\ task \in [Workers -> Task] /\ spent \in Spent
  /\ summary \in [Whoever -> Row]
  /\ reports \in Seq(Report) /\ notices \in Seq(Notice)
  /\ JobsTyped(jobs, spent.jobs)
  /\ \A w \in Workers :
       task[w].at \in {"log", "send", "mark"} => task[w].notice # "none"

\* The notice of a report is still being sent, and the report not yet counted.
Telling(t) == t.at \in {"log", "send", "mark"} /\ t.notice = "REPORT_READY"

\* The job of a coroutine is in the registry, and has not ended.
Owned(t, js) ==
  t.job # 0 => /\ t.job \in DOMAIN js /\ js[t.job].kind = t.kind
               /\ js[t.job].status \in {"PENDING", "RUNNING"}

\* The snapshots of a job.
MadeIn(rs, j) == {r \in DOMAIN rs : rs[r].job = j}

\* Where each attempt of a job of report cards is, of which n are in snapshots.
Accounts(t, n) ==
  /\ t.todo \subseteq Sat /\ t.failed \subseteq Sat /\ t.todo \cap t.failed = {}
  /\ n = t.made + (IF Telling(t) THEN 1 ELSE 0)
  /\ t.at \in {"launched", "list"} => t.made = 0 /\ t.todo = {} /\ t.failed = {}
  /\ t.at = "next" =>
       t.made + Cardinality(t.failed) + Cardinality(t.todo) = Cardinality(Sat)
  /\ t.at \in Working =>
       /\ t.item \in Sat \ (t.todo \cup t.failed)
       /\ t.made + Cardinality(t.failed) + Cardinality(t.todo) + 1 = Cardinality(Sat)

Counted(t, rs) ==
  t.job # 0 /\ t.kind = "card" => Accounts(t, Cardinality(MadeIn(rs, t.job)))

\* A coroutine owns its job alone, and the job accounts for every attempt.
CountInv ==
  /\ \A w \in Workers : Owned(task[w], jobs) /\ Counted(task[w], reports)
  /\ \A w, v \in Workers : w # v /\ task[w].job # 0 => task[w].job # task[v].job
  /\ \A r \in DOMAIN reports : reports[r].job <= spent.jobs
  /\ JobsTellAll

\* What a coroutine has said, or is about to say, is so.
Tells(t, fl, rs, ns, ds) ==
  /\ t.at = "summary" /\ t.loaded.atRisk => t.who \in fl
  /\ t.at \in {"log", "send"} =>
       IF t.notice = "AT_RISK" THEN t.who \in fl
       ELSE t.report \in DOMAIN rs /\ rs[t.report].student = t.who
  /\ t.at \in {"send", "mark"} /\ t.log # 0 =>
       t.log \in DOMAIN ns /\ ns[t.log].kind = t.notice /\ ns[t.log].student = t.who
  /\ t.at = "mark" /\ t.result = "SENT" => Delivery(t) \in ds

TellInv ==
  /\ \A s \in Whoever : summary[s].atRisk => s \in flagged
  /\ \A w \in Workers : Tells(task[w], flagged, reports, notices, delivered)
  /\ NoticesTrue

-----------------------------------------------------------------------------
(* Types.                                                                    *)

\* A coroutine that does nothing.
LEMMA IdleTyped ==
  /\ Idle \in Task /\ NoRow \in Row /\ Idle.at = "idle" /\ Idle.job = 0
  /\ [NoRow EXCEPT !.there = TRUE] \in Row /\ NoRow.atRisk = FALSE
<1>1. NoRow \in Row /\ NoRow.atRisk = FALSE /\ [NoRow EXCEPT !.there = TRUE] \in Row
  BY DEF NoRow, Row
<1> QED BY <1>1 DEF Idle, Task, Columns, Fits, Places, Working, Kinds, Items

\* What a coroutine is when it goes on with the next item, or after a dashboard.
LEMMA OnwardTyped ==
  ASSUME NEW t \in Task, t.at \in Places \ {"idle"}
  PROVE  /\ t.job # 0 => /\ Onward(t) \in Task /\ Onward(t).at = "next"
                        /\ Onward(t).job = t.job /\ Onward(t).kind = t.kind
                        /\ Onward(t).made = t.made /\ Onward(t).failed = t.failed
                        /\ Onward(t).todo = t.todo
         /\ Finished(t) \in Task
<1>1. CASE t.job = 0
  BY <1>1, IdleTyped DEF Finished
<1>2. CASE t.job # 0
  <2>1. Idle \in Task
    BY IdleTyped
  <2>0. /\ Onward(t).at = "next" /\ Onward(t).job = t.job
        /\ Onward(t).kind = t.kind /\ Onward(t).made = t.made
        /\ Onward(t).failed = t.failed /\ Onward(t).todo = t.todo
    BY <2>1 DEF Onward, Task, Columns, Fits
  <2>5. /\ t.job \in Nat /\ t.kind \in Kinds /\ t.made \in Nat
        /\ t.failed \in SUBSET (Sat \cup Students \cup {"none"})
        /\ t.todo \in SUBSET (Sat \cup Students) /\ t.todo \subseteq Items(t.kind)
    BY DEF Task, Columns, Fits
  <2>6. "next" \in Places /\ "next" \notin Working
    BY DEF Places, Working
  <2>2. Onward(t) \in Task
    <3>1. Onward(t) \in Columns
      BY <2>1, <2>5, <2>6 DEF Onward, Task, Columns
    <3>2. Fits(Onward(t))
      BY <1>2, <2>0, <2>5, <2>6 DEF Fits
    <3> QED BY <3>1, <3>2 DEF Task
  <2> DEFINE made == t.made + 1
  <2>3. Finished(t) = [Onward(t) EXCEPT !.made = made] /\ made \in Nat
    BY <1>2, <2>0, <2>5 DEF Finished
  <2> HIDE DEF made
  <2>4. ASSUME NEW u \in Task PROVE [u EXCEPT !.made = made] \in Task
    BY <2>3 DEF Task, Columns, Fits
  <2> QED BY <1>2, <2>0, <2>2, <2>3, <2>4
<1> QED BY <1>1, <1>2

\* What a job counts, and the item at hand, are the same.
Same(t, u) ==
  /\ u.job = t.job /\ u.kind = t.kind /\ u.todo = t.todo /\ u.failed = t.failed
  /\ u.made = t.made /\ u.item = t.item

\* The job of a coroutine accounts for the same attempts.
Carries(t, u) ==
  /\ u.job = t.job
  /\ t.job # 0 => /\ u.kind = t.kind
                  /\ t.kind = "card" => \A n \in Nat : Accounts(t, n) => Accounts(u, n)

\* The job of a coroutine accounts for a report more.
Gains(t, u) ==
  /\ u.job = t.job
  /\ t.job # 0 => /\ u.kind = t.kind
                  /\ \A n \in Nat : Accounts(t, n) => Accounts(u, n + 1)

\* One coroutine goes on.
Moves(w, u) ==
  /\ u \in Task /\ task' = [task EXCEPT ![w] = u]
  /\ u.at \in {"log", "send", "mark"} => u.notice # "none"

\* The coroutines are tasks.
LEMMA TaskIs ==
  ASSUME TypeInv, NEW w \in Workers
  PROVE  task[w] \in Task /\ task \in [Workers -> Task]
BY DEF TypeInv

\* The columns of a task.
LEMMA ColumnsOf ==
  ASSUME NEW t \in Task
  PROVE  /\ t.at \in Places /\ t.kind \in Kinds /\ t.job \in Nat /\ t.made \in Nat
         /\ t.todo \subseteq Items(t.kind) /\ (t.at \in Working => t.who \in Whoever)
         /\ t.seen \in Row /\ t.loaded \in Row /\ t.log \in Nat /\ t.report \in Nat
         /\ t.notice \in {"none", "AT_RISK", "REPORT_READY"}
         /\ t.result \in {"none", "SENT", "MOCKED", "FAILED"}
         /\ t.at \in {"launched", "list", "next", "import"} => t.job # 0
BY DEF Task, Columns, Fits

\* Only where the coroutine is has changed.
LEMMA SameCarries ==
  ASSUME NEW t, NEW u, Same(t, u), t.at \in Working, u.at \in Working,
         Telling(t) <=> Telling(u)
  PROVE  Carries(t, u)
BY DEF Same, Carries, Accounts, Working

\* The student whose attempt is listed.
LEMMA StudentIs ==
  ASSUME NEW kind \in Kinds, NEW item \in Items(kind)
  PROVE  /\ StudentOf(kind, item) \in Students
         /\ kind = "card" => Attempts[StudentOf(kind, item)] # {}
<1>1. CASE kind = "card"
  <2>1. item \in Sat
    BY <1>1 DEF Items
  <2>2. \E s \in Students : item \in Attempts[s]
    BY <2>1, ReportingAssumption
  <2>3. /\ (CHOOSE s \in Students : item \in Attempts[s]) \in Students
        /\ item \in Attempts[CHOOSE s \in Students : item \in Attempts[s]]
    BY <2>2
  <2> QED BY <1>1, <2>3 DEF StudentOf
<1>2. CASE kind # "card"
  BY <1>2 DEF Items, StudentOf
<1> QED BY <1>1, <1>2

-----------------------------------------------------------------------------
(* What the steps of a coroutine do.                                         *)

\* A profile is read.
LEMMA ProfileIs ==
  ASSUME TypeInv, NEW w \in Workers, ReadProfile(w)
  PROVE  \E u : Moves(w, u) /\ Carries(task[w], u) /\ u.at = "evaluations"
<1> DEFINE t == task[w]
           left == Attempts[t.who]
           low  == t.who \in weak
           seen == [NoRow EXCEPT !.there = TRUE, !.weak = low]
           u == [t EXCEPT !.at = "evaluations", !.left = left, !.seen = seen]
<1>1. t \in Task /\ t.at = "profile" /\ task' = [task EXCEPT ![w] = u]
  BY TaskIs DEF ReadProfile, Goes
<1>0. low \in BOOLEAN
  OBVIOUS
<1> HIDE DEF low
<1>2. seen \in Row
  BY <1>0 DEF NoRow, Row
<1>3. t.who \in Students
  BY <1>1 DEF Task, Columns, Fits
<1>4. left \subseteq UNION {Attempts[s] : s \in Students}
  BY <1>3
<1> HIDE DEF left, seen
<1>5. u \in Task /\ u.at = "evaluations" /\ Same(t, u)
  BY <1>1, <1>2, <1>4 DEF Task, Columns, Fits, Places, Working, Same
<1> HIDE DEF t, u
<1>6. Carries(t, u)
  BY <1>1, <1>5, SameCarries DEF Working, Telling
<1> QED BY <1>1, <1>5, <1>6 DEF Moves, t

\* An evaluation is read.
LEMMA EvaluationIs ==
  ASSUME TypeInv, NEW w \in Workers, ReadEvaluation(w)
  PROVE  \E u : Moves(w, u) /\ Carries(task[w], u) /\ u.at = "evaluations"
<1> DEFINE t == task[w]
<1>1. PICK a \in t.left :
        Goes(w, [task[w] EXCEPT !.left = @ \ {a},
                                !.seen.failed = IF a \in fails THEN @ + 1 ELSE @])
  BY DEF ReadEvaluation
<1> DEFINE left == t.left \ {a}
           failed == IF a \in fails THEN t.seen.failed + 1 ELSE t.seen.failed
           seen == [t.seen EXCEPT !.failed = failed]
           u == [t EXCEPT !.left = left, !.seen = seen]
<1>2. t \in Task /\ t.at = "evaluations" /\ t.seen \in Row
  BY TaskIs, ColumnsOf DEF ReadEvaluation
<1>3. task' = [task EXCEPT ![w] = u]
  BY <1>1, <1>2 DEF Goes
<1>4. seen \in Row /\ left \subseteq UNION {Attempts[s] : s \in Students}
  BY <1>2 DEF Row, Task, Columns, Fits
<1> HIDE DEF left, seen
<1>5. u \in Task /\ u.at = "evaluations" /\ Same(t, u)
  BY <1>2, <1>4 DEF Task, Columns, Fits, Places, Working, Same
<1> HIDE DEF t, u
<1>6. Carries(t, u)
  BY <1>2, <1>5, SameCarries DEF Working, Telling
<1> QED BY <1>3, <1>5, <1>6 DEF Moves, t

\* The summary of the student is looked for.
LEMMA SummaryIs ==
  ASSUME TypeInv, NEW w \in Workers, ReadSummary(w)
  PROVE  \E u : /\ Moves(w, u) /\ Carries(task[w], u) /\ u.at = "summary"
               /\ u.who \in Whoever /\ u.loaded = summary[u.who]
<1> DEFINE t == task[w]
           loaded == summary[t.who]
           seen == [t.seen EXCEPT !.atRisk = t.who # Klass /\ AtRisk(t.seen)]
           u == [t EXCEPT !.at = "summary", !.loaded = loaded, !.seen = seen]
<1>1. t \in Task /\ t.at = "evaluations" /\ t.seen \in Row /\ t.who \in Whoever
  BY TaskIs, ColumnsOf DEF ReadSummary, Working
<1>2. task' = [task EXCEPT ![w] = u]
  BY <1>1 DEF Goes, ReadSummary
<1>3. seen \in Row /\ loaded \in Row
  BY <1>1 DEF Row, TypeInv, AtRisk
<1>4. loaded = summary[t.who]
  OBVIOUS
<1> HIDE DEF loaded, seen
<1>5. /\ u \in Task /\ u.at = "summary" /\ Same(t, u) /\ u.who = t.who
      /\ u.loaded = loaded
  BY <1>1, <1>3 DEF Task, Columns, Fits, Places, Working, Same
<1> HIDE DEF t, u
<1>6. Carries(t, u)
  BY <1>1, <1>5, SameCarries DEF Working, Telling
<1> QED BY <1>1, <1>2, <1>4, <1>5, <1>6 DEF Moves, t

\* The profile is read once more.
LEMMA AgainIs ==
  ASSUME TypeInv, NEW w \in Workers, ReadProfileAgain(w)
  PROVE  \E u : Moves(w, u) /\ Carries(task[w], u) /\ u.at = "report"
<1> DEFINE t == task[w]
           u == [t EXCEPT !.at = "report"]
<1>1. t \in Task /\ t.at = "profile again" /\ task' = [task EXCEPT ![w] = u]
  BY TaskIs DEF ReadProfileAgain, Goes
<1>2. u \in Task /\ u.at = "report" /\ Same(t, u)
  BY <1>1 DEF Task, Columns, Fits, Places, Working, Same
<1> HIDE DEF t, u
<1>3. Carries(t, u)
  BY <1>1, <1>2, SameCarries DEF Working, Telling
<1> QED BY <1>1, <1>2, <1>3 DEF Moves, t

-----------------------------------------------------------------------------
(* The items of a job.                                                       *)

\* The attempts of an exam, and any of them, can be counted.
LEMMA SatCounts ==
  ASSUME NEW T \in SUBSET Sat
  PROVE  IsFiniteSet(T) /\ Cardinality(T) \in Nat
BY ReportingAssumption, FS_Subset, FS_CardinalityType

\* What the account of a job says, unless a report is being announced.
LEMMA AccountsAre ==
  ASSUME NEW t, t.made \in Nat, NEW n, Accounts(t, n), ~Telling(t)
  PROVE  /\ t.todo \subseteq Sat /\ t.failed \subseteq Sat /\ t.todo \cap t.failed = {}
         /\ n = t.made
         /\ Cardinality(t.failed) \in Nat /\ Cardinality(t.todo) \in Nat
         /\ Cardinality(Sat) \in Nat
         /\ t.at = "next" =>
              t.made + Cardinality(t.failed) + Cardinality(t.todo) = Cardinality(Sat)
         /\ t.at \in Working =>
              /\ t.item \in Sat \ (t.todo \cup t.failed)
              /\ t.made + Cardinality(t.failed) + Cardinality(t.todo) + 1 = Cardinality(Sat)
<1>1. t.todo \subseteq Sat /\ t.failed \subseteq Sat /\ t.todo \cap t.failed = {}
  BY DEF Accounts
<1>2. n = t.made
  BY DEF Accounts
<1>3. /\ Cardinality(t.failed) \in Nat /\ Cardinality(t.todo) \in Nat
      /\ Cardinality(Sat) \in Nat
  BY <1>1, SatCounts
<1>4. t.at = "next" =>
        t.made + Cardinality(t.failed) + Cardinality(t.todo) = Cardinality(Sat)
  BY DEF Accounts
<1>5. t.at \in Working =>
        /\ t.item \in Sat \ (t.todo \cup t.failed)
        /\ t.made + Cardinality(t.failed) + Cardinality(t.todo) + 1 = Cardinality(Sat)
  BY DEF Accounts
<1> QED BY <1>1, <1>2, <1>3, <1>4, <1>5

\* What the account of a job has to say before its next item.
LEMMA NextAccounts ==
  ASSUME NEW u, u.at = "next", u.made \in Nat,
         u.todo \subseteq Sat, u.failed \subseteq Sat, u.todo \cap u.failed = {},
         u.made + Cardinality(u.failed) + Cardinality(u.todo) = Cardinality(Sat)
  PROVE  Accounts(u, u.made)
BY DEF Accounts, Telling, Working

\* An item that is done is counted once: its report before, its job after.
LEMMA FinishedIs ==
  ASSUME NEW t \in Task, t.at \in Working, t.job # 0 /\ t.kind = "card" => Telling(t)
  PROVE  /\ Finished(t) \in Task /\ Finished(t).at \in {"idle", "next"}
         /\ Carries(t, Finished(t))
<1> DEFINE u == Finished(t)
<1>1. u \in Task
  BY OnwardTyped DEF Places, Working
<1>2. CASE t.job = 0
  BY <1>1, <1>2, IdleTyped DEF Finished, Carries
<1>3. CASE t.job # 0
  <2>1. t.at \in Places \ {"idle"} /\ t.made \in Nat
    BY ColumnsOf DEF Places, Working
  <2>2. /\ u.at = "next" /\ u.job = t.job /\ u.kind = t.kind /\ u.made = t.made + 1
        /\ u.failed = t.failed /\ u.todo = t.todo
    BY ZenonT(120), <1>3, <2>1, OnwardTyped DEF Finished, Task, Columns, Fits
  <2> HIDE DEF u
  <2>3. ASSUME t.kind = "card", NEW n \in Nat, Accounts(t, n) PROVE Accounts(u, n)
    <3>1. Cardinality(t.failed) \in Nat /\ Cardinality(t.todo) \in Nat
      BY <2>3, SatCounts DEF Accounts
    <3>2. n = t.made + 1 /\ ~Telling(u) /\ u.at \notin Working /\ u.at # "launched"
      BY <1>3, <2>2, <2>3 DEF Accounts, Telling, Working
    <3> QED BY <2>1, <2>2, <2>3, <3>1, <3>2 DEF Accounts
  <2> QED BY <1>1, <2>2, <2>3 DEF Carries, u
<1> QED BY <1>2, <1>3

\* After a dashboard its report is made, or the next item.
LEMMA AfterIs ==
  ASSUME NEW t \in Task, t.at \in Working, ~Telling(t)
  PROVE  /\ AfterDashboard(t) \in Task
         /\ AfterDashboard(t).at \in {"idle", "next", "report", "profile again"}
         /\ Carries(t, AfterDashboard(t))
<1>1. CASE t.kind \notin {"card", "exam"}
  BY <1>1, FinishedIs DEF AfterDashboard
<1>2. CASE t.kind \in {"card", "exam"}
  <2> DEFINE at == IF t.kind = "exam" THEN "report" ELSE "profile again"
             u == [t EXCEPT !.at = at, !.loaded = NoRow, !.notice = "none", !.log = 0,
                            !.result = "none"]
  <2>1. u = AfterDashboard(t) /\ at \in {"report", "profile again"}
    BY <1>2 DEF AfterDashboard
  <2> HIDE DEF at
  <2>2. u \in Task /\ u.at = at /\ Same(t, u)
    <3>1. t \in Columns /\ Fits(t) /\ NoRow \in Row
      BY IdleTyped DEF Task
    <3>2. /\ u \in Columns /\ u.at = at /\ Same(t, u) /\ u.who = t.who
      BY <2>1, <3>1 DEF Columns, Places, Working, Same
    <3> HIDE DEF u
    <3>3. Fits(u)
      BY <2>1, <3>1, <3>2 DEF Fits, Same, Working
    <3> QED BY <3>2, <3>3 DEF Task
  <2>3. Carries(t, u)
    <3> HIDE DEF u
    <3> QED BY <2>1, <2>2, SameCarries DEF Working, Telling
  <2> QED BY <2>1, <2>2, <2>3
<1> QED BY <1>1, <1>2

\* A job lists what it will do.
LEMMA ListIs ==
  ASSUME TypeInv, NEW w \in Workers, ListWork(w)
  PROVE  \E u : Moves(w, u) /\ Carries(task[w], u) /\ u.at = "next"
<1> DEFINE t == task[w]
           todo == Items(t.kind)
           u == [t EXCEPT !.at = "next", !.todo = todo]
<1>1. t \in Task /\ t.at = "list" /\ task' = [task EXCEPT ![w] = u] /\ t.job # 0
  BY TaskIs, ColumnsOf DEF ListWork, Goes
<1>2. todo \subseteq Sat \cup Students /\ todo \subseteq Items(t.kind)
  BY DEF Items
<1>3. t.kind = "card" => todo = Sat
  BY DEF Items
<1> HIDE DEF todo
<1>4. /\ u \in Task /\ u.at = "next" /\ u.job = t.job /\ u.kind = t.kind
      /\ u.todo = todo /\ u.made = t.made /\ u.failed = t.failed
  BY ZenonT(120), <1>1, <1>2 DEF Task, Columns, Fits, Places, Working
<1> HIDE DEF t, u
<1>5. ASSUME t.kind = "card", NEW n \in Nat, Accounts(t, n) PROVE Accounts(u, n)
  <2>1. t.made = 0 /\ t.failed = {} /\ n = 0
    BY <1>1, <1>5 DEF Accounts, Telling
  <2>2. Cardinality(Sat) \in Nat /\ Cardinality({}) = 0
    BY SatCounts, FS_EmptySet
  <2>3. u.todo = Sat /\ u.failed = {} /\ u.made = 0
    BY <1>3, <1>4, <1>5, <2>1
  <2>4. u.made + Cardinality(u.failed) + Cardinality(u.todo) = Cardinality(Sat)
    BY <2>2, <2>3
  <2> QED BY <1>4, <2>1, <2>3, <2>4 DEF Accounts, Telling, Working
<1> QED BY <1>1, <1>4, <1>5 DEF Moves, Carries, t

\* A job takes the next item.
LEMMA NextIs ==
  ASSUME TypeInv, NEW w \in Workers, NextItem(w)
  PROVE  \E u : Moves(w, u) /\ Carries(task[w], u) /\ u.at \in {"next", "profile"}
<1> DEFINE t == task[w]
<1>1. t \in Task /\ t.at = "next" /\ t.job # 0 /\ t.kind \in Kinds
      /\ t.todo \subseteq Items(t.kind)
  BY TaskIs, ColumnsOf DEF NextItem
<1>2. PICK item \in t.todo :
        LET s == StudentOf(t.kind, item)
            v == [t EXCEPT !.todo = @ \ {item}, !.item = item, !.who = s]
        IN Goes(w, IF Attempts[s] = {} THEN v ELSE [v EXCEPT !.at = "profile"])
  BY DEF NextItem
<1> DEFINE s == StudentOf(t.kind, item)
           todo == t.todo \ {item}
           at == IF Attempts[s] = {} THEN "next" ELSE "profile"
           u == [t EXCEPT !.at = at, !.todo = todo, !.item = item, !.who = s]
<1>3. s \in Students /\ (t.kind = "card" => at = "profile")
  BY <1>1, StudentIs
<1>4. task' = [task EXCEPT ![w] = u]
  BY <1>1, <1>2 DEF Goes, Task, Columns, Fits
<1>5. at \in {"next", "profile"} /\ todo \subseteq t.todo /\ item \in Items(t.kind)
      /\ item \in Sat \cup Students
  BY <1>1 DEF Items
<1>6. todo = t.todo \ {item}
  OBVIOUS
<1> HIDE DEF at, todo, s
<1>7. /\ u \in Task /\ u.at = at /\ u.job = t.job /\ u.kind = t.kind
      /\ u.todo = todo /\ u.made = t.made /\ u.failed = t.failed /\ u.item = item
  BY <1>1, <1>3, <1>5 DEF Task, Columns, Fits, Places, Working, Whoever
<1> HIDE DEF t, u
<1>8. ASSUME t.kind = "card", NEW n \in Nat, Accounts(t, n) PROVE Accounts(u, n)
  <2>1. /\ t.todo \subseteq Sat /\ t.failed \subseteq Sat /\ t.todo \cap t.failed = {}
        /\ t.made + Cardinality(t.failed) + Cardinality(t.todo) = Cardinality(Sat)
        /\ n = t.made /\ t.made \in Nat
    BY <1>1, <1>8, ColumnsOf DEF Accounts, Telling
  <2>2. Cardinality(todo) = Cardinality(t.todo) - 1
    BY <1>6, <2>1, SatCounts, FS_RemoveElement
  <2>3. /\ Cardinality(t.failed) \in Nat /\ Cardinality(t.todo) \in Nat
        /\ Cardinality(Sat) \in Nat
    BY <2>1, SatCounts
  <2>4. u.made + Cardinality(u.failed) + Cardinality(u.todo) + 1 = Cardinality(Sat)
    BY <1>7, <2>1, <2>2, <2>3
  <2>5. /\ u.todo \subseteq Sat /\ u.failed \subseteq Sat /\ u.todo \cap u.failed = {}
        /\ u.item \in Sat \ (u.todo \cup u.failed)
    BY <1>6, <1>7, <2>1
  <2>6. u.at = "profile"
    BY <1>3, <1>7, <1>8
  <2> QED BY <1>7, <2>1, <2>4, <2>5, <2>6 DEF Accounts, Telling
<1> QED BY <1>1, <1>4, <1>5, <1>7, <1>8 DEF Moves, Carries, t

-----------------------------------------------------------------------------
(* What is saved and said.                                                   *)

\* A row that is written is a row; a column that has not changed is as stored.
LEMMA WrittenIs ==
  ASSUME NEW stored \in Row, NEW loaded \in Row, NEW value \in Row
  PROVE  /\ Written(stored, loaded, value) \in Row
         /\ Written(stored, loaded, value).atRisk =
              IF value.atRisk = loaded.atRisk THEN stored.atRisk ELSE value.atRisk
<1> DEFINE row == Written(stored, loaded, value)
           New(c) == IF value[c] = loaded[c] THEN stored[c] ELSE value[c]
<1>1. /\ DOMAIN stored = {"failed", "weak", "atRisk", "there"}
      /\ stored.failed \in Nat /\ value.failed \in Nat
      /\ stored.weak \in BOOLEAN /\ value.weak \in BOOLEAN
      /\ stored.atRisk \in BOOLEAN /\ value.atRisk \in BOOLEAN
      /\ stored.there \in BOOLEAN /\ value.there \in BOOLEAN
  BY DEF Row
<1>2. row = [c \in DOMAIN stored |-> New(c)]
  BY DEF Written
<1>3. row = [failed |-> New("failed"), weak |-> New("weak"),
             atRisk |-> New("atRisk"), there |-> New("there")]
  BY <1>1, <1>2
<1>4. /\ New("failed") \in Nat /\ New("weak") \in BOOLEAN
      /\ New("atRisk") \in BOOLEAN /\ New("there") \in BOOLEAN
  BY <1>1
<1>5. row \in Row
  <2> HIDE DEF row, New
  <2> QED BY <1>3, <1>4 DEF Row
<1> QED BY <1>1, <1>2, <1>5

\* Where nothing is said there is nothing to keep.
LEMMA QuietTells ==
  ASSUME NEW u, u.at \notin {"summary", "log", "send", "mark"},
         NEW fl, NEW rs, NEW ns, NEW ds
  PROVE  Tells(u, fl, rs, ns, ds)
BY DEF Tells

\* The summary is saved, and a student at risk on record as one before the alert.
LEMMA SaveIs ==
  ASSUME TypeInv, TellInv, NEW w \in Workers, SaveSummary(w)
  PROVE  /\ \E u : /\ Moves(w, u) /\ Carries(task[w], u)
                  /\ Tells(u, flagged', reports, notices, delivered)
         /\ summary' \in [Whoever -> Row] /\ flagged \subseteq flagged'
         /\ \A s \in Whoever : summary'[s].atRisk => s \in flagged'
<1> DEFINE t == task[w]
           s == t.who
           row == Written(summary[s], t.loaded, t.seen)
           v == [t EXCEPT !.at = "log", !.notice = "AT_RISK", !.report = 0]
           u == IF t.seen.atRisk THEN v ELSE AfterDashboard(t)
<1>1. /\ t \in Task /\ t.at = "summary" /\ s \in Whoever /\ t.seen \in Row
      /\ t.loaded \in Row /\ summary \in [Whoever -> Row] /\ summary[s] \in Row
      /\ t.seen.atRisk \in BOOLEAN
  BY TaskIs, ColumnsOf DEF SaveSummary, Working, TypeInv, Row
<1>2. /\ row \in Row
      /\ row.atRisk = IF t.seen.atRisk = t.loaded.atRisk THEN summary[s].atRisk
                      ELSE t.seen.atRisk
  BY <1>1, WrittenIs
<1>3. /\ summary' = [summary EXCEPT ![s] = row]
      /\ flagged' = IF summary'[s].atRisk THEN flagged \cup {s} ELSE flagged
      /\ task' = [task EXCEPT ![w] = u]
  BY DEF SaveSummary, Goes
<1>4. /\ v \in Task /\ v.at = "log" /\ v.notice = "AT_RISK" /\ v.who = s /\ Same(t, v)
  BY ZenonT(120), <1>1 DEF Task, Columns, Fits, Places, Working, Same
<1>5. /\ t.loaded.atRisk => s \in flagged
      /\ \A x \in Whoever : summary[x].atRisk => x \in flagged
  BY <1>1 DEF TellInv, Tells
<1> HIDE DEF t, s, row, v
<1>6. summary'[s] = row /\ \A x \in Whoever \ {s} : summary'[x] = summary[x]
  BY <1>1, <1>3
<1>7. flagged \subseteq flagged' /\ (t.seen.atRisk => s \in flagged')
  BY <1>2, <1>3, <1>5, <1>6
<1>8. \A x \in Whoever : summary'[x].atRisk => x \in flagged'
  BY <1>3, <1>5, <1>6, <1>7
<1>9. summary' \in [Whoever -> Row]
  BY <1>1, <1>2, <1>3
<1>10. CASE t.seen.atRisk
  <2>1. Carries(t, v)
    BY <1>1, <1>4, SameCarries DEF Working, Telling
  <2>2. Tells(v, flagged', reports, notices, delivered)
    BY <1>4, <1>7, <1>10 DEF Tells
  <2> QED BY <1>3, <1>4, <1>7, <1>8, <1>9, <1>10, <2>1, <2>2 DEF Moves, t
<1>11. CASE ~t.seen.atRisk
  <2>1. /\ u = AfterDashboard(t) /\ u \in Task /\ Carries(t, u)
        /\ u.at \in {"idle", "next", "report", "profile again"}
    BY <1>1, <1>11, AfterIs DEF Working, Telling
  <2> HIDE DEF u
  <2>2. Tells(u, flagged', reports, notices, delivered)
    BY <2>1, QuietTells
  <2> QED BY <1>3, <1>7, <1>8, <1>9, <2>1, <2>2 DEF Moves, t
<1> QED BY <1>1, <1>10, <1>11

\* A report is saved: one more snapshot of the job, before it is counted.
LEMMA ReportIs ==
  ASSUME TypeInv, NEW w \in Workers, SaveReport(w)
  PROVE  \E u, r : /\ Moves(w, u) /\ r \in Report /\ r.job = task[w].job
                  /\ reports' = Append(reports, r)
                  /\ Tells(u, flagged, reports', notices, delivered)
                  /\ Gains(task[w], u)
<1> DEFINE t == task[w]
           r == [student |-> t.who, dashboard |-> t.seen, job |-> t.job,
                 status |-> "GENERATED"]
           report == Len(reports) + 1
           v == [t EXCEPT !.at = "log", !.notice = "REPORT_READY", !.report = report]
           u == IF t.who = Klass THEN Finished(t) ELSE v
<1>0. t \in Task /\ t.at = "report" /\ reports \in Seq(Report)
  BY TaskIs DEF SaveReport, TypeInv
<1>1. /\ t \in Task /\ t.at = "report" /\ t.who \in Whoever /\ t.seen \in Row
      /\ t.job \in Nat /\ reports \in Seq(Report) /\ report \in Nat
  <2>1. report \in Nat
    BY <1>0
  <2> QED BY <1>0, <2>1, ColumnsOf DEF Working
<1>2. r \in Report /\ r.job = t.job /\ r.student = t.who
  BY <1>1 DEF Report
<1>3. reports' = Append(reports, r) /\ task' = [task EXCEPT ![w] = u]
  BY DEF SaveReport, Goes
<1> HIDE DEF r
<1>4. report \in DOMAIN reports' /\ reports'[report] = r
  BY <1>1, <1>2, <1>3, AppendProperties
<1> HIDE DEF report
<1>5. /\ v \in Task /\ v.at = "log" /\ v.notice = "REPORT_READY" /\ v.who = t.who
      /\ Same(t, v) /\ v.report = report
  BY ZenonT(120), <1>1 DEF Task, Columns, Fits, Places, Working, Same
<1>6. CASE t.who = Klass
  <2>1. t.job = 0
    BY <1>1, <1>6, ReportingAssumption DEF Task, Columns, Fits, Working
  <2>2. u = Idle
    BY <1>6, <2>1 DEF Finished
  <2> HIDE DEF t, u
  <2>3. Tells(u, flagged, reports', notices, delivered)
    BY <2>2, IdleTyped, QuietTells
  <2> QED BY <1>2, <1>3, <2>1, <2>2, <2>3, IdleTyped DEF Moves, Gains, t
<1>7. CASE t.who # Klass
  <2>1. u = v
    BY <1>7
  <2> HIDE DEF t, v, u
  <2>2. Tells(v, flagged, reports', notices, delivered)
    BY <1>2, <1>4, <1>5 DEF Tells
  <2>3. ASSUME NEW n \in Nat, Accounts(t, n) PROVE Accounts(v, n + 1)
    <3>1. Telling(v) /\ ~Telling(t) /\ t.made \in Nat
      BY <1>1, <1>5, ColumnsOf DEF Telling
    <3> QED BY <1>1, <1>5, <2>3, <3>1 DEF Accounts, Same, Working
  <2> QED BY <1>2, <1>3, <1>5, <2>1, <2>2, <2>3 DEF Moves, Same, Gains, t
<1> QED BY <1>6, <1>7

\* How the audit log may change: rows stay, and keep whom they are about.
LogKept ==
  /\ notices' \in Seq(Notice)
  /\ \A n \in DOMAIN notices :
       n \in DOMAIN notices' /\ notices'[n].kind = notices[n].kind
                             /\ notices'[n].student = notices[n].student

\* Only the count of failures, or nothing, is spent.
MaySpend == spent' \in Spent /\ spent'.jobs = spent.jobs

\* A failure is counted.
LEMMA HappenIs ==
  ASSUME TypeInv, MayHappen \/ UNCHANGED spent
  PROVE  MaySpend
<1> DEFINE events == spent.events + 1
<1>1. spent \in Spent /\ events \in Nat
  BY DEF TypeInv, Spent
<1>2. CASE UNCHANGED spent
  BY <1>1, <1>2 DEF MaySpend
<1>3. CASE MayHappen
  <2>1. spent' = [spent EXCEPT !.events = events]
    BY <1>1, <1>3 DEF MayHappen, Spend, Spent
  <2> HIDE DEF events
  <2> QED BY <1>1, <2>1 DEF MaySpend, Spent
<1> QED BY <1>2, <1>3

\* The row of a notice is inserted, PENDING; or that fails, and there is none.
LEMMA LogIs ==
  ASSUME TypeInv, TellInv, NEW w \in Workers, LogNotice(w)
  PROVE  /\ \E u : /\ Moves(w, u) /\ Carries(task[w], u)
                  /\ Tells(u, flagged, reports, notices', delivered)
         /\ LogKept /\ MaySpend
         /\ \A n \in DOMAIN notices' :
              n \in DOMAIN notices \/ notices'[n].status = "PENDING"
         /\ \A n \in DOMAIN notices : notices'[n] = notices[n]
<1> DEFINE t == task[w]
           r == [kind |-> t.notice, student |-> t.who, status |-> "PENDING"]
           next == Len(notices) + 1
           Goto(log) == [t EXCEPT !.at = "send", !.log = log]
<1>1. /\ t \in Task /\ t.at = "log" /\ notices \in Seq(Notice)
      /\ t.notice \in {"AT_RISK", "REPORT_READY"}
  BY TaskIs, ColumnsOf DEF LogNotice, TypeInv
<1>2. t.who \in Whoever
  BY <1>1, ColumnsOf DEF Working
<1>3. /\ r \in Notice /\ r.kind = t.notice /\ r.student = t.who /\ r.status = "PENDING"
      /\ next \in Nat \ {0}
  BY <1>1, <1>2 DEF Notice
<1>4. Tells(t, flagged, reports, notices, delivered)
  BY DEF TellInv
<1>5. ASSUME NEW log \in Nat
      PROVE  LET u == Goto(log)
             IN /\ u \in Task /\ u.at = "send" /\ u.log = log /\ u.notice = t.notice
                /\ u.who = t.who /\ u.report = t.report /\ Carries(t, u)
  <2> DEFINE u == Goto(log)
  <2>1. /\ u \in Task /\ u.at = "send" /\ u.log = log /\ u.notice = t.notice
        /\ u.who = t.who /\ u.report = t.report /\ Same(t, u)
    BY <1>1 DEF Task, Columns, Fits, Places, Working, Same
  <2> HIDE DEF t, u
  <2>2. Carries(t, u)
    BY <1>1, <2>1, SameCarries DEF Working, Telling
  <2> QED BY <2>1, <2>2 DEF u
<1>6. CASE /\ notices' = Append(notices, r) /\ Goes(w, Goto(next)) /\ UNCHANGED spent
  <2> DEFINE u == Goto(next)
  <2>1. /\ u \in Task /\ u.at = "send" /\ u.log = next /\ u.notice = t.notice
        /\ u.who = t.who /\ u.report = t.report /\ Carries(t, u)
        /\ task' = [task EXCEPT ![w] = u]
    BY <1>3, <1>5, <1>6 DEF Goes
  <2> HIDE DEF r, u, t
  <2>2. /\ notices' \in Seq(Notice) /\ next \in DOMAIN notices' /\ notices'[next] = r
        /\ DOMAIN notices' = DOMAIN notices \cup {next}
        /\ \A n \in DOMAIN notices : notices'[n] = notices[n]
    BY <1>1, <1>3, <1>6, AppendProperties
  <2> HIDE DEF next
  <2>3. Tells(u, flagged, reports, notices', delivered)
    BY <1>1, <1>3, <1>4, <2>1, <2>2 DEF Tells
  <2>4. Moves(w, u)
    BY <1>1, <2>1 DEF Moves
  <2>5. LogKept /\ MaySpend
    BY <1>6, <2>2, HappenIs DEF LogKept
  <2> QED BY <1>3, <2>1, <2>2, <2>3, <2>4, <2>5 DEF t
<1>7. CASE /\ MayHappen /\ Goes(w, Goto(0)) /\ UNCHANGED notices
  <2> DEFINE u == Goto(0)
  <2>1. /\ u \in Task /\ u.at = "send" /\ u.log = 0 /\ u.notice = t.notice
        /\ u.who = t.who /\ u.report = t.report /\ Carries(t, u)
        /\ task' = [task EXCEPT ![w] = u]
    BY <1>5, <1>7 DEF Goes
  <2> HIDE DEF r, u, t
  <2>2. Tells(u, flagged, reports, notices', delivered)
    BY <1>1, <1>4, <1>7, <2>1 DEF Tells
  <2>3. Moves(w, u)
    BY <1>1, <2>1 DEF Moves
  <2>4. LogKept /\ MaySpend
    BY <1>1, <1>7, HappenIs DEF LogKept
  <2> QED BY <1>7, <2>1, <2>2, <2>3, <2>4 DEF t
<1> QED BY <1>6, <1>7 DEF LogNotice

\* What is handed over is so.
IsSo(d, fl, rs) ==
  IF d.kind = "AT_RISK" THEN d.student \in fl
  ELSE d.report \in DOMAIN rs /\ rs[d.report].student = d.student

\* The transport is called: SENT only if it was handed over.
LEMMA SendIs ==
  ASSUME TypeInv, TellInv, NEW w \in Workers, SendNotice(w)
  PROVE  /\ \E u : /\ Moves(w, u) /\ Carries(task[w], u)
                  /\ Tells(u, flagged, reports, notices, delivered')
         /\ delivered \subseteq delivered' /\ MaySpend
         /\ \A d \in delivered' \ delivered : IsSo(d, flagged, reports)
<1> DEFINE t == task[w]
           Goto(result) == [t EXCEPT !.at = "mark", !.result = result]
<1>1. t \in Task /\ t.at = "send" /\ t.notice # "none"
  BY TaskIs DEF SendNotice, TypeInv
<1>2. /\ Tells(t, flagged, reports, notices, delivered)
      /\ Delivery(t).kind = t.notice /\ Delivery(t).student = t.who
      /\ Delivery(t).report = t.report
  BY DEF TellInv, Delivery
<1>3. PICK result \in {"SENT", "MOCKED", "FAILED"} :
        /\ Goes(w, Goto(result)) /\ (MayHappen \/ UNCHANGED spent)
        /\ result = "SENT" => Delivery(t) \in delivered'
        /\ delivered' \in {delivered, delivered \cup {Delivery(t)}}
  BY DEF SendNotice
<1> DEFINE u == Goto(result)
<1>4. /\ u \in Task /\ u.at = "mark" /\ u.log = t.log /\ u.notice = t.notice
      /\ u.who = t.who /\ u.report = t.report /\ Same(t, u) /\ u.result = result
  BY <1>1 DEF Task, Columns, Fits, Places, Working, Same
<1>5. task' = [task EXCEPT ![w] = u]
  BY <1>3 DEF Goes
<1> HIDE DEF t, u
<1>6. Carries(t, u)
  BY <1>1, <1>4, SameCarries DEF Working, Telling
<1>7. Delivery(u) = Delivery(t)
  BY <1>4 DEF Delivery
<1>8. Tells(u, flagged, reports, notices, delivered')
  BY <1>1, <1>2, <1>3, <1>4, <1>7 DEF Tells
<1>9. IsSo(Delivery(t), flagged, reports)
  BY <1>1, <1>2 DEF Tells, IsSo
<1>10. delivered \subseteq delivered' /\ \A d \in delivered' \ delivered : d = Delivery(t)
  BY <1>3
<1>11. Moves(w, u) /\ MaySpend
  BY <1>1, <1>3, <1>4, <1>5, HappenIs DEF Moves
<1> QED BY <1>6, <1>8, <1>9, <1>10, <1>11 DEF t

\* The row is marked with what the transport said, and the work goes on.
LEMMA MarkIs ==
  ASSUME TypeInv, TellInv, NEW w \in Workers, MarkNotice(w)
  PROVE  /\ \E u : /\ Moves(w, u) /\ Carries(task[w], u)
                  /\ u.at \in {"idle", "next", "report", "profile again"}
         /\ LogKept /\ MaySpend /\ DOMAIN notices' = DOMAIN notices
         /\ \A n \in DOMAIN notices :
              \/ notices'[n] = notices[n]
              \/ /\ notices'[n].status = "SENT" =>
                      \E d \in delivered : d.log = n /\ d.kind = notices'[n].kind
                                                    /\ d.student = notices'[n].student
<1> DEFINE t == task[w]
           u == AfterNotice(t)
<1>1. /\ t \in Task /\ t.at = "mark" /\ t.notice \in {"AT_RISK", "REPORT_READY"}
      /\ notices \in Seq(Notice) /\ t.result \in {"SENT", "MOCKED", "FAILED"}
      /\ t.log \in Nat
  <2>1. t \in Task /\ t.at = "mark" /\ notices \in Seq(Notice) /\ t.notice # "none"
    BY TaskIs DEF MarkNotice, TypeInv
  <2>2. t.result # "none"
    BY <2>1 DEF Task, Columns, Fits
  <2> QED BY <2>1, <2>2, ColumnsOf
<1>2. task' = [task EXCEPT ![w] = u]
  BY DEF MarkNotice, Goes
<1>3. /\ u \in Task /\ Carries(t, u)
      /\ u.at \in {"idle", "next", "report", "profile again"}
  <2> HIDE DEF t
  <2>1. CASE t.notice = "AT_RISK"
    BY <1>1, <2>1, AfterIs DEF AfterNotice, Telling, Working
  <2>2. CASE t.notice # "AT_RISK"
    BY <1>1, <2>2, FinishedIs DEF AfterNotice, Telling, Working
  <2> QED BY <2>1, <2>2
<1>4. Moves(w, u)
  BY <1>2, <1>3 DEF Moves
<1>5. MaySpend
  BY HappenIs DEF MarkNotice
<1>6. CASE UNCHANGED notices
  BY <1>1, <1>3, <1>4, <1>5, <1>6 DEF LogKept
<1>7. CASE t.log # 0 /\ notices' = [notices EXCEPT ![t.log].status = t.result]
  <2> DEFINE n == t.log
             row == [notices[n] EXCEPT !.status = t.result]
  <2>1. /\ n \in DOMAIN notices /\ notices[n].kind = t.notice
        /\ notices[n].student = t.who
        /\ t.result = "SENT" => Delivery(t) \in delivered
    BY <1>1, <1>7 DEF TellInv, Tells
  <2>2. /\ Delivery(t).log = n /\ Delivery(t).kind = t.notice
        /\ Delivery(t).student = t.who
    BY DEF Delivery
  <2>3. notices' = [notices EXCEPT ![n] = row] /\ notices[n] \in Notice
    BY <1>1, <1>7, <2>1
  <2>4. /\ row.kind = t.notice /\ row.student = t.who /\ row.status = t.result
        /\ row \in Notice
    BY <1>1, <2>1, <2>3 DEF Notice
  <2> HIDE DEF row, n, u
  <2>5. /\ notices' \in Seq(Notice) /\ DOMAIN notices' = DOMAIN notices
        /\ notices'[n] = row /\ \A m \in DOMAIN notices \ {n} : notices'[m] = notices[m]
    BY <1>1, <2>1, <2>3, <2>4
  <2>6. LogKept
    BY <2>1, <2>4, <2>5 DEF LogKept
  <2>7. notices'[n].status = "SENT" =>
          \E d \in delivered : d.log = n /\ d.kind = notices'[n].kind
                                         /\ d.student = notices'[n].student
    BY <2>1, <2>2, <2>4, <2>5
  <2> QED BY <1>3, <1>4, <1>5, <2>5, <2>6, <2>7 DEF t
<1> QED BY <1>6, <1>7 DEF MarkNotice

-----------------------------------------------------------------------------
(* Failures of the items of a job.                                           *)

\* The attempts of a set and the one at hand are counted.
LEMMA OneMore ==
  ASSUME NEW T \in SUBSET Sat, NEW item \in Sat
  PROVE  /\ item \notin T => Cardinality(T \cup {item}) = Cardinality(T) + 1
         /\ item \in T => Cardinality(T \ {item}) = Cardinality(T) - 1
BY SatCounts, FS_AddElement, FS_RemoveElement

\* Attempts that are counted apart are counted together.
LEMMA Together ==
  ASSUME NEW T \in SUBSET Sat, NEW U \in SUBSET Sat, T \cap U = {}
  PROVE  Cardinality(T \cup U) = Cardinality(T) + Cardinality(U)
<1>1. IsFiniteSet(T) /\ IsFiniteSet(U) /\ Cardinality(T) \in Nat /\ Cardinality(U) \in Nat
  BY SatCounts
<1>2. Cardinality(T \cup U) = Cardinality(T) + Cardinality(U) - Cardinality(T \cap U)
  BY <1>1, FS_Union
<1>3. Cardinality(T \cap U) = 0
  BY FS_EmptySet
<1> QED BY <1>1, <1>2, <1>3

\* Without a connection, the item at hand is noted as failed, once.
LEMMA ConnectionIs ==
  ASSUME TypeInv, NEW w \in Workers, NoConnection(w)
  PROVE  \E u : Moves(w, u) /\ Carries(task[w], u) /\ u.at = "next"
<1> DEFINE t == task[w]
<1>1. /\ t \in Task /\ t.job # 0 /\ t.todo \subseteq Items(t.kind)
      /\ t.todo \subseteq Sat \cup Students
      /\ t.failed \in SUBSET (Sat \cup Students \cup {"none"})
      /\ t.item \in Sat \cup Students \cup {"none"} /\ t.made \in Nat
  BY TaskIs DEF NoConnection, Task, Columns, Fits
<1>2. ASSUME t.at = "next", NEW item \in t.todo,
             Goes(w, [t EXCEPT !.todo = @ \ {item}, !.failed = @ \cup {item}])
      PROVE  \E u : Moves(w, u) /\ Carries(t, u) /\ u.at = "next"
  <2> DEFINE todo == t.todo \ {item}
             failed == t.failed \cup {item}
             u == [t EXCEPT !.todo = todo, !.failed = failed]
  <2>1. task' = [task EXCEPT ![w] = u]
    BY <1>1, <1>2 DEF Goes, Task, Columns, Fits
  <2>2. /\ todo \subseteq t.todo /\ failed \in SUBSET (Sat \cup Students \cup {"none"})
        /\ todo = t.todo \ {item} /\ failed = t.failed \cup {item}
    BY <1>1, <1>2
  <2> HIDE DEF todo, failed
  <2>3. /\ u \in Task /\ u.at = "next" /\ u.job = t.job /\ u.kind = t.kind
        /\ u.todo = todo /\ u.made = t.made /\ u.failed = failed
    BY <1>1, <1>2, <2>2 DEF Task, Columns, Fits, Working
  <2> HIDE DEF t, u
  <2>4. ASSUME NEW n \in Nat, Accounts(t, n) PROVE Accounts(u, n)
    <3>1. /\ t.todo \subseteq Sat /\ t.failed \subseteq Sat /\ t.todo \cap t.failed = {}
          /\ n = t.made
          /\ t.made + Cardinality(t.failed) + Cardinality(t.todo) = Cardinality(Sat)
      BY <1>1, <1>2, <2>4 DEF Accounts, Telling
    <3>2. /\ Cardinality(t.failed) \in Nat /\ Cardinality(t.todo) \in Nat
          /\ Cardinality(Sat) \in Nat
      BY <3>1, SatCounts
    <3>3. /\ Cardinality(failed) = Cardinality(t.failed) + 1
          /\ Cardinality(todo) = Cardinality(t.todo) - 1
      BY <1>2, <2>2, <3>1, OneMore
    <3>4. /\ u.made + Cardinality(u.failed) + Cardinality(u.todo) = Cardinality(Sat)
          /\ u.todo \subseteq Sat /\ u.failed \subseteq Sat /\ u.todo \cap u.failed = {}
      BY <1>1, <1>2, <2>2, <2>3, <3>1, <3>2, <3>3
    <3> QED BY <1>1, <2>3, <3>1, <3>4 DEF Accounts, Telling, Working
  <2> QED BY <2>1, <2>3, <2>4 DEF Moves, Carries
<1>3. ASSUME t.at = "profile again",
             Goes(w, [Onward(t) EXCEPT !.failed = @ \cup {t.item}])
      PROVE  \E u : Moves(w, u) /\ Carries(t, u) /\ u.at = "next"
  <2>1. /\ Onward(t) \in Task /\ Onward(t).at = "next" /\ Onward(t).job = t.job
        /\ Onward(t).kind = t.kind /\ Onward(t).made = t.made
        /\ Onward(t).failed = t.failed /\ Onward(t).todo = t.todo
    BY <1>1, <1>3, OnwardTyped DEF Places, Working
  <2> DEFINE v == Onward(t)
             failed == t.failed \cup {t.item}
             u == [v EXCEPT !.failed = failed]
  <2>2. task' = [task EXCEPT ![w] = u]
    BY <1>3, <2>1 DEF Goes, Task, Columns, Fits
  <2>3. failed \in SUBSET (Sat \cup Students \cup {"none"}) /\ failed = t.failed \cup {t.item}
    BY <1>1
  <2> HIDE DEF v, failed
  <2>4. /\ u \in Task /\ u.at = "next" /\ u.job = t.job /\ u.kind = t.kind
        /\ u.todo = t.todo /\ u.made = t.made /\ u.failed = failed
    BY <2>1, <2>3 DEF Task, Columns, Fits, Working, v
  <2> HIDE DEF t, u
  <2>5. ASSUME NEW n \in Nat, Accounts(t, n) PROVE Accounts(u, n)
    <3>1. /\ t.todo \subseteq Sat /\ t.failed \subseteq Sat /\ t.todo \cap t.failed = {}
          /\ n = t.made /\ t.item \in Sat \ (t.todo \cup t.failed)
          /\ t.made + Cardinality(t.failed) + Cardinality(t.todo) + 1 = Cardinality(Sat)
          /\ Cardinality(t.failed) \in Nat /\ Cardinality(t.todo) \in Nat
          /\ Cardinality(Sat) \in Nat
      <4>1. ~Telling(t) /\ t.at \in Working
        BY <1>3 DEF Telling, Working
      <4> QED BY <1>1, <2>5, <4>1, AccountsAre
    <3>3. Cardinality(failed) = Cardinality(t.failed) + 1
      BY <2>3, <3>1, OneMore
    <3>4. /\ u.made + Cardinality(u.failed) + Cardinality(u.todo) = Cardinality(Sat)
          /\ u.todo \subseteq Sat /\ u.failed \subseteq Sat /\ u.todo \cap u.failed = {}
      BY <1>1, <2>3, <2>4, <3>1, <3>3
    <3> QED BY <1>1, <2>4, <3>1, <3>4, NextAccounts
  <2> QED BY <2>2, <2>4, <2>5 DEF Moves, Carries
<1> QED BY <1>2, <1>3 DEF NoConnection

\* In an aborted transaction the item at hand and all that are left fail.
LEMMA AbortedIs ==
  ASSUME TypeInv, NEW w \in Workers, AbortedStatement(w)
  PROVE  \E u : Moves(w, u) /\ Carries(task[w], u) /\ u.at = "next"
<1> DEFINE t == task[w]
<1>1. /\ t \in Task /\ t.job # 0 /\ t.todo \subseteq Items(t.kind)
      /\ t.todo \subseteq Sat \cup Students
      /\ t.failed \in SUBSET (Sat \cup Students \cup {"none"})
      /\ t.item \in Sat \cup Students \cup {"none"} /\ t.made \in Nat
      /\ t.at \in {"next", "profile", "evaluations", "profile again"}
  BY TaskIs DEF AbortedStatement, Task, Columns, Fits, AtItem, Reading
<1>2. /\ Onward(t) \in Task /\ Onward(t).at = "next" /\ Onward(t).job = t.job
      /\ Onward(t).kind = t.kind /\ Onward(t).made = t.made
      /\ Onward(t).failed = t.failed
  BY <1>1, OnwardTyped DEF Places, Working
<1> DEFINE v == Onward(t)
           failed == t.failed \cup Rest(t)
           u == [v EXCEPT !.todo = {}, !.failed = failed]
<1>3. task' = [task EXCEPT ![w] = u]
  BY <1>2 DEF AbortedStatement, Goes, Task, Columns, Fits
<1>4. /\ failed \in SUBSET (Sat \cup Students \cup {"none"})
      /\ t.at = "next" => failed = t.failed \cup t.todo
      /\ t.at # "next" => failed = (t.failed \cup t.todo) \cup {t.item}
  BY <1>1 DEF Rest
<1> HIDE DEF v, failed
<1>5. /\ u \in Task /\ u.at = "next" /\ u.job = t.job /\ u.kind = t.kind
      /\ u.todo = {} /\ u.made = t.made /\ u.failed = failed
  BY <1>2, <1>4 DEF Task, Columns, Fits, Working, v
<1> HIDE DEF t, u
<1>6. ASSUME NEW n \in Nat, Accounts(t, n) PROVE Accounts(u, n)
  <2>1. /\ t.todo \subseteq Sat /\ t.failed \subseteq Sat /\ t.todo \cap t.failed = {}
        /\ n = t.made
        /\ Cardinality(t.failed) \in Nat /\ Cardinality(t.todo) \in Nat
        /\ Cardinality(Sat) \in Nat
        /\ t.at = "next" =>
             t.made + Cardinality(t.failed) + Cardinality(t.todo) = Cardinality(Sat)
        /\ t.at \in Working =>
             /\ t.item \in Sat \ (t.todo \cup t.failed)
             /\ t.made + Cardinality(t.failed) + Cardinality(t.todo) + 1 = Cardinality(Sat)
    <3>1. ~Telling(t)
      BY <1>1 DEF Telling
    <3> QED BY <1>1, <1>6, <3>1, AccountsAre
  <2>0. t.made \in Nat
    BY <1>1
  <2> DEFINE both == t.failed \cup t.todo
  <2>2. /\ Cardinality(both) = Cardinality(t.failed) + Cardinality(t.todo)
        /\ both \subseteq Sat /\ Cardinality(both) \in Nat
    BY <2>1, Together, SatCounts
  <2>3. Cardinality({}) = 0 /\ (t.at # "next" => t.at \in Working)
    BY <1>1, FS_EmptySet DEF Working
  <2>4. t.made + Cardinality(failed) = Cardinality(Sat) /\ failed \subseteq Sat
    <3>1. CASE t.at = "next"
      <4>1. t.made + Cardinality(t.failed) + Cardinality(t.todo) = Cardinality(Sat)
        BY <2>1, <3>1
      <4>2. failed = both
        BY <1>4, <3>1
      <4> HIDE DEF both
      <4>3. /\ Cardinality(failed) = Cardinality(t.failed) + Cardinality(t.todo)
            /\ failed \subseteq Sat
        BY <2>2, <4>2
      <4> QED BY <2>0, <2>1, <4>1, <4>3
    <3>2. CASE t.at # "next"
      <4>1. /\ t.item \in Sat \ both
            /\ t.made + Cardinality(t.failed) + Cardinality(t.todo) + 1 = Cardinality(Sat)
        BY <2>1, <2>3, <3>2
      <4>2. failed = both \cup {t.item}
        BY <1>4, <3>2
      <4> HIDE DEF both
      <4>3. Cardinality(failed) = Cardinality(both) + 1 /\ failed \subseteq Sat
        BY <2>2, <4>1, <4>2, OneMore
      <4> QED BY <2>0, <2>1, <2>2, <4>1, <4>3
    <3> QED BY <3>1, <3>2
  <2>5. u.made + Cardinality(u.failed) + Cardinality(u.todo) = Cardinality(Sat)
    <3>1. Cardinality(failed) \in Nat
      BY <2>4, SatCounts
    <3>2. Cardinality(u.todo) = 0 /\ u.failed = failed /\ u.made = t.made
      BY <1>5, <2>3
    <3> HIDE DEF both
    <3> QED BY <2>0, <2>1, <2>4, <3>1, <3>2
  <2> QED BY <1>1, <1>5, <2>1, <2>4, <2>5, NextAccounts
<1> QED BY <1>3, <1>5, <1>6 DEF Moves, Carries, t

-----------------------------------------------------------------------------
(* What the jobs count.                                                      *)

\* The snapshots of a job can be counted.
LEMMA MadeCounts ==
  ASSUME NEW rs \in Seq(Report), NEW j
  PROVE  IsFiniteSet(MadeIn(rs, j)) /\ Cardinality(MadeIn(rs, j)) \in Nat
<1>1. MadeIn(rs, j) \subseteq 1 .. Len(rs) /\ Len(rs) \in Nat
  BY DEF MadeIn
<1>2. IsFiniteSet(1 .. Len(rs))
  BY <1>1, FS_Interval
<1> QED BY <1>1, <1>2, FS_Subset, FS_CardinalityType

\* A snapshot names the job that made it, by its number.
LEMMA JobsOfReports ==
  ASSUME NEW rs \in Seq(Report), NEW r \in DOMAIN rs
  PROVE  rs[r] \in Report /\ rs[r].job \in Nat
<1>1. rs[r] \in Report
  OBVIOUS
<1> QED BY <1>1 DEF Report

\* A new snapshot is one more of its own job.
LEMMA MadeMore ==
  ASSUME NEW rs \in Seq(Report), NEW r \in Report, NEW j
  PROVE  Cardinality(MadeIn(Append(rs, r), j)) =
           IF r.job = j THEN Cardinality(MadeIn(rs, j)) + 1 ELSE Cardinality(MadeIn(rs, j))
<1> DEFINE new == Len(rs) + 1
           more == Append(rs, r)
<1>1. /\ new \in Nat /\ new \notin DOMAIN rs /\ DOMAIN more = DOMAIN rs \cup {new}
      /\ more[new] = r /\ \A i \in DOMAIN rs : more[i] = rs[i]
  BY AppendProperties
<1> HIDE DEF new, more
<1>2. CASE r.job = j
  <2>1. MadeIn(more, j) = MadeIn(rs, j) \cup {new} /\ new \notin MadeIn(rs, j)
    BY <1>1, <1>2 DEF MadeIn
  <2> QED BY <1>2, <2>1, MadeCounts, FS_AddElement DEF more
<1>3. CASE r.job # j
  <2>1. MadeIn(more, j) = MadeIn(rs, j)
    BY <1>1, <1>3 DEF MadeIn
  <2> QED BY <1>3, <2>1 DEF more
<1> QED BY <1>2, <1>3

\* What JobsTellAll says of one job.
Told(job, n) ==
  job.kind = "card" /\ job.status = "COMPLETED" =>
    job.made = n /\ job.made + Cardinality(job.failed) = Cardinality(Sat)

\* JobsTellAll, job by job.
LEMMA ToldAll ==
  /\ JobsTellAll <=> \A j \in DOMAIN jobs : Told(jobs[j], Cardinality(MadeIn(reports, j)))
  /\ JobsTellAll' <=>
       \A j \in DOMAIN jobs' : Told(jobs'[j], Cardinality(MadeIn(reports', j)))
BY DEF JobsTellAll, Told, Made, MadeIn

\* A coroutine goes on, in a job that accounts for the same attempts.
LEMMA CarryCounts ==
  ASSUME TypeInv, CountInv, NEW w \in Workers, NEW u, Moves(w, u), Carries(task[w], u),
         UNCHANGED <<jobs, reports>>, spent'.jobs = spent.jobs
  PROVE  CountInv'
<1>1. task'[w] = u /\ \A v \in Workers \ {w} : task'[v] = task[v]
  BY DEF Moves, TypeInv
<1>2. /\ Owned(task[w], jobs) /\ Counted(task[w], reports)
      /\ Cardinality(MadeIn(reports, u.job)) \in Nat
  BY MadeCounts DEF CountInv, TypeInv
<1>3. Owned(u, jobs) /\ Counted(u, reports)
  BY <1>2 DEF Owned, Counted, Carries
<1>4. \A v \in Workers : Owned(task'[v], jobs') /\ Counted(task'[v], reports')
  BY <1>1, <1>3 DEF CountInv
<1>5. \A v \in Workers : task'[v].job = task[v].job
  BY <1>1 DEF Carries
<1>6. \A v, x \in Workers : v # x /\ task'[v].job # 0 => task'[v].job # task'[x].job
  BY <1>5 DEF CountInv
<1>7. JobsTellAll'
  BY ToldAll DEF CountInv
<1> QED BY <1>4, <1>6, <1>7 DEF CountInv

\* A coroutine that has no job, has ended or is answered.
LEMMA FreeCounts ==
  ASSUME NEW t, t.job = 0, NEW js, NEW rs
  PROVE  Owned(t, js) /\ Counted(t, rs)
BY DEF Owned, Counted

\* A coroutine ends with what it notes of its job in the registry.
LEMMA EndCounts ==
  ASSUME TypeInv, CountInv, NEW w \in Workers, task[w].job # 0,
         NEW row \in JobRow, jobs' = [jobs EXCEPT ![task[w].job] = row],
         row.kind = task[w].kind,
         Told(row, Cardinality(MadeIn(reports, task[w].job))),
         task' = [task EXCEPT ![w] = Idle], UNCHANGED reports, spent'.jobs = spent.jobs
  PROVE  CountInv' /\ JobsTyped(jobs', spent'.jobs)
<1> DEFINE job == task[w].job
<1>1. task'[w] = Idle /\ \A v \in Workers \ {w} : task'[v] = task[v]
  BY DEF TypeInv
<1>2. /\ job \in DOMAIN jobs /\ jobs \in [DOMAIN jobs -> JobRow]
      /\ DOMAIN jobs \subseteq 1 .. spent.jobs
  BY DEF CountInv, Owned, TypeInv, JobsTyped
<1>3. /\ DOMAIN jobs' = DOMAIN jobs /\ jobs'[job] = row
      /\ \A j \in DOMAIN jobs \ {job} : jobs'[j] = jobs[j]
  BY <1>2
<1>4. JobsTyped(jobs', spent'.jobs)
  BY <1>2 DEF JobsTyped
<1>5. \A v \in Workers \ {w} : task[v].job # job
  BY DEF CountInv
<1> HIDE DEF job
<1>6. ASSUME NEW v \in Workers PROVE Owned(task'[v], jobs') /\ Counted(task'[v], reports')
  <2>1. CASE v = w
    BY <1>1, <2>1, IdleTyped, FreeCounts
  <2>2. CASE v # w
    BY <1>1, <1>3, <1>5, <2>2 DEF CountInv, Owned
  <2> QED BY <2>1, <2>2
<1>7. \A v, x \in Workers : v # x /\ task'[v].job # 0 => task'[v].job # task'[x].job
  BY <1>1, IdleTyped DEF CountInv
<1>8. JobsTellAll'
  <2>1. ASSUME NEW j \in DOMAIN jobs' PROVE Told(jobs'[j], Cardinality(MadeIn(reports', j)))
    BY <1>3, ToldAll DEF CountInv, job
  <2> QED BY <2>1, ToldAll
<1> QED BY <1>4, <1>6, <1>7, <1>8 DEF CountInv

\* The job of a coroutine is in the registry; the registry is typed.
LEMMA JobIs ==
  ASSUME TypeInv, CountInv, NEW w \in Workers
  PROVE  /\ task[w].job # 0 => /\ task[w].job \in DOMAIN jobs
                               /\ jobs[task[w].job] \in JobRow
                               /\ jobs[task[w].job].kind = task[w].kind
                               /\ jobs[task[w].job].status \in {"PENDING", "RUNNING"}
         /\ task[w].job \in 0 .. spent.jobs /\ spent.jobs \in Nat
         /\ jobs \in [DOMAIN jobs -> JobRow] /\ DOMAIN jobs \subseteq 1 .. spent.jobs
<1>1. /\ jobs \in [DOMAIN jobs -> JobRow] /\ DOMAIN jobs \subseteq 1 .. spent.jobs
      /\ spent.jobs \in Nat
  BY DEF TypeInv, JobsTyped, Spent
<1>2. Owned(task[w], jobs) /\ task[w].job \in Nat
  BY TaskIs, ColumnsOf DEF CountInv
<1> QED BY <1>1, <1>2 DEF Owned

\* A job begins: what it has accounted for is still nothing.
LEMMA RunningIs ==
  ASSUME TypeInv, CountInv, NEW w \in Workers, Running(w)
  PROVE  /\ CountInv' /\ JobsTyped(jobs', spent.jobs)
         /\ \E u : Moves(w, u) /\ u.at \in {"list", "import"}
<1> DEFINE t == task[w]
           job == t.job
           row == [jobs[job] EXCEPT !.status = "RUNNING"]
           at == IF t.kind = "import" THEN "import" ELSE "list"
           u == [t EXCEPT !.at = at]
<1>1. /\ t \in Task /\ t.at = "launched" /\ t.job # 0
      /\ UNCHANGED <<reports, spent>>
  BY TaskIs, ColumnsOf DEF Running
<1>2. /\ job \in DOMAIN jobs /\ jobs[job] \in JobRow /\ jobs[job].kind = t.kind
      /\ jobs \in [DOMAIN jobs -> JobRow] /\ DOMAIN jobs \subseteq 1 .. spent.jobs
  BY <1>1, JobIs
<1>3. task' = [task EXCEPT ![w] = u] /\ jobs' = [jobs EXCEPT ![job] = row]
  BY <1>2 DEF Running, Goes
<1>4. row \in JobRow /\ row.kind = t.kind /\ row.status = "RUNNING"
  BY <1>2 DEF JobRow
<1>5. at \in {"list", "import"} /\ (at = "import" => t.kind = "import")
  OBVIOUS
<1> HIDE DEF row, at
<1>6. /\ u \in Task /\ u.at = at /\ Same(t, u)
  BY <1>1, <1>5 DEF Task, Columns, Fits, Places, Working, Same
<1>7. /\ DOMAIN jobs' = DOMAIN jobs /\ jobs'[job] = row
      /\ \A j \in DOMAIN jobs \ {job} : jobs'[j] = jobs[j]
  BY <1>2, <1>3
<1>8. JobsTyped(jobs', spent.jobs)
  BY <1>2, <1>3, <1>4 DEF JobsTyped
<1>9. task'[w] = u /\ \A v \in Workers \ {w} : task'[v] = task[v]
  BY <1>3, TaskIs
<1>10. \A v \in Workers \ {w} : task[v].job # job
  BY <1>1 DEF CountInv
<1>11. Owned(t, jobs) /\ Counted(t, reports)
  BY DEF CountInv
<1> HIDE DEF t, u, job
<1>12. Owned(u, jobs')
  BY <1>2, <1>4, <1>6, <1>7 DEF Owned, Same, job
<1>13. Counted(u, reports')
  <2>1. ASSUME NEW n, Accounts(t, n), t.kind = "card" PROVE Accounts(u, n)
    BY <1>1, <1>5, <1>6, <2>1 DEF Accounts, Same, Telling, Working
  <2> QED BY <1>1, <1>6, <1>11, <2>1 DEF Counted, Same
<1>14. ASSUME NEW v \in Workers PROVE Owned(task'[v], jobs') /\ Counted(task'[v], reports')
  <2>1. CASE v = w
    BY <1>9, <1>12, <1>13, <2>1
  <2>2. CASE v # w
    BY <1>1, <1>7, <1>9, <1>10, <2>2 DEF CountInv, Owned
  <2> QED BY <2>1, <2>2
<1>15. \A v \in Workers : task'[v].job = task[v].job
  BY <1>6, <1>9 DEF Same, t
<1>16. \A v, x \in Workers : v # x /\ task'[v].job # 0 => task'[v].job # task'[x].job
  BY <1>15 DEF CountInv
<1>17. JobsTellAll'
  <2>1. ASSUME NEW j \in DOMAIN jobs' PROVE Told(jobs'[j], Cardinality(MadeIn(reports', j)))
    <3>1. CASE j = job
      BY <1>4, <1>7, <3>1 DEF Told
    <3>2. CASE j # job
      BY <1>1, <1>7, <3>2, ToldAll DEF CountInv
    <3> QED BY <3>1, <3>2
  <2> QED BY <2>1, ToldAll
<1>18. CountInv'
  BY <1>1, <1>14, <1>16, <1>17 DEF CountInv
<1> QED BY <1>3, <1>5, <1>6, <1>8, <1>18 DEF Moves

\* A report is saved: the job has one snapshot more, and knows.
LEMMA ReportCounts ==
  ASSUME TypeInv, CountInv, NEW w \in Workers, NEW u, NEW r \in Report, Moves(w, u),
         r.job = task[w].job, reports' = Append(reports, r), Gains(task[w], u),
         UNCHANGED <<jobs, spent>>
  PROVE  CountInv'
<1> DEFINE job == task[w].job
<1>1. reports \in Seq(Report) /\ job \in 0 .. spent.jobs /\ spent.jobs \in Nat
  BY JobIs DEF TypeInv
<1>2. \A j : Cardinality(MadeIn(reports', j)) =
               IF job = j THEN Cardinality(MadeIn(reports, j)) + 1
               ELSE Cardinality(MadeIn(reports, j))
  BY <1>1, MadeMore
<1>3. task'[w] = u /\ \A v \in Workers \ {w} : task'[v] = task[v]
  BY TaskIs DEF Moves
<1>4. /\ Owned(task[w], jobs) /\ Counted(task[w], reports)
      /\ Cardinality(MadeIn(reports, job)) \in Nat
  BY <1>1, MadeCounts DEF CountInv
<1>5. Owned(u, jobs') /\ Counted(u, reports')
  BY <1>2, <1>4 DEF Owned, Counted, Gains
<1>6. \A v \in Workers \ {w} : job # 0 => task[v].job # job
  BY DEF CountInv
<1>7. ASSUME NEW v \in Workers PROVE Owned(task'[v], jobs') /\ Counted(task'[v], reports')
  <2>1. CASE v = w
    BY <1>3, <1>5, <2>1
  <2>2. CASE v # w
    BY <1>2, <1>3, <1>6, <2>2 DEF CountInv, Owned, Counted
  <2> QED BY <2>1, <2>2
<1>8. \A v \in Workers : task'[v].job = task[v].job
  BY <1>3 DEF Gains
<1>9. \A v, x \in Workers : v # x /\ task'[v].job # 0 => task'[v].job # task'[x].job
  BY <1>8 DEF CountInv
<1>10. \A i \in DOMAIN reports' : reports'[i].job <= spent'.jobs
  BY <1>1, AppendProperties DEF CountInv
<1>11. JobsTellAll'
  <2>1. ASSUME NEW j \in DOMAIN jobs' PROVE Told(jobs'[j], Cardinality(MadeIn(reports', j)))
    <3>1. CASE j = job
      <4>1. jobs'[j].status \in {"PENDING", "RUNNING"}
        BY <2>1, <3>1, JobIs
      <4> QED BY <4>1 DEF Told
    <3>2. CASE j # job
      BY <1>2, <2>1, <3>2, ToldAll DEF CountInv
    <3> QED BY <3>1, <3>2
  <2> QED BY <2>1, ToldAll
<1> QED BY <1>7, <1>9, <1>10, <1>11 DEF CountInv

\* A new job has a number of its own, and no snapshot yet.
LEMMA LaunchIs ==
  ASSUME TypeInv, CountInv, NEW w \in Workers, Launch(w)
  PROVE  /\ CountInv' /\ JobsTyped(jobs', spent'.jobs) /\ spent' \in Spent
         /\ \E u : Moves(w, u) /\ u.at = "launched"
<1> DEFINE new == spent.jobs + 1
<1>1. PICK kind \in {"dashboard", "card", "import"} :
        /\ jobs' = Registered([kind |-> kind, status |-> "PENDING", made |-> 0,
                               failed |-> {}])
        /\ Goes(w, [Idle EXCEPT !.at = "launched", !.kind = kind, !.job = spent.jobs + 1])
  BY DEF Launch
<1> DEFINE row == [kind |-> kind, status |-> "PENDING", made |-> 0, failed |-> {}]
           u == [Idle EXCEPT !.at = "launched", !.kind = kind, !.job = new]
<1>2. /\ spent \in Spent /\ spent.jobs \in Nat /\ new \in Nat \ {0}
      /\ UNCHANGED reports /\ new = spent.jobs + 1
      /\ jobs \in [DOMAIN jobs -> JobRow] /\ DOMAIN jobs \subseteq 1 .. spent.jobs
  BY JobIs DEF TypeInv, Launch, Spent
<1>3. spent' = [spent EXCEPT !.jobs = new]
  BY <1>2 DEF Launch, Spend, Spent
<1>4. row \in JobRow /\ row.kind = kind /\ row.status = "PENDING"
  BY DEF JobRow, Kinds
<1>5. jobs' = [j \in DOMAIN jobs \cup {new} |-> IF j = new THEN row ELSE jobs[j]]
  BY <1>1 DEF Registered
<1> HIDE DEF row, new
<1>6. spent'.jobs = new /\ spent' \in Spent
  BY <1>2, <1>3 DEF Spent
<1>7. /\ DOMAIN jobs' = DOMAIN jobs \cup {new} /\ jobs'[new] = row
      /\ \A j \in DOMAIN jobs : j # new /\ jobs'[j] = jobs[j]
  BY <1>2, <1>5
<1>8. JobsTyped(jobs', spent'.jobs)
  <2>1. \A j \in DOMAIN jobs' : jobs'[j] \in JobRow
    BY <1>2, <1>4, <1>7
  <2>2. DOMAIN jobs' \subseteq 1 .. new
    BY <1>2, <1>7
  <2>3. jobs' \in [DOMAIN jobs' -> JobRow]
    BY <1>5, <1>7, <2>1
  <2> QED BY <1>6, <2>2, <2>3 DEF JobsTyped
<1>9. /\ u \in Task /\ u.at = "launched" /\ u.job = new /\ u.kind = kind
      /\ u.made = 0 /\ u.todo = {} /\ u.failed = {} /\ task' = [task EXCEPT ![w] = u]
  <2>1. Idle \in Columns /\ Idle.todo = {} /\ Idle.made = 0 /\ Idle.failed = {}
    BY IdleTyped DEF Task, Idle
  <2>2. /\ u \in Columns /\ u.at = "launched" /\ u.job = new /\ u.kind = kind
        /\ u.made = 0 /\ u.todo = {} /\ u.failed = {}
    BY ZenonT(120), <1>2, <2>1 DEF Columns, Places, Kinds
  <2>3. Fits(u)
    BY <1>2, <2>2 DEF Fits, Working
  <2> QED BY <1>1, <2>2, <2>3 DEF Task, Goes, new
<1> HIDE DEF u
<1>10. task'[w] = u /\ \A v \in Workers \ {w} : task'[v] = task[v]
  BY <1>9, TaskIs
<1>11. MadeIn(reports', new) = {} /\ Cardinality(MadeIn(reports', new)) = 0
  <2>1. reports \in Seq(Report)
    BY DEF TypeInv
  <2>2. \A i \in DOMAIN reports : reports[i].job \in Nat /\ reports[i].job <= spent.jobs
    BY <2>1, JobsOfReports DEF CountInv
  <2>3. MadeIn(reports', new) = {}
    BY <1>2, <2>2 DEF MadeIn
  <2> QED BY <2>3, FS_EmptySet
<1>12. Owned(u, jobs') /\ Counted(u, reports')
  BY <1>4, <1>7, <1>9, <1>11 DEF Owned, Counted, Accounts, Telling, Working
<1>13. ASSUME NEW v \in Workers PROVE Owned(task'[v], jobs') /\ Counted(task'[v], reports')
  <2>1. CASE v = w
    BY <1>10, <1>12, <2>1
  <2>2. CASE v # w
    BY <1>2, <1>7, <1>10, <2>2 DEF CountInv, Owned
  <2> QED BY <2>1, <2>2
<1>14. \A v \in Workers : task[v].job \in Nat /\ task[v].job # new
  BY <1>2, JobIs
<1>15. ASSUME NEW v \in Workers, NEW x \in Workers, v # x, task'[v].job # 0
       PROVE  task'[v].job # task'[x].job
  BY <1>9, <1>10, <1>14, <1>15 DEF CountInv
<1>16. \A i \in DOMAIN reports' : reports'[i].job <= spent'.jobs
  <2>1. \A i \in DOMAIN reports : reports[i].job \in Nat
    BY JobsOfReports DEF TypeInv
  <2> QED BY <1>2, <1>6, <2>1 DEF CountInv
<1>17. JobsTellAll'
  <2>1. ASSUME NEW j \in DOMAIN jobs' PROVE Told(jobs'[j], Cardinality(MadeIn(reports', j)))
    <3>1. CASE j = new
      BY <1>4, <1>7, <3>1 DEF Told
    <3>2. CASE j # new
      BY <1>2, <1>7, <3>2, ToldAll DEF CountInv
    <3> QED BY <3>1, <3>2
  <2> QED BY <2>1, ToldAll
<1>18. CountInv'
  BY <1>13, <1>15, <1>16, <1>17 DEF CountInv
<1> QED BY <1>6, <1>8, <1>9, <1>18 DEF Moves

\* A request begins.
LEMMA RequestIs ==
  ASSUME TypeInv, NEW w \in Workers, Request(w)
  PROVE  /\ MaySpend
         /\ \E u : Moves(w, u) /\ u.at \in {"profile", "evaluations"} /\ u.job = 0
<1>1. spent \in Spent /\ spent' = [spent EXCEPT !.requests = @ + 1]
  BY DEF TypeInv, Request, Spend
<1>2. MaySpend
  BY <1>1 DEF MaySpend, Spent
<1>3. /\ Idle \in Columns /\ Idle.todo = {} /\ Idle.job = 0 /\ NoRow \in Row
      /\ [NoRow EXCEPT !.there = TRUE] \in Row
  BY IdleTyped DEF Task, Idle
<1>4. ASSUME NEW s \in Students, NEW kind \in {"dashboard", "card"},
             Goes(w, [Idle EXCEPT !.at = "profile", !.kind = kind, !.who = s])
      PROVE  \E u : Moves(w, u) /\ u.at \in {"profile", "evaluations"} /\ u.job = 0
  <2> DEFINE u == [Idle EXCEPT !.at = "profile", !.kind = kind, !.who = s]
  <2>1. /\ u \in Columns /\ u.at = "profile" /\ u.job = 0 /\ u.who = s /\ u.todo = {}
    BY ZenonT(120), <1>3 DEF Columns, Places, Working, Kinds, Whoever
  <2>2. task' = [task EXCEPT ![w] = u]
    BY <1>4 DEF Goes
  <2> HIDE DEF u
  <2>3. Fits(u)
    BY <2>1 DEF Fits, Whoever
  <2> QED BY <2>1, <2>2, <2>3 DEF Moves, Task
<1>5. ASSUME NEW kind \in {"class", "exam"},
             Goes(w, [Idle EXCEPT !.at = "evaluations", !.kind = kind, !.who = Klass,
                                  !.left = Sat, !.seen = [NoRow EXCEPT !.there = TRUE]])
      PROVE  \E u : Moves(w, u) /\ u.at \in {"profile", "evaluations"} /\ u.job = 0
  <2> DEFINE seen == [NoRow EXCEPT !.there = TRUE]
             u == [Idle EXCEPT !.at = "evaluations", !.kind = kind, !.who = Klass,
                               !.left = Sat, !.seen = seen]
  <2>1. task' = [task EXCEPT ![w] = u] /\ seen \in Row
    BY <1>3, <1>5 DEF Goes
  <2> HIDE DEF seen
  <2>2. Sat \in SUBSET UNION {Attempts[s] : s \in Students}
    BY ReportingAssumption
  <2>3. /\ u \in Columns /\ u.at = "evaluations" /\ u.job = 0 /\ u.who = Klass
        /\ u.todo = {}
    BY ZenonT(120), <1>3, <2>1, <2>2 DEF Columns, Places, Working, Kinds, Whoever
  <2> HIDE DEF u
  <2>4. Fits(u)
    BY <2>3 DEF Fits, Whoever
  <2> QED BY <2>1, <2>3, <2>4 DEF Moves, Task
<1> QED BY <1>2, <1>4, <1>5 DEF Request

\* A request begins, or a coroutine is answered, without a job.
LEMMA RequestCounts ==
  ASSUME TypeInv, CountInv, NEW w \in Workers, NEW u, Moves(w, u), u.job = 0,
         UNCHANGED <<jobs, reports>>, spent'.jobs = spent.jobs
  PROVE  CountInv'
<1>1. task'[w] = u /\ \A v \in Workers \ {w} : task'[v] = task[v]
  BY TaskIs DEF Moves
<1>2. \A v \in Workers : Owned(task'[v], jobs') /\ Counted(task'[v], reports')
  BY <1>1, FreeCounts DEF CountInv
<1>3. \A v, x \in Workers : v # x /\ task'[v].job # 0 => task'[v].job # task'[x].job
  BY <1>1 DEF CountInv
<1>4. JobsTellAll'
  BY ToldAll DEF CountInv
<1> QED BY <1>2, <1>3, <1>4 DEF CountInv

-----------------------------------------------------------------------------
(* What is said stays so.                                                    *)

\* Nothing is taken back.
Grows ==
  /\ flagged \subseteq flagged' /\ delivered \subseteq delivered'
  /\ \A r \in DOMAIN reports : r \in DOMAIN reports' /\ reports'[r].student = reports[r].student
  /\ \A n \in DOMAIN notices :
       n \in DOMAIN notices' /\ notices'[n].kind = notices[n].kind
                             /\ notices'[n].student = notices[n].student

\* What a coroutine says is still so.
LEMMA TellsStay ==
  ASSUME NEW t, Tells(t, flagged, reports, notices, delivered), Grows
  PROVE  Tells(t, flagged', reports', notices', delivered')
BY DEF Tells, Grows

\* A row that is SENT has been handed over.
Backed(row, n, ds) ==
  row.status = "SENT" =>
    \E d \in ds : d.log = n /\ d.kind = row.kind /\ d.student = row.student

\* NoticesTrue, row by row and delivery by delivery.
LEMMA TrueAll ==
  /\ NoticesTrue <=> /\ \A n \in DOMAIN notices : Backed(notices[n], n, delivered)
                     /\ \A d \in delivered : IsSo(d, flagged, reports)
  /\ NoticesTrue' <=> /\ \A n \in DOMAIN notices' : Backed(notices'[n], n, delivered')
                      /\ \A d \in delivered' : IsSo(d, flagged', reports')
BY DEF NoticesTrue, Backed, IsSo

\* Nothing untrue is said when one coroutine goes on.
LEMMA TellOn ==
  ASSUME TypeInv, TellInv, NEW w \in Workers, NEW u, Moves(w, u), Grows,
         Tells(u, flagged', reports', notices', delivered'),
         \A s \in Whoever : summary'[s].atRisk => s \in flagged',
         \A n \in DOMAIN notices' :
           \/ n \in DOMAIN notices /\ notices'[n] = notices[n]
           \/ Backed(notices'[n], n, delivered'),
         \A d \in delivered' \ delivered : IsSo(d, flagged, reports)
  PROVE  TellInv'
<1>1. task'[w] = u /\ \A v \in Workers \ {w} : task'[v] = task[v]
  BY TaskIs DEF Moves
<1>2. ASSUME NEW v \in Workers PROVE Tells(task'[v], flagged', reports', notices', delivered')
  BY <1>1, TellsStay DEF TellInv
<1>3. ASSUME NEW n \in DOMAIN notices' PROVE Backed(notices'[n], n, delivered')
  BY TrueAll DEF TellInv, Backed, Grows
<1>4. ASSUME NEW d \in delivered' PROVE IsSo(d, flagged', reports')
  <2>1. IsSo(d, flagged, reports)
    BY TrueAll DEF TellInv
  <2> QED BY <2>1 DEF IsSo, Grows
<1> QED BY <1>2, <1>3, <1>4, TrueAll DEF TellInv

-----------------------------------------------------------------------------
(* The inductive invariant.                                                  *)

Inv == TypeInv /\ CountInv /\ TellInv

\* The types when one coroutine goes on.
LEMMA TypeOn ==
  ASSUME TypeInv, NEW w \in Workers, NEW u, Moves(w, u), spent' \in Spent,
         summary' \in [Whoever -> Row], reports' \in Seq(Report),
         notices' \in Seq(Notice), JobsTyped(jobs', spent'.jobs)
  PROVE  TypeInv'
<1>1. task'[w] = u /\ \A v \in Workers \ {w} : task'[v] = task[v]
  BY TaskIs DEF Moves
<1>2. task' \in [Workers -> Task]
  BY TaskIs DEF Moves
<1> QED BY <1>1, <1>2 DEF TypeInv, Moves

\* A step that only reads, or ends a request.
LEMMA QuietOn ==
  ASSUME Inv, NEW w \in Workers, NEW u, Moves(w, u), MaySpend,
         Tells(u, flagged, reports, notices, delivered),
         Carries(task[w], u) \/ u.job = 0,
         UNCHANGED <<summary, reports, notices, delivered, jobs, flagged>>
  PROVE  Inv'
<1>1. TypeInv'
  BY TypeOn DEF Inv, TypeInv, MaySpend
<1>2. CountInv'
  BY CarryCounts, RequestCounts DEF Inv, MaySpend
<1>3. TellInv'
  <2>1. Grows
    BY DEF Grows
  <2>2. \A s \in Whoever : summary'[s].atRisk => s \in flagged'
    BY DEF Inv, TellInv
  <2> QED BY <2>1, <2>2, TellOn DEF Inv
<1> QED BY <1>1, <1>2, <1>3 DEF Inv

\* A coroutine ends its job, or loses it.
LEMMA EndOn ==
  ASSUME Inv, NEW w \in Workers, task[w].job # 0,
         NEW row \in JobRow, jobs' = [jobs EXCEPT ![task[w].job] = row],
         row.kind = task[w].kind,
         Told(row, Cardinality(MadeIn(reports, task[w].job))),
         task' = [task EXCEPT ![w] = Idle], MaySpend,
         UNCHANGED <<summary, reports, notices, delivered, flagged>>
  PROVE  Inv'
<1>1. Moves(w, Idle)
  BY IdleTyped DEF Moves
<1>2. CountInv' /\ JobsTyped(jobs', spent'.jobs)
  BY EndCounts DEF Inv, MaySpend
<1>3. TypeInv'
  BY <1>1, <1>2, TypeOn DEF Inv, TypeInv, MaySpend
<1>4. TellInv'
  <2>1. Grows
    BY DEF Grows
  <2>2. Tells(Idle, flagged', reports', notices', delivered')
    BY IdleTyped, QuietTells
  <2>3. \A s \in Whoever : summary'[s].atRisk => s \in flagged'
    BY DEF Inv, TellInv
  <2> QED BY <1>1, <2>1, <2>2, <2>3, TellOn DEF Inv
<1> QED BY <1>2, <1>3, <1>4 DEF Inv

\* A job that is done accounts for every attempt: those left to do are none.
LEMMA CompleteKeeps ==
  ASSUME Inv, NEW w \in Workers, Complete(w)
  PROVE  Inv'
<1> DEFINE t == task[w]
           job == jobs[t.job]
           row == [job EXCEPT !.status = "COMPLETED", !.made = t.made,
                              !.failed = t.failed]
           n == Cardinality(MadeIn(reports, t.job))
<1>1. t \in Task /\ t.at = "next" /\ t.todo = {} /\ t.job # 0 /\ t.made \in Nat
  BY TaskIs, ColumnsOf DEF Inv, Complete
<1>2. job \in JobRow /\ job.kind = t.kind /\ t.job \in DOMAIN jobs
      /\ jobs \in [DOMAIN jobs -> JobRow]
  BY <1>1, JobIs DEF Inv
<1>3. /\ jobs' = [jobs EXCEPT ![t.job] = row] /\ task' = [task EXCEPT ![w] = Idle]
      /\ UNCHANGED <<summary, reports, notices, delivered, flagged, spent>>
  BY <1>2 DEF Complete, Ended, Goes
<1>4. t.failed \in SUBSET (Sat \cup Students \cup {"none"} \cup Questions)
  BY <1>1 DEF Task, Columns
<1>5. /\ row \in JobRow /\ row.kind = t.kind /\ row.made = t.made
      /\ row.failed = t.failed
  BY <1>1, <1>2, <1>4 DEF JobRow
<1> HIDE DEF row, n
<1>6. Told(row, n)
  <2>1. SUFFICES ASSUME t.kind = "card"
                 PROVE  t.made = n /\ t.made + Cardinality(t.failed) = Cardinality(Sat)
    BY <1>5 DEF Told
  <2>2. Accounts(t, n) /\ n \in Nat
    BY <1>1, <2>1, MadeCounts DEF Inv, TypeInv, CountInv, Counted, n
  <2> HIDE DEF t
  <2>3. ~Telling(t)
    BY <1>1 DEF Telling
  <2>4. /\ n = t.made /\ Cardinality(t.failed) \in Nat
        /\ t.made + Cardinality(t.failed) + Cardinality(t.todo) = Cardinality(Sat)
    BY <1>1, <2>2, <2>3, AccountsAre
  <2>5. Cardinality(t.todo) = 0
    BY <1>1, FS_EmptySet
  <2> QED BY <1>1, <2>4, <2>5
<1>7. MaySpend
  BY <1>3, HappenIs DEF Inv
<1> QED BY <1>1, <1>3, <1>5, <1>6, <1>7, EndOn DEF n

\* An import ends.
LEMMA ImportKeeps ==
  ASSUME Inv, NEW w \in Workers, Import(w)
  PROVE  Inv'
<1> DEFINE t == task[w]
           job == jobs[t.job]
           row == [job EXCEPT !.status = "COMPLETED", !.failed = Questions]
<1>1. t \in Task /\ t.at = "import" /\ t.job # 0 /\ t.kind = "import"
  BY TaskIs DEF Inv, Import, Task, Fits
<1>2. job \in JobRow /\ job.kind = t.kind
  BY <1>1, JobIs DEF Inv
<1>3. /\ jobs' = [jobs EXCEPT ![t.job] = row] /\ task' = [task EXCEPT ![w] = Idle]
      /\ UNCHANGED <<summary, reports, notices, delivered, flagged, spent>>
  BY DEF Import, Goes
<1>4. row \in JobRow /\ row.kind = t.kind
  BY <1>2 DEF JobRow
<1> HIDE DEF row
<1>5. Told(row, Cardinality(MadeIn(reports, t.job)))
  BY <1>1, <1>4 DEF Told
<1>6. MaySpend
  BY <1>3, HappenIs DEF Inv
<1> QED BY <1>1, <1>3, <1>4, <1>5, <1>6, EndOn

\* A request, or a job, is lost.
LEMMA BrokenKeeps ==
  ASSUME Inv, NEW w \in Workers, Broken(w), MayHappen \/ UNCHANGED spent
  PROVE  Inv'
<1> DEFINE t == task[w]
           job == jobs[t.job]
           row == [job EXCEPT !.status = "FAILED"]
<1>1. MaySpend /\ UNCHANGED <<summary, reports, notices, delivered, flagged>>
  BY HappenIs DEF Inv, Broken
<1>2. CASE t.job = 0
  <2>1. task' = [task EXCEPT ![w] = Idle] /\ UNCHANGED jobs
    BY <1>2 DEF Broken, Goes
  <2>2. Moves(w, Idle) /\ Idle.job = 0
    BY <2>1, IdleTyped DEF Moves
  <2>3. Tells(Idle, flagged, reports, notices, delivered)
    BY IdleTyped, QuietTells
  <2> QED BY <1>1, <2>1, <2>2, <2>3, QuietOn
<1>3. CASE t.job # 0
  <2>1. job \in JobRow /\ job.kind = t.kind
    BY <1>3, JobIs DEF Inv
  <2>2. jobs' = [jobs EXCEPT ![t.job] = row] /\ task' = [task EXCEPT ![w] = Idle]
    BY <1>3 DEF Broken, Ended, Goes
  <2>3. row \in JobRow /\ row.kind = t.kind /\ row.status = "FAILED"
    BY <2>1 DEF JobRow
  <2> HIDE DEF row
  <2>4. Told(row, Cardinality(MadeIn(reports, t.job)))
    BY <2>3 DEF Told
  <2> QED BY <1>1, <1>3, <2>2, <2>3, <2>4, EndOn
<1> QED BY <1>2, <1>3

\* A statement that reads, or an item that fails.
LEMMA ReadKeeps ==
  ASSUME Inv, NEW w \in Workers,
         \/ ListWork(w) \/ NextItem(w) \/ ReadProfile(w) \/ ReadEvaluation(w)
         \/ ReadProfileAgain(w) \/ NoConnection(w) \/ AbortedStatement(w)
  PROVE  Inv'
<1>1. /\ MaySpend
      /\ UNCHANGED <<summary, reports, notices, delivered, jobs, flagged>>
  BY HappenIs DEF Inv, ListWork, NextItem, ReadProfile, ReadEvaluation, ReadProfileAgain,
     NoConnection, AbortedStatement
<1>2. PICK u : /\ Moves(w, u) /\ Carries(task[w], u)
              /\ u.at \in {"next", "profile", "evaluations", "report"}
  BY ListIs, NextIs, ProfileIs, EvaluationIs, AgainIs, ConnectionIs, AbortedIs DEF Inv
<1>3. Tells(u, flagged, reports, notices, delivered)
  BY <1>2, QuietTells
<1> QED BY <1>1, <1>2, <1>3, QuietOn

\* The summary as loaded is at risk only if one was on record.
LEMMA SummaryKeeps ==
  ASSUME Inv, NEW w \in Workers, ReadSummary(w)
  PROVE  Inv'
<1>1. /\ MaySpend
      /\ UNCHANGED <<summary, reports, notices, delivered, jobs, flagged>>
  BY HappenIs DEF Inv, ReadSummary
<1>2. PICK u : /\ Moves(w, u) /\ Carries(task[w], u) /\ u.at = "summary"
              /\ u.who \in Whoever /\ u.loaded = summary[u.who]
  BY SummaryIs DEF Inv
<1>3. Tells(u, flagged, reports, notices, delivered)
  BY <1>2 DEF Tells, Inv, TellInv
<1> QED BY <1>1, <1>2, <1>3, QuietOn

\* A summary is saved.
LEMMA SaveKeeps ==
  ASSUME Inv, NEW w \in Workers, SaveSummary(w)
  PROVE  Inv'
<1>1. UNCHANGED <<reports, notices, delivered, jobs, spent>>
  BY DEF SaveSummary
<1>2. /\ summary' \in [Whoever -> Row] /\ flagged \subseteq flagged'
      /\ \A s \in Whoever : summary'[s].atRisk => s \in flagged'
  BY SaveIs DEF Inv
<1>3. PICK u : /\ Moves(w, u) /\ Carries(task[w], u)
              /\ Tells(u, flagged', reports, notices, delivered)
  BY SaveIs DEF Inv
<1>4. TypeInv'
  BY <1>1, <1>2, <1>3, TypeOn DEF Inv, TypeInv
<1>5. CountInv'
  BY <1>1, <1>3, CarryCounts DEF Inv
<1>6. TellInv'
  <2>1. Grows
    BY <1>1, <1>2 DEF Grows
  <2> QED BY <1>1, <1>2, <1>3, <2>1, TellOn DEF Inv
<1> QED BY <1>4, <1>5, <1>6 DEF Inv

\* A report is saved.
LEMMA ReportKeeps ==
  ASSUME Inv, NEW w \in Workers, SaveReport(w)
  PROVE  Inv'
<1>1. UNCHANGED <<summary, notices, delivered, jobs, flagged, spent>>
  BY DEF SaveReport
<1>2. PICK u, r : /\ Moves(w, u) /\ r \in Report /\ r.job = task[w].job
                 /\ reports' = Append(reports, r)
                 /\ Tells(u, flagged, reports', notices, delivered)
                 /\ Gains(task[w], u)
  BY ReportIs DEF Inv
<1>3. /\ reports' \in Seq(Report)
      /\ \A i \in DOMAIN reports : i \in DOMAIN reports' /\ reports'[i] = reports[i]
  BY <1>2, AppendProperties DEF Inv, TypeInv
<1>4. TypeInv'
  BY <1>1, <1>2, <1>3, TypeOn DEF Inv, TypeInv
<1>5. CountInv'
  BY <1>1, <1>2, ReportCounts DEF Inv
<1>6. TellInv'
  <2>1. Grows
    BY <1>1, <1>3 DEF Grows
  <2>2. \A s \in Whoever : summary'[s].atRisk => s \in flagged'
    BY <1>1 DEF Inv, TellInv
  <2> QED BY <1>1, <1>2, <2>1, <2>2, TellOn DEF Inv
<1> QED BY <1>4, <1>5, <1>6 DEF Inv

\* The row of a notice is inserted.
LEMMA LogKeeps ==
  ASSUME Inv, NEW w \in Workers, LogNotice(w)
  PROVE  Inv'
<1>1. UNCHANGED <<summary, reports, delivered, jobs, flagged>>
  BY DEF LogNotice
<1>2. /\ LogKept /\ MaySpend
      /\ \A n \in DOMAIN notices' :
           n \in DOMAIN notices \/ notices'[n].status = "PENDING"
      /\ \A n \in DOMAIN notices : notices'[n] = notices[n]
  BY LogIs DEF Inv
<1>3. PICK u : /\ Moves(w, u) /\ Carries(task[w], u)
              /\ Tells(u, flagged, reports, notices', delivered)
  BY LogIs DEF Inv
<1>4. TypeInv'
  BY <1>1, <1>2, <1>3, TypeOn DEF Inv, TypeInv, MaySpend, LogKept
<1>5. CountInv'
  BY <1>1, <1>2, <1>3, CarryCounts DEF Inv, MaySpend
<1>6. TellInv'
  <2>1. Grows
    BY <1>1, <1>2 DEF Grows, LogKept
  <2>2. \A s \in Whoever : summary'[s].atRisk => s \in flagged'
    BY <1>1 DEF Inv, TellInv
  <2>3. ASSUME NEW n \in DOMAIN notices'
        PROVE  \/ n \in DOMAIN notices /\ notices'[n] = notices[n]
               \/ Backed(notices'[n], n, delivered')
    BY <1>2 DEF Backed
  <2> QED BY <1>1, <1>3, <2>1, <2>2, <2>3, TellOn DEF Inv
<1> QED BY <1>4, <1>5, <1>6 DEF Inv

\* A notice is handed over, or not.
LEMMA SendKeeps ==
  ASSUME Inv, NEW w \in Workers, SendNotice(w)
  PROVE  Inv'
<1>1. UNCHANGED <<summary, reports, notices, jobs, flagged>>
  BY DEF SendNotice
<1>2. /\ delivered \subseteq delivered' /\ MaySpend
      /\ \A d \in delivered' \ delivered : IsSo(d, flagged, reports)
  BY SendIs DEF Inv
<1>3. PICK u : /\ Moves(w, u) /\ Carries(task[w], u)
              /\ Tells(u, flagged, reports, notices, delivered')
  BY SendIs DEF Inv
<1>4. TypeInv'
  BY <1>1, <1>2, <1>3, TypeOn DEF Inv, TypeInv, MaySpend
<1>5. CountInv'
  BY <1>1, <1>2, <1>3, CarryCounts DEF Inv, MaySpend
<1>6. TellInv'
  <2>1. Grows
    BY <1>1, <1>2 DEF Grows
  <2>2. \A s \in Whoever : summary'[s].atRisk => s \in flagged'
    BY <1>1 DEF Inv, TellInv
  <2> QED BY <1>1, <1>2, <1>3, <2>1, <2>2, TellOn DEF Inv
<1> QED BY <1>4, <1>5, <1>6 DEF Inv

\* A row is marked SENT only if it was.
LEMMA MarkKeeps ==
  ASSUME Inv, NEW w \in Workers, MarkNotice(w)
  PROVE  Inv'
<1>1. UNCHANGED <<summary, reports, delivered, jobs, flagged>>
  BY DEF MarkNotice
<1>2. /\ LogKept /\ MaySpend /\ DOMAIN notices' = DOMAIN notices
      /\ \A n \in DOMAIN notices :
           notices'[n] = notices[n] \/ Backed(notices'[n], n, delivered)
  BY MarkIs DEF Inv, Backed
<1>3. PICK u : /\ Moves(w, u) /\ Carries(task[w], u)
              /\ u.at \in {"idle", "next", "report", "profile again"}
  BY MarkIs DEF Inv
<1>4. TypeInv'
  BY <1>1, <1>2, <1>3, TypeOn DEF Inv, TypeInv, MaySpend, LogKept
<1>5. CountInv'
  BY <1>1, <1>2, <1>3, CarryCounts DEF Inv, MaySpend
<1>6. TellInv'
  <2>1. Grows
    BY <1>1, <1>2 DEF Grows, LogKept
  <2>2. \A s \in Whoever : summary'[s].atRisk => s \in flagged'
    BY <1>1 DEF Inv, TellInv
  <2>3. Tells(u, flagged', reports', notices', delivered')
    BY <1>3, QuietTells
  <2> QED BY <1>1, <1>2, <1>3, <2>1, <2>2, <2>3, TellOn DEF Inv
<1> QED BY <1>4, <1>5, <1>6 DEF Inv

\* A coroutine starts.
LEMMA BeginKeeps ==
  ASSUME Inv, NEW w \in Workers, Request(w) \/ Launch(w) \/ Running(w)
  PROVE  Inv'
<1>1. UNCHANGED <<summary, reports, notices, delivered, flagged>>
  BY DEF Request, Launch, Running
<1>2. PICK u : Moves(w, u) /\ u.at \in {"profile", "evaluations", "launched", "list", "import"}
  BY RequestIs, LaunchIs, RunningIs DEF Inv
<1>3. CountInv' /\ JobsTyped(jobs', spent'.jobs) /\ spent' \in Spent
  <2>1. CASE Request(w)
    <3>1. PICK v : Moves(w, v) /\ v.job = 0
      BY <2>1, RequestIs DEF Inv
    <3>2. UNCHANGED <<jobs, reports>> /\ MaySpend
      BY <2>1, RequestIs DEF Inv, Request
    <3> QED BY <3>1, <3>2, RequestCounts DEF Inv, TypeInv, MaySpend
  <2>2. CASE Launch(w)
    BY <2>2, LaunchIs DEF Inv
  <2>3. CASE Running(w)
    <3>1. UNCHANGED spent
      BY <2>3 DEF Running
    <3> QED BY <2>3, <3>1, RunningIs DEF Inv, TypeInv
  <2> QED BY <2>1, <2>2, <2>3
<1>4. TypeInv'
  BY <1>1, <1>2, <1>3, TypeOn DEF Inv, TypeInv
<1>5. TellInv'
  <2>1. Grows
    BY <1>1 DEF Grows
  <2>2. \A s \in Whoever : summary'[s].atRisk => s \in flagged'
    BY <1>1 DEF Inv, TellInv
  <2>3. Tells(u, flagged', reports', notices', delivered')
    BY <1>2, QuietTells
  <2> QED BY <1>1, <1>2, <2>1, <2>2, <2>3, TellOn DEF Inv
<1> QED BY <1>3, <1>4, <1>5 DEF Inv

\* A report is published: it stays the report of its student and its job.
LEMMA PublishKeeps ==
  ASSUME Inv, PublishReport
  PROVE  Inv'
<1>1. /\ UNCHANGED <<summary, notices, delivered, jobs, task, flagged>>
      /\ spent' = [spent EXCEPT !.requests = @ + 1]
  BY DEF PublishReport, Spend
<1>2. PICK r \in DOMAIN reports : reports' = [reports EXCEPT ![r].status = "PUBLISHED"]
  BY DEF PublishReport
<1> DEFINE row == [reports[r] EXCEPT !.status = "PUBLISHED"]
<1>3. reports \in Seq(Report) /\ reports[r] \in Report /\ spent \in Spent
  BY JobsOfReports DEF Inv, TypeInv
<1>4. /\ row \in Report /\ row.job = reports[r].job /\ row.student = reports[r].student
      /\ reports' = [reports EXCEPT ![r] = row]
  BY <1>2, <1>3 DEF Report
<1> HIDE DEF row
<1>5. /\ reports' \in Seq(Report) /\ DOMAIN reports' = DOMAIN reports
      /\ \A i \in DOMAIN reports : /\ reports'[i].job = reports[i].job
                                   /\ reports'[i].student = reports[i].student
  BY <1>3, <1>4
<1>6. spent' \in Spent /\ spent'.jobs = spent.jobs
  BY <1>1, <1>3 DEF Spent
<1>7. TypeInv'
  BY <1>1, <1>5, <1>6 DEF Inv, TypeInv
<1>8. \A j : MadeIn(reports', j) = MadeIn(reports, j)
  BY <1>5 DEF MadeIn
<1>9. CountInv'
  <2>1. \A w \in Workers : Owned(task'[w], jobs') /\ Counted(task'[w], reports')
    BY <1>1, <1>8 DEF Inv, CountInv, Counted
  <2>2. \A w, v \in Workers : w # v /\ task'[w].job # 0 => task'[w].job # task'[v].job
    BY <1>1 DEF Inv, CountInv
  <2>3. \A i \in DOMAIN reports' : reports'[i].job <= spent'.jobs
    BY <1>5, <1>6 DEF Inv, CountInv
  <2>4. JobsTellAll'
    BY <1>1, <1>8, ToldAll DEF Inv, CountInv
  <2> QED BY <2>1, <2>2, <2>3, <2>4 DEF CountInv
<1>10. TellInv'
  <2>1. Grows
    BY <1>1, <1>5 DEF Grows
  <2>2. \A w \in Workers : Tells(task'[w], flagged', reports', notices', delivered')
    BY <1>1, <2>1, TellsStay DEF Inv, TellInv
  <2>3. \A d \in delivered' : IsSo(d, flagged', reports')
    BY <1>1, <1>5, TrueAll DEF Inv, TellInv, IsSo
  <2>4. \A n \in DOMAIN notices' : Backed(notices'[n], n, delivered')
    BY <1>1, TrueAll DEF Inv, TellInv
  <2>5. \A s \in Whoever : summary'[s].atRisk => s \in flagged'
    BY <1>1 DEF Inv, TellInv
  <2> QED BY <2>2, <2>3, <2>4, <2>5, TrueAll DEF TellInv
<1> QED BY <1>7, <1>9, <1>10 DEF Inv

\* A restart forgets the jobs; what is on record and was said stays.
LEMMA CrashKeeps ==
  ASSUME Inv, Crash
  PROVE  Inv'
<1>1. /\ UNCHANGED <<summary, reports, notices, delivered, flagged>> /\ MaySpend
      /\ jobs' = <<>> /\ task' = [w \in Workers |-> Idle]
  BY HappenIs DEF Inv, Crash
<1>2. DOMAIN jobs' = {} /\ \A w \in Workers : task'[w] = Idle
  BY <1>1
<1>3. TypeInv'
  <2>1. JobsTyped(jobs', spent'.jobs)
    BY <1>1, <1>2 DEF JobsTyped
  <2>2. task' \in [Workers -> Task]
    BY <1>1, IdleTyped
  <2> QED BY <1>1, <1>2, <2>1, <2>2, IdleTyped DEF Inv, TypeInv, MaySpend
<1>4. CountInv'
  <2>1. \A w \in Workers : Owned(task'[w], jobs') /\ Counted(task'[w], reports')
    BY <1>2, IdleTyped, FreeCounts
  <2>2. JobsTellAll'
    BY <1>2 DEF JobsTellAll
  <2> QED BY <1>1, <1>2, <2>1, <2>2, IdleTyped DEF Inv, CountInv, MaySpend
<1>5. TellInv'
  <2>1. \A w \in Workers : Tells(task'[w], flagged', reports', notices', delivered')
    BY <1>2, IdleTyped, QuietTells
  <2> QED BY <1>1, <2>1, TrueAll DEF Inv, TellInv
<1> QED BY <1>3, <1>4, <1>5 DEF Inv

\* The results behind the dashboards change, or nothing does.
LEMMA OthersKeep ==
  ASSUME Inv, Reevaluate \/ MasteryMoves \/ UNCHANGED vars
  PROVE  Inv'
<1>1. /\ UNCHANGED <<summary, reports, notices, delivered, jobs, task, flagged>>
      /\ MaySpend
  BY HappenIs DEF Inv, Reevaluate, MasteryMoves, vars
<1>2. TypeInv'
  BY <1>1 DEF Inv, TypeInv, MaySpend
<1>3. CountInv'
  BY <1>1, ToldAll DEF Inv, CountInv, MaySpend
<1>4. TellInv'
  BY <1>1, TrueAll DEF Inv, TellInv
<1> QED BY <1>2, <1>3, <1>4 DEF Inv

-----------------------------------------------------------------------------
(* The theorems.                                                             *)

\* Nothing has happened yet.
LEMMA InitInv == Init => Inv
<1> SUFFICES ASSUME Init PROVE Inv
  OBVIOUS
<1>1. /\ reports = <<>> /\ notices = <<>> /\ jobs = <<>> /\ delivered = {}
      /\ DOMAIN jobs = {} /\ DOMAIN reports = {} /\ DOMAIN notices = {}
  BY DEF Init
<1>2. \A w \in Workers : task[w] = Idle
  BY DEF Init
<1>3. summary \in [Whoever -> Row] /\ \A s \in Whoever : summary[s] = NoRow
  BY IdleTyped DEF Init, Whoever
<1>4. TypeInv
  <2>1. task \in [Workers -> Task] /\ spent \in Spent
    BY IdleTyped DEF Init, Spent
  <2>2. JobsTyped(jobs, spent.jobs)
    BY <1>1 DEF JobsTyped
  <2> QED BY <1>1, <1>2, <1>3, <2>1, <2>2, IdleTyped DEF TypeInv
<1>5. CountInv
  <2>1. \A w \in Workers : Owned(task[w], jobs) /\ Counted(task[w], reports)
    BY <1>2, IdleTyped, FreeCounts
  <2> QED BY <1>1, <1>2, <2>1, IdleTyped DEF CountInv, JobsTellAll
<1>6. TellInv
  <2>1. \A w \in Workers : Tells(task[w], flagged, reports, notices, delivered)
    BY <1>2, IdleTyped, QuietTells
  <2> QED BY <1>1, <1>3, <2>1, IdleTyped DEF TellInv, NoticesTrue
<1> QED BY <1>4, <1>5, <1>6 DEF Inv

\* Every step keeps the inductive invariant.
LEMMA StepInv == Inv /\ [Next]_vars => Inv'
<1> SUFFICES ASSUME Inv, [Next]_vars PROVE Inv'
  OBVIOUS
<1>1. ASSUME NEW w \in Workers, Request(w) \/ Launch(w) PROVE Inv'
  BY <1>1, BeginKeeps
<1>2. ASSUME NEW w \in Workers, Step(w) PROVE Inv'
  <2>1. CASE Running(w)
    BY <2>1, BeginKeeps
  <2>2. CASE \/ ListWork(w) \/ NextItem(w) \/ ReadProfile(w) \/ ReadEvaluation(w)
             \/ ReadProfileAgain(w) \/ NoConnection(w) \/ AbortedStatement(w)
    BY <2>2, ReadKeeps
  <2>3. CASE Complete(w)
    BY <2>3, CompleteKeeps
  <2>4. CASE Import(w)
    BY <2>4, ImportKeeps
  <2>5. CASE ReadSummary(w)
    BY <2>5, SummaryKeeps
  <2>6. CASE SaveSummary(w)
    BY <2>6, SaveKeeps
  <2>7. CASE SaveReport(w)
    BY <2>7, ReportKeeps
  <2>8. CASE LogNotice(w)
    BY <2>8, LogKeeps
  <2>9. CASE SendNotice(w)
    BY <2>9, SendKeeps
  <2>10. CASE MarkNotice(w)
    BY <2>10, MarkKeeps
  <2>11. CASE LostConnection(w) \/ UniqueViolation(w)
    BY <2>11, BrokenKeeps DEF LostConnection, UniqueViolation
  <2> QED BY <1>2, <2>1, <2>2, <2>3, <2>4, <2>5, <2>6, <2>7, <2>8, <2>9, <2>10, <2>11
          DEF Step
<1>3. CASE PublishReport
  BY <1>3, PublishKeeps
<1>4. CASE Crash
  BY <1>4, CrashKeeps
<1>5. CASE Reevaluate \/ MasteryMoves \/ UNCHANGED vars
  BY <1>5, OthersKeep
<1> QED BY <1>1, <1>2, <1>3, <1>4, <1>5 DEF Next

\* The inductive invariant of the coroutines, the jobs and the notices.
LEMMA InvHolds == Spec => []Inv
BY InitInv, StepInv, PTL DEF Spec

\* The result of a job of report cards accounts for every attempt it listed, whoever
\* else works, and however its session failed (jobs/tasks.py:145-180).
THEOREM JobsAccountForAll == Spec => []JobsTellAll
<1>1. Inv => JobsTellAll
  BY DEF Inv, CountInv
<1> QED BY <1>1, InvHolds, PTL

\* A notice that is SENT was handed over, and says what is on record
\* (notifications/service.py:109-151).
THEOREM NoticesAreTrue == Spec => []NoticesTrue
<1>1. Inv => NoticesTrue
  BY DEF Inv, TellInv
<1> QED BY <1>1, InvHolds, PTL

=============================================================================
