------------------------------ MODULE ExamProofs ------------------------------
(***************************************************************************)
(* Proofs about module ExamManagement, for any number of workers, students,  *)
(* configurations, papers and attempts.                                      *)
(***************************************************************************)
EXTENDS ExamManagement, FiniteSetTheorems, SequenceTheorems, WellFoundedInduction, TLAPS

ExamRow == [status : Status \cup {Absent}, type : {"REGULAR", "MOCK"},
            config : Configs \cup {NoConfig}, code : BOOLEAN]

Paper == [config : Configs, owner : Students \cup {Shared}]

-----------------------------------------------------------------------------
(* What one step does to a request.                                        *)

\* The request as its first query leaves it.
NewTask(op, step, input, student, attempt) ==
  [op |-> op, step |-> step, status |-> exam.status, config |-> exam.config,
   input |-> input, student |-> student, attempt |-> attempt, number |-> None,
   paper |-> None, seat |-> NoSeat, held |-> FALSE]

Loads(v) ==
  /\ task[v] = Idle /\ Exists
  /\ UNCHANGED <<exam, history, papers, seats, attempts, submitted>>
  /\ \/ \E c \in Configs : task'[v] = NewTask("configure", "commit", c, Shared, None)
     \/ /\ exam.config # NoConfig
        /\ task'[v] = NewTask("generate", "paper", NoConfig, Shared, None)
     \/ \E op \in {"approve", "publish", "schedule"} :
          task'[v] = NewTask(op, "commit", NoConfig, Shared, None)
     \/ \E s \in Students :
          task'[v] = NewTask("start",
                             IF exam.status \in {"PUBLISHED", "SCHEDULED"}
                             THEN "activate" ELSE "latest", NoConfig, s, None)
     \/ \E a \in DOMAIN attempts :
          /\ attempts[a].status = "IN_PROGRESS"
          /\ task'[v] = NewTask("submit", "seat", NoConfig, attempts[a].student, a)

\* Where a start goes once it has looked for its latest attempt.
Goes(v, step) ==
  LET found == LatestOf(task[v].student)
  IN /\ exam.type = "REGULAR" => found = {} /\ step = "seat"
     /\ exam.type # "REGULAR" => step = IF found = {} THEN "paper" ELSE "list"

\* The paper a regular start takes: that of the seat, or the newest.
Chosen(v, paper) ==
  task[v].op = "start" =>
    LET seat == seats[task[v].student]
    IN /\ paper # None
       /\ paper = IF seat # NoSeat THEN seat.paper ELSE Newest(task[v].config)

\* A later step of the request, which goes on.
Continues(v) ==
  \/ /\ Activate(v)
     /\ task'[v] = [task[v] EXCEPT !.step = "latest", !.held = TRUE]
  \/ \E step \in {"seat", "paper", "list"}, number \in Nat :
       /\ ReadLatest(v) /\ task'[v] # Idle /\ Goes(v, step)
       /\ task'[v] = [task[v] EXCEPT !.step = step, !.number = number]
  \/ \E paper \in Nat :
       /\ ReadSeat(v) /\ task'[v] # Idle
       /\ Chosen(v, paper)
       /\ task'[v] = [task[v] EXCEPT !.step = "commit", !.paper = paper,
                                     !.seat = seats[task[v].student]]
  \/ /\ ListAttempts(v)
     /\ task'[v] = [task[v] EXCEPT !.step = "paper", !.attempt = Len(attempts)]
  \/ /\ CommitSharedPaper(v)
     /\ task'[v] = [task[v] EXCEPT !.step = "commit"]
  \/ /\ CommitOwnPaper(v) /\ ~Refuse(v)
     /\ task'[v] = [task[v] EXCEPT !.step = "commit", !.held = FALSE,
                                   !.paper = Len(papers')]
  \/ /\ CommitSubmit(v)
     /\ task'[v] = [task[v] EXCEPT !.step = "publish"]

\* Where in its request each step is taken.
LEMMA Places ==
  ASSUME NEW w
  PROVE  /\ CommitSharedPaper(w) => At(w, "generate", "paper")
         /\ Activate(w) => At(w, "start", "activate")
         /\ ReadLatest(w) => At(w, "start", "latest")
         /\ ReadSeat(w) => task[w].step = "seat"
         /\ ListAttempts(w) => At(w, "start", "list")
         /\ CommitOwnPaper(w) => At(w, "start", "paper")
         /\ CommitAttempt(w) => At(w, "start", "commit")
         /\ CommitSubmit(w) => At(w, "submit", "commit")
         /\ PublishSubmitted(w) => At(w, "submit", "publish")
BY DEF CommitSharedPaper, Activate, ReadLatest, ReadSeat, ListAttempts, CommitOwnPaper,
       CommitAttempt, CommitSubmit, PublishSubmitted

\* Begin, with the inputs a handler gives it, makes one of these requests.
LEMMA BeginLoads ==
  ASSUME TypeOK, NEW w \in Workers,
         \/ ReadForConfigure(w) \/ ReadForGenerate(w) \/ ReadForApprove(w)
         \/ ReadForPublish(w) \/ ReadForSchedule(w) \/ ReadForStart(w)
         \/ ReadForSubmit(w)
  PROVE  Loads(w) /\ \A v \in Workers \ {w} : task'[v] = task[v]
<1> DEFINE columns == {"op", "step", "status", "config", "input", "student",
                       "attempt", "number", "paper", "seat", "held"}
           col(fields, f) == IF f \in DOMAIN fields THEN fields[f]
                             ELSE IF f = "status" THEN exam.status
                             ELSE IF f = "config" THEN exam.config ELSE Idle[f]
<1>1. task \in [Workers -> Task] /\ DOMAIN Idle = columns
  BY DEF TypeOK, Idle
<1>2. ASSUME NEW fields, Begin(w, fields)
      PROVE  /\ task[w] = Idle /\ Exists
             /\ UNCHANGED <<exam, history, papers, seats, attempts, submitted>>
             /\ \A v \in Workers \ {w} : task'[v] = task[v]
             /\ task'[w] = [f \in columns |-> task'[w][f]]
             /\ \A f \in columns : task'[w][f] = col(fields, f)
  BY <1>1, <1>2 DEF Begin
<1>3. /\ Idle.student = Shared /\ Idle.attempt = None /\ Idle.held = FALSE
      /\ Idle.number = None /\ Idle.paper = None /\ Idle.seat = NoSeat
      /\ Idle.input = NoConfig
  BY DEF Idle
<1> DEFINE Rest(fields) ==
             /\ col(fields, "status") = exam.status
             /\ col(fields, "config") = exam.config
             /\ col(fields, "number") = None /\ col(fields, "paper") = None
             /\ col(fields, "seat") = NoSeat /\ col(fields, "held") = FALSE
<1>5. CASE ReadForConfigure(w)
  <2>1. PICK c \in Configs :
          Begin(w, [op |-> "configure", step |-> "commit", input |-> c])
    BY <1>5 DEF ReadForConfigure
  <2> DEFINE fields == [op |-> "configure", step |-> "commit", input |-> c]
  <2>2. DOMAIN fields = {"op", "step", "input"}
    OBVIOUS
  <2>3. /\ col(fields, "op") = "configure" /\ col(fields, "step") = "commit"
        /\ col(fields, "input") = c /\ col(fields, "student") = Shared
        /\ col(fields, "attempt") = None /\ Rest(fields)
    BY <1>3, <2>2
  <2>4. task'[w] = NewTask("configure", "commit", c, Shared, None)
    <3>1. \A f \in columns : task'[w][f] = col(fields, f)
      BY <1>2, <2>1
    <3>2. task'[w] = [f \in columns |-> task'[w][f]]
      BY <1>2, <2>1
    <3>3. /\ task'[w].op = "configure" /\ task'[w].step = "commit"
          /\ task'[w].input = c /\ task'[w].student = Shared
          /\ task'[w].attempt = None /\ task'[w].held = FALSE
          /\ task'[w].status = exam.status /\ task'[w].config = exam.config
          /\ task'[w].number = None /\ task'[w].paper = None
          /\ task'[w].seat = NoSeat
      <4> HIDE DEF fields, col
      <4> QED BY <2>3, <3>1
    <3>4. DOMAIN task'[w] = columns
      BY <3>2
    <3> HIDE DEF fields, col
    <3> QED BY <3>2, <3>3, <3>4 DEF NewTask
  <2> QED BY <1>2, <2>1, <2>4 DEF Loads
<1>6. ASSUME NEW op, NEW step, Begin(w, [op |-> op, step |-> step])
      PROVE  /\ task'[w] = NewTask(op, step, NoConfig, Shared, None)
             /\ task[w] = Idle /\ Exists
             /\ UNCHANGED <<exam, history, papers, seats, attempts, submitted>>
             /\ \A v \in Workers \ {w} : task'[v] = task[v]
  <2> DEFINE fields == [op |-> op, step |-> step]
  <2>2. DOMAIN fields = {"op", "step"}
    OBVIOUS
  <2>3. /\ col(fields, "op") = op /\ col(fields, "step") = step
        /\ col(fields, "input") = NoConfig /\ col(fields, "student") = Shared
        /\ col(fields, "attempt") = None /\ Rest(fields)
    BY <1>3, <2>2
  <2>4. task'[w] = NewTask(op, step, NoConfig, Shared, None)
    <3>1. \A f \in columns : task'[w][f] = col(fields, f)
      BY <1>2, <1>6
    <3>2. task'[w] = [f \in columns |-> task'[w][f]]
      BY <1>2, <1>6
    <3>3. /\ task'[w].op = op /\ task'[w].step = step
          /\ task'[w].input = NoConfig /\ task'[w].student = Shared
          /\ task'[w].attempt = None /\ task'[w].held = FALSE
          /\ task'[w].status = exam.status /\ task'[w].config = exam.config
          /\ task'[w].number = None /\ task'[w].paper = None
          /\ task'[w].seat = NoSeat
      <4> HIDE DEF fields, col
      <4> QED BY <2>3, <3>1
    <3>4. DOMAIN task'[w] = columns
      BY <3>2
    <3> HIDE DEF fields, col
    <3> QED BY <3>2, <3>3, <3>4 DEF NewTask
  <2> QED BY <1>2, <1>6, <2>4
<1>7. CASE ReadForGenerate(w)
  BY <1>6, <1>7 DEF ReadForGenerate, Loads
<1>8. CASE ReadForApprove(w) \/ ReadForPublish(w) \/ ReadForSchedule(w)
  BY <1>6, <1>8 DEF ReadForApprove, ReadForPublish, ReadForSchedule, Loads
<1>9. CASE ReadForStart(w)
  <2> DEFINE first == IF exam.status \in {"PUBLISHED", "SCHEDULED"}
                      THEN "activate" ELSE "latest"
  <2>1. PICK s \in Students :
          Begin(w, [op |-> "start", student |-> s, step |-> first])
    BY <1>9 DEF ReadForStart
  <2> HIDE DEF first
  <2> DEFINE fields == [op |-> "start", student |-> s, step |-> first]
  <2>2. DOMAIN fields = {"op", "student", "step"}
    OBVIOUS
  <2>3. /\ col(fields, "op") = "start" /\ col(fields, "step") = first
        /\ col(fields, "input") = NoConfig /\ col(fields, "student") = s
        /\ col(fields, "attempt") = None /\ Rest(fields)
    BY <1>3, <2>2
  <2>4. task'[w] = NewTask("start", first, NoConfig, s, None)
    <3>1. \A f \in columns : task'[w][f] = col(fields, f)
      BY <1>2, <2>1
    <3>2. task'[w] = [f \in columns |-> task'[w][f]]
      BY <1>2, <2>1
    <3>3. /\ task'[w].op = "start" /\ task'[w].step = first
          /\ task'[w].input = NoConfig /\ task'[w].student = s
          /\ task'[w].attempt = None /\ task'[w].held = FALSE
          /\ task'[w].status = exam.status /\ task'[w].config = exam.config
          /\ task'[w].number = None /\ task'[w].paper = None
          /\ task'[w].seat = NoSeat
      <4> HIDE DEF fields, col
      <4> QED BY <2>3, <3>1
    <3>4. DOMAIN task'[w] = columns
      BY <3>2
    <3> HIDE DEF fields, col
    <3> QED BY <3>2, <3>3, <3>4 DEF NewTask
  <2> QED BY <1>2, <2>1, <2>4 DEF Loads, first
<1>10. CASE ReadForSubmit(w)
  <2>1. PICK a \in DOMAIN attempts :
          /\ attempts[a].status = "IN_PROGRESS"
          /\ Begin(w, [op |-> "submit", step |-> "seat", attempt |-> a,
                       student |-> attempts[a].student])
    BY <1>10 DEF ReadForSubmit
  <2> DEFINE fields == [op |-> "submit", step |-> "seat", attempt |-> a,
                        student |-> attempts[a].student]
  <2>2. DOMAIN fields = {"op", "step", "attempt", "student"}
    OBVIOUS
  <2>3. /\ col(fields, "op") = "submit" /\ col(fields, "step") = "seat"
        /\ col(fields, "input") = NoConfig /\ col(fields, "student") = attempts[a].student
        /\ col(fields, "attempt") = a /\ Rest(fields)
    BY <1>3, <2>2
  <2>4. task'[w] = NewTask("submit", "seat", NoConfig, attempts[a].student, a)
    <3>1. \A f \in columns : task'[w][f] = col(fields, f)
      BY <1>2, <2>1
    <3>2. task'[w] = [f \in columns |-> task'[w][f]]
      BY <1>2, <2>1
    <3>3. /\ task'[w].op = "submit" /\ task'[w].step = "seat"
          /\ task'[w].input = NoConfig /\ task'[w].student = attempts[a].student
          /\ task'[w].attempt = a /\ task'[w].held = FALSE
          /\ task'[w].status = exam.status /\ task'[w].config = exam.config
          /\ task'[w].number = None /\ task'[w].paper = None
          /\ task'[w].seat = NoSeat
      <4> HIDE DEF fields, col
      <4> QED BY <2>3, <3>1
    <3>4. DOMAIN task'[w] = columns
      BY <3>2
    <3> HIDE DEF fields, col
    <3> QED BY <3>2, <3>3, <3>4 DEF NewTask
  <2> QED BY <1>2, <2>1, <2>4 DEF Loads
<1> QED BY <1>5, <1>7, <1>8, <1>9, <1>10

-----------------------------------------------------------------------------
(* The newest paper.                                                       *)

\* A non-empty set of numbers up to n has a greatest element.
LEMMA Greatest ==
  ASSUME NEW n \in Nat, NEW S \in SUBSET (1 .. n), S # {}
  PROVE  \E m \in S : \A k \in S : k <= m
<1> DEFINE T == {n - m : m \in S}
<1>1. T \subseteq Nat /\ T # {}
  <2>1. \A m \in S : n - m \in Nat
    OBVIOUS
  <2>2. PICK m \in S : TRUE
    OBVIOUS
  <2>3. n - m \in T
    OBVIOUS
  <2> QED BY <2>1, <2>3
<1>2. IsWellFoundedOn(OpToRel(<, Nat), Nat)
  BY NatLessThanWellFounded
<1>3. PICK t \in T : \A u \in T : ~(<<u, t>> \in OpToRel(<, Nat))
  <2> HIDE DEF T
  <2> QED BY <1>1, <1>2, WFMin
<1>4. \A u \in T : ~(u < t)
  BY <1>1, <1>3 DEF OpToRel
<1>5. PICK m \in S : t = n - m
  OBVIOUS
<1>6. ASSUME NEW k \in S PROVE k <= m
  <2>1. n - k \in T /\ ~(n - k < n - m)
    BY <1>4, <1>5
  <2> QED BY <2>1
<1> QED BY <1>6

\* The newest paper of a configuration is one of its papers; without any it is
\* None.
LEMMA NewestIsOne ==
  ASSUME TypeOK, NEW config
  PROVE  LET mine == {p \in DOMAIN papers : papers[p].config = config}
         IN IF mine = {} THEN Newest(config) = None
            ELSE Newest(config) \in mine /\ Newest(config) # None
<1> DEFINE mine == {p \in DOMAIN papers : papers[p].config = config}
<1>1. papers \in Seq(Paper)
  BY DEF TypeOK, Paper
<1>2. Len(papers) \in Nat /\ mine \subseteq 1 .. Len(papers)
  BY <1>1, LenProperties
<1>3. CASE mine # {}
  <2>1. \E p \in mine : \A q \in mine : q <= p
    <3> HIDE DEF mine
    <3> QED BY <1>2, <1>3, Greatest
  <2>2. Newest(config) = CHOOSE p \in mine : \A q \in mine : q <= p
    BY <1>3 DEF Newest
  <2>3. Newest(config) \in mine
    <3> HIDE DEF mine
    <3> QED BY <2>1, <2>2
  <2> QED BY <1>2, <1>3, <2>3 DEF None
<1> QED BY <1>3 DEF Newest

\* The newest paper of a configuration, the one a start or join_guest picks,
\* is a position in the table of papers, or 0 when there is none.
LEMMA NewestType ==
  ASSUME TypeOK, NEW config
  PROVE  Newest(config) \in Nat
<1>1. papers \in Seq(Paper)
  BY DEF TypeOK, Paper
<1>2. DOMAIN papers \subseteq Nat
  BY <1>1, LenProperties
<1> QED BY <1>2, NewestIsOne DEF None

-----------------------------------------------------------------------------
(* Type correctness.                                                       *)

\* What a request's operation says of its inputs: without it the type of a
\* paper and of a seat it reads could not be told.
WellFormed(t) ==
  /\ t.op \in {"start", "submit"} => t.student \in Students
  /\ t.step = "seat" => t.op \in {"start", "submit"}
  /\ t.op = "generate" => t.config \in Configs
  /\ t.op = "configure" => t.input \in Configs

TypeInv == TypeOK /\ \A v \in Workers : WellFormed(task[v])

\* A worker without a request is well-typed.
LEMMA IdleTyped == Idle \in Task /\ WellFormed(Idle)
BY DEF Idle, Task, WellFormed, NoConfig, Shared, None, NoSeat, Seat, Status

\* What the columns of an attempt hold.
LEMMA AttemptTyped ==
  ASSUME TypeOK, NEW a \in DOMAIN attempts
  PROVE  /\ attempts[a] \in Attempt /\ a \in Nat
         /\ attempts[a].student \in Students /\ attempts[a].paper \in Nat
         /\ attempts[a].number \in Nat /\ attempts[a].latest \in BOOLEAN
         /\ attempts[a].status \in {"IN_PROGRESS", "SUBMITTED"}
<1>1. attempts \in Seq(Attempt)
  BY DEF TypeOK
<1>2. attempts \in [1 .. Len(attempts) -> Attempt] /\ Len(attempts) \in Nat
  BY <1>1, LenProperties
<1>3. attempts[a] \in Attempt /\ a \in Nat
  BY <1>2
<1> QED BY <1>3 DEF Attempt

\* A step leaves a request alone, ends it, loads one, or takes one further.
LEMMA TaskAfter ==
  ASSUME TypeInv, Next, NEW v \in Workers
  PROVE  task'[v] = task[v] \/ task'[v] = Idle \/ Loads(v) \/ Continues(v)
<1>1. task \in [Workers -> Task]
  BY DEF TypeInv, TypeOK
<1>2. CASE CreateExam \/ JoinGuest
  BY <1>2 DEF CreateExam, JoinGuest
<1>3. ASSUME NEW w \in Workers,
             \/ ReadForConfigure(w) \/ ReadForGenerate(w) \/ ReadForApprove(w)
             \/ ReadForPublish(w) \/ ReadForSchedule(w) \/ ReadForStart(w)
             \/ ReadForSubmit(w)
      PROVE  task'[v] = task[v] \/ Loads(v)
  BY <1>3, BeginLoads DEF TypeInv
<1>4. ASSUME NEW w \in Workers,
             \/ CommitConfigure(w) \/ CommitGenerate(w) \/ CommitApprove(w)
             \/ CommitPublish(w) \/ CommitSchedule(w) \/ CommitAttempt(w)
             \/ PublishSubmitted(w) \/ Abort(w)
      PROVE  task'[v] = task[v] \/ task'[v] = Idle
  <2>1. Finish(w)
    BY <1>4 DEF CommitConfigure, CommitGenerate, CommitApprove, CommitPublish,
                CommitSchedule, CommitAttempt, PublishSubmitted, Abort, Refuse
  <2> QED BY <1>1, <2>1 DEF Finish
<1>5. ASSUME NEW w \in Workers, Activate(w)
      PROVE  task'[v] = task[v] \/ Continues(v)
  BY <1>1, <1>5 DEF Activate, Continues, Task
<1>6. ASSUME NEW w \in Workers, ReadLatest(w)
      PROVE  task'[v] = task[v] \/ task'[v] = Idle \/ Continues(v)
  <2> DEFINE found == LatestOf(task[w].student)
             step == IF exam.type = "REGULAR" THEN "seat"
                     ELSE IF found = {} THEN "paper" ELSE "list"
             number == IF found = {} THEN None
                       ELSE attempts[CHOOSE a \in found : TRUE].number
  <2>1. found \subseteq DOMAIN attempts /\ attempts \in Seq(Attempt)
    BY DEF LatestOf, TypeInv, TypeOK
  <2>2. number \in Nat
    <3>1. CASE found # {}
      <4>1. (CHOOSE a \in found : TRUE) \in DOMAIN attempts
        BY <2>1, <3>1
      <4>2. \A a \in DOMAIN attempts : attempts[a].number \in Nat
        BY AttemptTyped DEF TypeInv
      <4> QED BY <3>1, <4>1, <4>2
    <3> QED BY <3>1 DEF None
  <2>3. CASE Finish(w)
    BY <1>1, <2>3 DEF Finish
  <2>4. CASE task' = [task EXCEPT ![w].step = step, ![w].number = number]
    <3>1. step \in {"seat", "paper", "list"}
      OBVIOUS
    <3>2. CASE exam.type = "REGULAR" /\ found # {}
      <4>1. Finish(w)
        BY <1>6, <3>2 DEF ReadLatest
      <4> QED BY <2>3, <4>1
    <3>3. CASE ~(exam.type = "REGULAR" /\ found # {})
      <4>1. Goes(w, step)
        BY <3>3 DEF Goes
      <4> HIDE DEF step, number
      <4> QED BY <1>1, <1>6, <2>2, <2>4, <3>1, <4>1 DEF Continues
    <3> QED BY <3>2, <3>3
  <2> QED BY <1>6, <2>3, <2>4 DEF ReadLatest
<1>7. ASSUME NEW w \in Workers, ReadSeat(w)
      PROVE  task'[v] = task[v] \/ task'[v] = Idle \/ Continues(v)
  <2> DEFINE seat == seats[task[w].student]
             paper == IF seat # NoSeat THEN seat.paper ELSE Newest(task[w].config)
             read == IF task[w].op = "start" THEN paper ELSE None
  <2>1. seat \in Seat
    BY <1>1, <1>7 DEF TypeInv, TypeOK, WellFormed, ReadSeat
  <2>2. read \in Nat
    BY <2>1, NewestType DEF Seat, None, TypeInv
  <2>3. CASE Finish(w)
    BY <1>1, <2>3 DEF Finish
  <2>4. CASE task' = [task EXCEPT ![w].step = "commit", ![w].seat = seat,
                                  ![w].paper = read]
    <3> HIDE DEF paper
    <3>1. CASE task[w].op = "start" /\ paper = None
      <4>1. Finish(w)
        BY <1>7, <3>1 DEF ReadSeat, paper
      <4> QED BY <2>3, <4>1
    <3>2. CASE ~(task[w].op = "start" /\ paper = None)
      <4>1. task[w].op = "start" => read # None /\ read = paper
        BY <3>2
      <4> HIDE DEF read
      <4> QED BY <1>1, <1>7, <2>2, <2>4, <4>1 DEF Continues, Chosen, paper
    <3> QED BY <3>1, <3>2
  <2> QED BY <1>7, <2>3, <2>4 DEF ReadSeat
<1>8. ASSUME NEW w \in Workers, ListAttempts(w)
      PROVE  task'[v] = task[v] \/ Continues(v)
  BY <1>1, <1>8 DEF ListAttempts, Continues, Task
<1>9. ASSUME NEW w \in Workers, CommitSharedPaper(w)
      PROVE  task'[v] = task[v] \/ Continues(v)
  BY <1>1, <1>9 DEF CommitSharedPaper, Continues, Task
<1>10. ASSUME NEW w \in Workers, CommitOwnPaper(w)
      PROVE  task'[v] = task[v] \/ task'[v] = Idle \/ Continues(v)
  <2>1. CASE Refuse(w)
    BY <1>1, <2>1 DEF Refuse, Finish
  <2>2. CASE ~Refuse(w)
    <3>1. task' = [task EXCEPT ![w].step = "commit", ![w].held = FALSE,
                               ![w].paper = Len(papers')]
      BY <1>10, <2>2 DEF CommitOwnPaper
    <3> QED BY <1>1, <1>10, <2>2, <3>1 DEF Continues
  <2> QED BY <2>1, <2>2
<1>11. ASSUME NEW w \in Workers, CommitSubmit(w)
      PROVE  task'[v] = task[v] \/ Continues(v)
  BY <1>1, <1>11 DEF CommitSubmit, Continues, Task
<1> QED
  BY <1>2, <1>3, <1>4, <1>5, <1>6, <1>7, <1>8, <1>9, <1>10, <1>11
  DEF Next, ManageStep, AttemptStep

-----------------------------------------------------------------------------
(* What one step does to the exams row and its history.                    *)

Row(from, to) == [from |-> from, to |-> to]

\* One transition, validated unless it is the activation of a start.
MovesTo(w, target) ==
  /\ history' = Append(history, Row(task[w].status, target))
  /\ exam'.status = Written(exam.status, task[w].status, target)

\* The approval of an exam that waits for its review.
MovesThroughReview(w) ==
  /\ task[w].status = "PAPER_GENERATED"
  /\ history' = Append(Append(history, Row("PAPER_GENERATED", "TEACHER_REVIEWING")),
                       Row("TEACHER_REVIEWING", "APPROVED"))
  /\ exam'.status = Written(exam.status, task[w].status, "APPROVED")

Moves(w) ==
  /\ MayWriteExam(w)
  /\ exam' \in ExamRow /\ exam'.type = exam.type
  /\ exam'.config = exam.config \/ At(w, "configure", "commit")
  /\ \/ /\ CommitConfigure(w) /\ ~Refuse(w)
        /\ MayMove(task[w].status, "CONFIGURED") /\ MovesTo(w, "CONFIGURED")
        /\ exam'.config = Written(exam.config, task[w].config, task[w].input)
     \/ /\ CommitGenerate(w) /\ ~Refuse(w)
        /\ MayMove(task[w].status, "PAPER_GENERATED") /\ MovesTo(w, "PAPER_GENERATED")
     \/ /\ CommitApprove(w) /\ ~Refuse(w)
        /\ \/ MovesThroughReview(w)
           \/ MayMove(task[w].status, "APPROVED") /\ MovesTo(w, "APPROVED")
     \/ /\ CommitPublish(w) /\ ~Refuse(w)
        /\ MayMove(task[w].status, "PUBLISHED") /\ MovesTo(w, "PUBLISHED")
     \/ /\ CommitSchedule(w) /\ ~Refuse(w)
        /\ MayMove(task[w].status, "SCHEDULED") /\ MovesTo(w, "SCHEDULED")
     \/ /\ CommitOwnPaper(w) \/ CommitAttempt(w)
        /\ ~Refuse(w) /\ task[w].held /\ MovesTo(w, "ACTIVE")

\* TransitionThrough along one status.
LEMMA OneTransition ==
  ASSUME TypeOK, NEW w \in Workers, NEW target \in Status,
         NEW columns \in ExamRow, TransitionThrough(w, <<target>>, columns)
  PROVE  /\ MayWriteExam(w)
         /\ history' = Append(history, Row(task[w].status, target))
         /\ exam' = [columns EXCEPT !.status =
                        Written(columns.status, task[w].status, target)]
         /\ exam' \in ExamRow
         /\ exam'.status = Written(columns.status, task[w].status, target)
         /\ exam'.type = columns.type /\ exam'.config = columns.config
<1> DEFINE path == <<target>>
           from == <<task[w].status>> \o path
           rows == [i \in 1 .. Len(path) |-> [from |-> from[i], to |-> path[i]]]
<1>1. Len(path) = 1 /\ path[1] = target /\ from[1] = task[w].status
  OBVIOUS
<1>2. rows = <<Row(task[w].status, target)>>
  BY <1>1 DEF Row
<1>3. history \in Seq(HistoryRow) /\ task[w] \in Task
  BY DEF TypeOK
<1>4. Row(task[w].status, target) \in HistoryRow
  BY <1>3 DEF Row, HistoryRow, Task
<1>5. MayWriteExam(w) /\ history' = history \o rows
      /\ exam' = [columns EXCEPT !.status =
                     Written(columns.status, task[w].status, path[Len(path)])]
  BY DEF TransitionThrough
<1>6. history' = Append(history, Row(task[w].status, target))
  <2> HIDE DEF rows
  <2> QED BY <1>2, <1>3, <1>4, <1>5, AppendProperties
<1>7. Written(columns.status, task[w].status, target) \in Status \cup {Absent}
  BY <1>3 DEF Written, ExamRow
<1> QED BY <1>1, <1>5, <1>6, <1>7 DEF ExamRow

\* TransitionThrough along the two statuses of an approval after generation.
LEMMA TwoTransitions ==
  ASSUME TypeOK, NEW w \in Workers, task[w].status = "PAPER_GENERATED", exam \in ExamRow,
         TransitionThrough(w, <<"TEACHER_REVIEWING", "APPROVED">>, exam)
  PROVE  /\ MayWriteExam(w) /\ MovesThroughReview(w)
         /\ exam' \in ExamRow
         /\ exam'.type = exam.type /\ exam'.config = exam.config
<1> DEFINE path == <<"TEACHER_REVIEWING", "APPROVED">>
           from == <<task[w].status>> \o path
           rows == [i \in 1 .. Len(path) |-> [from |-> from[i], to |-> path[i]]]
           one == Row("PAPER_GENERATED", "TEACHER_REVIEWING")
           two == Row("TEACHER_REVIEWING", "APPROVED")
<1>1. /\ Len(path) = 2 /\ path[1] = "TEACHER_REVIEWING" /\ path[2] = "APPROVED"
      /\ from[1] = "PAPER_GENERATED" /\ from[2] = "TEACHER_REVIEWING"
  OBVIOUS
<1>2. rows = <<one, two>>
  BY <1>1 DEF Row
<1>3. history \in Seq(HistoryRow) /\ one \in HistoryRow /\ two \in HistoryRow
  BY DEF TypeOK, Row, HistoryRow, Status
<1>4. MayWriteExam(w) /\ history' = history \o rows
      /\ exam' = [exam EXCEPT !.status =
                     Written(exam.status, task[w].status, path[Len(path)])]
  BY DEF TransitionThrough
<1>5. history' = Append(Append(history, one), two)
  <2> HIDE DEF rows, one, two
  <2>1. history \o <<one, two>> = Append(Append(history, one), two)
    BY <1>3
  <2> QED BY <2>1, <1>2, <1>4
<1>6. Written(exam.status, task[w].status, "APPROVED") \in Status \cup {Absent}
  BY DEF Written, ExamRow, Status
<1> QED BY <1>1, <1>4, <1>5, <1>6 DEF ExamRow, MovesThroughReview

\* A step leaves the exam alone, creates it, or moves it.
LEMMA ExamAfter ==
  ASSUME TypeInv, Next
  PROVE  \/ UNCHANGED <<exam, history>>
         \/ CreateExam
         \/ \E w \in Workers : Moves(w)
<1>1. exam \in ExamRow /\ task \in [Workers -> Task]
  BY DEF TypeInv, TypeOK, ExamRow
<1>2. ASSUME NEW w \in Workers, CommitConfigure(w)
      PROVE  UNCHANGED <<exam, history>> \/ Moves(w)
  <2>1. CASE Refuse(w)
    BY <2>1 DEF Refuse
  <2>2. CASE ~Refuse(w)
    <3> DEFINE columns == [exam EXCEPT !.config =
                             Written(@, task[w].config, task[w].input)]
    <3>1. /\ MayMove(task[w].status, "CONFIGURED")
          /\ TransitionThrough(w, <<"CONFIGURED">>, columns)
          /\ At(w, "configure", "commit")
      BY <1>2, <2>2 DEF CommitConfigure
    <3>2. /\ columns \in ExamRow /\ columns.type = exam.type
          /\ columns.status = exam.status
          /\ columns.config = Written(exam.config, task[w].config, task[w].input)
      BY <1>1 DEF ExamRow, Written, Task
    <3> HIDE DEF columns
    <3>3. "CONFIGURED" \in Status
      BY DEF Status
    <3>4. MovesTo(w, "CONFIGURED") /\ MayWriteExam(w) /\ exam' \in ExamRow
          /\ exam'.type = exam.type
          /\ exam'.config = Written(exam.config, task[w].config, task[w].input)
      BY <3>1, <3>2, <3>3, OneTransition DEF MovesTo, TypeInv
    <3> QED BY <1>2, <2>2, <3>1, <3>4 DEF Moves
  <2> QED BY <2>1, <2>2
<1>3. ASSUME NEW w \in Workers, NEW target \in Status,
             TransitionThrough(w, <<target>>, exam)
      PROVE  /\ MovesTo(w, target) /\ MayWriteExam(w) /\ exam' \in ExamRow
             /\ exam'.type = exam.type /\ exam'.config = exam.config
  BY <1>1, <1>3, OneTransition DEF MovesTo, TypeInv
<1>4. ASSUME NEW w \in Workers, CommitGenerate(w)
      PROVE  UNCHANGED <<exam, history>> \/ Moves(w)
  <2>1. CASE Refuse(w)
    BY <2>1 DEF Refuse
  <2>2. CASE ~Refuse(w)
    <3>1. /\ MayMove(task[w].status, "PAPER_GENERATED")
          /\ TransitionThrough(w, <<"PAPER_GENERATED">>, exam)
          /\ "PAPER_GENERATED" \in Status
      BY <1>4, <2>2 DEF CommitGenerate, Status
    <3> QED BY <1>3, <1>4, <2>2, <3>1 DEF Moves
  <2> QED BY <2>1, <2>2
<1>5. ASSUME NEW w \in Workers, CommitSchedule(w)
      PROVE  UNCHANGED <<exam, history>> \/ Moves(w)
  <2>1. CASE Refuse(w)
    BY <2>1 DEF Refuse
  <2>2. CASE ~Refuse(w)
    <3>1. /\ MayMove(task[w].status, "SCHEDULED")
          /\ TransitionThrough(w, <<"SCHEDULED">>, exam) /\ "SCHEDULED" \in Status
      BY <1>5, <2>2 DEF CommitSchedule, Status
    <3> QED BY <1>3, <1>5, <2>2, <3>1 DEF Moves
  <2> QED BY <2>1, <2>2
<1>6. ASSUME NEW w \in Workers, CommitPublish(w)
      PROVE  UNCHANGED <<exam, history>> \/ Moves(w)
  <2>1. CASE Refuse(w)
    BY <2>1 DEF Refuse
  <2>2. CASE ~Refuse(w)
    <3> DEFINE columns == [exam EXCEPT !.code = TRUE]
    <3>1. /\ MayMove(task[w].status, "PUBLISHED")
          /\ TransitionThrough(w, <<"PUBLISHED">>, columns) /\ "PUBLISHED" \in Status
      BY <1>6, <2>2 DEF CommitPublish, Status
    <3>2. /\ columns \in ExamRow /\ columns.type = exam.type
          /\ columns.status = exam.status /\ columns.config = exam.config
      BY <1>1 DEF ExamRow
    <3> HIDE DEF columns
    <3>3. /\ MovesTo(w, "PUBLISHED") /\ MayWriteExam(w) /\ exam' \in ExamRow
          /\ exam'.type = exam.type /\ exam'.config = exam.config
      BY <3>1, <3>2, OneTransition DEF MovesTo, TypeInv
    <3> QED BY <1>6, <2>2, <3>1, <3>3 DEF Moves
  <2> QED BY <2>1, <2>2
<1>7. ASSUME NEW w \in Workers, CommitApprove(w)
      PROVE  UNCHANGED <<exam, history>> \/ Moves(w)
  <2>1. CASE Refuse(w)
    BY <2>1 DEF Refuse
  <2>2. CASE ~Refuse(w) /\ task[w].status = "PAPER_GENERATED"
    <3>1. TransitionThrough(w, <<"TEACHER_REVIEWING", "APPROVED">>, exam)
      BY <1>7, <2>2 DEF CommitApprove, ApprovalPath
    <3> QED BY <1>1, <1>7, <2>2, <3>1, TwoTransitions DEF Moves, TypeInv
  <2>3. CASE ~Refuse(w) /\ task[w].status # "PAPER_GENERATED"
    <3>1. /\ MayMove(task[w].status, "APPROVED")
          /\ TransitionThrough(w, <<"APPROVED">>, exam) /\ "APPROVED" \in Status
      BY <1>7, <2>3 DEF CommitApprove, ApprovalPath, Status
    <3> QED BY <1>3, <1>7, <2>3, <3>1 DEF Moves
  <2> QED BY <2>1, <2>2, <2>3
<1>8. ASSUME NEW w \in Workers, CommitOwnPaper(w) \/ CommitAttempt(w)
      PROVE  UNCHANGED <<exam, history>> \/ Moves(w)
  <2>1. CASE Refuse(w)
    BY <2>1 DEF Refuse
  <2>2. CASE ~Refuse(w)
    <3>1. Pending(w)
      BY <1>8, <2>2 DEF CommitOwnPaper, CommitAttempt
    <3>2. CASE task[w].held
      <4>1. TransitionThrough(w, <<"ACTIVE">>, exam) /\ "ACTIVE" \in Status
        BY <3>1, <3>2 DEF Pending, Status
      <4> QED BY <1>3, <1>8, <2>2, <3>2, <4>1 DEF Moves
    <3> QED BY <3>1, <3>2 DEF Pending
  <2> QED BY <2>1, <2>2
<1>9. ASSUME NEW w \in Workers,
             \/ ReadForConfigure(w) \/ ReadForGenerate(w) \/ ReadForApprove(w)
             \/ ReadForPublish(w) \/ ReadForSchedule(w) \/ ReadForStart(w)
             \/ ReadForSubmit(w)
      PROVE  UNCHANGED <<exam, history>>
  BY <1>9, BeginLoads DEF Loads, TypeInv
<1>10. ASSUME NEW w \in Workers,
              \/ CommitSharedPaper(w) \/ Activate(w) \/ ReadLatest(w) \/ ReadSeat(w)
              \/ ListAttempts(w) \/ CommitSubmit(w) \/ PublishSubmitted(w) \/ Abort(w)
       PROVE  UNCHANGED <<exam, history>>
  BY <1>10 DEF CommitSharedPaper, Activate, ReadLatest, ReadSeat, ListAttempts,
               CommitSubmit, PublishSubmitted, Abort, Refuse
<1>11. CASE JoinGuest
  BY <1>11 DEF JoinGuest
<1> QED
  BY <1>2, <1>4, <1>5, <1>6, <1>7, <1>8, <1>9, <1>10, <1>11
  DEF Next, ManageStep, AttemptStep

-----------------------------------------------------------------------------
(* What one step does to the other tables.                                 *)

\* The steps that write the papers, the seats, the attempts or the bus.
WritesRows ==
  \/ JoinGuest
  \/ \E w \in Workers : CommitSharedPaper(w)
  \/ \E w \in Workers : CommitOwnPaper(w) /\ ~Refuse(w)
  \/ \E w \in Workers : CommitAttempt(w) /\ ~Refuse(w)
  \/ \E w \in Workers : CommitSubmit(w)
  \/ \E w \in Workers : PublishSubmitted(w)

\* A step writes papers, seats, attempts and announcements as one of the
\* disjuncts of WritesRows, or leaves all four alone.
LEMMA RowsAfter ==
  ASSUME TypeInv, Next
  PROVE  UNCHANGED <<papers, seats, attempts, submitted>> \/ WritesRows
<1>1. ASSUME NEW w \in Workers,
             \/ ReadForConfigure(w) \/ ReadForGenerate(w) \/ ReadForApprove(w)
             \/ ReadForPublish(w) \/ ReadForSchedule(w) \/ ReadForStart(w)
             \/ ReadForSubmit(w)
      PROVE  UNCHANGED <<papers, seats, attempts, submitted>>
  BY <1>1, BeginLoads DEF Loads, TypeInv
<1>2. ASSUME NEW w \in Workers,
             \/ Activate(w) \/ ReadLatest(w) \/ ReadSeat(w) \/ ListAttempts(w)
             \/ Abort(w) \/ Refuse(w)
      PROVE  UNCHANGED <<papers, seats, attempts, submitted>>
  BY <1>2 DEF Activate, ReadLatest, ReadSeat, ListAttempts, Abort, Refuse
<1>3. ASSUME NEW w \in Workers,
             \/ CommitConfigure(w) \/ CommitGenerate(w) \/ CommitApprove(w)
             \/ CommitPublish(w) \/ CommitSchedule(w)
      PROVE  UNCHANGED <<papers, seats, attempts, submitted>>
  BY <1>3 DEF CommitConfigure, CommitGenerate, CommitApprove, CommitPublish,
              CommitSchedule, Refuse
<1>4. CASE CreateExam
  BY <1>4 DEF CreateExam
<1> QED BY <1>1, <1>2, <1>3, <1>4 DEF Next, ManageStep, AttemptStep, WritesRows

\* The UPDATEs of mark_previous_attempts_not_latest clear flags and nothing else.
LEMMA UnmarkedFlags ==
  ASSUME TypeOK, NEW s \in Students, NEW listed \in Nat
  PROVE  LET after == Unmarked(s, listed)
         IN /\ after \in Seq(Attempt)
            /\ DOMAIN after = DOMAIN attempts /\ Len(after) = Len(attempts)
            /\ \A a \in DOMAIN attempts :
                 /\ after[a].student = attempts[a].student
                 /\ after[a].paper = attempts[a].paper
                 /\ after[a].status = attempts[a].status
                 /\ after[a].number = attempts[a].number
                 /\ after[a].latest =
                      (attempts[a].latest /\ ~(a <= listed /\ attempts[a].student = s))
<1> DEFINE after == Unmarked(s, listed)
<1>1. attempts \in Seq(Attempt)
  BY DEF TypeOK
<1>2. /\ Len(attempts) \in Nat /\ DOMAIN attempts = 1 .. Len(attempts)
      /\ DOMAIN after = DOMAIN attempts
  BY <1>1, LenProperties DEF Unmarked
<1>3. ASSUME NEW a \in DOMAIN attempts
      PROVE  /\ after[a] \in Attempt
             /\ after[a].student = attempts[a].student
             /\ after[a].paper = attempts[a].paper
             /\ after[a].status = attempts[a].status
             /\ after[a].number = attempts[a].number
             /\ after[a].latest =
                  (attempts[a].latest /\ ~(a <= listed /\ attempts[a].student = s))
  <2>1. attempts[a] \in Attempt
    BY AttemptTyped
  <2>2. CASE a <= listed /\ attempts[a].student = s
    <3>1. after[a] = [attempts[a] EXCEPT !.latest = FALSE]
      BY <2>2 DEF Unmarked
    <3> QED BY <2>1, <2>2, <3>1 DEF Attempt
  <2>3. CASE ~(a <= listed /\ attempts[a].student = s)
    <3>1. after[a] = attempts[a]
      BY <2>3 DEF Unmarked
    <3>2. attempts[a].latest \in BOOLEAN
      BY <2>1 DEF Attempt
    <3> QED BY <2>1, <2>3, <3>1, <3>2
  <2> QED BY <2>2, <2>3
<1>4. after = [a \in 1 .. Len(attempts) |-> after[a]]
  BY <1>2 DEF Unmarked
<1>5. after \in Seq(Attempt)
  <2> HIDE DEF after
  <2> QED BY <1>2, <1>3, <1>4, SeqDef
<1>6. Len(after) = Len(attempts)
  <2> HIDE DEF after
  <2> QED BY <1>2, <1>5, LenProperties
<1> QED BY <1>2, <1>3, <1>5, <1>6

\* The commit of a submission turns one attempt SUBMITTED.
LEMMA SubmitWrites ==
  ASSUME TypeInv, NEW w \in Workers, CommitSubmit(w)
  PROVE  LET a == task[w].attempt
         IN /\ attempts' \in Seq(Attempt)
            /\ DOMAIN attempts' = DOMAIN attempts /\ Len(attempts') = Len(attempts)
            /\ \A b \in DOMAIN attempts :
                 /\ attempts'[b].student = attempts[b].student
                 /\ attempts'[b].paper = attempts[b].paper
                 /\ attempts'[b].number = attempts[b].number
                 /\ attempts'[b].latest = attempts[b].latest
                 /\ attempts'[b].status =
                      IF b = a THEN "SUBMITTED" ELSE attempts[b].status
<1> DEFINE a == task[w].attempt
<1>1. attempts \in Seq(Attempt)
  BY DEF TypeInv, TypeOK
<1>2. Len(attempts) \in Nat /\ DOMAIN attempts = 1 .. Len(attempts)
  BY <1>1, LenProperties
<1>3. attempts' = [attempts EXCEPT ![a].status = "SUBMITTED"]
  BY DEF CommitSubmit
<1>4. DOMAIN attempts' = DOMAIN attempts
  BY <1>3
<1>5. ASSUME NEW b \in DOMAIN attempts
      PROVE  /\ attempts'[b] \in Attempt
             /\ attempts'[b].student = attempts[b].student
             /\ attempts'[b].paper = attempts[b].paper
             /\ attempts'[b].number = attempts[b].number
             /\ attempts'[b].latest = attempts[b].latest
             /\ attempts'[b].status = IF b = a THEN "SUBMITTED" ELSE attempts[b].status
  <2>1. attempts[b] \in Attempt
    BY AttemptTyped DEF TypeInv
  <2>2. attempts'[b] = IF b = a THEN [attempts[b] EXCEPT !.status = "SUBMITTED"]
                       ELSE attempts[b]
    BY <1>3
  <2> QED BY <2>1, <2>2 DEF Attempt
<1>6. attempts' = [b \in 1 .. Len(attempts) |-> attempts'[b]]
  BY <1>2, <1>3
<1>7. attempts' \in Seq(Attempt)
  BY <1>2, <1>5, <1>6, SeqDef
<1>8. Len(attempts') = Len(attempts)
  BY <1>2, <1>4, <1>7, LenProperties
<1> QED BY <1>4, <1>5, <1>7, <1>8

\* The commit of a start adds one attempt.
LEMMA StartWrites ==
  ASSUME TypeInv, NEW w \in Workers, CommitAttempt(w), ~Refuse(w)
  PROVE  LET n == Len(attempts) + 1
         IN /\ attempts' = Append(attempts, NewAttempt(w))
            /\ NewAttempt(w) \in Attempt
            /\ attempts' \in Seq(Attempt)
            /\ Len(attempts) \in Nat /\ DOMAIN attempts = 1 .. Len(attempts)
            /\ DOMAIN attempts' = DOMAIN attempts \cup {n} /\ n \notin DOMAIN attempts
            /\ Len(attempts') = n
            /\ attempts'[n] = NewAttempt(w)
            /\ \A b \in DOMAIN attempts : attempts'[b] = attempts[b]
<1> DEFINE n == Len(attempts) + 1
<1>1. attempts \in Seq(Attempt) /\ task[w] \in Task
  BY DEF TypeInv, TypeOK
<1>2. attempts' = Append(attempts, NewAttempt(w)) /\ task[w].op = "start"
  BY DEF CommitAttempt, At
<1>3. NewAttempt(w) \in Attempt
  <2>1. task[w].student \in Students
    BY <1>2 DEF TypeInv, WellFormed
  <2>2. task[w].paper \in Nat /\ task[w].number \in Nat
    BY <1>1 DEF Task
  <2> QED BY <2>1, <2>2 DEF NewAttempt, Attempt
<1>4. Len(attempts) \in Nat /\ DOMAIN attempts = 1 .. Len(attempts)
  BY <1>1, LenProperties
<1>5. /\ attempts' \in Seq(Attempt) /\ Len(attempts') = n /\ attempts'[n] = NewAttempt(w)
      /\ \A b \in 1 .. Len(attempts) : attempts'[b] = attempts[b]
  BY <1>1, <1>2, <1>3, AppendProperties
<1>6. DOMAIN attempts' = 1 .. n
  BY <1>5, LenProperties
<1> QED BY <1>2, <1>3, <1>4, <1>5, <1>6

\* A generated paper is added to the others.
LEMMA PaperAdded ==
  ASSUME TypeInv, NEW w \in Workers,
         CommitSharedPaper(w) \/ (CommitOwnPaper(w) /\ ~Refuse(w))
  PROVE  LET n == Len(papers) + 1
             owner == IF task[w].op = "start" THEN task[w].student ELSE Shared
         IN /\ papers' \in Seq(Paper)
            /\ Len(papers) \in Nat /\ DOMAIN papers = 1 .. Len(papers)
            /\ DOMAIN papers' = DOMAIN papers \cup {n} /\ n \notin DOMAIN papers
            /\ Len(papers') = n
            /\ papers'[n] = [config |-> task[w].config, owner |-> owner]
            /\ \A p \in DOMAIN papers : papers'[p] = papers[p]
<1> DEFINE n == Len(papers) + 1
           owner == IF task[w].op = "start" THEN task[w].student ELSE Shared
           paper == [config |-> task[w].config, owner |-> owner]
<1>1. papers \in Seq(Paper) /\ task[w] \in Task
  BY DEF TypeInv, TypeOK, Paper
<1>2. papers' = Append(papers, paper) /\ task[w].op \in {"generate", "start"}
      /\ (task[w].op = "start" => task[w].config # NoConfig)
  BY DEF CommitSharedPaper, CommitOwnPaper, At
<1>3. task[w].config \in Configs /\ owner \in Students \cup {Shared}
  <2>1. WellFormed(task[w]) /\ task[w].config \in Configs \cup {NoConfig}
        /\ task[w].student \in Students \cup {Shared}
    BY <1>1 DEF TypeInv, Task
  <2> QED BY <1>2, <2>1 DEF WellFormed
<1>4. paper \in Paper
  BY <1>3 DEF Paper
<1> HIDE DEF paper
<1>5. Len(papers) \in Nat /\ DOMAIN papers = 1 .. Len(papers)
  BY <1>1, LenProperties
<1>6. /\ papers' \in Seq(Paper) /\ Len(papers') = n /\ papers'[n] = paper
      /\ \A p \in 1 .. Len(papers) : papers'[p] = papers[p]
  BY <1>1, <1>2, <1>4, AppendProperties
<1>7. DOMAIN papers' = 1 .. n
  BY <1>6, LenProperties
<1> QED BY <1>5, <1>6, <1>7 DEF paper

\* A paper is never taken away or given to somebody else.
LEMMA PapersStay ==
  ASSUME TypeInv, Next
  PROVE  \A p \in DOMAIN papers : p \in DOMAIN papers' /\ papers'[p] = papers[p]
<1>1. ASSUME NEW w \in Workers,
             \/ CommitSubmit(w) \/ PublishSubmitted(w)
             \/ CommitAttempt(w) /\ ~Refuse(w)
      PROVE  papers' = papers
  BY <1>1 DEF CommitSubmit, PublishSubmitted, CommitAttempt
<1>2. JoinGuest => papers' = papers
  BY DEF JoinGuest
<1>3. ASSUME NEW w \in Workers, CommitSharedPaper(w) \/ (CommitOwnPaper(w) /\ ~Refuse(w))
      PROVE  \A p \in DOMAIN papers : p \in DOMAIN papers' /\ papers'[p] = papers[p]
  BY <1>3, PaperAdded
<1> QED BY <1>1, <1>2, <1>3, RowsAfter DEF WritesRows

\* No step but the commit of a start adds an attempt, and no step changes whose
\* it is or its paper.
LEMMA AttemptsStay ==
  ASSUME TypeInv, Next
  PROVE  /\ \A a \in DOMAIN attempts :
              /\ a \in DOMAIN attempts'
              /\ attempts'[a].student = attempts[a].student
              /\ attempts'[a].paper = attempts[a].paper
         /\ \/ DOMAIN attempts' = DOMAIN attempts
            \/ \E w \in Workers : CommitAttempt(w) /\ ~Refuse(w)
<1>1. ASSUME NEW w \in Workers, CommitSharedPaper(w) \/ PublishSubmitted(w)
      PROVE  attempts' = attempts
  BY <1>1 DEF CommitSharedPaper, PublishSubmitted
<1>2. JoinGuest => attempts' = attempts
  BY DEF JoinGuest
<1>3. ASSUME NEW w \in Workers, CommitOwnPaper(w), ~Refuse(w)
      PROVE  /\ DOMAIN attempts' = DOMAIN attempts
             /\ \A a \in DOMAIN attempts :
                  /\ attempts'[a].student = attempts[a].student
                  /\ attempts'[a].paper = attempts[a].paper
  <2>1. attempts' = Unmarked(task[w].student, task[w].attempt)
    BY <1>3 DEF CommitOwnPaper
  <2>2. task[w].student \in Students /\ task[w].attempt \in Nat
    BY <1>3, Places DEF TypeInv, TypeOK, WellFormed, At, Task
  <2> QED BY <2>1, <2>2, UnmarkedFlags DEF TypeInv
<1>4. ASSUME NEW w \in Workers, CommitSubmit(w)
      PROVE  /\ DOMAIN attempts' = DOMAIN attempts
             /\ \A a \in DOMAIN attempts :
                  /\ attempts'[a].student = attempts[a].student
                  /\ attempts'[a].paper = attempts[a].paper
  BY <1>4, SubmitWrites
<1>5. ASSUME NEW w \in Workers, CommitAttempt(w), ~Refuse(w)
      PROVE  \A a \in DOMAIN attempts : a \in DOMAIN attempts' /\ attempts'[a] = attempts[a]
  BY <1>5, StartWrites
<1> QED BY <1>1, <1>2, <1>3, <1>4, <1>5, RowsAfter DEF WritesRows

-----------------------------------------------------------------------------
(* Every reachable state is well-typed.                                    *)

\* The types are kept by every step.
LEMMA StepType ==
  ASSUME TypeInv, [Next]_vars
  PROVE  TypeInv'
<1>1. CASE UNCHANGED vars
  BY <1>1 DEF vars, TypeInv, TypeOK
<1>2. CASE Next
  <2>1. /\ exam \in ExamRow /\ history \in Seq(HistoryRow) /\ papers \in Seq(Paper)
        /\ seats \in [Students -> Seat] /\ attempts \in Seq(Attempt)
        /\ submitted \in Seq(Nat) /\ task \in [Workers -> Task]
        /\ \A v \in Workers : WellFormed(task[v])
    BY DEF TypeInv, TypeOK, ExamRow, Paper
  <2>2. exam' \in ExamRow /\ history' \in Seq(HistoryRow)
    <3>1. CASE UNCHANGED <<exam, history>>
      BY <2>1, <3>1
    <3>2. CASE CreateExam
      <4>1. exam' \in ExamRow
        BY <2>1, <3>2 DEF CreateExam, ExamRow, Status
      <4>2. [from |-> Fresh, to |-> "DRAFT"] \in HistoryRow
        BY DEF HistoryRow, Fresh, Status
      <4> QED BY <3>2, <4>1, <4>2 DEF CreateExam
    <3>3. ASSUME NEW w \in Workers, Moves(w)
          PROVE  exam' \in ExamRow /\ history' \in Seq(HistoryRow)
      <4>1. ASSUME NEW target \in Status, MovesTo(w, target)
            PROVE  history' \in Seq(HistoryRow)
        <5>1. Row(task[w].status, target) \in HistoryRow
          BY <2>1 DEF Row, HistoryRow, Task
        <5> QED BY <2>1, <4>1, <5>1, AppendProperties DEF MovesTo
      <4>2. CASE MovesThroughReview(w)
        <5>1. /\ Row("PAPER_GENERATED", "TEACHER_REVIEWING") \in HistoryRow
              /\ Row("TEACHER_REVIEWING", "APPROVED") \in HistoryRow
          BY DEF Row, HistoryRow, Status
        <5> DEFINE reviewed ==
                     Append(history, Row("PAPER_GENERATED", "TEACHER_REVIEWING"))
        <5>2. history' = Append(reviewed, Row("TEACHER_REVIEWING", "APPROVED"))
          BY <4>2 DEF MovesThroughReview
        <5>3. reviewed \in Seq(HistoryRow)
          BY <2>1, <5>1, AppendProperties
        <5> HIDE DEF reviewed
        <5>4. history' \in Seq(HistoryRow)
          BY <5>1, <5>2, <5>3, AppendProperties
        <5> QED BY <3>3, <5>4 DEF Moves
      <4>3. {"CONFIGURED", "PAPER_GENERATED", "APPROVED", "PUBLISHED", "SCHEDULED",
             "ACTIVE"} \subseteq Status
        BY DEF Status
      <4> QED BY <3>3, <4>1, <4>2, <4>3 DEF Moves
    <3> QED BY <1>2, <3>1, <3>2, <3>3, ExamAfter
  <2>3. papers' \in Seq(Paper)
    <3>1. ASSUME NEW w \in Workers,
                 CommitSharedPaper(w) \/ (CommitOwnPaper(w) /\ ~Refuse(w))
          PROVE  papers' \in Seq(Paper)
      BY <3>1, PaperAdded
    <3>2. ASSUME NEW w \in Workers,
                 \/ CommitSubmit(w) \/ PublishSubmitted(w)
                 \/ CommitAttempt(w) /\ ~Refuse(w)
          PROVE  papers' = papers
      BY <3>2 DEF CommitSubmit, PublishSubmitted, CommitAttempt
    <3>3. JoinGuest => papers' = papers
      BY DEF JoinGuest
    <3> QED BY <1>2, <2>1, <3>1, <3>2, <3>3, RowsAfter DEF WritesRows
  <2>4. attempts' \in Seq(Attempt)
    <3>1. ASSUME NEW w \in Workers, CommitOwnPaper(w), ~Refuse(w)
          PROVE  attempts' \in Seq(Attempt)
      <4>1. attempts' = Unmarked(task[w].student, task[w].attempt)
        BY <3>1 DEF CommitOwnPaper
      <4>2. task[w].student \in Students /\ task[w].attempt \in Nat
        BY <2>1, <3>1 DEF CommitOwnPaper, At, WellFormed, Task
      <4> QED BY <4>1, <4>2, UnmarkedFlags DEF TypeInv
    <3>2. ASSUME NEW w \in Workers, CommitSharedPaper(w) \/ PublishSubmitted(w)
          PROVE  attempts' = attempts
      BY <3>2 DEF CommitSharedPaper, PublishSubmitted
    <3>3. JoinGuest => attempts' = attempts
      BY DEF JoinGuest
    <3>4. ASSUME NEW w \in Workers, CommitSubmit(w) \/ (CommitAttempt(w) /\ ~Refuse(w))
          PROVE  attempts' \in Seq(Attempt)
      BY <3>4, SubmitWrites, StartWrites
    <3> QED BY <1>2, <2>1, <3>1, <3>2, <3>3, <3>4, RowsAfter DEF WritesRows
  <2>5. seats' \in [Students -> Seat]
    <3>1. CASE JoinGuest
      <4>1. PICK g \in Guests : seats' = [seats EXCEPT ![g] =
                          [paper |-> Newest(exam.config), status |-> "ASSIGNED"]]
        BY <3>1 DEF JoinGuest
      <4>2. [paper |-> Newest(exam.config), status |-> "ASSIGNED"] \in Seat
        BY NewestType DEF Seat, TypeInv
      <4> QED BY <2>1, <4>1, <4>2 DEF Students
    <3>2. ASSUME NEW seat \in Seat, NEW status \in {"STARTED", "SUBMITTED"}, NEW seen
          PROVE  [seat EXCEPT !.status = Written(seat.status, seen, status)] \in Seat
      BY DEF Seat, Written
    <3>3. ASSUME NEW w \in Workers, CommitAttempt(w), ~Refuse(w)
          PROVE  seats' \in [Students -> Seat]
      <4> DEFINE s == task[w].student
                 seen == task[w].seat
      <4> DEFINE seat == IF seen = NoSeat
                         THEN [paper |-> task[w].paper, status |-> "STARTED"]
                         ELSE [seats[s] EXCEPT !.status =
                                 Written(@, seen.status, "STARTED")]
      <4>1. seats' = seats \/ seats' = [seats EXCEPT ![s] = seat]
        BY <3>3 DEF CommitAttempt
      <4>2. task[w].paper \in Nat /\ s \in Students
        BY <2>1, <3>3 DEF CommitAttempt, At, WellFormed, Task
      <4>3. [paper |-> task[w].paper, status |-> "STARTED"] \in Seat
        BY <4>2 DEF Seat
      <4>4. [seats[s] EXCEPT !.status = Written(@, seen.status, "STARTED")] \in Seat
        BY <2>1, <3>2, <4>2
      <4>5. seat \in Seat
        BY <4>3, <4>4
      <4> HIDE DEF seat
      <4> QED BY <2>1, <4>1, <4>2, <4>5
    <3>4. ASSUME NEW w \in Workers, CommitSubmit(w)
          PROVE  seats' \in [Students -> Seat]
      <4> DEFINE s == task[w].student
                 seen == task[w].seat
      <4>1. seats' = seats \/ seats' = [seats EXCEPT ![s].status =
                                          Written(@, seen.status, "SUBMITTED")]
        BY <3>4 DEF CommitSubmit
      <4>2. s \in Students
        BY <2>1, <3>4 DEF CommitSubmit, At, WellFormed
      <4>3. [seats[s] EXCEPT !.status = Written(@, seen.status, "SUBMITTED")] \in Seat
        BY <2>1, <3>2, <4>2
      <4> QED BY <2>1, <4>1, <4>2, <4>3
    <3>5. ASSUME NEW w \in Workers,
                 \/ CommitSharedPaper(w) \/ PublishSubmitted(w)
                 \/ CommitOwnPaper(w) /\ ~Refuse(w)
          PROVE  seats' = seats
      BY <3>5 DEF CommitSharedPaper, PublishSubmitted, CommitOwnPaper
    <3> QED BY <1>2, <2>1, <3>1, <3>3, <3>4, <3>5, RowsAfter DEF WritesRows
  <2>6. submitted' \in Seq(Nat)
    <3>1. ASSUME NEW w \in Workers, PublishSubmitted(w)
          PROVE  submitted' \in Seq(Nat)
      <4>1. submitted' = Append(submitted, task[w].attempt) /\ task[w].attempt \in Nat
        BY <2>1, <3>1 DEF PublishSubmitted, Task
      <4> QED BY <2>1, <4>1, AppendProperties
    <3>2. ASSUME NEW w \in Workers,
                 \/ CommitSharedPaper(w) \/ CommitSubmit(w)
                 \/ CommitOwnPaper(w) /\ ~Refuse(w)
                 \/ CommitAttempt(w) /\ ~Refuse(w)
          PROVE  submitted' = submitted
      BY <3>2 DEF CommitSharedPaper, CommitSubmit, CommitOwnPaper, CommitAttempt
    <3>3. JoinGuest => submitted' = submitted
      BY DEF JoinGuest
    <3> QED BY <1>2, <2>1, <3>1, <3>2, <3>3, RowsAfter DEF WritesRows
  <2>7. ASSUME NEW v \in Workers
        PROVE  task'[v] \in Task /\ WellFormed(task'[v])
    <3>1. task[v] \in Task /\ WellFormed(task[v])
      BY <2>1
    <3>2. CASE Loads(v)
      <4>1. exam.status \in Status /\ exam.config \in Configs \cup {NoConfig}
        BY <2>1, <3>2 DEF Loads, Exists, ExamRow
      <4>2. ASSUME NEW op \in {"configure", "generate", "approve", "publish",
                               "schedule", "start", "submit"},
                   NEW step \in {"activate", "latest", "seat", "paper", "commit"},
                   NEW input \in Configs \cup {NoConfig},
                   NEW student \in Students \cup {Shared}, NEW attempt \in Nat,
                   op = "configure" => input \in Configs,
                   op = "generate" => exam.config # NoConfig,
                   op \in {"start", "submit"} => student \in Students,
                   step = "seat" => op = "submit"
            PROVE  /\ NewTask(op, step, input, student, attempt) \in Task
                   /\ WellFormed(NewTask(op, step, input, student, attempt))
        BY <4>1, <4>2 DEF NewTask, Task, WellFormed, NoSeat, None, Seat
      <4>3. None \in Nat
        BY DEF None
      <4>4. CASE \E c \in Configs : task'[v] = NewTask("configure", "commit", c, Shared, None)
        BY <4>2, <4>3, <4>4
      <4>5. CASE /\ exam.config # NoConfig
                 /\ task'[v] = NewTask("generate", "paper", NoConfig, Shared, None)
        BY <4>2, <4>3, <4>5
      <4>6. CASE \E op \in {"approve", "publish", "schedule"} :
                   task'[v] = NewTask(op, "commit", NoConfig, Shared, None)
        BY <4>2, <4>3, <4>6
      <4>7. CASE \E s \in Students :
                   task'[v] = NewTask("start",
                                IF exam.status \in {"PUBLISHED", "SCHEDULED"}
                                THEN "activate" ELSE "latest", NoConfig, s, None)
        BY <4>2, <4>3, <4>7
      <4>8. CASE \E a \in DOMAIN attempts :
                   task'[v] = NewTask("submit", "seat", NoConfig, attempts[a].student, a)
        <5>1. PICK a \in DOMAIN attempts :
                task'[v] = NewTask("submit", "seat", NoConfig, attempts[a].student, a)
          BY <4>8
        <5>2. attempts[a].student \in Students /\ a \in Nat
          BY AttemptTyped DEF TypeInv
        <5> QED BY <4>2, <5>1, <5>2
      <4> QED BY <3>2, <4>4, <4>5, <4>6, <4>7, <4>8 DEF Loads
    <3>3. CASE Continues(v)
      <4>1. /\ Len(attempts) \in Nat
            /\ CommitOwnPaper(v) /\ ~Refuse(v) => Len(papers') \in Nat
        BY <2>1, <2>3, LenProperties
      <4>2. ReadSeat(v) => seats[task[v].student] \in Seat
        BY <2>1, <3>1 DEF ReadSeat, WellFormed
      <4>3. ReadLatest(v) => task[v].op = "start"
        BY DEF ReadLatest, At
      <4>4. CASE \E step \in {"seat", "paper", "list"}, number \in Nat :
                   /\ ReadLatest(v)
                   /\ task'[v] = [task[v] EXCEPT !.step = step, !.number = number]
        BY <3>1, <4>3, <4>4 DEF Task, WellFormed
      <4>5. CASE \E paper \in Nat :
                   /\ ReadSeat(v)
                   /\ task'[v] = [task[v] EXCEPT !.step = "commit", !.paper = paper,
                                                 !.seat = seats[task[v].student]]
        BY <3>1, <4>2, <4>5 DEF Task, WellFormed
      <4>6. CASE \/ task'[v] = [task[v] EXCEPT !.step = "latest", !.held = TRUE]
                 \/ task'[v] = [task[v] EXCEPT !.step = "paper", !.attempt = Len(attempts)]
                 \/ task'[v] = [task[v] EXCEPT !.step = "commit"]
                 \/ task'[v] = [task[v] EXCEPT !.step = "publish"]
        BY ZenonT(120), <3>1, <4>1, <4>6 DEF Task, WellFormed
      <4>7. CASE /\ CommitOwnPaper(v) /\ ~Refuse(v)
                 /\ task'[v] = [task[v] EXCEPT !.step = "commit", !.held = FALSE,
                                               !.paper = Len(papers')]
        BY <3>1, <4>1, <4>7 DEF Task, WellFormed
      <4> QED BY <3>3, <4>4, <4>5, <4>6, <4>7 DEF Continues
    <3> QED BY <1>2, <3>1, <3>2, <3>3, TaskAfter, IdleTyped
  <2>8. task' \in [Workers -> Task]
    <3>1. ASSUME NEW w, NEW t, task' = [task EXCEPT ![w] = t]
          PROVE  task' = [v \in Workers |-> task'[v]]
      BY <2>1, <3>1
    <3>2. ASSUME NEW w, NEW fields, Begin(w, fields)
          PROVE  task' = [v \in Workers |-> task'[v]]
      BY <3>1, <3>2 DEF Begin
    <3>3. ASSUME NEW w \in Workers,
                 \/ ReadForConfigure(w) \/ ReadForGenerate(w) \/ ReadForApprove(w)
                 \/ ReadForPublish(w) \/ ReadForSchedule(w) \/ ReadForStart(w)
                 \/ ReadForSubmit(w)
          PROVE  task' = [v \in Workers |-> task'[v]]
      BY <3>2, <3>3 DEF ReadForConfigure, ReadForGenerate, ReadForApprove,
         ReadForPublish, ReadForSchedule, ReadForStart, ReadForSubmit
    <3>4. ASSUME NEW w \in Workers, Finish(w)
          PROVE  task' = [v \in Workers |-> task'[v]]
      BY <3>1, <3>4 DEF Finish
    <3>5. ASSUME NEW w \in Workers,
                 \/ CommitConfigure(w) \/ CommitGenerate(w) \/ CommitApprove(w)
                 \/ CommitPublish(w) \/ CommitSchedule(w) \/ CommitAttempt(w)
                 \/ PublishSubmitted(w) \/ Abort(w) \/ Refuse(w)
          PROVE  Finish(w)
      BY <3>5 DEF CommitConfigure, CommitGenerate, CommitApprove, CommitPublish,
                  CommitSchedule, CommitAttempt, PublishSubmitted, Abort, Refuse
    <3>6. ASSUME NEW w \in Workers,
                 \/ Activate(w) \/ ReadLatest(w) \/ ReadSeat(w) \/ ListAttempts(w)
                 \/ CommitSharedPaper(w) \/ CommitSubmit(w)
                 \/ CommitOwnPaper(w) /\ ~Refuse(w)
          PROVE  Finish(w) \/ \E t : task' = [task EXCEPT ![w] = t]
      BY <3>6 DEF Activate, ReadLatest, ReadSeat, ListAttempts, CommitSharedPaper,
                  CommitSubmit, CommitOwnPaper
    <3>7. CASE CreateExam \/ JoinGuest
      BY <2>1, <3>7 DEF CreateExam, JoinGuest
    <3>8. task' = [v \in Workers |-> task'[v]]
      BY <1>2, <3>1, <3>3, <3>4, <3>5, <3>6, <3>7 DEF Next, ManageStep, AttemptStep
    <3> QED BY <2>7, <3>8
  <2> QED BY <2>2, <2>3, <2>4, <2>5, <2>6, <2>7, <2>8 DEF TypeInv, TypeOK, ExamRow, Paper
<1> QED BY <1>1, <1>2

\* The empty tables are well-typed.
LEMMA InitType == Init => TypeInv
<1> SUFFICES ASSUME Init PROVE TypeInv
  OBVIOUS
<1>1. /\ exam = [status |-> Absent, type |-> "REGULAR", config |-> NoConfig, code |-> FALSE]
      /\ history = <<>> /\ papers = <<>> /\ attempts = <<>> /\ submitted = <<>>
      /\ seats = [s \in Students |-> NoSeat] /\ task = [w \in Workers |-> Idle]
  BY DEF Init
<1>2. NoSeat \in Seat
  BY DEF NoSeat, Seat, None
<1> QED BY <1>1, <1>2, IdleTyped DEF TypeInv, TypeOK

\* Tables and sessions stay well-typed, and each request holds what its
\* operation and step need.
LEMMA TypeInvHolds == Spec => []TypeInv
BY InitType, StepType, PTL DEF Spec

\* Every reachable state is well-typed: a paper or a seat is only ever read for
\* a student, and no status after ACTIVE is written.
THEOREM TypeCorrect == Spec => []TypeOK
<1>1. TypeInv => TypeOK
  BY DEF TypeInv
<1> QED BY <1>1, TypeInvHolds, PTL

-----------------------------------------------------------------------------
(* A regular attempt is on the paper of its seat.  The attempt is inserted    *)
(* with the paper a request chose from the seat it had read, so the argument  *)
(* needs that no request ever replaces the paper of a seat, and that the seat *)
(* a request holds in its session is still there.                             *)

Seated(s, paper) == seats[s] # NoSeat /\ seats[s].paper = paper

SeatInv ==
  /\ ~Exists => attempts = <<>> /\ \A v \in Workers : task[v] = Idle
  /\ \A s \in Students : seats[s] = NoSeat \/ seats[s].status # "NONE"
  /\ exam.type = "REGULAR" =>
       /\ \A a \in DOMAIN attempts : Seated(attempts[a].student, attempts[a].paper)
       /\ \A v \in Workers :
            task[v].seat # NoSeat =>
              /\ task[v].op \in {"start", "submit"}
              /\ task[v].step \in {"commit", "publish"}
              /\ Seated(task[v].student, task[v].seat.paper)
              /\ task[v].op = "start" => task[v].paper = task[v].seat.paper

\* Nothing undoes the creation of the exam, or changes its type.
LEMMA ExamStays ==
  ASSUME TypeInv, Next, Exists
  PROVE  Exists' /\ exam'.type = exam.type
<1>1. exam \in ExamRow /\ task \in [Workers -> Task]
  BY DEF TypeInv, TypeOK, ExamRow
<1>2. ASSUME NEW w \in Workers, Moves(w)
      PROVE  Exists' /\ exam'.type = exam.type
  <2>1. /\ exam'.type = exam.type /\ exam' \in ExamRow
        /\ \E target \in Status : exam'.status = Written(exam.status, task[w].status, target)
    BY <1>2 DEF Moves, MovesTo, MovesThroughReview, Status
  <2> QED BY <2>1 DEF Written, Exists, Status, Absent
<1> QED BY <1>2, ExamAfter DEF CreateExam, Exists

\* Once a student has a seat it stays, with its paper.
LEMMA SeatsStay ==
  ASSUME TypeInv, SeatInv, Next, NEW s \in Students
  PROVE  /\ \A paper : Seated(s, paper) => Seated(s, paper)'
         /\ seats'[s] = NoSeat \/ seats'[s].status # "NONE"
<1>1. /\ seats \in [Students -> Seat] /\ task \in [Workers -> Task]
      /\ seats[s] = NoSeat \/ seats[s].status # "NONE"
  BY DEF TypeInv, TypeOK, SeatInv
<1>2. CASE UNCHANGED seats
  BY <1>1, <1>2 DEF Seated
<1>3. CASE JoinGuest
  <2>1. PICK g \in Guests : /\ seats[g] = NoSeat
                           /\ seats' = [seats EXCEPT ![g] =
                          [paper |-> Newest(exam.config), status |-> "ASSIGNED"]]
    BY <1>3 DEF JoinGuest
  <2> QED BY <1>1, <2>1 DEF Seated, NoSeat
<1>4. ASSUME NEW seat \in Seat, NEW seen, NEW status \in {"STARTED", "SUBMITTED"},
             seat = NoSeat \/ seat.status # "NONE"
      PROVE  LET after == [seat EXCEPT !.status = Written(seat.status, seen, status)]
             IN /\ after.paper = seat.paper
                /\ after = NoSeat \/ after.status # "NONE"
                /\ seat # NoSeat => after # NoSeat
  BY <1>4 DEF Seat, NoSeat, Written
<1>5. ASSUME NEW w \in Workers, CommitAttempt(w), ~Refuse(w)
      PROVE  /\ \A paper : Seated(s, paper) => Seated(s, paper)'
             /\ seats'[s] = NoSeat \/ seats'[s].status # "NONE"
  <2> DEFINE own == task[w].student
             seen == task[w].seat
             taken == [paper |-> task[w].paper, status |-> "STARTED"]
             stamped == [seats[own] EXCEPT !.status =
                           Written(seats[own].status, seen.status, "STARTED")]
  <2>1. \/ seats' = seats
        \/ seen = NoSeat /\ seats[own] = NoSeat /\ seats' = [seats EXCEPT ![own] = taken]
        \/ seen # NoSeat /\ seats' = [seats EXCEPT ![own] = stamped]
    BY <1>5 DEF CommitAttempt
  <2>2. taken # NoSeat /\ taken.status # "NONE"
    BY DEF NoSeat
  <2>3. CASE seen # NoSeat /\ seats' = [seats EXCEPT ![own] = stamped] /\ s = own
    <3>1. seats'[s] = stamped
      BY <1>1, <2>3
    <3> QED BY <1>1, <1>4, <2>3, <3>1 DEF Seated
  <2> HIDE DEF taken, stamped
  <2> QED BY <1>1, <1>2, <2>1, <2>2, <2>3 DEF Seated
<1>6. ASSUME NEW w \in Workers, CommitSubmit(w)
      PROVE  /\ \A paper : Seated(s, paper) => Seated(s, paper)'
             /\ seats'[s] = NoSeat \/ seats'[s].status # "NONE"
  <2> DEFINE own == task[w].student
             stamped == [seats[own] EXCEPT !.status =
                           Written(seats[own].status, task[w].seat.status, "SUBMITTED")]
  <2>1. seats' = seats \/ seats' = [seats EXCEPT ![own] = stamped]
    BY <1>6 DEF CommitSubmit
  <2>2. CASE seats' = [seats EXCEPT ![own] = stamped] /\ s = own
    <3>1. seats'[s] = stamped
      BY <1>1, <2>2
    <3> QED BY <1>1, <1>4, <2>2, <3>1 DEF Seated
  <2> HIDE DEF stamped
  <2> QED BY <1>1, <1>2, <2>1, <2>2 DEF Seated
<1>7. ASSUME NEW w \in Workers,
             \/ CommitSharedPaper(w) \/ PublishSubmitted(w)
             \/ CommitOwnPaper(w) /\ ~Refuse(w)
      PROVE  UNCHANGED seats
  BY <1>7 DEF CommitSharedPaper, PublishSubmitted, CommitOwnPaper
<1> QED BY <1>2, <1>3, <1>5, <1>6, <1>7, RowsAfter DEF WritesRows

\* No step takes the paper of a seat away from the attempts on it, neither
\* the one that inserts the attempt nor another request's.
LEMMA StepSeat ==
  ASSUME TypeInv, SeatInv, [Next]_vars
  PROVE  SeatInv'
<1>1. CASE UNCHANGED vars
  BY <1>1 DEF vars, SeatInv, Seated, Exists, At
<1>2. CASE Next
  <2>1. TypeInv'
    BY StepType
  <2>2. /\ task \in [Workers -> Task] /\ task' \in [Workers -> Task]
        /\ seats \in [Students -> Seat] /\ attempts \in Seq(Attempt)
    BY <2>1 DEF TypeInv, TypeOK
  <2>3. \A s \in Students : seats'[s] = NoSeat \/ seats'[s].status # "NONE"
    BY <1>2, SeatsStay
  <2>4. CASE ~Exists
    <3>1. attempts = <<>> /\ \A v \in Workers : task[v] = Idle
      BY <2>4 DEF SeatInv
    <3>2. DOMAIN attempts = {}
      BY <3>1
    <3>3. ~WritesRows \/ JoinGuest
      <4>1. \A v \in Workers : task[v].op = "idle"
        BY <3>1 DEF Idle
      <4> QED BY <4>1, Places DEF WritesRows, At
    <3>4. attempts' = attempts
      BY <1>2, <3>3, RowsAfter DEF JoinGuest
    <3>5. ASSUME NEW v \in Workers PROVE task'[v] = Idle
      <4>1. ~Loads(v) /\ ~Continues(v)
        <5>1. task[v].op = "idle" /\ task[v].step = "idle"
          BY <3>1 DEF Idle
        <5>2. ~Continues(v)
          BY <5>1, Places DEF Continues, At
        <5> QED BY <2>4, <5>2 DEF Loads
      <4> QED BY <1>2, <3>1, <4>1, TaskAfter
    <3>6. Idle.seat = NoSeat
      BY DEF Idle
    <3> QED BY <2>3, <3>1, <3>2, <3>4, <3>5, <3>6 DEF SeatInv
  <2>5. CASE Exists
    <3>1. Exists' /\ exam'.type = exam.type
      BY <1>2, <2>5, ExamStays
    <3>2. CASE exam.type = "REGULAR"
      <4>1. /\ \A a \in DOMAIN attempts : Seated(attempts[a].student, attempts[a].paper)
            /\ \A v \in Workers :
                 task[v].seat # NoSeat =>
                   /\ task[v].op \in {"start", "submit"}
                   /\ task[v].step \in {"commit", "publish"}
                   /\ Seated(task[v].student, task[v].seat.paper)
                   /\ task[v].op = "start" => task[v].paper = task[v].seat.paper
        BY <3>2 DEF SeatInv
      <4> DEFINE After(s, paper) == seats'[s] # NoSeat /\ seats'[s].paper = paper
      <4>2. \A s \in Students : \A paper : Seated(s, paper) => After(s, paper)
        BY <1>2, SeatsStay DEF Seated
      <4>3. \A a \in DOMAIN attempts' : After(attempts'[a].student, attempts'[a].paper)
        <5>1. ASSUME NEW a \in DOMAIN attempts
              PROVE  After(attempts[a].student, attempts[a].paper)
          BY <4>1, <4>2, AttemptTyped DEF TypeInv
        <5>2. ASSUME NEW w \in Workers, CommitAttempt(w), ~Refuse(w)
              PROVE  \A a \in DOMAIN attempts' :
                       After(attempts'[a].student, attempts'[a].paper)
          <6> DEFINE n == Len(attempts) + 1
          <6>1. task[w].student \in Students /\ At(w, "start", "commit")
            BY <5>2, Places DEF TypeInv, WellFormed, At
          <6>2. After(task[w].student, task[w].paper)
            <7>1. CASE task[w].seat # NoSeat
              BY <4>1, <4>2, <6>1, <7>1 DEF At
            <7>2. CASE task[w].seat = NoSeat
              <8>1. seats' = [seats EXCEPT ![task[w].student] =
                                [paper |-> task[w].paper, status |-> "STARTED"]]
                BY <3>2, <5>2, <7>2 DEF CommitAttempt
              <8>2. [paper |-> task[w].paper, status |-> "STARTED"] # NoSeat
                BY DEF NoSeat
              <8> QED BY <2>2, <6>1, <8>1, <8>2
            <7> QED BY <7>1, <7>2
          <6>3. /\ attempts'[n] = NewAttempt(w)
                /\ DOMAIN attempts' = DOMAIN attempts \cup {n}
                /\ \A b \in DOMAIN attempts : attempts'[b] = attempts[b]
            BY <5>2, StartWrites
          <6>4. /\ NewAttempt(w).student = task[w].student
                /\ NewAttempt(w).paper = task[w].paper
            BY DEF NewAttempt
          <6> HIDE DEF n
          <6> HIDE DEF After
          <6> QED BY <5>1, <6>2, <6>3, <6>4
        <5> HIDE DEF After
        <5> QED BY <1>2, <5>1, <5>2, AttemptsStay
      <4>4. ASSUME NEW v \in Workers, task'[v].seat # NoSeat
            PROVE  /\ task'[v].op \in {"start", "submit"}
                   /\ task'[v].step \in {"commit", "publish"}
                   /\ After(task'[v].student, task'[v].seat.paper)
                   /\ task'[v].op = "start" => task'[v].paper = task'[v].seat.paper
        <5>1. task[v] \in Task /\ WellFormed(task[v])
          BY <2>2 DEF TypeInv
        <5>2. task[v].seat # NoSeat => After(task[v].student, task[v].seat.paper)
          BY <4>1, <4>2, <5>1 DEF WellFormed
        <5>3. Idle.seat = NoSeat /\ \A op, step, input, student, attempt :
                NewTask(op, step, input, student, attempt).seat = NoSeat
          BY DEF Idle, NewTask
        <5>4. ~Loads(v)
          BY <4>4, <5>3 DEF Loads
        <5>5. CASE Continues(v)
          <6>1. CASE task[v].step \notin {"commit", "publish"}
            <7>1. task[v].seat = NoSeat
              BY <4>1, <6>1
            <7>2. PICK paper \in Nat :
                    /\ ReadSeat(v)
                    /\ task[v].op = "start" /\ seats[task[v].student] # NoSeat
                       => paper = seats[task[v].student].paper
                    /\ task'[v] = [task[v] EXCEPT !.step = "commit", !.paper = paper,
                                                  !.seat = seats[task[v].student]]
              BY <4>4, <5>1, <5>5, <6>1, <7>1, Places DEF Continues, Chosen, At, Task
            <7>3. task[v].op \in {"start", "submit"} /\ task[v].student \in Students
              BY <5>1, <7>2, Places DEF WellFormed
            <7>4. /\ task'[v].op = task[v].op /\ task'[v].student = task[v].student
                  /\ task'[v].seat = seats[task[v].student]
                  /\ task'[v].step = "commit" /\ task'[v].paper = paper
              BY <5>1, <7>2 DEF Task
            <7>5. Seated(task'[v].student, task'[v].seat.paper)
              BY <4>4, <7>4 DEF Seated
            <7> HIDE DEF After
            <7> QED BY <4>2, <4>4, <7>2, <7>3, <7>4, <7>5
          <6>2. CASE task[v].step \in {"commit", "publish"}
            <7>1. task'[v] = [task[v] EXCEPT !.step = "publish"]
              BY <5>5, <6>2, Places DEF Continues, At
            <7>2. /\ task'[v].op = task[v].op /\ task'[v].student = task[v].student
                  /\ task'[v].seat = task[v].seat /\ task'[v].paper = task[v].paper
                  /\ task'[v].step = "publish"
              BY <5>1, <7>1 DEF Task
            <7> HIDE DEF After
            <7> QED BY <4>1, <4>4, <5>2, <7>2
          <6> QED BY <6>1, <6>2
        <5>6. CASE task'[v] = task[v]
          BY <4>1, <4>4, <5>2, <5>6
        <5> QED BY <1>2, <4>4, <5>3, <5>4, <5>5, <5>6, TaskAfter
      <4> QED BY <2>3, <3>1, <4>3, <4>4 DEF SeatInv, Seated
    <3>3. CASE exam.type # "REGULAR"
      BY <2>3, <3>1, <3>3 DEF SeatInv
    <3> QED BY <3>2, <3>3
  <2> QED BY <2>4, <2>5
<1> QED BY <1>1, <1>2

\* The seats and the regular attempts agree, whatever requests overlap.
LEMMA SeatInvHolds == Spec => []SeatInv
<1>1. Init => SeatInv
  <2> SUFFICES ASSUME Init PROVE SeatInv
    OBVIOUS
  <2>1. /\ attempts = <<>> /\ seats = [s \in Students |-> NoSeat]
        /\ task = [w \in Workers |-> Idle]
    BY DEF Init
  <2>2. Idle.seat = NoSeat /\ DOMAIN attempts = {}
    BY <2>1 DEF Idle
  <2> QED BY <2>1, <2>2 DEF SeatInv
<1> QED BY <1>1, StepSeat, TypeInvHolds, PTL DEF Spec

\* However the first starts of a student race for the assignment, a regular
\* attempt is on the paper of the seat that exam_student_assignments keeps.
THEOREM RegularAttemptOnItsSeat == Spec => []SeatedPaper
<1>1. SeatInv => SeatedPaper
  BY DEF SeatInv, SeatedPaper, Seated
<1> QED BY <1>1, SeatInvHolds, PTL

-----------------------------------------------------------------------------
(* A mock attempt is on a paper of its own.  The paper is committed before    *)
(* the attempt, so the argument follows it through the request: between the   *)
(* two commits it belongs to the student and to no other request or attempt.  *)

OwnPaper(s, p) == p \in DOMAIN papers /\ papers[p].owner = s

Starting(v) == At(v, "start", "commit")

MockInv ==
  exam.type = "MOCK" =>
    /\ \A a \in DOMAIN attempts :
         /\ OwnPaper(attempts[a].student, attempts[a].paper)
         /\ \A b \in DOMAIN attempts : attempts[a].paper = attempts[b].paper => a = b
    /\ \A v \in Workers :
         Starting(v) =>
           /\ OwnPaper(task[v].student, task[v].paper)
           /\ \A a \in DOMAIN attempts : attempts[a].paper # task[v].paper
           /\ \A u \in Workers :
                Starting(u) /\ task[u].paper = task[v].paper => u = v
    /\ \A v \in Workers : task[v].step = "seat" => task[v].op = "submit"

\* How a start gets to its last step.
LEMMA StartsAfter ==
  ASSUME TypeInv, Next, NEW v \in Workers, Starting(v)'
  PROVE  \/ task'[v] = task[v]
         \/ /\ task[v].op = "start" /\ task[v].step = "seat"
            /\ UNCHANGED <<papers, attempts>>
         \/ /\ CommitOwnPaper(v) /\ ~Refuse(v)
            /\ task'[v].student = task[v].student /\ task'[v].paper = Len(papers')
            /\ \A u \in Workers \ {v} : task'[u] = task[u]
<1>1. task \in [Workers -> Task] /\ task[v] \in Task
  BY DEF TypeInv, TypeOK
<1>2. ~Loads(v)
  <2>1. \A op, step, input, student, attempt :
          LET t == NewTask(op, step, input, student, attempt)
          IN t.op = op /\ t.step = step
    BY DEF NewTask
  <2> QED BY <2>1 DEF Loads, Starting, At
<1>3. task'[v] # Idle
  BY DEF Starting, At, Idle
<1>4. CASE Continues(v)
  <2>1. CASE ReadSeat(v) /\ \E paper \in Nat :
               task'[v] = [task[v] EXCEPT !.step = "commit", !.paper = paper,
                                          !.seat = seats[task[v].student]]
    BY <1>1, <2>1 DEF ReadSeat, Starting, At, Task
  <2>2. CASE /\ CommitOwnPaper(v) /\ ~Refuse(v)
             /\ task'[v] = [task[v] EXCEPT !.step = "commit", !.held = FALSE,
                                           !.paper = Len(papers')]
    <3>1. \A u \in Workers \ {v} : task'[u] = task[u]
      BY <1>1, <2>2 DEF CommitOwnPaper
    <3> QED BY <1>1, <2>2, <3>1 DEF Task
  <2>3. CASE CommitSharedPaper(v) /\ task'[v] = [task[v] EXCEPT !.step = "commit"]
    <3>1. task'[v].op = task[v].op
      BY <1>1, <2>3 DEF Task
    <3> QED BY <2>3, <3>1, Places DEF Starting, At
  <2>4. CASE \/ task'[v] = [task[v] EXCEPT !.step = "latest", !.held = TRUE]
             \/ \E step \in {"seat", "paper", "list"}, number \in Nat :
                  task'[v] = [task[v] EXCEPT !.step = step, !.number = number]
             \/ task'[v] = [task[v] EXCEPT !.step = "paper", !.attempt = Len(attempts)]
             \/ task'[v] = [task[v] EXCEPT !.step = "publish"]
    <3>1. task'[v].step # "commit"
      BY <1>1, <2>4 DEF Task
    <3> QED BY <3>1 DEF Starting, At
  <2> QED BY <1>4, <2>1, <2>2, <2>3, <2>4 DEF Continues
<1> QED BY <1>2, <1>3, <1>4, TaskAfter

\* Only a submission, or a regular start, looks for a seat.
LEMMA SeekersAfter ==
  ASSUME TypeInv, Next, NEW v \in Workers, task'[v].step = "seat"
  PROVE  \/ task'[v] = task[v]
         \/ task'[v].op = "submit"
         \/ exam.type = "REGULAR"
<1>1. task[v] \in Task
  BY DEF TypeInv, TypeOK
<1>2. \A op, step, input, student, attempt :
        LET t == NewTask(op, step, input, student, attempt)
        IN t.op = op /\ t.step = step
  BY DEF NewTask
<1>3. Loads(v) => task'[v].op = "submit"
  BY <1>2 DEF Loads
<1>4. task'[v] # Idle
  BY DEF Idle
<1>5. CASE Continues(v)
  <2>1. CASE \E step \in {"seat", "paper", "list"}, number \in Nat :
               /\ Goes(v, step)
               /\ task'[v] = [task[v] EXCEPT !.step = step, !.number = number]
    <3>1. PICK step \in {"seat", "paper", "list"}, number \in Nat :
               /\ Goes(v, step)
               /\ task'[v] = [task[v] EXCEPT !.step = step, !.number = number]
      BY <2>1
    <3>2. step = "seat"
      BY <1>1, <3>1 DEF Task
    <3> QED BY <3>1, <3>2 DEF Goes
  <2>2. CASE \/ task'[v] = [task[v] EXCEPT !.step = "latest", !.held = TRUE]
             \/ \E paper \in Nat :
                  task'[v] = [task[v] EXCEPT !.step = "commit", !.paper = paper,
                                             !.seat = seats[task[v].student]]
             \/ task'[v] = [task[v] EXCEPT !.step = "paper", !.attempt = Len(attempts)]
             \/ task'[v] = [task[v] EXCEPT !.step = "commit"]
             \/ task'[v] = [task[v] EXCEPT !.step = "commit", !.held = FALSE,
                                           !.paper = Len(papers')]
             \/ task'[v] = [task[v] EXCEPT !.step = "publish"]
    BY <1>1, <2>2 DEF Task
  <2> QED BY <1>5, <2>1, <2>2 DEF Continues
<1> QED BY <1>3, <1>4, <1>5, TaskAfter

\* No step gives the paper of a mock attempt, or the one a mock start has
\* generated for itself, to another attempt.
LEMMA StepMock ==
  ASSUME TypeInv, SeatInv, MockInv, [Next]_vars
  PROVE  MockInv'
<1>1. CASE UNCHANGED vars
  BY <1>1 DEF vars, MockInv, OwnPaper, Starting, At
<1>2. CASE Next /\ ~Exists
  <2>1. attempts = <<>> /\ \A v \in Workers : task[v] = Idle
    BY <1>2 DEF SeatInv
  <2>2. \A v \in Workers : task[v].op = "idle" /\ task[v].step = "idle"
    BY <2>1 DEF Idle
  <2>3. ASSUME NEW v \in Workers PROVE task'[v] = Idle
    <3>1. ~Loads(v)
      BY <1>2 DEF Loads
    <3>2. ~Continues(v)
      BY <2>2, Places DEF Continues, At
    <3> QED BY <1>2, <2>1, <3>1, <3>2, TaskAfter
  <2>4. ~\E w \in Workers : CommitAttempt(w)
    BY <2>2, Places DEF At
  <2>5. DOMAIN attempts' = {}
    BY <1>2, <2>1, <2>4, AttemptsStay
  <2>6. \A v \in Workers : task'[v].step = "idle"
    BY <2>3 DEF Idle
  <2> QED BY <2>5, <2>6 DEF MockInv, Starting, At
<1>3. CASE Next /\ Exists /\ exam.type = "MOCK"
  <2> DEFINE Owned(s, q) == q \in DOMAIN papers' /\ papers'[q].owner = s
  <2>1. /\ \A a \in DOMAIN attempts :
             /\ OwnPaper(attempts[a].student, attempts[a].paper)
             /\ \A b \in DOMAIN attempts : attempts[a].paper = attempts[b].paper => a = b
        /\ \A v \in Workers :
             Starting(v) =>
               /\ OwnPaper(task[v].student, task[v].paper)
               /\ \A a \in DOMAIN attempts : attempts[a].paper # task[v].paper
               /\ \A u \in Workers :
                    Starting(u) /\ task[u].paper = task[v].paper => u = v
        /\ \A v \in Workers : task[v].step = "seat" => task[v].op = "submit"
    BY <1>3 DEF MockInv
  <2>2. \A s, q : OwnPaper(s, q) => Owned(s, q)
    BY <1>3, PapersStay DEF OwnPaper
  <2>3. \A v \in Workers : task'[v].step = "seat" => task'[v].op = "submit"
    BY <1>3, <2>1, SeekersAfter
  <2>4. task \in [Workers -> Task]
    BY DEF TypeInv, TypeOK
  <2>5. ASSUME NEW w \in Workers, CommitAttempt(w), ~Refuse(w)
        PROVE  MockInv'
    <3> DEFINE n == Len(attempts) + 1
    <3>1. Starting(w) /\ Finish(w) /\ papers' = papers
      BY <2>5, Places DEF Starting, CommitAttempt
    <3>2. /\ attempts'[n] = NewAttempt(w)
          /\ DOMAIN attempts' = DOMAIN attempts \cup {n} /\ n \notin DOMAIN attempts
          /\ \A b \in DOMAIN attempts : attempts'[b] = attempts[b]
      BY <2>5, StartWrites
    <3>3. attempts'[n].student = task[w].student /\ attempts'[n].paper = task[w].paper
      BY <3>2 DEF NewAttempt
    <3>4. task'[w] = Idle /\ \A v \in Workers \ {w} : task'[v] = task[v]
      BY <2>4, <3>1 DEF Finish
    <3>5. ~Starting(w)'
      BY <3>4 DEF Starting, At, Idle
    <3>6. \A v \in Workers \ {w} : Starting(v)' => Starting(v)
      BY <3>4 DEF Starting, At
    <3> HIDE DEF n, Owned
    <3>7. \A a \in DOMAIN attempts' :
            /\ Owned(attempts'[a].student, attempts'[a].paper)
            /\ \A b \in DOMAIN attempts' : attempts'[a].paper = attempts'[b].paper => a = b
      BY <2>1, <2>2, <3>1, <3>2, <3>3
    <3>8. \A v \in Workers :
            Starting(v)' =>
              /\ Owned(task'[v].student, task'[v].paper)
              /\ \A a \in DOMAIN attempts' : attempts'[a].paper # task'[v].paper
              /\ \A u \in Workers :
                   Starting(u)' /\ task'[u].paper = task'[v].paper => u = v
      BY <2>1, <2>2, <3>1, <3>2, <3>3, <3>4, <3>5, <3>6
    <3> QED BY <2>3, <3>7, <3>8 DEF MockInv, OwnPaper, Owned
  <2>6. CASE ~\E w \in Workers : CommitAttempt(w) /\ ~Refuse(w)
    <3>1. /\ DOMAIN attempts' = DOMAIN attempts
          /\ \A a \in DOMAIN attempts :
               /\ attempts'[a].student = attempts[a].student
               /\ attempts'[a].paper = attempts[a].paper
      BY <1>3, <2>6, AttemptsStay
    <3>2. ASSUME NEW v \in Workers, Starting(v)'
          PROVE  \/ task'[v] = task[v] /\ Starting(v)
                 \/ /\ task'[v].paper \notin DOMAIN papers
                    /\ Owned(task'[v].student, task'[v].paper)
                    /\ \A u \in Workers \ {v} : task'[u] = task[u]
      <4>1. CASE task'[v] = task[v]
        BY <3>2, <4>1 DEF Starting, At
      <4>2. ~(task[v].op = "start" /\ task[v].step = "seat")
        BY <2>1
      <4>3. CASE /\ CommitOwnPaper(v) /\ ~Refuse(v)
                 /\ task'[v].student = task[v].student /\ task'[v].paper = Len(papers')
                 /\ \A u \in Workers \ {v} : task'[u] = task[u]
        <5> DEFINE n == Len(papers) + 1
        <5>1. At(v, "start", "paper")
          BY <4>3, Places
        <5>2. /\ Len(papers') = n /\ n \notin DOMAIN papers /\ n \in DOMAIN papers'
              /\ papers'[n] = [config |-> task[v].config,
                               owner |-> IF task[v].op = "start" THEN task[v].student
                                         ELSE Shared]
          BY <4>3, PaperAdded
        <5> HIDE DEF n
        <5>3. papers'[n].owner = task[v].student
          BY <5>1, <5>2 DEF At
        <5> QED BY <4>3, <5>2, <5>3
      <4> QED BY <1>3, <3>2, <4>1, <4>2, <4>3, StartsAfter
    <3> HIDE DEF Owned
    <3>3. \A a \in DOMAIN attempts' :
            /\ Owned(attempts'[a].student, attempts'[a].paper)
            /\ \A b \in DOMAIN attempts' : attempts'[a].paper = attempts'[b].paper => a = b
      BY <2>1, <2>2, <3>1
    <3>4. \A a \in DOMAIN attempts : attempts[a].paper \in DOMAIN papers
      BY <2>1 DEF OwnPaper
    <3>5. \A v \in Workers : Starting(v) => task[v].paper \in DOMAIN papers
      BY <2>1 DEF OwnPaper
    <3>6. \A v \in Workers :
            Starting(v)' =>
              /\ Owned(task'[v].student, task'[v].paper)
              /\ \A a \in DOMAIN attempts' : attempts'[a].paper # task'[v].paper
      BY <2>1, <2>2, <3>1, <3>2, <3>4
    <3>7. ASSUME NEW v \in Workers, NEW u \in Workers, Starting(v)', Starting(u)',
                 task'[u].paper = task'[v].paper
          PROVE  u = v
      <4>1. ASSUME NEW x \in Workers, Starting(x)', task'[x] = task[x]
            PROVE  Starting(x) /\ task'[x].paper \in DOMAIN papers
        BY <3>5, <4>1 DEF Starting, At
      <4>2. CASE task'[v] = task[v] /\ task'[u] = task[u]
        BY <2>1, <3>7, <4>1, <4>2
      <4>3. CASE task'[v] # task[v] /\ u # v
        BY <3>2, <3>7, <4>1, <4>3
      <4>4. CASE task'[u] # task[u] /\ u # v
        BY <3>2, <3>7, <4>1, <4>4
      <4> QED BY <4>2, <4>3, <4>4
    <3> QED BY <2>3, <3>3, <3>6, <3>7 DEF MockInv, OwnPaper, Owned
  <2> QED BY <2>5, <2>6
<1>4. CASE Next /\ Exists /\ exam.type # "MOCK"
  BY <1>4, ExamStays DEF MockInv
<1> QED BY <1>1, <1>2, <1>3, <1>4

\* The papers of mock attempts and of mock starts are pairwise distinct.
LEMMA MockInvHolds == Spec => []MockInv
<1>1. Init => MockInv
  BY DEF Init, MockInv
<1> QED BY <1>1, StepMock, SeatInvHolds, TypeInvHolds, PTL DEF Spec

\* Every mock attempt is on a paper generated for that student and for no other
\* attempt, although the paper is committed before the attempt exists.
THEOREM MockAttemptOnItsOwnPaper == Spec => []OwnMockPaper
<1>1. MockInv => OwnMockPaper
  BY DEF MockInv, OwnMockPaper, OwnPaper
<1> QED BY <1>1, MockInvHolds, PTL

-----------------------------------------------------------------------------
(* The columns of a request that is loaded, or taken further.               *)

\* What a request holds after its first query, and the step it goes on with.
LEMMA Loaded ==
  ASSUME NEW v, Loads(v)
  PROVE  LET u == task'[v]
         IN /\ u.status = exam.status /\ u.config = exam.config /\ u.held = FALSE
            /\ Exists
            /\ UNCHANGED <<exam, history, papers, seats, attempts, submitted>>
            /\ \/ /\ u.op \in {"configure", "approve", "publish", "schedule"}
                  /\ u.step = "commit"
               \/ u.op = "generate" /\ u.step = "paper"
               \/ /\ u.op = "start"
                  /\ u.step = IF exam.status \in {"PUBLISHED", "SCHEDULED"}
                              THEN "activate" ELSE "latest"
               \/ /\ u.op = "submit" /\ u.step = "seat"
                  /\ u.attempt \in DOMAIN attempts
                  /\ attempts[u.attempt].status = "IN_PROGRESS"
<1>1. \A op, step, input, student, attempt :
        LET t == NewTask(op, step, input, student, attempt)
        IN /\ t.op = op /\ t.step = step /\ t.status = exam.status
           /\ t.config = exam.config /\ t.held = FALSE /\ t.attempt = attempt
  BY DEF NewTask
<1> QED BY <1>1 DEF Loads

\* What a later step of a request leaves as it was, and where it goes.
LEMMA GoesOn ==
  ASSUME TypeInv, NEW v \in Workers, Continues(v)
  PROVE  LET t == task[v]
             u == task'[v]
         IN /\ u.op = t.op /\ u.status = t.status /\ u.config = t.config
            /\ u.student = t.student
            /\ ListAttempts(v) \/ u.attempt = t.attempt
            /\ Activate(v) \/ u.held = t.held \/ u.held = FALSE
            /\ \/ Activate(v) /\ u.step = "latest" /\ u.held = TRUE
               \/ ReadLatest(v) /\ Goes(v, u.step) /\ u.step \in {"seat", "paper", "list"}
               \/ ReadSeat(v) /\ u.step = "commit"
               \/ ListAttempts(v) /\ u.step = "paper" /\ u.attempt = Len(attempts)
               \/ CommitSharedPaper(v) /\ u.step = "commit"
               \/ /\ CommitOwnPaper(v) /\ ~Refuse(v)
                  /\ u.step = "commit" /\ u.held = FALSE
               \/ CommitSubmit(v) /\ u.step = "publish"
<1>1. task[v] \in Task
  BY DEF TypeInv, TypeOK
<1>2. CASE Activate(v) /\ task'[v] = [task[v] EXCEPT !.step = "latest", !.held = TRUE]
  BY <1>1, <1>2 DEF Task
<1>3. CASE \E step \in {"seat", "paper", "list"}, number \in Nat :
             /\ ReadLatest(v) /\ Goes(v, step)
             /\ task'[v] = [task[v] EXCEPT !.step = step, !.number = number]
  BY <1>1, <1>3 DEF Task
<1>4. CASE \E paper \in Nat :
             /\ ReadSeat(v)
             /\ task'[v] = [task[v] EXCEPT !.step = "commit", !.paper = paper,
                                           !.seat = seats[task[v].student]]
  BY <1>1, <1>4 DEF Task
<1>5. CASE /\ ListAttempts(v)
           /\ task'[v] = [task[v] EXCEPT !.step = "paper", !.attempt = Len(attempts)]
  BY <1>1, <1>5 DEF Task
<1>6. CASE CommitSharedPaper(v) /\ task'[v] = [task[v] EXCEPT !.step = "commit"]
  BY <1>1, <1>6 DEF Task
<1>7. CASE /\ CommitOwnPaper(v) /\ ~Refuse(v)
           /\ task'[v] = [task[v] EXCEPT !.step = "commit", !.held = FALSE,
                                         !.paper = Len(papers')]
  BY <1>1, <1>7 DEF Task
<1>8. CASE CommitSubmit(v) /\ task'[v] = [task[v] EXCEPT !.step = "publish"]
  BY <1>1, <1>8 DEF Task
<1> QED BY <1>2, <1>3, <1>4, <1>5, <1>6, <1>7, <1>8 DEF Continues

-----------------------------------------------------------------------------
(* Requests that do not overlap: at most one worker, any number of students,  *)
(* papers, attempts and transitions, and requests that stop at any step.      *)

Serial == \A v, w \in Workers : v = w

(* The history is a path.  Transitions are validated on the copy the session  *)
(* loaded and recorded from it, so the copy must still be current where one   *)
(* is made; a start that waits to activate has loaded a status that allows it. *)

CopyCurrent(v) ==
  /\ task[v].op \notin {"idle", "start"} => task[v].status = exam.status
  /\ task[v].held \/ task[v].step = "activate" =>
       /\ task[v].op = "start" /\ task[v].status = exam.status
       /\ task[v].status \in {"PUBLISHED", "SCHEDULED"}

Path(h) ==
  /\ h[1] = Row(Fresh, "DRAFT")
  /\ \A i \in 2 .. Len(h) :
       /\ h[i].from = h[i - 1].to
       /\ h[i].to \in EXAM_TRANSITIONS[h[i].from] \cup {h[i].from}

PathInv ==
  /\ Exists => /\ Len(history) >= 1 /\ Path(history)
               /\ history[Len(history)].to = exam.status
  /\ \A v \in Workers : CopyCurrent(v)

\* A row from the last status to one that may follow it makes a longer path.
LEMMA PathGrows ==
  ASSUME NEW h \in Seq(HistoryRow), Len(h) >= 1, Path(h),
         NEW from \in Status, from = h[Len(h)].to, NEW target \in Status,
         target \in EXAM_TRANSITIONS[from] \cup {from}
  PROVE  LET g == Append(h, Row(from, target))
         IN /\ g \in Seq(HistoryRow) /\ Len(g) >= 1 /\ Path(g)
            /\ g[Len(g)].to = target
<1> DEFINE new == Row(from, target)
           g == Append(h, new)
<1>1. new \in HistoryRow /\ new.from = from /\ new.to = target
  BY DEF Row, HistoryRow
<1> HIDE DEF new
<1>2. /\ g \in Seq(HistoryRow) /\ Len(g) = Len(h) + 1 /\ g[Len(h) + 1] = new
      /\ \A i \in 1 .. Len(h) : g[i] = h[i]
  BY <1>1, AppendProperties
<1>3. Len(h) \in Nat
  BY LenProperties
<1> HIDE DEF g
<1>4. g[1] = Row(Fresh, "DRAFT")
  BY <1>2, <1>3 DEF Path
<1>5. ASSUME NEW i \in 2 .. Len(g)
      PROVE  /\ g[i].from = g[i - 1].to
             /\ g[i].to \in EXAM_TRANSITIONS[g[i].from] \cup {g[i].from}
  <2>1. i \in 2 .. Len(h) \/ i = Len(h) + 1
    BY <1>2, <1>3
  <2>2. CASE i \in 2 .. Len(h)
    <3>1. g[i] = h[i] /\ g[i - 1] = h[i - 1]
      BY <1>2, <1>3, <2>2
    <3> QED BY <2>2, <3>1 DEF Path
  <2>3. CASE i = Len(h) + 1
    <3>1. g[i] = new /\ g[i - 1] = h[Len(h)]
      BY <1>2, <1>3, <2>3
    <3> QED BY <1>1, <3>1
  <2> QED BY <2>1, <2>2, <2>3
<1>6. g[Len(g)].to = target /\ Len(g) >= 1
  BY <1>1, <1>2, <1>3
<1> QED BY <1>2, <1>4, <1>5, <1>6 DEF Path, g, new

\* Every transition of the exam is made on its present status, and allowed by
\* the transition table.
LEMMA MovesOnPath ==
  ASSUME TypeInv, SeatInv, PathInv, NEW w \in Workers, Moves(w)
  PROVE  /\ Len(history') >= 1 /\ Path(history')
         /\ history'[Len(history')].to = exam'.status
         /\ task'[w].op \in {"idle", "start"} /\ task'[w].held = FALSE
         /\ task'[w].step # "activate"
<1>1. /\ task \in [Workers -> Task] /\ task[w] \in Task /\ history \in Seq(HistoryRow)
      /\ exam \in ExamRow
  BY DEF TypeInv, TypeOK, ExamRow
<1>2. /\ CommitConfigure(w) => At(w, "configure", "commit")
      /\ CommitGenerate(w) => At(w, "generate", "commit")
      /\ CommitApprove(w) => At(w, "approve", "commit")
      /\ CommitPublish(w) => At(w, "publish", "commit")
      /\ CommitSchedule(w) => At(w, "schedule", "commit")
  BY DEF CommitConfigure, CommitGenerate, CommitApprove, CommitPublish, CommitSchedule
<1>3. task[w].op # "idle" /\ (task[w].op = "start" => task[w].held)
  BY <1>2, Places DEF Moves, At
<1>4. Exists /\ task[w].status = exam.status
  <2>1. Idle.op = "idle"
    BY DEF Idle
  <2> QED BY <1>3, <2>1 DEF SeatInv, PathInv, CopyCurrent
<1>5. /\ Len(history) >= 1 /\ Path(history) /\ history[Len(history)].to = exam.status
      /\ exam.status \in Status
  BY <1>1, <1>4 DEF PathInv, Exists, ExamRow
<1>6. ASSUME NEW target \in Status, MovesTo(w, target),
             target \in EXAM_TRANSITIONS[exam.status] \cup {exam.status}
      PROVE  /\ Len(history') >= 1 /\ Path(history')
             /\ history'[Len(history')].to = exam'.status
  <2>1. history' = Append(history, Row(exam.status, target)) /\ exam'.status = target
    BY <1>4, <1>6 DEF MovesTo, Written
  <2> QED BY <1>1, <1>5, <1>6, <2>1, PathGrows
<1>7. ASSUME MovesThroughReview(w)
      PROVE  /\ Len(history') >= 1 /\ Path(history')
             /\ history'[Len(history')].to = exam'.status
  <2> DEFINE reviewed == Append(history, Row("PAPER_GENERATED", "TEACHER_REVIEWING"))
  <2>1. /\ exam.status = "PAPER_GENERATED" /\ exam'.status = "APPROVED"
        /\ history' = Append(reviewed, Row("TEACHER_REVIEWING", "APPROVED"))
    BY <1>4, <1>7 DEF MovesThroughReview, Written
  <2>2. /\ "TEACHER_REVIEWING" \in EXAM_TRANSITIONS["PAPER_GENERATED"]
        /\ "APPROVED" \in EXAM_TRANSITIONS["TEACHER_REVIEWING"]
        /\ {"PAPER_GENERATED", "TEACHER_REVIEWING", "APPROVED"} \subseteq Status
    BY DEF EXAM_TRANSITIONS, Status
  <2>3. /\ reviewed \in Seq(HistoryRow) /\ Len(reviewed) >= 1 /\ Path(reviewed)
        /\ reviewed[Len(reviewed)].to = "TEACHER_REVIEWING"
    BY <1>1, <1>5, <2>1, <2>2, PathGrows
  <2> HIDE DEF reviewed
  <2>4. Len(history') >= 1 /\ Path(history') /\ history'[Len(history')].to = "APPROVED"
    BY <2>1, <2>2, <2>3, PathGrows
  <2> QED BY <2>1, <2>4
<1>8. ASSUME NEW target, MayMove(task[w].status, target)
      PROVE  target \in EXAM_TRANSITIONS[exam.status] \cup {exam.status}
  BY <1>4, <1>8 DEF MayMove
<1>9. task[w].held => "ACTIVE" \in EXAM_TRANSITIONS[exam.status]
  BY DEF PathInv, CopyCurrent, EXAM_TRANSITIONS
<1>10. {"CONFIGURED", "PAPER_GENERATED", "APPROVED", "PUBLISHED", "SCHEDULED",
        "ACTIVE"} \subseteq Status
  BY DEF Status
<1>11. /\ Len(history') >= 1 /\ Path(history')
       /\ history'[Len(history')].to = exam'.status
  BY <1>6, <1>7, <1>8, <1>9, <1>10 DEF Moves
<1>12. task'[w].op \in {"idle", "start"} /\ task'[w].held = FALSE
       /\ task'[w].step # "activate"
  <2>1. Idle.op = "idle" /\ Idle.held = FALSE /\ Idle.step = "idle"
    BY DEF Idle
  <2>2. ASSUME NEW v \in Workers,
               \/ CommitConfigure(v) \/ CommitGenerate(v) \/ CommitApprove(v)
               \/ CommitPublish(v) \/ CommitSchedule(v) \/ CommitAttempt(v)
        PROVE  task'[v] = Idle
    <3>1. Finish(v)
      BY <2>2 DEF CommitConfigure, CommitGenerate, CommitApprove, CommitPublish,
                  CommitSchedule, CommitAttempt, Refuse
    <3> QED BY <1>1, <3>1 DEF Finish
  <2>3. ASSUME CommitOwnPaper(w), ~Refuse(w)
        PROVE  /\ task'[w].op = "start" /\ task'[w].held = FALSE
               /\ task'[w].step = "commit"
    BY <1>1, <2>3 DEF CommitOwnPaper, At, Task
  <2> QED BY <2>1, <2>2, <2>3 DEF Moves
<1> QED BY <1>11, <1>12

\* One request at a time, each step extends the path of the history by
\* allowed transitions, or leaves history and status alone.
LEMMA StepPath ==
  ASSUME Serial, TypeInv, SeatInv, PathInv, [Next]_vars
  PROVE  PathInv'
<1>1. CASE UNCHANGED vars
  BY <1>1 DEF vars, PathInv, CopyCurrent, Exists, Path
<1>2. Idle.op = "idle" /\ Idle.held = FALSE /\ Idle.step = "idle"
  BY DEF Idle
<1>3. task \in [Workers -> Task]
  BY DEF TypeInv, TypeOK
<1>4. CASE CreateExam
  <2>1. \A v \in Workers : task'[v] = Idle
    BY <1>4 DEF CreateExam, SeatInv
  <2>2. /\ history' = <<Row(Fresh, "DRAFT")>> /\ exam'.status = "DRAFT"
    BY <1>4 DEF CreateExam, Row, TypeInv, TypeOK
  <2>3. /\ Len(history') = 1 /\ history'[1] = Row(Fresh, "DRAFT")
        /\ Row(Fresh, "DRAFT").to = "DRAFT"
    BY <2>2 DEF Row
  <2> QED BY <1>2, <2>1, <2>2, <2>3 DEF PathInv, CopyCurrent, Path
<1>5. ASSUME Next, NEW w \in Workers, Moves(w)
      PROVE  PathInv'
  <2>1. /\ Len(history') >= 1 /\ Path(history')
        /\ history'[Len(history')].to = exam'.status
        /\ task'[w].op \in {"idle", "start"} /\ task'[w].held = FALSE
        /\ task'[w].step # "activate"
    BY <1>5, MovesOnPath
  <2>2. \A v \in Workers : v = w
    BY DEF Serial
  <2> QED BY <2>1, <2>2 DEF PathInv, CopyCurrent, Path
<1>6. CASE Next /\ UNCHANGED <<exam, history>>
  <2>1. ASSUME NEW v \in Workers
        PROVE  /\ task'[v].op \notin {"idle", "start"} => task'[v].status = exam.status
               /\ task'[v].held \/ task'[v].step = "activate" =>
                    /\ task'[v].op = "start" /\ task'[v].status = exam.status
                    /\ task'[v].status \in {"PUBLISHED", "SCHEDULED"}
    <3>1. CASE task'[v] = task[v]
      BY <3>1 DEF PathInv, CopyCurrent
    <3>2. CASE task'[v] = Idle
      BY <1>2, <3>2
    <3>3. CASE Loads(v)
      BY <3>3, Loaded
    <3>4. CASE Continues(v)
      <4>1. /\ task'[v].op = task[v].op /\ task'[v].status = task[v].status
            /\ task'[v].step # "activate"
            /\ Activate(v) \/ task'[v].held = task[v].held \/ task'[v].held = FALSE
        BY <3>4, GoesOn
      <4>2. Activate(v) => task[v].step = "activate"
        BY Places DEF At
      <4>3. /\ task[v].op \notin {"idle", "start"} => task[v].status = exam.status
            /\ task[v].held \/ task[v].step = "activate" =>
                 /\ task[v].op = "start" /\ task[v].status = exam.status
                 /\ task[v].status \in {"PUBLISHED", "SCHEDULED"}
        BY DEF PathInv, CopyCurrent
      <4> QED BY <4>1, <4>2, <4>3
    <3> QED BY <1>6, <3>1, <3>2, <3>3, <3>4, TaskAfter
  <2> QED BY <1>6, <2>1 DEF PathInv, CopyCurrent, Exists, Path
<1> QED BY <1>1, <1>4, <1>5, <1>6, ExamAfter

\* The history ends at the status of the exams row, and the request under
\* way holds that status.
LEMMA PathInvHolds == ASSUME Serial PROVE Spec => []PathInv
<1>1. Init => PathInv
  BY DEF Init, PathInv, CopyCurrent, Exists, Absent, Idle
<1> QED BY <1>1, StepPath, SeatInvHolds, TypeInvHolds, PTL DEF Spec

\* With requests that do not overlap exam_status_history is one path of allowed
\* transitions from DRAFT to the present status, also through approve_exam's two
\* transitions and the activation a start commits with its attempt.
THEOREM HistoryIsPathSerially ==
  ASSUME Serial
  PROVE  Spec => []HistoryIsPath
<1>1. PathInv => HistoryIsPath
  BY DEF PathInv, Path, HistoryIsPath, Row
<1> QED BY <1>1, PathInvHolds, PTL

-----------------------------------------------------------------------------
(* A paper for whoever starts or joins.  generate_papers_for_exam commits its *)
(* paper before it moves the exam, so the argument holds the paper in the      *)
(* request until then.                                                        *)

HasPaper(config) == \E p \in DOMAIN papers : papers[p].config = config

ReadyInv ==
  /\ exam.status \notin {Absent, "DRAFT", "CONFIGURED"} => HasPaper(exam.config)
  /\ \A v \in Workers : task[v].op = "generate" =>
       /\ task[v].config = exam.config
       /\ task[v].step = "commit" => HasPaper(exam.config)

\* Only an exam that has its papers can be approved, published, scheduled or
\* activated.
LEMMA MoveNeedsPaper ==
  ASSUME TypeInv, SeatInv, PathInv, NEW w \in Workers, Moves(w)
  PROVE  \/ exam'.status = "CONFIGURED"
         \/ exam'.config = exam.config /\ At(w, "generate", "commit")
         \/ /\ exam'.config = exam.config
            /\ exam.status \notin {Absent, "DRAFT", "CONFIGURED"}
<1>1. /\ CommitConfigure(w) => At(w, "configure", "commit")
      /\ CommitGenerate(w) => At(w, "generate", "commit")
      /\ CommitApprove(w) => At(w, "approve", "commit")
      /\ CommitPublish(w) => At(w, "publish", "commit")
      /\ CommitSchedule(w) => At(w, "schedule", "commit")
  BY DEF CommitConfigure, CommitGenerate, CommitApprove, CommitPublish, CommitSchedule
<1>2. task[w].status = exam.status
  BY <1>1, Places DEF Moves, At, PathInv, CopyCurrent
<1>3. task[w].status \in Status /\ exam.status # Absent
  BY <1>2 DEF TypeInv, TypeOK, Task, Status, Absent
<1>4. CASE CommitConfigure(w) /\ MovesTo(w, "CONFIGURED")
  BY <1>2, <1>4 DEF MovesTo, Written
<1>5. ASSUME NEW target \in {"APPROVED", "PUBLISHED", "SCHEDULED"},
             MayMove(task[w].status, target)
      PROVE  exam.status \notin {Absent, "DRAFT", "CONFIGURED"}
  BY <1>2, <1>3, <1>5 DEF MayMove, EXAM_TRANSITIONS
<1>6. ASSUME task[w].held \/ MovesThroughReview(w)
      PROVE  exam.status \notin {Absent, "DRAFT", "CONFIGURED"}
  BY <1>2, <1>3, <1>6 DEF PathInv, CopyCurrent, MovesThroughReview
<1>7. exam'.config = exam.config \/ At(w, "configure", "commit")
  BY DEF Moves
<1>8. CASE At(w, "configure", "commit")
  BY <1>1, <1>4, <1>8, Places DEF Moves, At, PathInv, CopyCurrent
<1> QED BY <1>1, <1>4, <1>5, <1>6, <1>7, <1>8 DEF Moves

\* One request at a time, no step takes the paper of a ready exam away, and
\* none makes an exam ready without one.
LEMMA StepReady ==
  ASSUME Serial, TypeInv, SeatInv, PathInv, ReadyInv, [Next]_vars
  PROVE  ReadyInv'
<1>1. CASE UNCHANGED vars
  BY <1>1 DEF vars, ReadyInv, HasPaper
<1> SUFFICES ASSUME Next PROVE ReadyInv'
  BY <1>1
<1> DEFINE Stays(config) == \E p \in DOMAIN papers' : papers'[p].config = config
<1>2. \A config : HasPaper(config) => Stays(config)
  BY PapersStay DEF HasPaper
<1>3. Idle.op = "idle"
  BY DEF Idle
<1>4. CASE CreateExam
  <2>1. \A v \in Workers : task'[v] = Idle
    BY <1>4 DEF CreateExam, SeatInv
  <2>2. exam'.status = "DRAFT"
    BY <1>4 DEF CreateExam, TypeInv, TypeOK
  <2> QED BY <1>3, <2>1, <2>2 DEF ReadyInv
<1>5. ASSUME NEW w \in Workers, Moves(w)
      PROVE  ReadyInv'
  <2>1. task'[w].op \in {"idle", "start"}
    BY <1>5, MovesOnPath
  <2>2. \A v \in Workers : v = w
    BY DEF Serial
  <2>3. exam'.status \notin {Absent, "DRAFT", "CONFIGURED"} => Stays(exam'.config)
    <3>1. CASE exam'.config = exam.config /\ At(w, "generate", "commit")
      BY <1>2, <3>1 DEF ReadyInv, At
    <3>2. CASE /\ exam'.config = exam.config
               /\ exam.status \notin {Absent, "DRAFT", "CONFIGURED"}
      BY <1>2, <3>2 DEF ReadyInv
    <3> HIDE DEF Stays
    <3> QED BY <1>5, <3>1, <3>2, MoveNeedsPaper
  <2> QED BY <2>1, <2>2, <2>3 DEF ReadyInv, HasPaper
<1>6. CASE UNCHANGED <<exam, history>>
  <2>1. ASSUME NEW v \in Workers, task'[v].op = "generate"
        PROVE  /\ task'[v].config = exam.config
               /\ task'[v].step = "commit" => Stays(exam.config)
    <3>1. CASE task'[v] = task[v]
      BY <1>2, <2>1, <3>1 DEF ReadyInv
    <3>2. CASE Loads(v)
      BY <2>1, <3>2, Loaded
    <3>3. CASE Continues(v)
      <4>1. task[v].op = "generate" /\ task'[v].config = task[v].config
        BY <2>1, <3>3, GoesOn
      <4>2. task[v].config = exam.config /\ WellFormed(task[v])
        BY <4>1 DEF ReadyInv, TypeInv
      <4>3. CommitSharedPaper(v)
        BY <3>3, <4>1, <4>2, Places DEF Continues, WellFormed, At
      <4>4. Stays(task[v].config)
        <5> DEFINE n == Len(papers) + 1
        <5>1. /\ n \in DOMAIN papers'
              /\ papers'[n] = [config |-> task[v].config,
                               owner |-> IF task[v].op = "start" THEN task[v].student
                                         ELSE Shared]
          BY <4>3, PaperAdded
        <5> HIDE DEF n
        <5>2. papers'[n].config = task[v].config
          BY <5>1
        <5> QED BY <5>1, <5>2
      <4> HIDE DEF Stays
      <4> QED BY <4>1, <4>2, <4>4
    <3> QED BY <1>3, <2>1, <3>1, <3>2, <3>3, TaskAfter
  <2>2. exam.status \notin {Absent, "DRAFT", "CONFIGURED"} => Stays(exam.config)
    BY <1>2 DEF ReadyInv
  <2> QED BY <1>6, <2>1, <2>2 DEF ReadyInv, HasPaper
<1> QED BY <1>4, <1>5, <1>6, ExamAfter

\* With requests that do not overlap an exam past CONFIGURED has a paper of its
\* present configuration: start_attempt and join_guest find one.
THEOREM PaperReadySerially ==
  ASSUME Serial
  PROVE  Spec => []PaperReady
<1>1. Init => ReadyInv
  BY DEF Init, ReadyInv, Idle, Absent
<1>2. TypeInv /\ ReadyInv => PaperReady
  BY NewestIsOne DEF TypeInv, ReadyInv, PaperReady, HasPaper
<1> QED BY <1>1, <1>2, StepReady, PathInvHolds, SeatInvHolds, TypeInvHolds, PTL DEF Spec

-----------------------------------------------------------------------------
(* The attempts of a student.  Between the two commits of a mock start none   *)
(* of them is flagged latest; a regular start that goes on has found none.    *)

NoAttempt(s) == \A a \in DOMAIN attempts : attempts[a].student # s

NoLatest(s) ==
  \A a \in DOMAIN attempts : attempts[a].student = s => ~attempts[a].latest

RegularStart(t) ==
  t.op = "start" =>
    /\ t.step \notin {"list", "paper"}
    /\ t.step \in {"seat", "commit"} => NoAttempt(t.student)

MockStart(t) ==
  t.op = "start" =>
    /\ t.step # "seat"
    /\ t.step = "paper" => t.attempt = Len(attempts) \/ NoLatest(t.student)
    /\ t.step = "commit" => NoLatest(t.student)

StartInv ==
  /\ LatestIsNewest
  /\ exam.type = "REGULAR" =>
       /\ \A a \in DOMAIN attempts : attempts[a].latest
       /\ OneRegularAttempt
       /\ \A v \in Workers : RegularStart(task[v])
  /\ exam.type # "REGULAR" => \A v \in Workers : MockStart(task[v])

\* A step that leaves the attempts alone takes a start to its next step with
\* what the step found.
LEMMA StartGoesOn ==
  ASSUME TypeInv, StartInv, Next, Exists, NEW v \in Workers, attempts' = attempts
  PROVE  IF exam.type = "REGULAR" THEN RegularStart(task'[v]) ELSE MockStart(task'[v])
<1> DEFINE t == task[v]
           u == task'[v]
<1>1. WellFormed(t) /\ (exam.type = "REGULAR" => RegularStart(t))
      /\ (exam.type # "REGULAR" => MockStart(t))
  BY DEF TypeInv, StartInv
<1>2. Idle.op = "idle"
  BY DEF Idle
<1>3. CASE Loads(v)
  BY <1>3, Loaded DEF RegularStart, MockStart
<1>4. CASE Continues(v) /\ u.op = "start"
  <2>1. u.op = t.op /\ u.student = t.student /\ (ListAttempts(v) \/ u.attempt = t.attempt)
    BY <1>4, GoesOn
  <2>2. CASE Activate(v) /\ u.step = "latest"
    BY <2>2 DEF RegularStart, MockStart
  <2>3. CASE ReadLatest(v) /\ Goes(v, u.step)
    <3>1. CASE exam.type = "REGULAR"
      <4>1. LatestOf(t.student) = {} /\ u.step = "seat"
        BY <2>3, <3>1 DEF Goes
      <4>2. NoAttempt(t.student)
        BY <3>1, <4>1 DEF NoAttempt, LatestOf, StartInv
      <4> QED BY <2>1, <3>1, <4>1, <4>2 DEF RegularStart
    <3>2. CASE exam.type # "REGULAR" /\ LatestOf(t.student) = {}
      <4>1. u.step = "paper"
        BY <2>3, <3>2 DEF Goes
      <4>2. NoLatest(t.student)
        BY <3>2 DEF NoLatest, LatestOf
      <4> QED BY <2>1, <3>2, <4>1, <4>2 DEF MockStart
    <3>3. CASE exam.type # "REGULAR" /\ LatestOf(t.student) # {}
      <4>1. u.step = "list"
        BY <2>3, <3>3 DEF Goes
      <4> QED BY <3>3, <4>1 DEF MockStart
    <3> QED BY <3>1, <3>2, <3>3
  <2>4. CASE ReadSeat(v) /\ u.step = "commit"
    <3>1. t.step = "seat"
      BY <2>4, Places
    <3> QED BY <1>1, <1>4, <2>1, <2>4, <3>1 DEF RegularStart, MockStart
  <2>5. CASE ListAttempts(v) /\ u.step = "paper" /\ u.attempt = Len(attempts)
    <3>1. t.op = "start" /\ t.step = "list"
      BY <2>5, Places DEF At
    <3> QED BY <1>1, <2>5, <3>1 DEF RegularStart, MockStart
  <2>6. ~CommitSharedPaper(v) /\ ~CommitSubmit(v)
    BY <1>4, <2>1, Places DEF At
  <2>7. CASE CommitOwnPaper(v) /\ ~Refuse(v) /\ u.step = "commit"
    <3>1. t.op = "start" /\ t.step = "paper" /\ t.student \in Students /\ t.attempt \in Nat
      BY <2>7, Places DEF At, TypeInv, TypeOK, WellFormed, Task
    <3>2. exam.type # "REGULAR"
      BY <1>1, <3>1 DEF RegularStart
    <3>3. attempts = Unmarked(t.student, t.attempt)
      BY <2>7 DEF CommitOwnPaper
    <3>4. ASSUME NEW a \in DOMAIN attempts, attempts[a].student = t.student
          PROVE  ~attempts[a].latest
      <4>1. a <= Len(attempts)
        <5>1. attempts \in Seq(Attempt)
          BY DEF TypeInv, TypeOK
        <5> QED BY <5>1, LenProperties
      <4>2. attempts[a].latest = (attempts[a].latest /\ ~(a <= t.attempt))
        BY <3>1, <3>3, <3>4, UnmarkedFlags DEF TypeInv
      <4> QED BY <1>1, <3>1, <3>2, <3>4, <4>1, <4>2 DEF MockStart, NoLatest
    <3>5. NoLatest(t.student)
      BY <3>4 DEF NoLatest
    <3> QED BY <2>1, <2>7, <3>2, <3>5 DEF MockStart
  <2> QED BY <1>4, <2>2, <2>3, <2>4, <2>5, <2>6, <2>7, GoesOn
<1>5. CASE u.op # "start"
  BY <1>5 DEF RegularStart, MockStart
<1> QED BY <1>1, <1>2, <1>3, <1>4, <1>5, TaskAfter

\* One request at a time, each step of a start keeps what it has read true
\* until it inserts the attempt.
LEMMA StepStart ==
  ASSUME Serial, TypeInv, SeatInv, StartInv, [Next]_vars
  PROVE  StartInv'
<1>1. CASE UNCHANGED vars
  BY <1>1 DEF vars, StartInv, LatestIsNewest, OneRegularAttempt, RegularStart, MockStart,
              NoAttempt, NoLatest
<1> SUFFICES ASSUME Next PROVE StartInv'
  BY <1>1
<1>2. task \in [Workers -> Task]
  BY DEF TypeInv, TypeOK
<1>3. CASE ~Exists
  <2>1. attempts = <<>> /\ \A v \in Workers : task[v].op = "idle"
    BY <1>3 DEF SeatInv, Idle
  <2>2. ~\E w \in Workers : CommitAttempt(w)
    BY <2>1, Places DEF At
  <2>3. DOMAIN attempts' = {}
    BY <2>1, <2>2, AttemptsStay
  <2>4. ASSUME NEW v \in Workers PROVE task'[v].op = "idle"
    <3>1. ~Loads(v)
      BY <1>3 DEF Loads
    <3>2. ~Continues(v)
      <4>1. ~(task[v].step = "seat" /\ task[v].op = "idle")
        BY DEF TypeInv, WellFormed
      <4> QED BY <2>1, <4>1, Places DEF Continues, At
    <3> QED BY <2>1, <3>1, <3>2, TaskAfter DEF Idle
  <2> QED BY <2>3, <2>4 DEF StartInv, LatestIsNewest, OneRegularAttempt, RegularStart, MockStart
<1>4. CASE Exists /\ attempts' = attempts
  <2>1. exam'.type = exam.type
    BY <1>4, ExamStays
  <2>2. \A v \in Workers : IF exam.type = "REGULAR" THEN RegularStart(task'[v])
                                                  ELSE MockStart(task'[v])
    BY <1>4, StartGoesOn
  <2>3. StartInv
    OBVIOUS
  <2> QED BY <1>4, <2>1, <2>2, <2>3 DEF StartInv, LatestIsNewest, OneRegularAttempt,
             RegularStart, MockStart, NoAttempt, NoLatest
<1>5. ASSUME Exists, NEW w \in Workers, CommitAttempt(w), ~Refuse(w)
      PROVE  StartInv'
  <2> DEFINE n == Len(attempts) + 1
             s == task[w].student
  <2>1. exam'.type = exam.type
    BY <1>5, ExamStays
  <2>2. /\ attempts'[n] = NewAttempt(w) /\ Len(attempts) \in Nat
        /\ DOMAIN attempts = 1 .. Len(attempts)
        /\ DOMAIN attempts' = DOMAIN attempts \cup {n} /\ n \notin DOMAIN attempts
        /\ \A b \in DOMAIN attempts : attempts'[b] = attempts[b]
    BY <1>5, StartWrites
  <2>3. /\ attempts'[n].student = s /\ attempts'[n].latest = TRUE
    BY <2>2 DEF NewAttempt
  <2>4. task[w].op = "start" /\ task[w].step = "commit"
    BY <1>5, Places DEF At
  <2>5. \A v \in Workers : task'[v].op = "idle"
    <3>1. task'[w] = Idle
      BY <1>2, <1>5 DEF CommitAttempt, Finish
    <3> QED BY <3>1 DEF Serial, Idle
  <2>6. /\ exam.type = "REGULAR" => NoAttempt(s)
        /\ exam.type # "REGULAR" => NoLatest(s)
    BY <2>4 DEF StartInv, RegularStart, MockStart
  <2>7. \A a \in DOMAIN attempts : a < n
    BY <2>2
  <2>8. \A a \in DOMAIN attempts : attempts[a].student = s => ~attempts[a].latest
    BY <2>6 DEF NoAttempt, NoLatest
  <2>9. ASSUME NEW a \in DOMAIN attempts', NEW b \in DOMAIN attempts',
               attempts'[a].latest, attempts'[b].student = attempts'[a].student
        PROVE  b <= a
    <3>1. a \in Nat /\ b \in Nat /\ n \in Nat
      BY <2>2
    <3>2. a \in DOMAIN attempts /\ b \in DOMAIN attempts => b <= a
      BY <2>2, <2>9 DEF StartInv, LatestIsNewest
    <3>3. a \in DOMAIN attempts => b # n
      BY <2>2, <2>3, <2>8, <2>9
    <3> HIDE DEF n
    <3> QED BY <2>2, <2>7, <3>1, <3>2, <3>3
  <2>10. ASSUME exam.type = "REGULAR"
         PROVE  /\ \A a \in DOMAIN attempts' : attempts'[a].latest
                /\ \A a, b \in DOMAIN attempts' :
                     attempts'[a].student = attempts'[b].student => a = b
    <3>1. \A a \in DOMAIN attempts : attempts[a].student # s
      BY <2>6, <2>10 DEF NoAttempt
    <3>2. /\ \A a \in DOMAIN attempts : attempts[a].latest
          /\ \A a, b \in DOMAIN attempts :
               attempts[a].student = attempts[b].student => a = b
      BY <2>10 DEF StartInv, OneRegularAttempt
    <3> HIDE DEF n, s
    <3> QED BY <2>2, <2>3, <3>1, <3>2
  <2> QED BY <2>1, <2>5, <2>9, <2>10 DEF StartInv, LatestIsNewest, OneRegularAttempt,
             RegularStart, MockStart
<1>6. ASSUME Exists, NEW w \in Workers, CommitOwnPaper(w), ~Refuse(w)
      PROVE  StartInv'
  <2> DEFINE s == task[w].student
             listed == task[w].attempt
  <2>1. exam'.type = exam.type
    BY <1>6, ExamStays
  <2>2. task[w].op = "start" /\ task[w].step = "paper" /\ s \in Students /\ listed \in Nat
    BY <1>2, <1>6, Places DEF At, TypeInv, WellFormed, Task
  <2>3. exam.type # "REGULAR"
    BY <2>2 DEF StartInv, RegularStart
  <2>4. /\ DOMAIN attempts' = DOMAIN attempts
        /\ \A a \in DOMAIN attempts :
             /\ attempts'[a].student = attempts[a].student
             /\ attempts'[a].latest =
                  (attempts[a].latest /\ ~(a <= listed /\ attempts[a].student = s))
    BY <1>6, <2>2, UnmarkedFlags DEF CommitOwnPaper, TypeInv
  <2>5. \A a \in DOMAIN attempts : a <= Len(attempts)
    <3>1. attempts \in Seq(Attempt)
      BY DEF TypeInv, TypeOK
    <3> QED BY <3>1, LenProperties
  <2>6. listed = Len(attempts) \/ NoLatest(s)
    BY <2>2, <2>3 DEF StartInv, MockStart
  <2>7. \A a \in DOMAIN attempts' : attempts'[a].student = s => ~attempts'[a].latest
    BY <2>4, <2>5, <2>6 DEF NoLatest
  <2>8. task'[w].student = s /\ task'[w].step = "commit"
    BY <1>2, <1>6 DEF CommitOwnPaper, Task
  <2>9. \A v \in Workers : v = w
    BY DEF Serial
  <2>10. \A a, b \in DOMAIN attempts' :
           attempts'[a].latest /\ attempts'[b].student = attempts'[a].student => b <= a
    BY <2>4 DEF StartInv, LatestIsNewest
  <2> HIDE DEF s
  <2> QED BY <2>1, <2>3, <2>7, <2>8, <2>9, <2>10 DEF StartInv, LatestIsNewest, MockStart,
             NoLatest
<1>7. ASSUME Exists, NEW w \in Workers, CommitSubmit(w)
      PROVE  StartInv'
  <2>1. exam'.type = exam.type
    BY <1>7, ExamStays
  <2>2. /\ DOMAIN attempts' = DOMAIN attempts
        /\ \A a \in DOMAIN attempts :
             /\ attempts'[a].student = attempts[a].student
             /\ attempts'[a].latest = attempts[a].latest
    BY <1>7, SubmitWrites
  <2>3. \A v \in Workers : task'[v].op = "submit"
    <3>1. task'[w].op = "submit"
      BY <1>2, <1>7 DEF CommitSubmit, At, Task
    <3> QED BY <3>1 DEF Serial
  <2> QED BY <2>1, <2>2, <2>3 DEF StartInv, LatestIsNewest, OneRegularAttempt,
             RegularStart, MockStart
<1>8. \/ attempts' = attempts
      \/ \E w \in Workers : CommitAttempt(w) /\ ~Refuse(w)
      \/ \E w \in Workers : CommitOwnPaper(w) /\ ~Refuse(w)
      \/ \E w \in Workers : CommitSubmit(w)
  <2>1. ASSUME NEW w \in Workers, CommitSharedPaper(w) \/ PublishSubmitted(w)
        PROVE  attempts' = attempts
    BY <2>1 DEF CommitSharedPaper, PublishSubmitted
  <2> QED BY <2>1, RowsAfter DEF WritesRows, JoinGuest
<1> QED BY <1>3, <1>4, <1>5, <1>6, <1>7, <1>8

\* The latest flags, the numbers and the start under way agree.
LEMMA StartInvHolds == ASSUME Serial PROVE Spec => []StartInv
<1>1. Init => StartInv
  BY DEF Init, StartInv, LatestIsNewest, OneRegularAttempt, RegularStart, MockStart, Idle
<1> QED BY <1>1, StepStart, SeatInvHolds, TypeInvHolds, PTL DEF Spec

\* With requests that do not overlap a regular exam is attempted once by each
\* student, also when starts are lost between their steps.
THEOREM OneRegularAttemptSerially ==
  ASSUME Serial
  PROVE  Spec => []OneRegularAttempt
<1>1. StartInv => OneRegularAttempt
  BY DEF StartInv, OneRegularAttempt
<1> QED BY <1>1, StartInvHolds, PTL

\* With requests that do not overlap the attempt flagged latest is the newest of
\* its student, also when a mock start is lost after the commit of its paper.
THEOREM LatestIsNewestSerially ==
  ASSUME Serial
  PROVE  Spec => []LatestIsNewest
<1>1. StartInv => LatestIsNewest
  BY DEF StartInv
<1> QED BY <1>1, StartInvHolds, PTL

-----------------------------------------------------------------------------
(* A submission is announced once: what is announced has been committed as    *)
(* SUBMITTED, and a submission only starts on an attempt that is not.         *)

Submits(t) ==
  t.op = "submit" =>
    /\ t.attempt \in DOMAIN attempts
    /\ t.step \in {"seat", "commit"} => attempts[t.attempt].status = "IN_PROGRESS"
    /\ t.step = "publish" =>
         /\ attempts[t.attempt].status = "SUBMITTED"
         /\ \A d \in DOMAIN submitted : submitted[d] # t.attempt

AnnounceInv ==
  /\ \A d \in DOMAIN submitted :
       submitted[d] \in DOMAIN attempts /\ attempts[submitted[d]].status = "SUBMITTED"
  /\ AnnouncedOnce
  /\ \A v \in Workers : Submits(task[v])

\* One request at a time, an attempt is announced only after the commit that
\* submits it, and that request then ends.
LEMMA StepAnnounce ==
  ASSUME Serial, TypeInv, AnnounceInv, [Next]_vars
  PROVE  AnnounceInv'
<1>1. CASE UNCHANGED vars
  BY <1>1 DEF vars, AnnounceInv, AnnouncedOnce, Submits
<1> SUFFICES ASSUME Next PROVE AnnounceInv'
  BY <1>1
<1>2. task \in [Workers -> Task] /\ submitted \in Seq(Nat)
  BY DEF TypeInv, TypeOK
<1>3. /\ \A d \in DOMAIN submitted :
           submitted[d] \in DOMAIN attempts /\ attempts[submitted[d]].status = "SUBMITTED"
      /\ \A d, e \in DOMAIN submitted : submitted[d] = submitted[e] => d = e
      /\ \A v \in Workers : Submits(task[v])
  BY DEF AnnounceInv, AnnouncedOnce
<1>4. CASE attempts' = attempts /\ submitted' = submitted
  <2>1. ASSUME NEW v \in Workers PROVE Submits(task'[v])
    <3>1. CASE Loads(v)
      BY <3>1, Loaded DEF Submits
    <3>2. CASE Continues(v) /\ task'[v].op = "submit"
      <4>1. task[v].op = "submit"
        BY <3>2, GoesOn
      <4>2. ReadSeat(v) \/ CommitSubmit(v)
        BY <3>2, <4>1, Places DEF Continues, At
      <4>3. task'[v].attempt = task[v].attempt
        BY <3>2, <4>1, GoesOn, Places DEF At
      <4>4. CASE ReadSeat(v)
        <5>1. task[v].step = "seat" /\ task'[v].step = "commit"
          BY <3>2, <4>4, Places, GoesOn DEF At
        <5> QED BY <1>3, <4>1, <4>3, <5>1 DEF Submits
      <4>5. CASE CommitSubmit(v)
        <5>1. task[v].step = "commit" /\ task[v].attempt \in DOMAIN attempts
              /\ attempts[task[v].attempt].status = "IN_PROGRESS"
          BY <1>3, <4>1, <4>5, Places DEF At, Submits
        <5>2. attempts'[task[v].attempt].status = "SUBMITTED"
          BY <4>5, <5>1, SubmitWrites
        <5> QED BY <1>4, <5>1, <5>2
      <4> QED BY <4>2, <4>4, <4>5
    <3>3. CASE task'[v].op # "submit"
      BY <3>3 DEF Submits
    <3>4. Idle.op # "submit"
      BY DEF Idle
    <3> QED BY <1>3, <3>1, <3>2, <3>3, <3>4, TaskAfter
  <2> QED BY <1>3, <1>4, <2>1 DEF AnnounceInv, AnnouncedOnce, Submits
<1>5. ASSUME NEW w \in Workers, CommitAttempt(w), ~Refuse(w)
      PROVE  AnnounceInv'
  <2>1. /\ \A a \in DOMAIN attempts : a \in DOMAIN attempts' /\ attempts'[a] = attempts[a]
        /\ submitted' = submitted
    BY <1>5, StartWrites DEF CommitAttempt
  <2>2. \A v \in Workers : task'[v].op = "idle"
    <3>1. task'[w] = Idle
      BY <1>2, <1>5 DEF CommitAttempt, Finish
    <3> QED BY <3>1 DEF Serial, Idle
  <2> QED BY <1>3, <2>1, <2>2 DEF AnnounceInv, AnnouncedOnce, Submits
<1>6. ASSUME NEW w \in Workers, CommitOwnPaper(w), ~Refuse(w)
      PROVE  AnnounceInv'
  <2>1. task[w].op = "start" /\ task[w].student \in Students /\ task[w].attempt \in Nat
    BY <1>2, <1>6, Places DEF At, TypeInv, WellFormed, Task
  <2>2. /\ \A a \in DOMAIN attempts :
             a \in DOMAIN attempts' /\ attempts'[a].status = attempts[a].status
        /\ submitted' = submitted
    BY <1>6, <2>1, UnmarkedFlags DEF CommitOwnPaper, TypeInv
  <2>3. \A v \in Workers : task'[v].op = "start"
    <3>1. task'[w].op = "start"
      BY <1>2, <1>6, <2>1 DEF CommitOwnPaper, Task
    <3> QED BY <3>1 DEF Serial
  <2> QED BY <1>3, <2>2, <2>3 DEF AnnounceInv, AnnouncedOnce, Submits
<1>7. ASSUME NEW w \in Workers, CommitSubmit(w)
      PROVE  AnnounceInv'
  <2> DEFINE a == task[w].attempt
  <2>1. task[w].op = "submit" /\ task[w].step = "commit"
    BY <1>7, Places DEF At
  <2>2. a \in DOMAIN attempts /\ attempts[a].status = "IN_PROGRESS"
    BY <1>3, <2>1 DEF Submits
  <2>3. /\ DOMAIN attempts' = DOMAIN attempts /\ submitted' = submitted
        /\ attempts'[a].status = "SUBMITTED"
        /\ \A b \in DOMAIN attempts : b # a => attempts'[b].status = attempts[b].status
    BY <1>7, <2>2, SubmitWrites DEF CommitSubmit
  <2>4. \A d \in DOMAIN submitted : submitted[d] # a
    BY <1>3, <2>2
  <2>5. task'[w].attempt = a /\ task'[w].step = "publish"
    BY <1>2, <1>7 DEF CommitSubmit, Task
  <2>6. \A v \in Workers : v = w
    BY DEF Serial
  <2> HIDE DEF a
  <2> QED BY <1>3, <2>2, <2>3, <2>4, <2>5, <2>6 DEF AnnounceInv, AnnouncedOnce, Submits
<1>8. ASSUME NEW w \in Workers, PublishSubmitted(w)
      PROVE  AnnounceInv'
  <2> DEFINE a == task[w].attempt
             n == Len(submitted) + 1
  <2>1. task[w].op = "submit" /\ task[w].step = "publish" /\ a \in Nat
    BY <1>2, <1>8, Places DEF At, Task
  <2>2. /\ a \in DOMAIN attempts /\ attempts[a].status = "SUBMITTED"
        /\ \A d \in DOMAIN submitted : submitted[d] # a
    BY <1>3, <2>1 DEF Submits
  <2>3. submitted' = Append(submitted, a) /\ attempts' = attempts /\ task'[w] = Idle
    BY <1>2, <1>8 DEF PublishSubmitted, Finish
  <2> HIDE DEF a
  <2>4. /\ submitted' \in Seq(Nat) /\ Len(submitted') = n /\ submitted'[n] = a
        /\ \A d \in 1 .. Len(submitted) : submitted'[d] = submitted[d]
    BY <1>2, <2>1, <2>3, AppendProperties
  <2>5. /\ DOMAIN submitted' = DOMAIN submitted \cup {n}
        /\ \A d \in DOMAIN submitted : submitted'[d] = submitted[d]
    BY SMTT(30), <1>2, <2>4, LenProperties
  <2>6. \A v \in Workers : task'[v].op = "idle"
    BY <2>3 DEF Serial, Idle
  <2> HIDE DEF n
  <2> QED BY <1>3, <2>2, <2>3, <2>4, <2>5, <2>6 DEF AnnounceInv, AnnouncedOnce, Submits
<1>9. ASSUME NEW w \in Workers, CommitSharedPaper(w)
      PROVE  attempts' = attempts /\ submitted' = submitted
  BY <1>9 DEF CommitSharedPaper
<1>10. JoinGuest => attempts' = attempts /\ submitted' = submitted
  BY DEF JoinGuest
<1> QED BY <1>4, <1>5, <1>6, <1>7, <1>8, <1>9, <1>10, RowsAfter DEF WritesRows

\* With requests that do not overlap a submission is announced at most once, and
\* only after it has been committed (submit_attempt).
THEOREM AnnouncedOnceSerially ==
  ASSUME Serial
  PROVE  Spec => []AnnouncedOnce
<1>1. Init => AnnounceInv
  BY DEF Init, AnnounceInv, AnnouncedOnce, Submits, Idle
<1>2. AnnounceInv => AnnouncedOnce
  BY DEF AnnounceInv
<1> QED BY <1>1, <1>2, StepAnnounce, TypeInvHolds, PTL DEF Spec

=============================================================================
