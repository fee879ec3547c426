-------------------------------- MODULE Mastery --------------------------------
(***************************************************************************)
(* The mastery profile of one student in one subject: the EvaluationCompleted *)
(* handlers of the event bus (core/events) and process_evaluation             *)
(* (modules/learning_profile/service.py).                                     *)
(*                                                                         *)
(* A processing is one transaction with many flushes.  It reads the mastery  *)
(* row of a topic, appends a history row and changes the mastery row; the     *)
(* flush that comes with the next insert writes what is changed so far and    *)
(* takes its row locks, which are kept to the commit.  Then the averages of   *)
(* the chapters, and of the subject, are read, computed and flushed one by    *)
(* one.  Reads take no locks and see committed rows and the session's own.    *)
(* The bus calls its handlers one after another and swallows their exceptions.*)
(* The marks are read once, when a processing begins; whoever marks meanwhile *)
(* (before the lock, or after a re-evaluation was approved) is not waited for. *)
(***************************************************************************)
EXTENDS Integers, Sequences, FiniteSets, FiniteSetsExt, SequencesExt, TLC

CONSTANTS
  Workers,        \* requests and handlers in flight at the same time
  Topics, Chapters,
  ChapterOf,      \* the chapter of each topic
  Evaluations,    \* the student's evaluations
  Sheets,         \* the details an evaluation may have: <<topic, score>> rows
  Registrations,  \* how often register_all_handlers was called
  MaxAsked,       \* bound: how often a processing is asked for
  MaxRemarks      \* bound: how often the marks of evaluations change

Full    == 10000                            \* NUMERIC(5,4): scores in 1/10000
Score   == 0 .. Full
Subject == "subject"
Nodes   == Topics \cup Chapters \cup {Subject}

ASSUME ConstantsAssumption ==
  /\ IsFiniteSet(Workers) /\ IsFiniteSet(Nodes)
  /\ Topics \cap Chapters = {} /\ Subject \notin Topics \cup Chapters
  /\ ChapterOf \in [Topics -> Chapters]
  /\ \A s \in Sheets : s \in Seq(Topics \X Score)
  /\ Registrations \in Nat \ {0} /\ MaxAsked \in Nat /\ MaxRemarks \in Nat

VARIABLES
  details,   \* the marked details of each evaluation that have a topic
  remarked,  \* how often marks changed
  asked,     \* how often evaluations were announced, or posted for processing
  mastery,   \* the three mastery tables: a row for each topic, chapter, subject
  history,   \* mastery_history, in commit order
  task,      \* what each worker is doing
  read,      \* history variable: what each processing read when it began
  overlapped \* history variable: a processing began while another was under way

vars == <<details, remarked, asked, mastery, history, task, read, overlapped>>

-----------------------------------------------------------------------------
(* Rows and formulas.  attempt_count, topic_count and chapter_count are       *)
(* called count; a row that does not exist yet has count 0, as the one        *)
(* get_or_create inserts.                                                    *)

Row   == [score : Score, count : Nat, correct : Nat]
NoRow == [score |-> 0, count |-> 0, correct |-> 0]
Entry == [topic : Topics, evaluation : Evaluations, score : Score,
          before : Score, after : Score,
          now : Nat]                        \* evaluated_at: one per processing

\* Rounding to four decimals.  Where the floats meet an exact half the code goes
\* to the even digit or falls either way; here halves go up.
Rounded(n, d) == (2 * n + d) \div (2 * d)

\* The adaptive factor, in tenths, from the attempts before this one.
Alpha(count) == CASE count = 0 -> 5 [] count = 1 -> 4 [] OTHER -> 3

Ema(score, current, count) ==
  Rounded(Alpha(count) * score + (10 - Alpha(count)) * current, 10)

\* A mastery row after one more marked question.
Applied(r, score) ==
  [score   |-> Ema(score, r.score, r.count),
   count   |-> r.count + 1,
   correct |-> IF score >= Full THEN r.correct + 1 ELSE r.correct]

PartsOf(n) == IF n = Subject THEN Chapters ELSE {t \in Topics : ChapterOf[t] = n}

\* The row of a chapter or the subject, from a view of its parts.
Average(view, n) ==
  LET parts == {p \in PartsOf(n) : view[p].count > 0}
  IN IF parts = {} THEN NoRow
     ELSE [score   |-> Rounded(SumFunction([p \in parts |-> view[p].score]),
                               Cardinality(parts)),
           count   |-> Cardinality(parts),
           correct |-> 0]

\* The UPDATE rule.  A score is loaded as a Decimal and assigned as a float:
\* they compare equal only if the float is exact, at multiples of 1/16.
Written(stored, loaded, value) == IF value = loaded THEN stored ELSE value
WrittenScore(stored, loaded, value) ==
  IF value % 625 = 0 THEN Written(stored, loaded, value) ELSE value

StoredAsDelta(stored, loaded, value) ==     \* mutant: SET score = score + change
  [value EXCEPT !.score = stored.score + value.score - loaded.score]

Stored(stored, loaded, value) ==
  IF loaded = NoRow THEN value
  ELSE [score   |-> WrittenScore(stored.score, loaded.score, value.score),
        count   |-> Written(stored.count, loaded.count, value.count),
        correct |-> Written(stored.correct, loaded.correct, value.correct)]

-----------------------------------------------------------------------------
(* A session: the rows it loaded, what it made of them, its locks.           *)

NoRows == [n \in {} |-> NoRow]

\* Rows with one more, or another value for one.
With(rows, n, row) ==
  [m \in DOMAIN rows \cup {n} |-> IF m = n THEN row ELSE rows[m]]

Idle == [step   |-> "idle",
         evaluation |-> "none",
         sheet  |-> <<>>, now |-> 0,        \* the details, and when it read them
         calls  |-> 0,                      \* handler calls left, this one too
         at     |-> 0,                      \* the detail it is at
         node   |-> Subject,                \* the chapter or subject it is at
         loaded |-> NoRows, value |-> NoRows,
         locked |-> {},                     \* rows and keys it has written
         rows   |-> <<>>]                   \* history rows it has inserted

\* process_evaluation reads the details as they are, and the clock.
Processing(e, calls) ==
  [Idle EXCEPT !.step = IF details[e] = <<>> THEN "flush" ELSE "topic",
               !.evaluation = e, !.sheet = details[e], !.now = Len(read) + 1,
               !.calls = calls, !.at = 1]

Begin(w, e, calls) ==
  /\ task' = [task EXCEPT ![w] = Processing(e, calls)]
  /\ read' = Append(read, [evaluation |-> e, sheet |-> details[e]])

Sheet(w) == task[w].sheet
Topic(w) == Sheet(w)[task[w].at][1]

Changed(w) ==
  {n \in DOMAIN task[w].value : task[w].value[n] # task[w].loaded[n]}

\* Writing a row or inserting a key waits for whoever has written it.
Free(w, nodes) == \A v \in Workers \ {w} : task[v].locked \cap nodes = {}

\* What the session reads: its own rows, else the committed ones.
View(w) == [n \in Nodes |->
              IF n \in task[w].locked THEN task[w].value[n] ELSE mastery[n]]

\* The bus goes on with its next handler, in a new session; an exception of the
\* last one ends there, and the publisher returns.
NextCall(w) ==
  IF task[w].calls > 1
  THEN Begin(w, task[w].evaluation, task[w].calls - 1)
  ELSE task' = [task EXCEPT ![w] = Idle] /\ UNCHANGED read

RaiseAgain(w) ==                            \* mutant: the bus retries a handler
  /\ task' = [task EXCEPT ![w] =
                [Processing(task[w].evaluation, task[w].calls) EXCEPT !.now = task[w].now]]
  /\ UNCHANGED <<details, remarked, asked, mastery, history, read, overlapped>>

RaiseWritten(w) ==                          \* mutant: what was flushed is kept
  /\ mastery' = [n \in Nodes |->
       IF n \in task[w].locked THEN task[w].value[n] ELSE mastery[n]]
  /\ history' = history \o task[w].rows
  /\ NextCall(w)
  /\ UNCHANGED <<details, remarked, asked, overlapped>>

\* A handler raises: db_session_scope rolls its session back.
Raise(w) ==
  /\ NextCall(w)
  /\ UNCHANGED <<details, remarked, asked, mastery, history, overlapped>>

-----------------------------------------------------------------------------
(* The marks, and process_evaluation.                                        *)

RowsOf(sheet, t) == {i \in DOMAIN sheet : sheet[i][1] = t}

\* Sheets are uploaded and questions marked (module Evaluation) before the lock,
\* or again after approve_re_evaluation has reopened the evaluation: rows get new
\* marks, or are added, and come in any order; none is deleted.
Remark(e) ==
  /\ remarked < MaxRemarks
  /\ remarked' = remarked + 1
  /\ \E sheet \in Sheets \ {details[e]} :
       /\ \A t \in Topics :
            Cardinality(RowsOf(details[e], t)) <= Cardinality(RowsOf(sheet, t))
       /\ details' = [details EXCEPT ![e] = sheet]
  /\ UNCHANGED <<asked, mastery, history, task, read, overlapped>>

Ask(w, e, calls) ==
  /\ task[w] = Idle
  /\ asked < MaxAsked
  /\ asked' = asked + 1
  /\ Begin(w, e, calls)
  /\ overlapped' = (overlapped \/ \E v \in Workers : task[v] # Idle)
  /\ UNCHANGED <<details, remarked, mastery, history>>

\* lock_evaluation publishes EvaluationCompleted and waits for the handlers.
PublishCompleted(w) == \E e \in Evaluations : Ask(w, e, Registrations)

\* POST /learning_profile/{student}/process/{evaluation}, at any time.
PostProcess(w) == \E e \in Evaluations : Ask(w, e, 1)

ReadTopicCommitted(w) ==                    \* mutant: the session's own row ignored
  LET t == Topic(w)
  IN /\ task[w].step = "topic"
     /\ task' = [task EXCEPT ![w].step   = "apply",
                             ![w].loaded = With(@, t, mastery[t]),
                             ![w].value  = With(@, t, mastery[t])]
     /\ UNCHANGED <<details, remarked, asked, mastery, history, read, overlapped>>

\* get_by_student_topic.  A row this session has loaded before keeps its values.
ReadTopic(w) ==
  LET t   == Topic(w)
      row == IF t \in DOMAIN task[w].loaded THEN task[w].value[t] ELSE mastery[t]
  IN /\ task[w].step = "topic"
     /\ task' = [task EXCEPT
          ![w].step   = "apply",
          ![w].loaded = IF t \in DOMAIN @ THEN @ ELSE With(@, t, row),
          ![w].value  = With(@, t, row)]
     /\ UNCHANGED <<details, remarked, asked, mastery, history, read, overlapped>>

\* The insert of a missing mastery row and of the history row: both flush the
\* topics changed before.  Another session's row of the topic is a violation of
\* the unique key.
ApplyScore(w) ==
  LET t     == Topic(w)
      row   == task[w].value[t]
      new   == Applied(row, Sheet(w)[task[w].at][2])
      fresh == IF row = NoRow THEN {t} ELSE {}
  IN /\ task[w].step = "apply"
     /\ Free(w, Changed(w) \cup fresh)
     /\ IF fresh # {} /\ mastery[t] # NoRow
        THEN Raise(w)
        ELSE /\ task' = [task EXCEPT
                  ![w].step   = IF @ = "apply" /\ task[w].at < Len(Sheet(w))
                                THEN "topic" ELSE "flush",
                  ![w].at     = @ + 1,
                  ![w].value[t] = new,
                  ![w].locked = @ \cup Changed(w) \cup fresh,
                  ![w].rows   = Append(@, [topic |-> t,
                                           evaluation |-> task[w].evaluation,
                                           score |-> Sheet(w)[task[w].at][2],
                                           before |-> row.score,
                                           after |-> new.score,
                                           now |-> task[w].now])]
             /\ UNCHANGED <<details, remarked, asked, mastery, history, read, overlapped>>

\* The chapters of the marked topics, then the subject, each once.
ChaptersOf(sheet) == {ChapterOf[sheet[i][1]] : i \in DOMAIN sheet}

NodesLeft(sheet, loaded) ==
  LET left == ChaptersOf(sheet) \ DOMAIN loaded
  IN IF left # {} \/ sheet = <<>> THEN left ELSE {Subject} \ DOMAIN loaded

Remaining(w) == NodesLeft(Sheet(w), task[w].loaded)

FlushTopics(w) ==
  /\ task[w].step = "flush"
  /\ Free(w, Changed(w))
  /\ task' = [task EXCEPT ![w].step = IF Remaining(w) = {} THEN "commit" ELSE "parts",
                          ![w].locked = @ \cup Changed(w)]
  /\ UNCHANGED <<details, remarked, asked, mastery, history, read, overlapped>>

ReadPartsCommitted(w) ==                    \* mutant: without the flush before it
  /\ task[w].step = "parts"
  /\ \E n \in Remaining(w) :
       task' = [task EXCEPT ![w].step = "node", ![w].node = n,
                               ![w].value = With(@, n, Average(mastery, n))]
  /\ UNCHANGED <<details, remarked, asked, mastery, history, read, overlapped>>

\* list_by_student_chapter, or list_by_student for the chapters of the subject.
ReadParts(w) ==
  /\ task[w].step = "parts"
  /\ \E n \in Remaining(w) :
       task' = [task EXCEPT ![w].step = "node", ![w].node = n,
                               ![w].value = With(@, n, Average(View(w), n))]
  /\ UNCHANGED <<details, remarked, asked, mastery, history, read, overlapped>>

\* get_or_create of the aggregate row: the look-up.
ReadNode(w) ==
  LET n == task[w].node
  IN /\ task[w].step = "node"
     /\ task' = [task EXCEPT ![w].step = "save",
                             ![w].loaded = With(@, n, mastery[n])]
     /\ UNCHANGED <<details, remarked, asked, mastery, history, read, overlapped>>

\* ... its insert if there was none, and the flush of the new average.
SaveNode(w) ==
  LET n == task[w].node
  IN /\ task[w].step = "save"
     /\ Free(w, {n})
     /\ IF task[w].loaded[n] = NoRow /\ mastery[n] # NoRow
        THEN Raise(w)
        ELSE /\ task' = [task EXCEPT
                  ![w].step = IF Remaining(w) = {} THEN "commit" ELSE "parts",
                  ![w].locked = @ \cup {n}]
             /\ UNCHANGED <<details, remarked, asked, mastery, history, read, overlapped>>

Commit(w) ==
  /\ task[w].step = "commit"
  /\ mastery' = [n \in Nodes |->
       IF n \in DOMAIN task[w].value
       THEN Stored(mastery[n], task[w].loaded[n], task[w].value[n])
       ELSE mastery[n]]
  /\ history' = history \o task[w].rows
  /\ NextCall(w)
  /\ UNCHANGED <<details, remarked, asked, overlapped>>

\* An error of the database or the loss of the connection at any step.
Fail(w) == task[w] # Idle /\ Raise(w)

-----------------------------------------------------------------------------
(* PostgreSQL ends one of the transactions that wait for each other.          *)

Needed(w) ==
  CASE task[w].step = "apply" ->
         Changed(w) \cup (IF task[w].value[Topic(w)] = NoRow THEN {Topic(w)} ELSE {})
    [] task[w].step = "flush" -> Changed(w)
    [] task[w].step = "save"  -> {task[w].node}
    [] OTHER -> {}

WaitsFor(w, v) == v # w /\ task[v].locked \cap Needed(w) # {}

EndDeadlock ==
  \E S \in SUBSET Workers : \E victim \in S :
    /\ \A w \in S : \E v \in S : WaitsFor(w, v)
    /\ Raise(victim)

-----------------------------------------------------------------------------
Init ==
  /\ details \in [Evaluations -> Sheets]      \* as far as they are marked by now
  /\ remarked = 0
  /\ asked = 0
  /\ mastery = [n \in Nodes |-> NoRow]
  /\ history = <<>>
  /\ task = [w \in Workers |-> Idle]
  /\ read = <<>>
  /\ overlapped = FALSE

Process(w) ==
  \/ ReadTopic(w) \/ ApplyScore(w) \/ FlushTopics(w)
  \/ ReadParts(w) \/ ReadNode(w) \/ SaveNode(w) \/ Commit(w)

Next ==
  \/ \E e \in Evaluations : Remark(e)
  \/ \E w \in Workers : PublishCompleted(w) \/ PostProcess(w)
  \/ \E w \in Workers : Process(w)
  \/ \E w \in Workers : Fail(w)
  \/ EndDeadlock

\* The event loop runs every coroutine that can go on, and the database ends a
\* deadlock.  Nobody has to lock or to post anything, and nothing has to fail.
Fairness == (\A w \in Workers : WF_vars(Process(w))) /\ WF_vars(EndDeadlock)

Spec == Init /\ [][Next]_vars /\ Fairness

-----------------------------------------------------------------------------
(* Properties.                                                             *)

\* Every score of the three tables, of the history and of the sessions stays in
\* 0..1, whatever is marked, lost or repeated.
TypeOK ==
  /\ details \in [Evaluations -> Sheets]
  /\ remarked \in 0 .. MaxRemarks
  /\ asked \in 0 .. MaxAsked
  /\ mastery \in [Nodes -> Row]
  /\ history \in Seq(Entry)
  /\ \A w \in Workers :
       /\ task[w].evaluation \in Evaluations \cup {"none"}
       /\ task[w].sheet \in Sheets \cup {<<>>} /\ task[w].now \in Nat
       /\ task[w].calls \in 0 .. Registrations
       /\ task[w].loaded \in [DOMAIN task[w].loaded -> Row]
       /\ task[w].value \in [DOMAIN task[w].value -> Row]
       /\ task[w].locked \subseteq DOMAIN task[w].value
       /\ task[w].rows \in Seq(Entry)
  /\ read \in Seq([evaluation : Evaluations, sheet : Sheets])
  /\ overlapped \in BOOLEAN

\* The places of a topic in the history, and of what one processing wrote.
HistoryOf(t)  == {i \in DOMAIN history : history[i].topic = t}
Recorded(now) == {i \in DOMAIN history : history[i].now = now}

\* The history rows after a place are those of a sheet, in its order.
RecordedAfter(place, e, sheet) ==
  \A i \in DOMAIN sheet :
    /\ place + i \in DOMAIN history
    /\ history[place + i].evaluation = e
    /\ <<history[place + i].topic, history[place + i].score>> = sheet[i]

\* A topic score always stands in the history as the outcome of some marked
\* question: racing processings may lose an update, but they never leave a score
\* nobody computed, and a failed one leaves nothing.
ScoreOnRecord ==
  \A t \in Topics :
    mastery[t].count > 0 =>
      \E i \in DOMAIN history : history[i].topic = t /\ history[i].after = mastery[t].score

\* A processing counts whole or not at all: the history holds nothing of it, or
\* every question it found marked when it began, with the marks of that moment,
\* whatever was marked anew, failed or processed meanwhile.  And no topic has a row
\* without its chapter and the subject having theirs.
ProcessedWhole ==
  /\ \A k \in DOMAIN read :
       \/ Recorded(k) = {}
       \/ \E place \in 0 .. Len(history) :
            /\ Recorded(k) = place + 1 .. place + Len(read[k].sheet)
            /\ RecordedAfter(place, read[k].evaluation, read[k].sheet)
  /\ \A i \in DOMAIN history : history[i].now \in DOMAIN read
  /\ \A t \in Topics :
       mastery[t] # NoRow => mastery[ChapterOf[t]] # NoRow /\ mastery[Subject] # NoRow

\* As long as processings do not overlap, the history of a topic explains its
\* row: each score goes on from the one before, the last is the mastery, and the
\* two counters count the rows and the full marks.
HistoryIsChain ==
  ~overlapped =>
    \A t \in Topics :
      LET h == HistoryOf(t)
      IN /\ \A i \in h : (\A j \in h : j >= i) => history[i].before = 0
         /\ \A i, j \in h :
              j < i /\ (\A k \in h : k <= j \/ k >= i) =>
                history[i].before = history[j].after
         /\ \A i \in h : (\A j \in h : j <= i) => mastery[t].score = history[i].after
         /\ mastery[t].count = Cardinality(h)
         /\ mastery[t].correct = Cardinality({i \in h : history[i].score = Full})

\* As long as processings do not overlap, the chapters and the subject are the
\* averages of what they are made of.
AggregatesAreAverages ==
  ~overlapped => \A n \in Chapters \cup {Subject} : mastery[n] = Average(mastery, n)

\* Whoever locks an evaluation or asks for its processing gets an answer: a
\* handler never waits for ever, whatever locks the others hold.
RequestsReturn == \A w \in Workers : task[w] # Idle ~> task[w] = Idle

=============================================================================
