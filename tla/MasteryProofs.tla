----------------------------- MODULE MasteryProofs -----------------------------
(***************************************************************************)
(* Proofs about module Mastery, for any number of workers, topics, chapters,  *)
(* evaluations and registrations, whatever the sheets mark and however often  *)
(* the marks change between and during processings.                           *)
(***************************************************************************)
EXTENDS Mastery, SequenceTheorems, FiniteSetTheorems, TLAPS

Fields == {"step", "evaluation", "sheet", "now", "calls", "at", "node", "loaded",
           "value", "locked", "rows"}

\* What a processing reads when it begins.
Reading == [evaluation : Evaluations, sheet : Sheets]

\* Some of the rows; those of topics are typed.  (What a chapter averages is out of
\* the provers' reach.)
IsRows(f) ==
  /\ DOMAIN f \subseteq Nodes /\ f = [n \in DOMAIN f |-> f[n]]
  /\ \A t \in Topics \cap DOMAIN f : f[t] \in Row

\* A row of a topic is there only once a question has been applied to it.
Counted(row) == row = NoRow \/ row.count > 0

\* The topic a session is about to change.
InHand(u, t) ==
  u.step = "apply" /\ t = u.sheet[u.at][1]

\* A score is the outcome of a history row.
OnRecord(h, t, score) == \E i \in DOMAIN h : h[i].topic = t /\ h[i].after = score

\* A session u, when the committed rows are m.
SessionInv(u, m) ==
  /\ DOMAIN u = Fields /\ u.rows \in Seq(Entry)
  /\ IsRows(u.loaded) /\ IsRows(u.value)
  /\ u.node \in Nodes \ Topics
  /\ u.sheet \in Seq(Topics \X Score) /\ u.now \in Nat
  /\ u = Idle \/ u.evaluation \in Evaluations
  /\ u.step \in {"topic", "apply"} => u.at \in DOMAIN u.sheet
  /\ u.step = "apply" => u.sheet[u.at][1] \in DOMAIN u.value
  /\ \A t \in Topics \cap DOMAIN u.value :
       /\ t \in DOMAIN u.loaded
       /\ ~InHand(u, t) => u.value[t].count > 0 /\ OnRecord(u.rows, t, u.value[t].score)
  /\ \A t \in Topics \cap DOMAIN u.loaded :
       t \in DOMAIN u.value /\ Counted(u.loaded[t]) /\ (u.loaded[t].count > 0 => m[t].count > 0)

\* The committed rows, and the sessions.
MasteryInv ==
  /\ details \in [Evaluations -> Sheets] /\ history \in Seq(Entry)
  /\ read \in Seq(Reading)
  /\ IsRows(mastery) /\ DOMAIN mastery = Nodes
  /\ \A t \in Topics : Counted(mastery[t])
  /\ task = [w \in Workers |-> task[w]]
  /\ \A w \in Workers : SessionInv(task[w], mastery)
  /\ ScoreOnRecord

-----------------------------------------------------------------------------
(* Rows and formulas.                                                        *)

\* The step of a session that is not at work.
LEMMA IdleStep == Idle.step = "idle"
BY DEF Idle

\* A row that does not exist is typed; topics are no chapters.
LEMMA NoRowTyped ==
  /\ NoRow \in Row /\ NoRow.count = 0 /\ Subject \in Nodes \ Topics
  /\ Topics \subseteq Nodes /\ Chapters \cap Topics = {} /\ Chapters \subseteq Nodes
BY ConstantsAssumption DEF NoRow, Row, Score, Full, Nodes

\* What a score is.
LEMMA ScoreIs ==
  ASSUME NEW x
  PROVE  x \in Score <=> x \in Int /\ 0 <= x /\ x <= Full
<1>1. ASSUME x \in 0 .. 10000 PROVE x \in Int /\ 0 <= x /\ x <= 10000
  BY <1>1
<1>2. ASSUME x \in Int, 0 <= x, x <= 10000 PROVE x \in 0 .. 10000
  BY <1>2
<1> QED BY <1>1, <1>2 DEF Score, Full

\* The moving average of two scores is a score.
LEMMA EmaIsScore ==
  ASSUME NEW score \in Int, 0 <= score, score <= Full,
         NEW current \in Int, 0 <= current, current <= Full, NEW count \in Nat
  PROVE  Ema(score, current, count) \in Score
<1> DEFINE n == Alpha(count) * score + (10 - Alpha(count)) * current
<1>1. Alpha(count) \in {3, 4, 5}
  BY DEF Alpha
<1>2. \/ n = 3 * score + 7 * current \/ n = 4 * score + 6 * current
      \/ n = 5 * score + 5 * current
  BY <1>1
<1>3. Ema(score, current, count) = (2 * n + 10) \div 20
  BY DEF Ema, Rounded
<1> HIDE DEF n
<1>4. n \in Int /\ 0 <= n /\ n <= 100000
  BY <1>2 DEF Full
<1>5. (2 * n + 10) \div 20 \in Int /\ 0 <= (2 * n + 10) \div 20
      /\ (2 * n + 10) \div 20 <= 10000
  BY <1>4
<1> DEFINE ema == (2 * n + 10) \div 20
<1>6. ema \in Int /\ 0 <= ema /\ ema <= Full
  BY <1>5 DEF Full
<1> HIDE DEF ema
<1>7. ema \in Score
  BY <1>6, ScoreIs
<1> QED BY <1>3, <1>7 DEF ema

\* A marked question makes a row of a row.
LEMMA AppliedTyped ==
  ASSUME NEW r \in Row, NEW score \in Score
  PROVE  Applied(r, score) \in Row /\ Applied(r, score).count > 0
<1>1. r.score \in Score /\ r.count \in Nat /\ r.correct \in Nat
  BY DEF Row
<1> DEFINE ema == Ema(score, r.score, r.count)
           correct == IF score >= Full THEN r.correct + 1 ELSE r.correct
<1>2. ema \in Score
  <2>1. /\ r.score \in Int /\ 0 <= r.score /\ r.score <= Full /\ r.count \in Nat
        /\ score \in Int /\ 0 <= score /\ score <= Full
    BY <1>1, ScoreIs
  <2> QED BY <2>1, EmaIsScore
<1>4. correct \in Nat
  BY <1>1
<1>3. Applied(r, score) = [score |-> ema, count |-> r.count + 1, correct |-> correct]
  BY DEF Applied
<1> HIDE DEF ema, correct
<1> QED BY <1>1, <1>2, <1>3, <1>4 DEF Row

\* What a commit stores of a topic: the score of the session, or the one that is
\* there, and never no attempts.
LEMMA StoredIs ==
  ASSUME NEW stored \in Row, NEW loaded \in Row, NEW value \in Row,
         Counted(loaded), loaded.count > 0 => stored.count > 0, value.count > 0
  PROVE  /\ Stored(stored, loaded, value) \in Row
         /\ Stored(stored, loaded, value).count > 0
         /\ \/ Stored(stored, loaded, value).score = value.score
            \/ Stored(stored, loaded, value).score = stored.score /\ stored.count > 0
<1> DEFINE new == Stored(stored, loaded, value)
<1>1. CASE loaded = NoRow
  BY <1>1 DEF Stored
<1>2. CASE loaded # NoRow
  <2> DEFINE score == WrittenScore(stored.score, loaded.score, value.score)
             count == Written(stored.count, loaded.count, value.count)
             correct == Written(stored.correct, loaded.correct, value.correct)
  <2>1. new = [score |-> score, count |-> count, correct |-> correct]
    BY <1>2 DEF Stored
  <2>2. /\ stored.score \in Score /\ stored.count \in Nat /\ stored.correct \in Nat
        /\ value.score \in Score /\ value.count \in Nat /\ value.correct \in Nat
    BY DEF Row
  <2>3. stored.count > 0
    BY <1>2 DEF Counted
  <2>4. score \in {stored.score, value.score} /\ count \in {stored.count, value.count}
        /\ correct \in {stored.correct, value.correct}
    BY DEF Written, WrittenScore
  <2> HIDE DEF score, count, correct
  <2> QED BY <2>1, <2>2, <2>3, <2>4 DEF Row
<1> QED BY <1>1, <1>2

\* What is on record stays so.
LEMMA RecordGrows ==
  ASSUME NEW h \in Seq(Entry), NEW e \in Entry
  PROVE  /\ Append(h, e) \in Seq(Entry)
         /\ \A t, score : OnRecord(h, t, score) => OnRecord(Append(h, e), t, score)
         /\ OnRecord(Append(h, e), e.topic, e.after)
<1>1. /\ Append(h, e) \in Seq(Entry) /\ Append(h, e)[Len(h) + 1] = e
      /\ Len(h) + 1 \in DOMAIN Append(h, e)
      /\ \A i \in DOMAIN h : i \in DOMAIN Append(h, e) /\ Append(h, e)[i] = h[i]
  BY AppendProperties
<1> QED BY <1>1 DEF OnRecord

\* The history of a commit has what was there and what the session adds.
LEMMA HistoriesJoin ==
  ASSUME NEW h \in Seq(Entry), NEW g \in Seq(Entry)
  PROVE  /\ h \o g \in Seq(Entry)
         /\ \A t, score : OnRecord(h, t, score) \/ OnRecord(g, t, score)
                            => OnRecord(h \o g, t, score)
<1>1. /\ h \o g \in Seq(Entry) /\ Len(h \o g) = Len(h) + Len(g)
      /\ \A i \in 1 .. Len(h) : (h \o g)[i] = h[i]
      /\ \A i \in 1 .. Len(g) : (h \o g)[Len(h) + i] = g[i]
      /\ Len(h) \in Nat /\ Len(g) \in Nat
  BY ConcatProperties
<1>2. ASSUME NEW t, NEW score, OnRecord(h, t, score) PROVE OnRecord(h \o g, t, score)
  BY <1>1, <1>2 DEF OnRecord
<1>3. ASSUME NEW t, NEW score, OnRecord(g, t, score) PROVE OnRecord(h \o g, t, score)
  <2>1. PICK i \in 1 .. Len(g) : g[i].topic = t /\ g[i].after = score
    BY <1>1, <1>3 DEF OnRecord
  <2>2. Len(h) + i \in DOMAIN (h \o g) /\ (h \o g)[Len(h) + i] = g[i]
    BY <1>1, <2>1
  <2> QED BY <2>1, <2>2 DEF OnRecord
<1> QED BY <1>1, <1>2, <1>3

-----------------------------------------------------------------------------
(* Sessions.                                                                 *)

\* A detail has a topic and a score.
LEMMA DetailIs ==
  ASSUME NEW sheet \in Seq(Topics \X Score), NEW i \in DOMAIN sheet
  PROVE  /\ sheet[i][1] \in Topics /\ sheet[i][2] \in Score /\ i \in Nat
         /\ i < Len(sheet) => i + 1 \in DOMAIN sheet
OBVIOUS

\* A worker that has nothing to do.
LEMMA IdleSession == ASSUME NEW m PROVE SessionInv(Idle, m)
<1>1. /\ DOMAIN Idle = Fields /\ Idle.rows = <<>> /\ Idle.loaded = NoRows
      /\ Idle.value = NoRows /\ Idle.node = Subject /\ Idle.step = "idle"
      /\ Idle.sheet = <<>> /\ Idle.now = 0
  BY DEF Idle, Fields
<1>2. IsRows(NoRows) /\ DOMAIN NoRows = {} /\ <<>> \in Seq(Entry) /\ <<>> \in Seq(Topics \X Score)
  BY DEF IsRows, NoRows
<1> QED BY <1>1, <1>2, NoRowTyped DEF SessionInv

\* A new session, of the details as they are.
LEMMA NewSession ==
  ASSUME NEW m, details \in [Evaluations -> Sheets], read \in Seq(Reading),
         NEW e \in Evaluations, NEW calls
  PROVE  SessionInv(Processing(e, calls), m)
<1> DEFINE step == IF details[e] = <<>> THEN "flush" ELSE "topic"
           u == [Idle EXCEPT !.step = step, !.evaluation = e, !.sheet = details[e],
                             !.now = Len(read) + 1, !.calls = calls, !.at = 1]
<1>1. u = Processing(e, calls)
  BY DEF Processing
<1>2. /\ DOMAIN Idle = Fields /\ Idle.rows = <<>> /\ Idle.loaded = NoRows
      /\ Idle.value = NoRows /\ Idle.node = Subject
  BY DEF Idle, Fields
<1>3. IsRows(NoRows) /\ DOMAIN NoRows = {} /\ <<>> \in Seq(Entry)
  BY DEF IsRows, NoRows
<1>4. details[e] \in Seq(Topics \X Score) /\ Len(read) + 1 \in Nat
  BY ConstantsAssumption
<1>5. step \in {"flush", "topic"} /\ (step = "topic" => 1 \in DOMAIN details[e])
  BY <1>4, EmptySeq
<1> HIDE DEF step
<1>6. /\ DOMAIN u = Fields /\ u.rows = <<>> /\ u.loaded = NoRows /\ u.value = NoRows
      /\ u.node = Subject /\ u.step = step /\ u.at = 1
      /\ u.evaluation = e /\ u.sheet = details[e] /\ u.now = Len(read) + 1
  BY <1>2 DEF Fields
<1> HIDE DEF u
<1>7. SessionInv(u, m)
  BY <1>3, <1>4, <1>5, <1>6, NoRowTyped DEF SessionInv
<1> QED BY <1>1, <1>7

\* A processing begins: what it reads is kept.
LEMMA BeginIs ==
  ASSUME MasteryInv, NEW w \in Workers, NEW e \in Evaluations, NEW calls, Begin(w, e, calls)
  PROVE  /\ task'[w] = Processing(e, calls) /\ \A v \in Workers \ {w} : task'[v] = task[v]
         /\ task' = [task EXCEPT ![w] = Processing(e, calls)]
         /\ read' = Append(read, [evaluation |-> e, sheet |-> details[e]])
         /\ read' \in Seq(Reading)
<1>1. [evaluation |-> e, sheet |-> details[e]] \in Reading
  BY DEF MasteryInv, Reading
<1> QED BY <1>1 DEF Begin, MasteryInv

\* What has been read stays a list of readings.
LEMMA ReadingKept ==
  ASSUME MasteryInv, NEW w \in Workers, NEW e \in Evaluations, NEW calls, Begin(w, e, calls)
  PROVE  read' \in Seq(Reading)
BY BeginIs

\* A session begins, goes on, or ends, with nothing committed.
LEMMA SessionMoves ==
  ASSUME MasteryInv, NEW w \in Workers, NEW u, SessionInv(u, mastery),
         task' = [task EXCEPT ![w] = u], UNCHANGED <<details, mastery, history>>,
         read' \in Seq(Reading)
  PROVE  MasteryInv'
<1>1. /\ task'[w] = u /\ \A v \in Workers \ {w} : task'[v] = task[v]
      /\ task' = [v \in Workers |-> task'[v]]
  BY DEF MasteryInv
<1>2. \A v \in Workers : SessionInv(task[v], mastery)'
  <2>1. ASSUME NEW v \in Workers PROVE SessionInv(task'[v], mastery)
    BY <1>1 DEF MasteryInv
  <2> QED BY <2>1
<1> QED BY <1>1, <1>2 DEF MasteryInv, ScoreOnRecord

\* A session goes on.
LEMMA SessionStep ==
  ASSUME MasteryInv, NEW w \in Workers, NEW u, SessionInv(u, mastery),
         task' = [task EXCEPT ![w] = u], UNCHANGED <<details, mastery, history, read>>
  PROVE  MasteryInv'
<1>1. read' \in Seq(Reading) /\ UNCHANGED <<details, mastery, history>>
  BY DEF MasteryInv
<1> QED BY <1>1, SessionMoves

\* The session after a call is a new one, or none.
LEMMA NextSession ==
  ASSUME MasteryInv, NEW w \in Workers, NEW m, NextCall(w)
  PROVE  /\ \E u : SessionInv(u, m) /\ task' = [task EXCEPT ![w] = u]
         /\ read' \in Seq(Reading)
<1>1. task[w] = Idle \/ task[w].evaluation \in Evaluations
  BY DEF MasteryInv, SessionInv
<1>2. CASE task[w].calls > 1
  <2>1. task[w] # Idle
    BY <1>2 DEF Idle
  <2> DEFINE e == task[w].evaluation
             calls == task[w].calls - 1
  <2>2. e \in Evaluations /\ Begin(w, e, calls)
    BY <1>1, <1>2, <2>1 DEF NextCall
  <2> HIDE DEF e, calls
  <2>3. SessionInv(Processing(e, calls), m)
    BY <2>2, NewSession DEF MasteryInv
  <2>4. task' = [task EXCEPT ![w] = Processing(e, calls)]
    BY <2>2 DEF Begin
  <2>5. read' \in Seq(Reading)
    BY <2>2, ReadingKept
  <2> QED BY <2>3, <2>4, <2>5
<1>3. CASE ~(task[w].calls > 1)
  BY <1>3, IdleSession DEF NextCall, MasteryInv
<1> QED BY <1>2, <1>3

\* A handler raises.
LEMMA RaiseKeeps ==
  ASSUME MasteryInv, NEW w \in Workers, Raise(w)
  PROVE  MasteryInv'
<1>1. NextCall(w) /\ UNCHANGED <<details, mastery, history>>
  BY DEF Raise
<1>2. PICK u : SessionInv(u, mastery) /\ task' = [task EXCEPT ![w] = u]
  BY <1>1, NextSession
<1>3. read' \in Seq(Reading)
  BY <1>1, NextSession
<1> QED BY <1>1, <1>2, <1>3, SessionMoves

\* A processing is asked for.
LEMMA AskKeeps ==
  ASSUME MasteryInv, NEW w \in Workers, NEW e \in Evaluations, NEW calls, Ask(w, e, calls)
  PROVE  MasteryInv'
<1>1. SessionInv(Processing(e, calls), mastery)
  BY NewSession DEF MasteryInv
<1>2. Begin(w, e, calls) /\ UNCHANGED <<details, mastery, history>>
  BY DEF Ask
<1>3. task' = [task EXCEPT ![w] = Processing(e, calls)]
  BY <1>2 DEF Begin
<1>4. read' \in Seq(Reading)
  BY <1>2, ReadingKept
<1> QED BY <1>1, <1>2, <1>3, <1>4, SessionMoves

\* Marks change: what a session has read stays.
LEMMA RemarkKeeps ==
  ASSUME MasteryInv, NEW e \in Evaluations, Remark(e)
  PROVE  MasteryInv'
BY DEF Remark, MasteryInv, ScoreOnRecord

\* A topic is read.
LEMMA ReadTopicKeeps ==
  ASSUME MasteryInv, NEW w \in Workers, ReadTopic(w)
  PROVE  MasteryInv'
<1> DEFINE s == task[w]
           t == Topic(w)
           row == IF t \in DOMAIN s.loaded THEN s.value[t] ELSE mastery[t]
           loaded == IF t \in DOMAIN s.loaded THEN s.loaded ELSE With(s.loaded, t, row)
           value == With(s.value, t, row)
           u == [s EXCEPT !.step = "apply", !.loaded = loaded, !.value = value]
<1>1. s.step = "topic" /\ UNCHANGED <<details, mastery, history, read>>
  BY DEF ReadTopic
<1>2. task' = [task EXCEPT ![w] = u]
  BY DEF ReadTopic
<1>3. SessionInv(s, mastery) /\ DOMAIN s = Fields
  BY DEF MasteryInv, SessionInv
<1>4. s.evaluation \in Evaluations /\ s.at \in DOMAIN s.sheet
      /\ t = s.sheet[s.at][1] /\ t \in Topics
  <2>1. s # Idle
    BY <1>1 DEF Idle
  <2>2. s.evaluation \in Evaluations /\ s.at \in DOMAIN s.sheet
    BY <1>1, <1>3, <2>1 DEF SessionInv
  <2> QED BY <1>3, <2>2, DetailIs DEF Topic, Sheet, SessionInv
<1>5. row \in Row /\ t \in Nodes
  BY <1>3, <1>4, NoRowTyped DEF SessionInv, IsRows, MasteryInv
<1>8. Counted(mastery[t]) /\ (t \in DOMAIN s.loaded \/ row = mastery[t])
  BY <1>4 DEF MasteryInv
<1> HIDE DEF row
<1>6. IsRows(value) /\ DOMAIN value = DOMAIN s.value \cup {t}
      /\ value[t] = row /\ \A n \in DOMAIN s.value \ {t} : value[n] = s.value[n]
  <2>1. IsRows(s.value)
    BY <1>3 DEF SessionInv
  <2>2. value = With(s.value, t, row)
    OBVIOUS
  <2> HIDE DEF value, t, s
  <2> QED BY <1>5, <2>1, <2>2 DEF With, IsRows
<1>7. /\ IsRows(loaded) /\ DOMAIN loaded = DOMAIN s.loaded \cup {t}
      /\ \A n \in DOMAIN s.loaded : loaded[n] = s.loaded[n]
      /\ t \notin DOMAIN s.loaded => loaded[t] = mastery[t]
  <2>1. IsRows(s.loaded)
    BY <1>3 DEF SessionInv
  <2>2. CASE t \in DOMAIN s.loaded
    BY <2>1, <2>2
  <2>3. CASE t \notin DOMAIN s.loaded
    <3> DEFINE with == With(s.loaded, t, row)
    <3>0. with = With(s.loaded, t, row)
      OBVIOUS
    <3> HIDE DEF with, t, s
    <3>1. IsRows(with) /\ DOMAIN with = DOMAIN s.loaded \cup {t} /\ with[t] = row
          /\ \A n \in DOMAIN s.loaded \ {t} : with[n] = s.loaded[n]
      BY <1>5, <2>1, <3>0 DEF With, IsRows
    <3>2. loaded = with
      BY <2>3, <3>0
    <3> HIDE DEF loaded
    <3> QED BY <1>8, <2>3, <3>1, <3>2
  <2> QED BY <2>2, <2>3
<1> HIDE DEF loaded, value, t
<1>9. /\ DOMAIN u = Fields /\ u.rows = s.rows /\ u.loaded = loaded /\ u.value = value
      /\ u.node = s.node /\ u.step = "apply"
      /\ u.evaluation = s.evaluation /\ u.sheet = s.sheet /\ u.now = s.now
      /\ u.at = s.at
  BY <1>3 DEF Fields
<1> HIDE DEF u
<1>10. \A n \in Topics : InHand(u, n) <=> n = t
  BY <1>4, <1>9 DEF InHand
<1>11. \A n \in Topics : ~InHand(s, n)
  BY <1>1 DEF InHand
<1>12. SessionInv(u, mastery)
  <2>1. \A n \in Topics \cap DOMAIN s.value :
          n \in DOMAIN s.loaded /\ s.value[n].count > 0
          /\ OnRecord(s.rows, n, s.value[n].score)
    BY <1>3, <1>11 DEF SessionInv
  <2>2. ASSUME NEW n \in Topics \cap DOMAIN u.value
        PROVE  /\ n \in DOMAIN u.loaded
               /\ ~InHand(u, n) => u.value[n].count > 0
                                            /\ OnRecord(u.rows, n, u.value[n].score)
    BY <1>6, <1>7, <1>9, <1>10, <2>1
  <2>3. ASSUME NEW n \in Topics \cap DOMAIN s.loaded
        PROVE  /\ n \in DOMAIN s.value /\ Counted(s.loaded[n])
               /\ s.loaded[n].count > 0 => mastery[n].count > 0
    BY <1>3 DEF SessionInv
  <2>4. ASSUME NEW n \in Topics \cap DOMAIN u.loaded
        PROVE  /\ n \in DOMAIN u.value /\ Counted(u.loaded[n])
               /\ u.loaded[n].count > 0 => mastery[n].count > 0
    BY <1>6, <1>7, <1>8, <1>9, <2>3
  <2>5. /\ u.rows \in Seq(Entry) /\ u.node \in Nodes \ Topics
        /\ u.sheet \in Seq(Topics \X Score) /\ u.now \in Nat
    BY <1>3, <1>9 DEF SessionInv
  <2>6. u.sheet[u.at][1] = t /\ t \in DOMAIN u.value
        /\ u.at \in DOMAIN u.sheet
    BY <1>4, <1>6, <1>9
  <2>7. IsRows(u.loaded) /\ IsRows(u.value)
    BY <1>6, <1>7, <1>9
  <2> QED BY <1>4, <1>9, <2>2, <2>4, <2>5, <2>6, <2>7 DEF SessionInv
<1> QED BY <1>1, <1>2, <1>12, SessionStep

\* A marked question is applied.
LEMMA ApplyScoreKeeps ==
  ASSUME MasteryInv, NEW w \in Workers, ApplyScore(w)
  PROVE  MasteryInv'
<1> DEFINE s == task[w]
           t == Topic(w)
           e == s.evaluation
           score == Sheet(w)[s.at][2]
           row == s.value[t]
           new == Applied(row, score)
           fresh == IF row = NoRow THEN {t} ELSE {}
           step == IF s.step = "apply" /\ s.at < Len(Sheet(w)) THEN "topic" ELSE "flush"
           value == [s.value EXCEPT ![t] = new]
           locked == s.locked \cup Changed(w) \cup fresh
           entry == [topic |-> t, evaluation |-> e, score |-> score,
                     before |-> row.score, after |-> new.score,
                     now |-> s.now]
           rows == Append(s.rows, entry)
           u == [s EXCEPT !.step = step, !.at = s.at + 1, !.value = value,
                          !.locked = locked, !.rows = rows]
<1>1. CASE Raise(w)
  BY <1>1, RaiseKeeps
<1>2. CASE ~Raise(w)
  <2>1. s.step = "apply" /\ UNCHANGED <<details, mastery, history, read>>
    BY <1>2 DEF ApplyScore
  <2>2. task' = [task EXCEPT ![w].step = step, ![w].at = @ + 1, ![w].value[t] = new,
                             ![w].locked = locked, ![w].rows = rows]
    BY <1>2 DEF ApplyScore
  <2>3. SessionInv(s, mastery) /\ DOMAIN s = Fields
    BY DEF MasteryInv, SessionInv
  <2>4. e \in Evaluations /\ s.at \in DOMAIN s.sheet /\ Sheet(w) = s.sheet
        /\ t = s.sheet[s.at][1] /\ t \in DOMAIN s.value
    <3>1. s # Idle
      BY <2>1 DEF Idle
    <3>2. e \in Evaluations /\ s.at \in DOMAIN s.sheet
          /\ s.sheet[s.at][1] \in DOMAIN s.value
      BY <2>1, <2>3, <3>1 DEF SessionInv
    <3> QED BY <3>2 DEF Topic, Sheet
  <2>5. /\ t \in Topics /\ score \in Score /\ s.at \in Nat
        /\ s.at < Len(s.sheet) => s.at + 1 \in DOMAIN s.sheet
    BY <2>3, <2>4, DetailIs DEF SessionInv
  <2>6. row \in Row
    BY <2>3, <2>4, <2>5 DEF SessionInv, IsRows
  <2>7. new \in Row /\ new.count > 0
    BY <2>5, <2>6, AppliedTyped
  <2>8. task' = [task EXCEPT ![w] = u]
    <3> HIDE DEF step, new, locked, rows, t
    <3> QED BY ZenonT(120), <2>2, <2>3 DEF MasteryInv
  <2>9. entry \in Entry /\ entry.topic = t /\ entry.after = new.score
    <3>1. row.score \in Score /\ new.score \in Score
      BY <2>6, <2>7 DEF Row
    <3> HIDE DEF t, e, score, row, new
    <3>2. s.now \in Nat
      BY <2>3 DEF SessionInv
    <3> HIDE DEF s
    <3> QED BY <2>4, <2>5, <3>1, <3>2 DEF Entry
  <2>10. /\ rows \in Seq(Entry) /\ OnRecord(rows, t, new.score)
         /\ \A n, x : OnRecord(s.rows, n, x) => OnRecord(rows, n, x)
    <3>1. s.rows \in Seq(Entry)
      BY <2>3 DEF SessionInv
    <3> HIDE DEF entry
    <3> QED BY <2>9, <3>1, RecordGrows
  <2>11. /\ IsRows(value) /\ DOMAIN value = DOMAIN s.value /\ value[t] = new
         /\ \A n \in DOMAIN s.value \ {t} : value[n] = s.value[n]
    <3>1. IsRows(s.value)
      BY <2>3 DEF SessionInv
    <3> HIDE DEF t, new
    <3> QED BY <2>4, <2>7, <3>1 DEF IsRows
  <2>12. step \in {"topic", "flush"} /\ (step = "topic" => s.at + 1 \in DOMAIN s.sheet)
    BY <2>1, <2>4, <2>5
  <2> HIDE DEF t, new, entry, rows, value, step, locked
  <2>13. /\ DOMAIN u = Fields /\ u.rows = rows /\ u.loaded = s.loaded /\ u.value = value
         /\ u.node = s.node /\ u.step = step
         /\ u.evaluation = e /\ u.sheet = s.sheet /\ u.now = s.now /\ u.at = s.at + 1
    BY <2>3 DEF Fields
  <2> HIDE DEF u
  <2>14. SessionInv(u, mastery)
    <3>1. ASSUME NEW n \in Topics \cap DOMAIN u.value
          PROVE  /\ n \in DOMAIN u.loaded
                 /\ u.value[n].count > 0 /\ OnRecord(u.rows, n, u.value[n].score)
      <4>1. n \in DOMAIN s.value /\ n \in DOMAIN s.loaded
        BY <2>3, <2>11, <2>13 DEF SessionInv
      <4>2. CASE n = t
        BY <2>7, <2>10, <2>11, <2>13, <4>1, <4>2
      <4>3. CASE n # t
        <5>1. ~InHand(s, n)
          BY <2>4, <4>3 DEF InHand
        <5>2. s.value[n].count > 0 /\ OnRecord(s.rows, n, s.value[n].score)
          BY <2>3, <4>1, <5>1 DEF SessionInv
        <5> QED BY <2>10, <2>11, <2>13, <4>1, <4>3, <5>2
      <4> QED BY <4>2, <4>3
    <3>2. ASSUME NEW n \in Topics \cap DOMAIN u.loaded
          PROVE  /\ n \in DOMAIN u.value /\ Counted(u.loaded[n])
                 /\ u.loaded[n].count > 0 => mastery[n].count > 0
      BY <2>3, <2>11, <2>13 DEF SessionInv
    <3>3. /\ IsRows(u.loaded) /\ IsRows(u.value) /\ u.node \in Nodes \ Topics
          /\ u.sheet \in Seq(Topics \X Score) /\ u.now \in Nat
      BY <2>3, <2>11, <2>13 DEF SessionInv
    <3> QED BY <2>4, <2>10, <2>12, <2>13, <3>1, <3>2, <3>3 DEF SessionInv
  <2> QED BY <2>1, <2>8, <2>14, SessionStep
<1> QED BY <1>1, <1>2

\* A step that only moves a session on, away from the topics.
LEMMA MovesOn ==
  ASSUME NEW m, NEW s, NEW step, NEW locked, SessionInv(s, m), s # Idle,
         s.step # "apply", step \notin {"topic", "apply"}
  PROVE  SessionInv([s EXCEPT !.step = step, !.locked = locked], m)
<1> DEFINE u == [s EXCEPT !.step = step, !.locked = locked]
<1>1. /\ DOMAIN u = Fields /\ u.rows = s.rows /\ u.loaded = s.loaded /\ u.value = s.value
      /\ u.node = s.node /\ u.step = step
      /\ u.evaluation = s.evaluation /\ u.sheet = s.sheet /\ u.now = s.now
      /\ u.at = s.at
  BY DEF Fields, SessionInv
<1> HIDE DEF u
<1>2. \A t : ~InHand(u, t) /\ ~InHand(s, t)
  BY <1>1 DEF InHand
<1>3. SessionInv(u, m)
  BY <1>1, <1>2 DEF SessionInv
<1> QED BY <1>3 DEF u

\* The changed topics are flushed.
LEMMA FlushTopicsKeeps ==
  ASSUME MasteryInv, NEW w \in Workers, FlushTopics(w)
  PROVE  MasteryInv'
<1> DEFINE s == task[w]
           step == IF Remaining(w) = {} THEN "commit" ELSE "parts"
           locked == s.locked \cup Changed(w)
           u == [s EXCEPT !.step = step, !.locked = locked]
<1>1. SessionInv(s, mastery) /\ s # Idle /\ s.step # "apply"
      /\ step \notin {"topic", "apply"}
  <2>1. s.step = "flush" /\ SessionInv(s, mastery)
    BY DEF FlushTopics, MasteryInv
  <2> QED BY <2>1 DEF Idle
<1>2. task' = [task EXCEPT ![w].step = step, ![w].locked = locked]
      /\ UNCHANGED <<details, mastery, history, read>>
  BY DEF FlushTopics
<1> HIDE DEF step, locked
<1>3. task' = [task EXCEPT ![w] = u]
  BY <1>1, <1>2 DEF MasteryInv, SessionInv
<1>4. SessionInv(u, mastery)
  BY <1>1, MovesOn
<1> HIDE DEF u
<1> QED BY <1>2, <1>3, <1>4, SessionStep

\* The row of a chapter, or of the subject, is written.
LEMMA SaveNodeKeeps ==
  ASSUME MasteryInv, NEW w \in Workers, SaveNode(w)
  PROVE  MasteryInv'
<1> DEFINE s == task[w]
           step == IF Remaining(w) = {} THEN "commit" ELSE "parts"
           locked == s.locked \cup {s.node}
           u == [s EXCEPT !.step = step, !.locked = locked]
<1>1. CASE Raise(w)
  BY <1>1, RaiseKeeps
<1>2. CASE ~Raise(w)
  <2>1. SessionInv(s, mastery) /\ s # Idle /\ s.step # "apply"
        /\ step \notin {"topic", "apply"}
    BY DEF SaveNode, MasteryInv, Idle
  <2>2. task' = [task EXCEPT ![w].step = step, ![w].locked = locked]
        /\ UNCHANGED <<details, mastery, history, read>>
    BY <1>2 DEF SaveNode
  <2> HIDE DEF step, locked
  <2>3. task' = [task EXCEPT ![w] = u]
    BY <2>1, <2>2 DEF MasteryInv, SessionInv
  <2>4. SessionInv(u, mastery)
    BY <2>1, MovesOn
  <2> HIDE DEF u
  <2> QED BY <2>2, <2>3, <2>4, SessionStep
<1> QED BY <1>1, <1>2

\* What remains are chapters, and the subject.
LEMMA RemainingAre ==
  ASSUME MasteryInv, NEW w \in Workers, NEW n \in Remaining(w)
  PROVE  n \in Nodes \ Topics
<1>1. \A i \in DOMAIN Sheet(w) : Sheet(w)[i][1] \in Topics
  BY DetailIs DEF MasteryInv, SessionInv, Sheet
<1>2. \A t \in Topics : ChapterOf[t] \in Chapters
  BY ConstantsAssumption
<1>3. n \in Chapters \cup {Subject}
  BY <1>1, <1>2 DEF Remaining, NodesLeft, ChaptersOf
<1> QED BY <1>3, NoRowTyped

\* The parts of a chapter, or of the subject, are read and averaged.
LEMMA ReadPartsKeeps ==
  ASSUME MasteryInv, NEW w \in Workers, ReadParts(w)
  PROVE  MasteryInv'
<1> DEFINE s == task[w]
<1>1. /\ SessionInv(s, mastery) /\ s.step = "parts"
      /\ UNCHANGED <<details, mastery, history, read>>
  BY DEF ReadParts, MasteryInv
<1>2. s # Idle /\ s.evaluation \in Evaluations
  BY <1>1 DEF Idle, SessionInv
<1>3. PICK n \in Remaining(w) :
        task' = [task EXCEPT ![w].step = "node", ![w].node = n,
                             ![w].value = With(@, n, Average(View(w), n))]
  BY DEF ReadParts
<1> DEFINE value == With(s.value, n, Average(View(w), n))
           u == [s EXCEPT !.step = "node", !.node = n, !.value = value]
<1>4. n \in Nodes \ Topics
  BY <1>2, RemainingAre
<1>5. task' = [task EXCEPT ![w] = u]
  BY <1>1, <1>3 DEF MasteryInv, SessionInv
<1>6. /\ IsRows(value) /\ Topics \cap DOMAIN value = Topics \cap DOMAIN s.value
      /\ \A t \in Topics \cap DOMAIN value : value[t] = s.value[t]
  <2>1. IsRows(s.value)
    BY <1>1 DEF SessionInv
  <2> DEFINE average == Average(View(w), n)
  <2> HIDE DEF average, s
  <2> QED BY <1>4, <2>1 DEF With, IsRows
<1> HIDE DEF value
<1>7. /\ DOMAIN u = Fields /\ u.rows = s.rows /\ u.loaded = s.loaded /\ u.value = value
      /\ u.node = n /\ u.step = "node"
      /\ u.evaluation = s.evaluation /\ u.sheet = s.sheet /\ u.now = s.now
      /\ u.at = s.at
  BY <1>1 DEF SessionInv, Fields
<1> HIDE DEF u
<1>8. \A t : ~InHand(u, t) /\ ~InHand(s, t)
  BY <1>1, <1>7 DEF InHand
<1>9. SessionInv(u, mastery)
  BY <1>1, <1>2, <1>4, <1>6, <1>7, <1>8 DEF SessionInv
<1> QED BY <1>1, <1>5, <1>9, SessionStep

\* The row of a chapter, or of the subject, is looked up.
LEMMA ReadNodeKeeps ==
  ASSUME MasteryInv, NEW w \in Workers, ReadNode(w)
  PROVE  MasteryInv'
<1> DEFINE s == task[w]
           n == s.node
           loaded == With(s.loaded, n, mastery[n])
           u == [s EXCEPT !.step = "save", !.loaded = loaded]
<1>1. /\ SessionInv(s, mastery) /\ s.step = "node"
      /\ UNCHANGED <<details, mastery, history, read>>
  BY DEF ReadNode, MasteryInv
<1>2. s # Idle /\ s.evaluation \in Evaluations
  BY <1>1 DEF Idle, SessionInv
<1>3. n \in Nodes \ Topics
  BY <1>1 DEF SessionInv
<1>4. task' = [task EXCEPT ![w] = u]
  BY <1>1 DEF ReadNode, MasteryInv, SessionInv
<1>5. /\ IsRows(loaded) /\ Topics \cap DOMAIN loaded = Topics \cap DOMAIN s.loaded
      /\ \A t \in Topics \cap DOMAIN loaded : loaded[t] = s.loaded[t]
  <2>1. IsRows(s.loaded)
    BY <1>1 DEF SessionInv
  <2> DEFINE row == mastery[n]
  <2> HIDE DEF row, n
  <2> QED BY <1>3, <2>1 DEF With, IsRows
<1> HIDE DEF loaded
<1>6. /\ DOMAIN u = Fields /\ u.rows = s.rows /\ u.loaded = loaded /\ u.value = s.value
      /\ u.node = n /\ u.step = "save"
      /\ u.evaluation = s.evaluation /\ u.sheet = s.sheet /\ u.now = s.now
      /\ u.at = s.at
  BY <1>1 DEF SessionInv, Fields
<1> HIDE DEF u
<1>7. \A t : ~InHand(u, t) /\ ~InHand(s, t)
  BY <1>1, <1>6 DEF InHand
<1>8. SessionInv(u, mastery)
  BY <1>1, <1>2, <1>3, <1>5, <1>6, <1>7 DEF SessionInv
<1> QED BY <1>1, <1>4, <1>8, SessionStep

\* A session commits what it changed and inserted.
LEMMA CommitKeeps ==
  ASSUME MasteryInv, NEW w \in Workers, Commit(w)
  PROVE  MasteryInv'
<1> DEFINE s == task[w]
           m == [n \in Nodes |-> IF n \in DOMAIN s.value
                                 THEN Stored(mastery[n], s.loaded[n], s.value[n])
                                 ELSE mastery[n]]
           h == history \o s.rows
<1>1. /\ SessionInv(s, mastery) /\ s.step = "commit" /\ details' = details
      /\ mastery' = m /\ history' = h /\ NextCall(w)
  BY DEF Commit, MasteryInv
<1>2. /\ h \in Seq(Entry)
      /\ \A t, x : OnRecord(history, t, x) \/ OnRecord(s.rows, t, x) => OnRecord(h, t, x)
  BY <1>1, HistoriesJoin DEF MasteryInv, SessionInv
<1>3. ASSUME NEW t \in Topics
      PROVE  /\ m[t] \in Row /\ Counted(m[t]) /\ (mastery[t].count > 0 => m[t].count > 0)
             /\ m[t].count > 0 => OnRecord(h, t, m[t].score)
  <2>1. /\ t \in Nodes /\ mastery[t] \in Row /\ Counted(mastery[t])
        /\ mastery[t].count > 0 => OnRecord(history, t, mastery[t].score)
    BY NoRowTyped DEF MasteryInv, IsRows, ScoreOnRecord, OnRecord
  <2>2. CASE t \in DOMAIN s.value
    <3>1. ~InHand(s, t)
      BY <1>1 DEF InHand
    <3>2. /\ s.value[t].count > 0 /\ OnRecord(s.rows, t, s.value[t].score)
          /\ t \in DOMAIN s.loaded
      BY <1>1, <2>2, <3>1 DEF SessionInv
    <3>3. /\ s.value[t] \in Row /\ s.loaded[t] \in Row /\ Counted(s.loaded[t])
          /\ s.loaded[t].count > 0 => mastery[t].count > 0
      BY <1>1, <2>2, <3>2 DEF SessionInv, IsRows
    <3> DEFINE new == Stored(mastery[t], s.loaded[t], s.value[t])
    <3>4. /\ new \in Row /\ new.count > 0
          /\ new.score = s.value[t].score \/ (new.score = mastery[t].score
                                              /\ mastery[t].count > 0)
      BY <2>1, <3>2, <3>3, StoredIs
    <3>5. m[t] = new
      BY <2>1, <2>2
    <3> HIDE DEF new, m, h
    <3> QED BY <1>2, <2>1, <3>2, <3>4, <3>5 DEF Counted
  <2>3. CASE t \notin DOMAIN s.value
    <3>1. m[t] = mastery[t]
      BY <2>1, <2>3
    <3> HIDE DEF m, h
    <3> QED BY <1>2, <2>1, <3>1
  <2> QED BY <2>2, <2>3
<1>4. IsRows(m) /\ DOMAIN m = Nodes
  BY <1>3 DEF IsRows
<1> HIDE DEF m, h
<1>5. PICK u : SessionInv(u, m) /\ task' = [task EXCEPT ![w] = u]
  BY <1>1, NextSession
<1>10. read' \in Seq(Reading)
  BY <1>1, NextSession
<1>6. /\ task'[w] = u /\ \A v \in Workers \ {w} : task'[v] = task[v]
      /\ task' = [v \in Workers |-> task'[v]]
  BY <1>5 DEF MasteryInv
<1>7. ASSUME NEW v \in Workers PROVE SessionInv(task'[v], m)
  <2>1. CASE v = w
    BY <1>5, <1>6, <2>1
  <2>2. CASE v # w
    <3>1. SessionInv(task[v], mastery) /\ task'[v] = task[v]
      BY <1>6, <2>2 DEF MasteryInv
    <3>2. SessionInv(task[v], m)
      BY <1>3, <3>1 DEF SessionInv
    <3> QED BY <3>1, <3>2
  <2> QED BY <2>1, <2>2
<1>8. \A v \in Workers : SessionInv(task[v], mastery)'
  BY <1>1, <1>7
<1>9. ScoreOnRecord'
  BY <1>1, <1>3 DEF ScoreOnRecord, OnRecord
<1> QED BY <1>1, <1>2, <1>3, <1>4, <1>6, <1>8, <1>9, <1>10 DEF MasteryInv

-----------------------------------------------------------------------------
\* The invariant holds at the start.
LEMMA InitMastery == Init => MasteryInv
<1> SUFFICES ASSUME Init PROVE MasteryInv
  OBVIOUS
<1>1. \A w \in Workers : SessionInv(task[w], mastery)
  BY IdleSession DEF Init
<1>2. IsRows(mastery) /\ DOMAIN mastery = Nodes /\ \A t \in Topics : mastery[t] = NoRow
  BY NoRowTyped DEF Init, IsRows
<1>3. history \in Seq(Entry) /\ read \in Seq(Reading)
  BY DEF Init
<1> QED BY <1>1, <1>2, <1>3, NoRowTyped DEF Init, MasteryInv, Counted, ScoreOnRecord

\* Every step keeps it.
LEMMA StepMastery == MasteryInv /\ [Next]_vars => MasteryInv'
<1> SUFFICES ASSUME MasteryInv, [Next]_vars PROVE MasteryInv'
  OBVIOUS
<1>1. ASSUME NEW w \in Workers, PublishCompleted(w) \/ PostProcess(w) PROVE MasteryInv'
  BY <1>1, AskKeeps DEF PublishCompleted, PostProcess
<1>2. ASSUME NEW w \in Workers, Process(w) PROVE MasteryInv'
  BY <1>2, ReadTopicKeeps, ApplyScoreKeeps, FlushTopicsKeeps, ReadPartsKeeps,
     ReadNodeKeeps, SaveNodeKeeps, CommitKeeps DEF Process
<1>3. ASSUME NEW w \in Workers, Fail(w) PROVE MasteryInv'
  BY <1>3, RaiseKeeps DEF Fail
<1>4. CASE EndDeadlock
  BY <1>4, RaiseKeeps DEF EndDeadlock
<1>5. CASE UNCHANGED vars
  BY <1>5 DEF vars, MasteryInv, ScoreOnRecord
<1>6. ASSUME NEW e \in Evaluations, Remark(e) PROVE MasteryInv'
  BY <1>6, RemarkKeeps
<1> QED BY <1>1, <1>2, <1>3, <1>4, <1>5, <1>6 DEF Next

\* Whatever sessions race, fail or are picked by a deadlock, a topic never has a
\* score that no marked question of the history computed.
THEOREM ScoresOnRecord == Spec => []ScoreOnRecord
<1>1. MasteryInv => ScoreOnRecord
  BY DEF MasteryInv
<1> QED BY <1>1, InitMastery, StepMastery, PTL DEF Spec

-----------------------------------------------------------------------------
(* What the steps of a session do to it.                                     *)

\* Nothing else happens.
OnlyTask(w) ==
  /\ UNCHANGED <<details, mastery, history, read, overlapped>>
  /\ \A v \in Workers \ {w} : task'[v] = task[v]

\* A topic is read: the session has it then, as it left it or as it is committed.
LEMMA ReadTopicIs ==
  ASSUME MasteryInv, NEW w \in Workers, ReadTopic(w)
  PROVE  LET s == task[w]
             u == task'[w]
             t == s.sheet[s.at][1]
         IN /\ OnlyTask(w) /\ s.step = "topic" /\ u.step = "apply"
            /\ s.evaluation \in Evaluations /\ s.at \in DOMAIN s.sheet
            /\ t \in Topics
            /\ u.evaluation = s.evaluation /\ u.sheet = s.sheet /\ u.now = s.now
            /\ u.at = s.at /\ u.node = s.node
            /\ u.locked = s.locked /\ u.rows = s.rows
            /\ DOMAIN u.value = DOMAIN s.value \cup {t}
            /\ DOMAIN u.loaded = DOMAIN s.loaded \cup {t}
            /\ \A n \in DOMAIN s.value : u.value[n] = s.value[n]
            /\ \A n \in DOMAIN s.loaded : u.loaded[n] = s.loaded[n]
            /\ t \notin DOMAIN s.value => t \notin DOMAIN s.loaded
            /\ t \notin DOMAIN s.loaded => u.value[t] = mastery[t] /\ u.loaded[t] = mastery[t]
<1> DEFINE s == task[w]
           t == Topic(w)
           row == IF t \in DOMAIN s.loaded THEN s.value[t] ELSE mastery[t]
           loaded == IF t \in DOMAIN s.loaded THEN s.loaded ELSE With(s.loaded, t, row)
           value == With(s.value, t, row)
           u == [s EXCEPT !.step = "apply", !.loaded = loaded, !.value = value]
<1>1. s.step = "topic" /\ UNCHANGED <<details, mastery, history, read, overlapped>>
  BY DEF ReadTopic
<1>2. task' = [task EXCEPT ![w] = u]
  BY DEF ReadTopic
<1>3. SessionInv(s, mastery) /\ DOMAIN s = Fields
  BY DEF MasteryInv, SessionInv
<1>4. s.evaluation \in Evaluations /\ s.at \in DOMAIN s.sheet
      /\ t = s.sheet[s.at][1] /\ t \in Topics
  <2>1. s # Idle
    BY <1>1 DEF Idle
  <2>2. s.evaluation \in Evaluations /\ s.at \in DOMAIN s.sheet
    BY <1>1, <1>3, <2>1 DEF SessionInv
  <2> QED BY <1>3, <2>2, DetailIs DEF Topic, Sheet, SessionInv
<1>5. t \in DOMAIN s.loaded <=> t \in DOMAIN s.value
  BY <1>3, <1>4 DEF SessionInv
<1>6. /\ DOMAIN value = DOMAIN s.value \cup {t}
      /\ \A n \in DOMAIN s.value : value[n] = s.value[n]
      /\ t \notin DOMAIN s.loaded => value[t] = mastery[t]
  <2> HIDE DEF s, t
  <2> QED BY <1>5 DEF With
<1>7. /\ DOMAIN loaded = DOMAIN s.loaded \cup {t}
      /\ \A n \in DOMAIN s.loaded : loaded[n] = s.loaded[n]
      /\ t \notin DOMAIN s.loaded => loaded[t] = mastery[t]
  <2> HIDE DEF s, t
  <2> QED BY DEF With
<1> HIDE DEF loaded, value
<1>8. /\ u.step = "apply"
      /\ u.evaluation = s.evaluation /\ u.sheet = s.sheet /\ u.now = s.now
      /\ u.at = s.at /\ u.node = s.node
      /\ u.locked = s.locked /\ u.rows = s.rows /\ u.loaded = loaded /\ u.value = value
  BY <1>3 DEF Fields
<1> HIDE DEF u
<1>9. task'[w] = u /\ \A v \in Workers \ {w} : task'[v] = task[v]
  BY <1>2 DEF MasteryInv
<1> HIDE DEF t
<1> QED BY <1>1, <1>4, <1>5, <1>6, <1>7, <1>8, <1>9 DEF OnlyTask

\* A marked question is applied, unless the handler raises.
LEMMA ApplyScoreIs ==
  ASSUME MasteryInv, NEW w \in Workers, ApplyScore(w), ~Raise(w)
  PROVE  LET s     == task[w]
             u     == task'[w]
             e     == s.evaluation
             t     == s.sheet[s.at][1]
             score == s.sheet[s.at][2]
             new   == Applied(s.value[t], score)
         IN /\ OnlyTask(w) /\ s.step = "apply"
            /\ u.step = IF s.at < Len(s.sheet) THEN "topic" ELSE "flush"
            /\ e \in Evaluations /\ s.at \in DOMAIN s.sheet
            /\ t \in Topics /\ score \in Score /\ t \in DOMAIN s.value /\ s.value[t] \in Row
            /\ u.evaluation = e /\ u.sheet = s.sheet /\ u.now = s.now
            /\ u.at = s.at + 1 /\ u.node = s.node
            /\ u.loaded = s.loaded
            /\ \A n \in u.locked : n \in s.locked \/ n \in DOMAIN s.value
            /\ s.locked \subseteq u.locked
            /\ DOMAIN u.value = DOMAIN s.value /\ u.value[t] = new
            /\ \A n \in DOMAIN s.value \ {t} : u.value[n] = s.value[n]
            /\ u.rows = Append(s.rows, [topic |-> t, evaluation |-> e, score |-> score,
                                        before |-> s.value[t].score, after |-> new.score,
                     now |-> s.now])
<1> DEFINE s == task[w]
           e == s.evaluation
           t == s.sheet[s.at][1]
           score == s.sheet[s.at][2]
           row == s.value[t]
           new == Applied(row, score)
           fresh == IF row = NoRow THEN {t} ELSE {}
           step == IF s.at < Len(s.sheet) THEN "topic" ELSE "flush"
           value == [s.value EXCEPT ![t] = new]
           locked == s.locked \cup Changed(w) \cup fresh
           entry == [topic |-> t, evaluation |-> e, score |-> score,
                     before |-> row.score, after |-> new.score,
                     now |-> s.now]
           rows == Append(s.rows, entry)
           u == [s EXCEPT !.step = step, !.at = s.at + 1, !.value = value,
                          !.locked = locked, !.rows = rows]
<1>0. Sheet(w) = s.sheet /\ Topic(w) = t
  BY DEF Sheet, Topic
<1>1. s.step = "apply" /\ UNCHANGED <<details, mastery, history, read, overlapped>>
  BY DEF ApplyScore
<1>2. task' = [task EXCEPT ![w].step = step, ![w].at = @ + 1, ![w].value[t] = new,
                           ![w].locked = locked, ![w].rows = rows]
  BY <1>0, <1>1 DEF ApplyScore
<1>3. SessionInv(s, mastery) /\ DOMAIN s = Fields
  BY DEF MasteryInv, SessionInv
<1>4. e \in Evaluations /\ s.at \in DOMAIN s.sheet /\ t \in DOMAIN s.value
  <2>1. s # Idle
    BY <1>1 DEF Idle
  <2> QED BY <1>1, <1>3, <2>1 DEF SessionInv
<1>5. t \in Topics /\ score \in Score
  BY <1>3, <1>4, DetailIs DEF SessionInv
<1>6. row \in Row /\ s.value = [n \in DOMAIN s.value |-> s.value[n]]
  BY <1>3, <1>4, <1>5 DEF SessionInv, IsRows
<1>7. task' = [task EXCEPT ![w] = u]
  <2> HIDE DEF step, new, locked, rows, t
  <2> QED BY ZenonT(120), <1>2, <1>3 DEF MasteryInv
<1>8. /\ DOMAIN value = DOMAIN s.value /\ value[t] = new
      /\ \A n \in DOMAIN s.value \ {t} : value[n] = s.value[n]
  <2> HIDE DEF t, new
  <2> QED BY <1>4, <1>6
<1>9. s.locked \subseteq locked /\ \A n \in locked : n \in s.locked \/ n \in DOMAIN s.value
  <2> HIDE DEF t
  <2> QED BY <1>4 DEF Changed
<1> HIDE DEF t, score, row, new, rows, value, step, locked
<1>10. /\ u.step = step
       /\ u.evaluation = e /\ u.sheet = s.sheet /\ u.now = s.now
       /\ u.at = s.at + 1 /\ u.node = s.node
       /\ u.locked = locked /\ u.rows = rows /\ u.loaded = s.loaded /\ u.value = value
  BY <1>3 DEF Fields
<1> HIDE DEF u
<1>11. task'[w] = u /\ \A v \in Workers \ {w} : task'[v] = task[v]
  BY <1>7 DEF MasteryInv
<1>12. /\ OnlyTask(w) /\ s.step = "apply" /\ task'[w].step = step
       /\ e \in Evaluations /\ s.at \in DOMAIN s.sheet
       /\ t \in Topics /\ score \in Score /\ t \in DOMAIN s.value /\ row \in Row
       /\ task'[w].evaluation = e /\ task'[w].sheet = s.sheet /\ task'[w].now = s.now
       /\ task'[w].at = s.at + 1 /\ task'[w].node = s.node
       /\ task'[w].loaded = s.loaded
       /\ \A n \in task'[w].locked : n \in s.locked \/ n \in DOMAIN s.value
       /\ s.locked \subseteq task'[w].locked
       /\ DOMAIN task'[w].value = DOMAIN s.value /\ task'[w].value[t] = new
       /\ \A n \in DOMAIN s.value \ {t} : task'[w].value[n] = s.value[n]
       /\ task'[w].rows = rows
  BY <1>1, <1>4, <1>5, <1>6, <1>8, <1>9, <1>10, <1>11 DEF OnlyTask
<1> QED BY <1>12 DEF t, score, row, new, rows, step

\* The changed topics are flushed.
LEMMA FlushTopicsIs ==
  ASSUME MasteryInv, NEW w \in Workers, FlushTopics(w)
  PROVE  LET s == task[w]
             u == task'[w]
         IN /\ OnlyTask(w) /\ s.step = "flush" /\ s # Idle /\ s.evaluation \in Evaluations
            /\ u.step = IF NodesLeft(s.sheet, s.loaded) = {}
                        THEN "commit" ELSE "parts"
            /\ u.evaluation = s.evaluation /\ u.sheet = s.sheet /\ u.now = s.now
            /\ u.at = s.at /\ u.node = s.node
            /\ u.rows = s.rows /\ u.loaded = s.loaded /\ u.value = s.value
            /\ u.locked = s.locked
                 \cup {n \in DOMAIN s.value : s.value[n] # s.loaded[n]}
<1> DEFINE s == task[w]
           step == IF NodesLeft(s.sheet, s.loaded) = {}
                   THEN "commit" ELSE "parts"
           locked == s.locked \cup {n \in DOMAIN s.value : s.value[n] # s.loaded[n]}
           u == [s EXCEPT !.step = step, !.locked = locked]
<1>1. s.step = "flush" /\ UNCHANGED <<details, mastery, history, read, overlapped>>
  BY DEF FlushTopics
<1>2. SessionInv(s, mastery) /\ s # Idle /\ DOMAIN s = Fields
      /\ s.evaluation \in Evaluations
  <2>1. SessionInv(s, mastery) /\ s # Idle
    BY <1>1 DEF MasteryInv, Idle
  <2> QED BY <2>1 DEF SessionInv
<1>3. task' = [task EXCEPT ![w].step = step, ![w].locked = locked]
  BY DEF FlushTopics, Remaining, Sheet, Changed
<1> HIDE DEF step, locked
<1>4. task' = [task EXCEPT ![w] = u]
  BY <1>2, <1>3 DEF MasteryInv
<1>5. /\ u.step = step
      /\ u.evaluation = s.evaluation /\ u.sheet = s.sheet /\ u.now = s.now
      /\ u.at = s.at /\ u.node = s.node
      /\ u.locked = locked /\ u.rows = s.rows /\ u.loaded = s.loaded /\ u.value = s.value
  BY <1>2 DEF Fields
<1> HIDE DEF u
<1>6. task'[w] = u /\ \A v \in Workers \ {w} : task'[v] = task[v]
  BY <1>4 DEF MasteryInv
<1> QED BY <1>1, <1>2, <1>5, <1>6 DEF OnlyTask, step, locked

\* The row of a chapter, or of the subject, is written, unless the handler raises.
LEMMA SaveNodeIs ==
  ASSUME MasteryInv, NEW w \in Workers, SaveNode(w), ~Raise(w)
  PROVE  LET s == task[w]
             u == task'[w]
         IN /\ OnlyTask(w) /\ s.step = "save" /\ s # Idle /\ s.evaluation \in Evaluations
            /\ u.step = IF NodesLeft(s.sheet, s.loaded) = {}
                        THEN "commit" ELSE "parts"
            /\ u.evaluation = s.evaluation /\ u.sheet = s.sheet /\ u.now = s.now
            /\ u.at = s.at /\ u.node = s.node
            /\ u.rows = s.rows /\ u.loaded = s.loaded /\ u.value = s.value
            /\ u.locked = s.locked \cup {s.node}
<1> DEFINE s == task[w]
           step == IF NodesLeft(s.sheet, s.loaded) = {}
                   THEN "commit" ELSE "parts"
           locked == s.locked \cup {s.node}
           u == [s EXCEPT !.step = step, !.locked = locked]
<1>1. s.step = "save" /\ UNCHANGED <<details, mastery, history, read, overlapped>>
  BY DEF SaveNode
<1>2. SessionInv(s, mastery) /\ s # Idle /\ DOMAIN s = Fields
      /\ s.evaluation \in Evaluations
  <2>1. SessionInv(s, mastery) /\ s # Idle
    BY <1>1 DEF MasteryInv, Idle
  <2> QED BY <2>1 DEF SessionInv
<1>3. task' = [task EXCEPT ![w].step = step, ![w].locked = locked]
  BY DEF SaveNode, Remaining, Sheet
<1> HIDE DEF step, locked
<1>4. task' = [task EXCEPT ![w] = u]
  BY <1>2, <1>3 DEF MasteryInv
<1>5. /\ u.step = step
      /\ u.evaluation = s.evaluation /\ u.sheet = s.sheet /\ u.now = s.now
      /\ u.at = s.at /\ u.node = s.node
      /\ u.locked = locked /\ u.rows = s.rows /\ u.loaded = s.loaded /\ u.value = s.value
  BY <1>2 DEF Fields
<1> HIDE DEF u
<1>6. task'[w] = u /\ \A v \in Workers \ {w} : task'[v] = task[v]
  BY <1>4 DEF MasteryInv
<1> QED BY <1>1, <1>2, <1>5, <1>6 DEF OnlyTask, step, locked

\* The parts of a chapter, or of the subject, are read and averaged.
LEMMA ReadPartsIs ==
  ASSUME MasteryInv, NEW w \in Workers, ReadParts(w)
  PROVE  LET s == task[w]
             u == task'[w]
         IN /\ OnlyTask(w) /\ s.step = "parts" /\ s # Idle /\ s.evaluation \in Evaluations
            /\ u.step = "node"
            /\ u.evaluation = s.evaluation /\ u.sheet = s.sheet /\ u.now = s.now
            /\ u.at = s.at
            /\ u.locked = s.locked /\ u.rows = s.rows /\ u.loaded = s.loaded
            /\ u.node \in NodesLeft(s.sheet, s.loaded)
            /\ u.node \in Nodes \ Topics
            /\ DOMAIN u.value = DOMAIN s.value \cup {u.node}
            /\ u.value[u.node] = Average(View(w), u.node)
            /\ \A n \in DOMAIN s.value \ {u.node} : u.value[n] = s.value[n]
<1> DEFINE s == task[w]
<1>1. /\ SessionInv(s, mastery) /\ s.step = "parts" /\ DOMAIN s = Fields
      /\ UNCHANGED <<details, mastery, history, read, overlapped>>
  BY DEF ReadParts, MasteryInv, SessionInv
<1>2. s # Idle /\ s.evaluation \in Evaluations
  BY <1>1 DEF Idle, SessionInv
<1>3. PICK n \in Remaining(w) :
        task' = [task EXCEPT ![w].step = "node", ![w].node = n,
                             ![w].value = With(@, n, Average(View(w), n))]
  BY DEF ReadParts
<1> DEFINE average == Average(View(w), n)
           value == With(s.value, n, average)
           u == [s EXCEPT !.step = "node", !.node = n, !.value = value]
<1>4. n \in NodesLeft(s.sheet, s.loaded) /\ n \in Nodes \ Topics
  BY <1>2, RemainingAre DEF Remaining, Sheet
<1>5. task' = [task EXCEPT ![w] = u]
  BY <1>1, <1>3 DEF MasteryInv
<1> HIDE DEF average
<1>6. /\ DOMAIN value = DOMAIN s.value \cup {n} /\ value[n] = average
      /\ \A m \in DOMAIN s.value \ {n} : value[m] = s.value[m]
  <2> HIDE DEF s
  <2> QED BY DEF With
<1> HIDE DEF value
<1>7. /\ u.step = "node"
      /\ u.evaluation = s.evaluation /\ u.sheet = s.sheet /\ u.now = s.now
      /\ u.at = s.at /\ u.node = n
      /\ u.locked = s.locked /\ u.rows = s.rows /\ u.loaded = s.loaded /\ u.value = value
  BY <1>1 DEF Fields
<1> HIDE DEF u
<1>8. task'[w] = u /\ \A v \in Workers \ {w} : task'[v] = task[v]
  BY <1>5 DEF MasteryInv
<1> QED BY <1>1, <1>2, <1>4, <1>6, <1>7, <1>8 DEF OnlyTask, average

\* The row of a chapter, or of the subject, is looked up.
LEMMA ReadNodeIs ==
  ASSUME MasteryInv, NEW w \in Workers, ReadNode(w)
  PROVE  LET s == task[w]
             u == task'[w]
         IN /\ OnlyTask(w) /\ s.step = "node" /\ s # Idle /\ s.evaluation \in Evaluations
            /\ s.node \in Nodes \ Topics
            /\ u.step = "save"
            /\ u.evaluation = s.evaluation /\ u.sheet = s.sheet /\ u.now = s.now
            /\ u.at = s.at
            /\ u.node = s.node /\ u.locked = s.locked /\ u.rows = s.rows
            /\ u.value = s.value
            /\ DOMAIN u.loaded = DOMAIN s.loaded \cup {s.node}
            /\ u.loaded[s.node] = mastery[s.node]
            /\ \A n \in DOMAIN s.loaded \ {s.node} : u.loaded[n] = s.loaded[n]
<1> DEFINE s == task[w]
           k == s.node
           loaded == With(s.loaded, k, mastery[k])
           u == [s EXCEPT !.step = "save", !.loaded = loaded]
<1>1. /\ SessionInv(s, mastery) /\ s.step = "node" /\ DOMAIN s = Fields
      /\ UNCHANGED <<details, mastery, history, read, overlapped>>
  BY DEF ReadNode, MasteryInv, SessionInv
<1>2. s # Idle /\ s.evaluation \in Evaluations /\ k \in Nodes \ Topics
  BY <1>1 DEF Idle, SessionInv
<1>3. task' = [task EXCEPT ![w] = u]
  BY <1>1 DEF ReadNode, MasteryInv
<1>4. /\ DOMAIN loaded = DOMAIN s.loaded \cup {k} /\ loaded[k] = mastery[k]
      /\ \A m \in DOMAIN s.loaded \ {k} : loaded[m] = s.loaded[m]
  <2> HIDE DEF s, k
  <2> QED BY DEF With
<1> HIDE DEF loaded
<1>5. /\ u.step = "save"
      /\ u.evaluation = s.evaluation /\ u.sheet = s.sheet /\ u.now = s.now
      /\ u.at = s.at /\ u.node = s.node
      /\ u.locked = s.locked /\ u.rows = s.rows /\ u.loaded = loaded /\ u.value = s.value
  BY <1>1 DEF Fields
<1> HIDE DEF u
<1>6. task'[w] = u /\ \A v \in Workers \ {w} : task'[v] = task[v]
  BY <1>3 DEF MasteryInv
<1> QED BY <1>1, <1>2, <1>4, <1>5, <1>6 DEF OnlyTask

-----------------------------------------------------------------------------
(* A processing counts whole or not at all.                                  *)

\* The steps of a session once every detail is applied.
Applying == {"topic", "apply"}
Later    == {"flush", "parts", "node", "save", "commit"}

\* A session u, when the committed rows are m: it has a history row
\* for each detail it is past, it has seen what it averages and what it has changed, no
\* row of it is empty but those it has just read, and it commits with nothing left.
SessionWhole(u, m) ==
  u # Idle =>
    /\ u.step \in Applying \cup Later
    /\ u.step \in Applying => u.at = Len(u.rows) + 1
    /\ u.step \in Later => Len(u.rows) = Len(u.sheet)
    /\ \A i \in DOMAIN u.rows :
         /\ i \in DOMAIN u.sheet /\ u.rows[i].evaluation = u.evaluation
         /\ u.rows[i].now = u.now
         /\ <<u.rows[i].topic, u.rows[i].score>> = u.sheet[i]
         /\ u.rows[i].topic \in DOMAIN u.value
    /\ u.locked \subseteq DOMAIN u.value
    /\ u.step \in Later \ {"flush"} =>
         \A t \in Topics \cap DOMAIN u.value : t \in u.locked \/ u.value[t] = u.loaded[t]
    /\ \A n \in DOMAIN u.value \ Topics :
         /\ u.value[n].count > 0 /\ u.sheet # <<>>
         /\ n \in DOMAIN u.loaded \/ (u.step \in {"node", "save"} /\ n = u.node)
    /\ \A n \in DOMAIN u.loaded \ Topics :
         /\ n \in DOMAIN u.value /\ (n \in u.locked \/ (u.step = "save" /\ n = u.node))
         /\ Counted(u.loaded[n]) /\ (u.loaded[n].count > 0 => m[n].count > 0)
    /\ u.step \in Applying \cup {"flush"} => DOMAIN u.value \subseteq Topics
    /\ u.step \in {"node", "save"} => u.node \in DOMAIN u.value
    /\ u.step = "save" => u.node \in DOMAIN u.loaded
    /\ u.step = "commit" => NodesLeft(u.sheet, u.loaded) = {}

\* The places of what one processing wrote, in a history h.
RecordedIn(h, k) == {i \in DOMAIN h : h[i].now = k}

\* A session u has read what is on record, and nothing it inserted is committed yet.
ReadBy(u) ==
  u # Idle =>
    /\ u.now \in DOMAIN read
    /\ read[u.now] = [evaluation |-> u.evaluation, sheet |-> u.sheet]
    /\ RecordedIn(history, u.now) = {}

\* No two sessions are the same processing.
Apart(u, v) == u = Idle \/ v = Idle \/ u.now # v.now

WholeInv ==
  /\ MasteryInv
  /\ \A w \in Workers : ReadBy(task[w])
  /\ \A v, w \in Workers : v # w => Apart(task[v], task[w])
  /\ \A n \in Nodes : Counted(mastery[n])
  /\ \A w \in Workers : SessionWhole(task[w], mastery)
  /\ ProcessedWhole

-----------------------------------------------------------------------------
(* As long as processings do not overlap.                                    *)

\* The places of a topic in a history h.
PlacesOf(h, t) == {i \in DOMAIN h : h[i].topic = t}

\* The history h explains the row of a topic.
Explains(h, t, row) ==
  /\ \A i \in PlacesOf(h, t) : (\A j \in PlacesOf(h, t) : j >= i) => h[i].before = 0
  /\ \A i, j \in PlacesOf(h, t) :
       j < i /\ (\A k \in PlacesOf(h, t) : k <= j \/ k >= i) => h[i].before = h[j].after
  /\ \A i \in PlacesOf(h, t) : (\A j \in PlacesOf(h, t) : j <= i) => row.score = h[i].after
  /\ PlacesOf(h, t) = {} => row.score = 0
  /\ row.count = Cardinality(PlacesOf(h, t))
  /\ row.correct = Cardinality({i \in PlacesOf(h, t) : h[i].score = Full})

\* What the rows will be if the session u commits alone.
Outcome(u, m) == [n \in Nodes |-> IF n \in DOMAIN u.value THEN u.value[n] ELSE m[n]]

\* A session u that nobody disturbs: it has loaded what is committed, its history rows
\* go on from the history h, and its averages are those of its own rows.
SessionAlone(u, m, h) ==
  u # Idle =>
    /\ \A n \in DOMAIN u.loaded : u.loaded[n] = m[n]
    /\ \A t \in Topics : Explains(h \o u.rows, t, Outcome(u, m)[t])
    /\ \A n \in DOMAIN u.value \ Topics : u.value[n] = Average(Outcome(u, m), n)
    /\ Subject \in DOMAIN u.value => ChaptersOf(u.sheet) \subseteq DOMAIN u.loaded

AloneInv ==
  /\ WholeInv
  /\ ~overlapped =>
       /\ \A v, w \in Workers : v # w => task[v] = Idle \/ task[w] = Idle
       /\ \A t \in Topics : Explains(history, t, mastery[t])
       /\ \A n \in Chapters \cup {Subject} : mastery[n] = Average(mastery, n)
       /\ \A w \in Workers : SessionAlone(task[w], mastery, history)

-----------------------------------------------------------------------------
(* Whole processings: the proof.                                             *)

\* A worker that has nothing to do, or a new session.
LEMMA NewWhole ==
  ASSUME MasteryInv, NEW m
  PROVE  /\ SessionWhole(Idle, m)
         /\ \A e \in Evaluations : \A calls : SessionWhole(Processing(e, calls), m)
<1>1. ASSUME NEW e \in Evaluations, NEW calls
      PROVE  SessionWhole(Processing(e, calls), m)
  <2> DEFINE step == IF details[e] = <<>> THEN "flush" ELSE "topic"
             u == [Idle EXCEPT !.step = step, !.evaluation = e, !.sheet = details[e],
                               !.now = Len(read) + 1, !.calls = calls, !.at = 1]
  <2>1. u = Processing(e, calls)
    BY DEF Processing
  <2>2. step = "topic" \/ (step = "flush" /\ Len(details[e]) = 0)
    BY Zenon, EmptySeq
  <2> HIDE DEF step
  <2>3. /\ u.rows = <<>> /\ u.loaded = NoRows /\ u.value = NoRows /\ u.locked = {}
        /\ u.step = step /\ u.evaluation = e /\ u.sheet = details[e] /\ u.at = 1
    BY DEF Idle
  <2> HIDE DEF u
  <2>4. DOMAIN NoRows = {} /\ Len(<<>>) = 0 /\ DOMAIN u.rows = {}
    BY <2>3 DEF NoRows
  <2>5. SessionWhole(u, m)
    BY <2>2, <2>3, <2>4 DEF SessionWhole, Applying, Later
  <2> QED BY <2>1, <2>5
<1> QED BY <1>1 DEF SessionWhole

\* Worker w begins a processing.
Began(w) ==
  /\ \E e \in Evaluations : \E calls :
       /\ task'[w] = Processing(e, calls)
       /\ read' = Append(read, [evaluation |-> e, sheet |-> details[e]])
  /\ \A v \in Workers \ {w} : task'[v] = task[v]

\* Worker w has nothing more to do.
Ended(w) ==
  task'[w] = Idle /\ read' = read /\ \A v \in Workers \ {w} : task'[v] = task[v]

\* After a handler the worker has the next session, or nothing to do.
LEMMA NextIs ==
  ASSUME MasteryInv, NEW w \in Workers, NextCall(w)
  PROVE  /\ Began(w) \/ Ended(w)
         /\ task[w] = Idle => Ended(w)
<1>1. task[w] = Idle \/ task[w].evaluation \in Evaluations
  BY DEF MasteryInv, SessionInv
<1>2. task[w] = Idle => ~(task[w].calls > 1)
  BY DEF Idle
<1>3. CASE task[w].calls > 1
  <2> DEFINE e == task[w].evaluation
             calls == task[w].calls - 1
  <2>1. e \in Evaluations /\ Begin(w, e, calls)
    BY <1>1, <1>2, <1>3 DEF NextCall
  <2> HIDE DEF e, calls
  <2>2. Began(w)
    BY <2>1, BeginIs DEF Began
  <2> QED BY <1>2, <1>3, <2>2
<1>4. CASE ~(task[w].calls > 1)
  <2>1. Ended(w)
    BY <1>4 DEF NextCall, Ended, MasteryInv
  <2> QED BY <2>1
<1> QED BY <1>3, <1>4

\* A new session has its reading, the last one.
LEMMA NewReading ==
  ASSUME MasteryInv, NEW e \in Evaluations, NEW calls
  PROVE  /\ Processing(e, calls).now = Len(read) + 1
         /\ Processing(e, calls).sheet = details[e] /\ Processing(e, calls).evaluation = e
BY DEF Processing, Idle

\* What the processings have read stays, and a new one is no session's.
LEMMA ReadingsStay ==
  ASSUME MasteryInv, NEW w \in Workers, Began(w) \/ Ended(w)
  PROVE  /\ \A k \in DOMAIN read : k \in DOMAIN read' /\ read'[k] = read[k]
         /\ Len(read) + 1 \notin DOMAIN read
         /\ \A k \in DOMAIN read' : k \in DOMAIN read \/ k = Len(read) + 1
<1>1. CASE Ended(w)
  <2>1. Len(read) + 1 \notin DOMAIN read
    BY DEF MasteryInv
  <2> QED BY <1>1, <2>1 DEF Ended
<1>2. ASSUME NEW e \in Evaluations,
             read' = Append(read, [evaluation |-> e, sheet |-> details[e]])
      PROVE  /\ \A k \in DOMAIN read : k \in DOMAIN read' /\ read'[k] = read[k]
             /\ Len(read) + 1 \notin DOMAIN read
             /\ \A k \in DOMAIN read' : k \in DOMAIN read \/ k = Len(read) + 1
  <2>1. [evaluation |-> e, sheet |-> details[e]] \in Reading /\ read \in Seq(Reading)
    BY DEF MasteryInv, Reading
  <2> QED BY <1>2, <2>1
<1> QED BY <1>1, <1>2 DEF Began

\* After a call ends, sessions have read what is on record and are apart, when the history
\* has nothing of the others yet, nor of one that is still to begin.
LEMMA ReadBetween ==
  ASSUME WholeInv, NEW w \in Workers, Began(w) \/ Ended(w),
         \A v \in Workers \ {w} : task[v] # Idle => RecordedIn(history', task[v].now) = {},
         RecordedIn(history', Len(read) + 1) = {}
  PROVE  /\ \A v \in Workers : ReadBy(task[v])'
         /\ \A v, x \in Workers : v # x => Apart(task'[v], task'[x])
<1> DEFINE next == Len(read) + 1
<1>1. MasteryInv
  BY DEF WholeInv
<1>2. \A v \in Workers : task[v] # Idle =>
        /\ task[v].now \in DOMAIN read /\ task[v].now # next
        /\ read'[task[v].now] = [evaluation |-> task[v].evaluation, sheet |-> task[v].sheet]
        /\ task[v].now \in DOMAIN read'
  BY <1>1, ReadingsStay DEF WholeInv, ReadBy
<1>3. ASSUME NEW v \in Workers \ {w} PROVE ReadBy(task[v])'
  <2>1. task'[v] = task[v]
    BY DEF Began, Ended
  <2> QED BY <1>2, <2>1 DEF ReadBy
<1>4. ReadBy(task[w])' /\ (task'[w] = Idle \/ task'[w].now = next)
  <2>1. CASE Ended(w)
    BY <2>1 DEF Ended, ReadBy
  <2>2. CASE Began(w)
    <3>1. PICK e \in Evaluations : \E calls :
            /\ task'[w] = Processing(e, calls)
            /\ read' = Append(read, [evaluation |-> e, sheet |-> details[e]])
      BY <2>2 DEF Began
    <3>2. task'[w].now = next /\ task'[w].sheet = details[e] /\ task'[w].evaluation = e
      BY <1>1, <3>1, NewReading
    <3>3. [evaluation |-> e, sheet |-> details[e]] \in Reading /\ read \in Seq(Reading)
      BY <1>1 DEF MasteryInv, Reading
    <3>4. next \in DOMAIN read'
          /\ read'[next] = [evaluation |-> e, sheet |-> details[e]]
      BY <3>1, <3>3
    <3>5. RecordedIn(history', task'[w].now) = {}
      BY <3>2
    <3> HIDE DEF next
    <3> QED BY <3>2, <3>4, <3>5 DEF ReadBy
  <2> QED BY <2>1, <2>2
<1>5. ASSUME NEW v \in Workers, NEW x \in Workers, v # x
      PROVE  Apart(task'[v], task'[x])
  <2>1. \A y \in Workers \ {w} : task'[y] = task[y]
    BY DEF Began, Ended
  <2>2. CASE v = w
    BY <1>2, <1>4, <1>5, <2>1, <2>2 DEF Apart
  <2>3. CASE x = w
    BY <1>2, <1>4, <1>5, <2>1, <2>3 DEF Apart
  <2>4. CASE v # w /\ x # w
    BY <1>5, <2>1, <2>4 DEF WholeInv
  <2> QED BY <2>2, <2>3, <2>4
<1> QED BY <1>3, <1>4, <1>5

\* A session that goes on, with nothing committed.
LEMMA WholeStep ==
  ASSUME WholeInv, MasteryInv', NEW w \in Workers, SessionWhole(task'[w], mastery),
         UNCHANGED <<details, mastery, history, read>>, task[w] # Idle,
         task'[w].now = task[w].now, task'[w].sheet = task[w].sheet,
         task'[w].evaluation = task[w].evaluation,
         \A v \in Workers \ {w} : task'[v] = task[v]
  PROVE  WholeInv'
<1>1. \A v \in Workers : SessionWhole(task[v], mastery)'
  <2>1. ASSUME NEW v \in Workers PROVE SessionWhole(task'[v], mastery)
    BY DEF WholeInv
  <2> QED BY <2>1
<1>2. \A k : Recorded(k)' = Recorded(k)
  BY DEF Recorded
<1>3. ProcessedWhole'
  BY <1>2 DEF WholeInv, ProcessedWhole, RecordedAfter
<1>4. ASSUME NEW v \in Workers PROVE ReadBy(task[v])'
  <2>1. ReadBy(task[v]) /\ ReadBy(task[w])
    BY DEF WholeInv
  <2> QED BY <2>1 DEF ReadBy
<1>5. ASSUME NEW v \in Workers, NEW x \in Workers, v # x
      PROVE  Apart(task'[v], task'[x])
  BY <1>5 DEF WholeInv, Apart
<1>6. \A n \in Nodes : Counted(mastery[n])'
  BY DEF WholeInv
<1>7. \A v, x \in Workers : v # x => Apart(task[v], task[x])'
  BY <1>5
<1> QED BY <1>1, <1>3, <1>4, <1>6, <1>7 DEF WholeInv

\* A topic is read.
LEMMA ReadTopicWhole ==
  ASSUME WholeInv, NEW w \in Workers, ReadTopic(w)
  PROVE  SessionWhole(task'[w], mastery)
<1> DEFINE s == task[w]
           u == task'[w]
           t == s.sheet[s.at][1]
<1>1. MasteryInv /\ SessionWhole(s, mastery)
  BY DEF WholeInv
<1>2. /\ OnlyTask(w) /\ s.step = "topic" /\ u.step = "apply"
      /\ t \in Topics
      /\ u.evaluation = s.evaluation /\ u.sheet = s.sheet /\ u.now = s.now
      /\ u.at = s.at /\ u.node = s.node
      /\ u.locked = s.locked /\ u.rows = s.rows
      /\ DOMAIN u.value = DOMAIN s.value \cup {t}
      /\ DOMAIN u.loaded = DOMAIN s.loaded \cup {t}
      /\ \A n \in DOMAIN s.value : u.value[n] = s.value[n]
      /\ \A n \in DOMAIN s.loaded : u.loaded[n] = s.loaded[n]
  BY <1>1, ReadTopicIs
<1>3. s # Idle
  BY <1>2 DEF Idle
<1> HIDE DEF s, t, u
<1>4. SessionWhole(u, mastery)
  BY <1>1, <1>2, <1>3 DEF SessionWhole, Applying, Later
<1> QED BY <1>4 DEF u

\* A marked question is applied: its history row is that of the detail.
LEMMA ApplyScoreWhole ==
  ASSUME WholeInv, NEW w \in Workers, ApplyScore(w), ~Raise(w)
  PROVE  SessionWhole(task'[w], mastery)
<1> DEFINE s == task[w]
           u == task'[w]
           e == s.evaluation
           d == s.sheet
           entry == [topic |-> d[s.at][1], evaluation |-> e, score |-> d[s.at][2],
                     before |-> s.value[d[s.at][1]].score,
                     after |-> Applied(s.value[d[s.at][1]], d[s.at][2]).score,
                     now |-> s.now]
<1>1. MasteryInv /\ SessionWhole(s, mastery) /\ SessionInv(s, mastery)
  BY DEF WholeInv, MasteryInv
<1>2. /\ OnlyTask(w) /\ s.step = "apply"
      /\ u.step = IF s.at < Len(d) THEN "topic" ELSE "flush"
      /\ e \in Evaluations /\ s.at \in DOMAIN d /\ d[s.at][1] \in DOMAIN s.value
      /\ u.evaluation = e /\ u.sheet = s.sheet /\ u.now = s.now
      /\ u.at = s.at + 1 /\ u.loaded = s.loaded
      /\ \A n \in u.locked : n \in s.locked \/ n \in DOMAIN s.value
      /\ DOMAIN u.value = DOMAIN s.value
      /\ u.rows = Append(s.rows, entry)
  BY <1>1, ApplyScoreIs
<1>3. s # Idle
  BY <1>2, IdleStep
<1>4. d \in Seq(Topics \X Score) /\ s.rows \in Seq(Entry)
  BY <1>1, <1>2, ConstantsAssumption DEF MasteryInv, SessionInv
<1>5. /\ entry.evaluation = e /\ entry.topic = d[s.at][1] /\ entry.now = s.now
      /\ <<entry.topic, entry.score>> = d[s.at]
  <2>1. d[s.at] \in Topics \X Score
    <3> DEFINE at == s.at
    <3>1. d \in Seq(Topics \X Score) /\ at \in DOMAIN d
      BY <1>2, <1>4
    <3> HIDE DEF d, at
    <3>2. d[at] \in Topics \X Score
      BY <3>1
    <3> QED BY <3>2 DEF at
  <2> HIDE DEF d
  <2> QED BY <2>1
<1> HIDE DEF entry, d, e, s, u
<1>6. /\ Len(u.rows) = Len(s.rows) + 1 /\ Len(s.rows) \in Nat
      /\ DOMAIN u.rows = DOMAIN s.rows \cup {Len(s.rows) + 1}
      /\ u.rows[Len(s.rows) + 1] = entry
      /\ \A i \in DOMAIN s.rows : u.rows[i] = s.rows[i]
  BY <1>2, <1>4
<1>7. s.at = Len(s.rows) + 1 /\ s.step \in Applying
  BY <1>1, <1>2, <1>3 DEF SessionWhole, Applying
<1>8. ASSUME NEW i \in DOMAIN u.rows
      PROVE  /\ i \in DOMAIN d /\ u.rows[i].evaluation = e /\ u.rows[i].now = s.now
             /\ <<u.rows[i].topic, u.rows[i].score>> = d[i]
             /\ u.rows[i].topic \in DOMAIN u.value
  <2>1. CASE i \in DOMAIN s.rows
    BY <1>1, <1>2, <1>3, <1>6, <2>1 DEF SessionWhole, d, e
  <2>2. CASE i = s.at
    BY <1>2, <1>5, <1>6, <1>7, <2>2
  <2> QED BY <1>6, <1>7, <2>1, <2>2
<1>9. /\ u.step \in Applying \cup {"flush"}
      /\ u.step \in Applying => u.at = Len(u.rows) + 1
      /\ u.step \in Later => Len(u.rows) = Len(d)
  <2>1. s.at = Len(d) \/ s.at < Len(d)
    BY <1>2, <1>4
  <2>2. Len(d) \in Nat
    BY <1>4
  <2> QED BY <1>2, <1>6, <1>7, <2>1, <2>2 DEF Applying, Later
<1>10. u.locked \subseteq DOMAIN u.value /\ DOMAIN u.value \subseteq Topics
  BY <1>1, <1>2, <1>3, <1>7 DEF SessionWhole
<1>11. DOMAIN u.loaded \subseteq Topics
  BY <1>1, <1>2, <1>3, <1>10 DEF SessionWhole
<1>12. SessionWhole(u, mastery)
  BY <1>2, <1>8, <1>9, <1>10, <1>11 DEF SessionWhole, Applying, Later, d, e
<1> QED BY <1>12 DEF u

\* The changed topics are flushed: every topic of the session has a row then.
LEMMA FlushTopicsWhole ==
  ASSUME WholeInv, NEW w \in Workers, FlushTopics(w)
  PROVE  SessionWhole(task'[w], mastery)
<1> DEFINE s == task[w]
           u == task'[w]
           changed == {n \in DOMAIN s.value : s.value[n] # s.loaded[n]}
<1>1. MasteryInv /\ SessionWhole(s, mastery) /\ SessionInv(s, mastery)
  BY DEF WholeInv, MasteryInv
<1>2. /\ s.step = "flush" /\ s # Idle
      /\ u.step = IF NodesLeft(s.sheet, s.loaded) = {} THEN "commit" ELSE "parts"
      /\ u.evaluation = s.evaluation /\ u.sheet = s.sheet /\ u.now = s.now
      /\ u.at = s.at /\ u.node = s.node
      /\ u.rows = s.rows /\ u.loaded = s.loaded /\ u.value = s.value
      /\ u.locked = s.locked \cup changed
  BY <1>1, FlushTopicsIs
<1>4. \A t \in Topics \cap DOMAIN u.value : t \in u.locked \/ u.value[t] = u.loaded[t]
  BY <1>2
<1>5. u.locked \subseteq DOMAIN u.value
  BY <1>1, <1>2 DEF SessionWhole
<1> HIDE DEF s, u, changed
<1>6. SessionWhole(u, mastery)
  BY <1>1, <1>2, <1>4, <1>5 DEF SessionWhole, Applying, Later
<1> QED BY <1>6 DEF u

\* The average of a part that counts counts.
LEMMA AverageCounts ==
  ASSUME NEW view, NEW n, PartsOf(n) \subseteq Nodes, NEW p \in PartsOf(n),
         view[p].count > 0
  PROVE  Average(view, n).count > 0
<1> DEFINE parts == {q \in PartsOf(n) : view[q].count > 0}
           score == Rounded(SumFunction([q \in parts |-> view[q].score]), Cardinality(parts))
<1>1. IsFiniteSet(parts) /\ parts # {}
  BY ConstantsAssumption, FS_Subset
<1>2. Cardinality(parts) \in Nat /\ Cardinality(parts) # 0
  BY <1>1, FS_CardinalityType, FS_EmptySet
<1>3. Average(view, n) = [score |-> score, count |-> Cardinality(parts), correct |-> 0]
  BY <1>1 DEF Average
<1> HIDE DEF parts, score
<1> QED BY <1>2, <1>3

\* The parts of a chapter are its topics, those of the subject the chapters.
LEMMA PartsAre ==
  /\ \A t \in Topics : ChapterOf[t] \in Chapters /\ t \in PartsOf(ChapterOf[t])
  /\ PartsOf(Subject) = Chapters
  /\ \A c \in Chapters : PartsOf(c) = {t \in Topics : ChapterOf[t] = c} /\ c # Subject
  /\ \A n : PartsOf(n) \subseteq Nodes
BY ConstantsAssumption, NoRowTyped DEF PartsOf

\* A chapter, or the subject, has something to average when its turn comes.
LEMMA PartsCount ==
  ASSUME WholeInv, NEW w \in Workers, task[w].step = "parts", task[w] # Idle,
         task[w].evaluation \in Evaluations,
         NEW n \in NodesLeft(task[w].sheet, task[w].loaded)
  PROVE  Average(View(w), n).count > 0
<1> DEFINE s == task[w]
           d == s.sheet
<1>1. MasteryInv /\ SessionWhole(s, mastery) /\ SessionInv(s, mastery)
  BY DEF WholeInv, MasteryInv
<1>2. d \in Seq(Topics \X Score) /\ s.rows \in Seq(Entry)
  BY <1>1, ConstantsAssumption DEF MasteryInv, SessionInv
<1>3. \A m \in Nodes : View(w)[m] = IF m \in s.locked THEN s.value[m] ELSE mastery[m]
  BY DEF View
<1>4. CASE \E i \in DOMAIN d : n = ChapterOf[d[i][1]]
  <2>1. PICK i \in DOMAIN d : n = ChapterOf[d[i][1]]
    BY <1>4
  <2> DEFINE t == d[i][1]
  <2>2. t \in Topics
    BY <1>2, DetailIs
  <2>3. i \in DOMAIN s.rows
    BY <1>1, <1>2 DEF SessionWhole, Later
  <2>4. t \in DOMAIN s.value
    <3>1. <<s.rows[i].topic, s.rows[i].score>> = d[i] /\ s.rows[i].topic \in DOMAIN s.value
      BY <1>1, <2>3 DEF SessionWhole
    <3> HIDE DEF s, d
    <3> QED BY <3>1
  <2>5. s.value[t].count > 0
    BY <1>1, <2>2, <2>4 DEF SessionInv, InHand
  <2>6. t \in s.locked \/ mastery[t].count > 0
    <3>1. t \in s.locked \/ s.value[t] = s.loaded[t]
      BY <1>1, <2>2, <2>4 DEF SessionWhole, Later
    <3>2. s.loaded[t].count > 0 => mastery[t].count > 0
      BY <1>1, <2>2, <2>4 DEF SessionInv
    <3> HIDE DEF t
    <3> QED BY <2>5, <3>1, <3>2
  <2> HIDE DEF t
  <2>7. View(w)[t].count > 0
    BY <1>3, <2>2, <2>5, <2>6, NoRowTyped
  <2> QED BY <2>1, <2>2, <2>7, PartsAre, AverageCounts DEF t
<1>5. CASE ~\E i \in DOMAIN d : n = ChapterOf[d[i][1]]
  <2>1. n = Subject /\ d # <<>> /\ ChaptersOf(d) \subseteq DOMAIN s.loaded
    BY <1>5 DEF NodesLeft, ChaptersOf
  <2>2. 1 \in DOMAIN d
    BY <1>2, <2>1
  <2> DEFINE c == ChapterOf[d[1][1]]
  <2>3. c \in Chapters /\ c \in DOMAIN s.loaded /\ c \in Nodes \ Topics
    <3>1. d[1][1] \in Topics
      BY <1>2, <2>2, DetailIs
    <3> QED BY <2>1, <2>2, <3>1, PartsAre, NoRowTyped DEF ChaptersOf
  <2>4. c \in s.locked /\ s.value[c].count > 0
    BY <1>1, <2>3 DEF SessionWhole
  <2> HIDE DEF c
  <2>5. View(w)[c].count > 0
    BY <1>3, <2>3, <2>4
  <2> QED BY <2>1, <2>3, <2>5, PartsAre, AverageCounts
<1> QED BY <1>4, <1>5

\* The parts of a chapter, or of the subject, are read and averaged.
LEMMA ReadPartsWhole ==
  ASSUME WholeInv, NEW w \in Workers, ReadParts(w)
  PROVE  SessionWhole(task'[w], mastery)
<1> DEFINE s == task[w]
           u == task'[w]
<1>1. MasteryInv /\ SessionWhole(s, mastery)
  BY DEF WholeInv
<1>2. /\ s.step = "parts" /\ s # Idle /\ s.evaluation \in Evaluations
      /\ u.step = "node"
      /\ u.evaluation = s.evaluation /\ u.sheet = s.sheet /\ u.now = s.now
      /\ u.at = s.at
      /\ u.locked = s.locked /\ u.rows = s.rows /\ u.loaded = s.loaded
      /\ u.node \in NodesLeft(s.sheet, s.loaded)
      /\ u.node \in Nodes \ Topics
      /\ DOMAIN u.value = DOMAIN s.value \cup {u.node}
      /\ u.value[u.node] = Average(View(w), u.node)
      /\ \A n \in DOMAIN s.value \ {u.node} : u.value[n] = s.value[n]
  BY <1>1, ReadPartsIs
<1>3. u.value[u.node].count > 0
  BY <1>2, PartsCount
<1>4. s.sheet # <<>>
  BY <1>2 DEF NodesLeft, ChaptersOf
<1> HIDE DEF s, u
<1>5. SessionWhole(u, mastery)
  BY <1>1, <1>2, <1>3, <1>4 DEF SessionWhole, Applying, Later
<1> QED BY <1>5 DEF u

\* The row of a chapter, or of the subject, is looked up.
LEMMA ReadNodeWhole ==
  ASSUME WholeInv, NEW w \in Workers, ReadNode(w)
  PROVE  SessionWhole(task'[w], mastery)
<1> DEFINE s == task[w]
           u == task'[w]
<1>1. MasteryInv /\ SessionWhole(s, mastery)
  BY DEF WholeInv
<1>2. /\ s.step = "node" /\ s # Idle /\ s.node \in Nodes \ Topics
      /\ u.step = "save"
      /\ u.evaluation = s.evaluation /\ u.sheet = s.sheet /\ u.now = s.now
      /\ u.at = s.at
      /\ u.node = s.node /\ u.locked = s.locked /\ u.rows = s.rows
      /\ u.value = s.value
      /\ DOMAIN u.loaded = DOMAIN s.loaded \cup {s.node}
      /\ u.loaded[s.node] = mastery[s.node]
      /\ \A n \in DOMAIN s.loaded \ {s.node} : u.loaded[n] = s.loaded[n]
  BY <1>1, ReadNodeIs
<1>3. Counted(mastery[s.node])
  BY <1>2 DEF WholeInv
<1>4. \A t \in Topics \cap DOMAIN s.value : t \in DOMAIN s.loaded /\ t # s.node
  BY <1>1, <1>2 DEF MasteryInv, SessionInv
<1> HIDE DEF s, u
<1>5. SessionWhole(u, mastery)
  BY <1>1, <1>2, <1>3, <1>4 DEF SessionWhole, Applying, Later
<1> QED BY <1>5 DEF u

\* The row of a chapter, or of the subject, is written.
LEMMA SaveNodeWhole ==
  ASSUME WholeInv, NEW w \in Workers, SaveNode(w), ~Raise(w)
  PROVE  SessionWhole(task'[w], mastery)
<1> DEFINE s == task[w]
           u == task'[w]
<1>1. MasteryInv /\ SessionWhole(s, mastery)
  BY DEF WholeInv
<1>2. /\ s.step = "save" /\ s # Idle
      /\ u.step = IF NodesLeft(s.sheet, s.loaded) = {} THEN "commit" ELSE "parts"
      /\ u.evaluation = s.evaluation /\ u.sheet = s.sheet /\ u.now = s.now
      /\ u.at = s.at /\ u.node = s.node
      /\ u.rows = s.rows /\ u.loaded = s.loaded /\ u.value = s.value
      /\ u.locked = s.locked \cup {s.node}
  BY <1>1, SaveNodeIs
<1> HIDE DEF s, u
<1>3. u.step \in {"commit", "parts"} /\ s.node \in DOMAIN s.value
  BY <1>1, <1>2 DEF SessionWhole
<1>4. SessionWhole(u, mastery)
  BY <1>1, <1>2, <1>3 DEF SessionWhole, Applying, Later
<1> QED BY <1>4 DEF u

\* Some places of a sequence are finitely many.
LEMMA PlacesFinite ==
  ASSUME NEW n \in Nat, NEW S, S \subseteq 1 .. n
  PROVE  IsFiniteSet(S) /\ Cardinality(S) \in Nat
<1>1. IsFiniteSet(1 .. n)
  BY FS_Interval
<1>2. IsFiniteSet(S)
  BY <1>1, FS_Subset
<1> QED BY <1>2, FS_CardinalityType

\* The history rows g of a sheet: one for each detail, all of one processing.
WrittenBy(g, e, sheet, k) ==
  /\ DOMAIN g = DOMAIN sheet
  /\ \A i \in DOMAIN g :
       g[i].evaluation = e /\ <<g[i].topic, g[i].score>> = sheet[i] /\ g[i].now = k

\* What a processing has left in a history h: nothing, or its sheet.
LeftWhole(h, k, reading) ==
  \/ RecordedIn(h, k) = {}
  \/ \E place \in 0 .. Len(h) :
       /\ RecordedIn(h, k) = place + 1 .. place + Len(reading.sheet)
       /\ \A i \in DOMAIN reading.sheet :
            /\ place + i \in DOMAIN h /\ h[place + i].evaluation = reading.evaluation
            /\ <<h[place + i].topic, h[place + i].score>> = reading.sheet[i]

\* The rows of one processing added to a history: it has left its sheet, what others
\* have left stays.
LEMMA HistoriesAdd ==
  ASSUME NEW h \in Seq(Entry), NEW g \in Seq(Entry), NEW e, NEW sheet \in Seq(Topics \X Score),
         NEW k, WrittenBy(g, e, sheet, k), RecordedIn(h, k) = {}
  PROVE  /\ LeftWhole(h \o g, k, [evaluation |-> e, sheet |-> sheet])
         /\ \A j : j # k => RecordedIn(h \o g, j) = RecordedIn(h, j)
         /\ \A j, reading : j # k /\ LeftWhole(h, j, reading) => LeftWhole(h \o g, j, reading)
         /\ \A i \in DOMAIN (h \o g) :
              (i \in DOMAIN h /\ (h \o g)[i] = h[i]) \/ (h \o g)[i].now = k
<1> DEFINE hg == h \o g
<1>1. /\ hg \in Seq(Entry) /\ Len(hg) = Len(h) + Len(g)
      /\ \A i \in 1 .. Len(h) : hg[i] = h[i]
      /\ \A i \in 1 .. Len(g) : hg[Len(h) + i] = g[i]
      /\ Len(h) \in Nat /\ Len(g) \in Nat
      /\ DOMAIN h = 1 .. Len(h) /\ DOMAIN g = 1 .. Len(g)
      /\ DOMAIN hg = 1 .. (Len(h) + Len(g))
  BY ConcatProperties
<1> HIDE DEF hg
<1>2. Len(g) = Len(sheet) /\ DOMAIN sheet = 1 .. Len(g)
  <2>1. Len(sheet) \in Nat /\ DOMAIN sheet = 1 .. Len(sheet)
    OBVIOUS
  <2>2. DOMAIN g = DOMAIN sheet
    BY DEF WrittenBy
  <2>3. 1 .. Len(g) = 1 .. Len(sheet)
    BY <1>1, <2>1, <2>2
  <2>4. Len(g) \in Nat
    BY <1>1
  <2> HIDE DEF hg
  <2>5. Len(g) = Len(sheet)
    BY <2>1, <2>3, <2>4
  <2> QED BY <2>1, <2>5
<1>3. \A i \in DOMAIN hg :
        \/ i \in DOMAIN h /\ hg[i] = h[i] /\ h[i].now # k
        \/ i - Len(h) \in 1 .. Len(g) /\ i = Len(h) + (i - Len(h)) /\ hg[i].now = k
  <2>1. ASSUME NEW i \in DOMAIN hg
        PROVE  \/ i \in DOMAIN h /\ hg[i] = h[i] /\ h[i].now # k
               \/ i - Len(h) \in 1 .. Len(g) /\ i = Len(h) + (i - Len(h)) /\ hg[i].now = k
    <3>1. CASE i <= Len(h)
      BY <1>1, <3>1 DEF RecordedIn
    <3>2. CASE i > Len(h)
      <4>1. i - Len(h) \in 1 .. Len(g) /\ i = Len(h) + (i - Len(h))
        BY <1>1, <3>2
      <4>2. hg[Len(h) + (i - Len(h))] = g[i - Len(h)]
        BY <1>1, <4>1
      <4>3. g[i - Len(h)].now = k
        BY <1>1, <4>1 DEF WrittenBy
      <4> QED BY <4>1, <4>2, <4>3
    <3> QED BY <1>1, <3>1, <3>2
  <2> QED BY <2>1
<1>4. RecordedIn(hg, k) = Len(h) + 1 .. Len(h) + Len(sheet)
  <2>1. ASSUME NEW i \in RecordedIn(hg, k) PROVE i \in Len(h) + 1 .. Len(h) + Len(sheet)
    BY SMTT(30), <1>1, <1>2, <1>3 DEF RecordedIn
  <2>2. ASSUME NEW i \in Len(h) + 1 .. Len(h) + Len(sheet) PROVE i \in RecordedIn(hg, k)
    <3>1. i \in DOMAIN hg /\ i \notin DOMAIN h
      BY <1>1, <1>2
    <3> QED BY <1>3, <3>1 DEF RecordedIn
  <2> QED BY <2>1, <2>2
<1>5. \A i \in DOMAIN sheet :
        /\ Len(h) + i \in DOMAIN hg /\ hg[Len(h) + i].evaluation = e
        /\ <<hg[Len(h) + i].topic, hg[Len(h) + i].score>> = sheet[i]
  BY <1>1, <1>2 DEF WrittenBy
<1>6. LeftWhole(hg, k, [evaluation |-> e, sheet |-> sheet])
  <2> DEFINE reading == [evaluation |-> e, sheet |-> sheet]
  <2>1. reading.evaluation = e /\ reading.sheet = sheet
    OBVIOUS
  <2> HIDE DEF reading
  <2>2. Len(h) \in 0 .. Len(hg)
    BY <1>1
  <2>3. LeftWhole(hg, k, reading)
    BY <1>4, <1>5, <2>1, <2>2 DEF LeftWhole
  <2> QED BY <2>3 DEF reading
<1>7. ASSUME NEW j, j # k PROVE RecordedIn(hg, j) = RecordedIn(h, j)
  <2>1. ASSUME NEW i \in RecordedIn(hg, j) PROVE i \in RecordedIn(h, j)
    BY <1>3, <1>7 DEF RecordedIn
  <2>2. ASSUME NEW i \in RecordedIn(h, j) PROVE i \in RecordedIn(hg, j)
    BY <1>1 DEF RecordedIn
  <2> QED BY <2>1, <2>2
<1>8. ASSUME NEW j, NEW reading, j # k, LeftWhole(h, j, reading)
      PROVE  LeftWhole(hg, j, reading)
  <2>1. RecordedIn(hg, j) = RecordedIn(h, j)
    BY <1>7, <1>8
  <2>2. CASE RecordedIn(h, j) = {}
    BY <2>1, <2>2 DEF LeftWhole
  <2>3. CASE RecordedIn(h, j) # {}
    <3>1. PICK place \in 0 .. Len(h) :
            /\ RecordedIn(h, j) = place + 1 .. place + Len(reading.sheet)
            /\ \A i \in DOMAIN reading.sheet :
                 /\ place + i \in DOMAIN h /\ h[place + i].evaluation = reading.evaluation
                 /\ <<h[place + i].topic, h[place + i].score>> = reading.sheet[i]
      BY <1>8, <2>3 DEF LeftWhole
    <3>2. place \in 0 .. Len(hg)
      BY <1>1
    <3>3. \A i \in DOMAIN reading.sheet :
            /\ place + i \in DOMAIN hg /\ hg[place + i].evaluation = reading.evaluation
            /\ <<hg[place + i].topic, hg[place + i].score>> = reading.sheet[i]
      BY <1>1, <3>1
    <3> QED BY <2>1, <3>1, <3>2, <3>3 DEF LeftWhole
  <2> QED BY <2>2, <2>3
<1> QED BY <1>3, <1>6, <1>7, <1>8 DEF hg

\* What a commit stores has a row's count, as what the session had and what was there.
LEMMA StoredCounts ==
  ASSUME NEW stored, NEW loaded, NEW value,
         Counted(loaded), loaded.count > 0 => stored.count > 0, value.count > 0
  PROVE  Stored(stored, loaded, value).count > 0
<1>1. CASE loaded = NoRow
  BY <1>1 DEF Stored
<1>2. CASE loaded # NoRow
  <2> DEFINE score == WrittenScore(stored.score, loaded.score, value.score)
             count == Written(stored.count, loaded.count, value.count)
             correct == Written(stored.correct, loaded.correct, value.correct)
  <2>1. Stored(stored, loaded, value) = [score |-> score, count |-> count, correct |-> correct]
    BY <1>2 DEF Stored
  <2>2. stored.count > 0
    BY <1>2 DEF Counted
  <2>3. count \in {stored.count, value.count}
    BY DEF Written
  <2> HIDE DEF score, count, correct
  <2> QED BY <2>1, <2>2, <2>3
<1> QED BY <1>1, <1>2

\* A session that commits a topic has loaded its chapter and the subject.
LEMMA TopicsCovered ==
  ASSUME WholeInv, NEW w \in Workers, task[w].step = "commit", NEW t \in Topics \cap DOMAIN task[w].value
  PROVE  ChapterOf[t] \in DOMAIN task[w].loaded /\ Subject \in DOMAIN task[w].loaded
<1> DEFINE s == task[w]
           sheet == s.sheet
<1>1. /\ SessionWhole(s, mastery) /\ SessionInv(s, mastery) /\ s # Idle
      /\ sheet \in Seq(Topics \X Score)
  <2>1. s # Idle
    BY DEF Idle
  <2> QED BY <2>1 DEF WholeInv, MasteryInv, SessionInv
<1>2. PICK i \in DOMAIN s.rows : s.rows[i].topic = t
  BY <1>1 DEF SessionInv, InHand, OnRecord
<1>3. i \in DOMAIN sheet /\ sheet[i][1] = t
  <2>1. i \in DOMAIN sheet /\ <<s.rows[i].topic, s.rows[i].score>> = sheet[i]
    BY <1>1 DEF SessionWhole
  <2> HIDE DEF s, sheet
  <2> QED BY <1>2, <2>1
<1>4. NodesLeft(sheet, s.loaded) = {}
  BY <1>1 DEF SessionWhole
<1> HIDE DEF sheet, s
<1>5. sheet # <<>> /\ ChapterOf[t] \in ChaptersOf(sheet)
  BY <1>1, <1>3 DEF ChaptersOf
<1> QED BY <1>4, <1>5 DEF NodesLeft, s

\* A session commits: the chapters of its topics and the subject with them, and the
\* history rows of all details.
LEMMA CommitWhole ==
  ASSUME WholeInv, NEW w \in Workers, Commit(w)
  PROVE  WholeInv'
<1> DEFINE s == task[w]
           own == s.evaluation
           sheet == s.sheet
           m == [n \in Nodes |-> IF n \in DOMAIN s.value
                                 THEN Stored(mastery[n], s.loaded[n], s.value[n])
                                 ELSE mastery[n]]
<1>1. /\ MasteryInv /\ SessionWhole(s, mastery) /\ SessionInv(s, mastery)
      /\ s.step = "commit" /\ details' = details /\ mastery' = m
      /\ history' = history \o s.rows /\ NextCall(w)
  BY DEF WholeInv, MasteryInv, Commit
<1>2. s # Idle /\ own \in Evaluations
  <2>1. s # Idle
    BY <1>1 DEF Idle
  <2> QED BY <1>1, <2>1 DEF SessionInv
<1>3. /\ sheet \in Seq(Topics \X Score) /\ s.rows \in Seq(Entry) /\ history \in Seq(Entry)
      /\ DOMAIN s.value \subseteq Nodes
  BY <1>1 DEF MasteryInv, SessionInv, IsRows
<1>4. ASSUME NEW n \in DOMAIN s.value
      PROVE  m[n].count > 0
  <2>1. /\ Counted(s.loaded[n]) /\ (s.loaded[n].count > 0 => mastery[n].count > 0)
        /\ s.value[n].count > 0
    <3>1. CASE n \in Topics
      BY <1>1, <3>1 DEF SessionInv, InHand
    <3>2. CASE n \notin Topics
      BY <1>1, <1>2, <3>2 DEF SessionWhole
    <3> QED BY <3>1, <3>2
  <2>2. m[n] = Stored(mastery[n], s.loaded[n], s.value[n])
    BY <1>3
  <2> HIDE DEF m
  <2> QED BY <2>1, <2>2, StoredCounts
<1>5. ASSUME NEW n \in Nodes
      PROVE  Counted(m[n]) /\ (mastery[n].count > 0 => m[n].count > 0)
  <2>1. CASE n \in DOMAIN s.value
    BY <1>4, <2>1 DEF Counted
  <2>2. CASE n \notin DOMAIN s.value
    <3>1. m[n] = mastery[n]
      BY <2>2
    <3> HIDE DEF m
    <3> QED BY <3>1 DEF WholeInv
  <2> QED BY <2>1, <2>2
<1>6. \A n \in Nodes : m[n] # NoRow <=> m[n].count > 0
  <2> HIDE DEF m
  <2> QED BY <1>5, NoRowTyped DEF Counted
<1>7. ASSUME NEW t \in Topics, m[t] # NoRow
      PROVE  m[ChapterOf[t]] # NoRow /\ m[Subject] # NoRow
  <2>1. /\ t \in Nodes /\ ChapterOf[t] \in Nodes /\ Subject \in Nodes
        /\ ChapterOf[t] \notin Topics /\ Subject \notin Topics
    BY PartsAre, NoRowTyped
  <2>2. CASE t \in DOMAIN s.value
    <3>4. ChapterOf[t] \in DOMAIN s.loaded /\ Subject \in DOMAIN s.loaded
      BY <1>1, <1>2, <2>2, TopicsCovered
    <3>5. ChapterOf[t] \in DOMAIN s.value /\ Subject \in DOMAIN s.value
      BY <1>1, <1>2, <2>1, <3>4 DEF SessionWhole
    <3> HIDE DEF m, s
    <3> QED BY <1>4, <1>6, <2>1, <3>5
  <2>3. CASE t \notin DOMAIN s.value
    <3>1. mastery[t] # NoRow
      BY <2>1, <2>3, <1>7
    <3>2. mastery[ChapterOf[t]].count > 0 /\ mastery[Subject].count > 0
      BY <2>1, <3>1 DEF WholeInv, ProcessedWhole, Counted
    <3> HIDE DEF m
    <3> QED BY <1>5, <1>6, <2>1, <3>2
  <2> QED BY <2>2, <2>3
<1> HIDE DEF m
<1>8. WrittenBy(s.rows, own, sheet, s.now)
  <2>1. DOMAIN sheet = DOMAIN s.rows
    BY <1>1, <1>2, <1>3 DEF SessionWhole, Later
  <2>2. \A i \in DOMAIN s.rows :
          /\ s.rows[i].evaluation = own /\ s.rows[i].now = s.now
          /\ <<s.rows[i].topic, s.rows[i].score>> = sheet[i]
    BY <1>1, <1>2 DEF SessionWhole
  <2> QED BY <2>1, <2>2 DEF WrittenBy
<1>9. /\ s.now \in DOMAIN read /\ read[s.now] = [evaluation |-> own, sheet |-> sheet]
      /\ RecordedIn(history, s.now) = {}
  BY <1>2 DEF WholeInv, ReadBy
<1>10. /\ LeftWhole(history', s.now, read[s.now])
       /\ \A j : j # s.now => RecordedIn(history', j) = RecordedIn(history, j)
       /\ \A j, reading : j # s.now /\ LeftWhole(history, j, reading)
                            => LeftWhole(history', j, reading)
       /\ \A i \in DOMAIN history' :
            (i \in DOMAIN history /\ history'[i] = history[i]) \/ history'[i].now = s.now
  <2> DEFINE k == s.now
             g == s.rows
  <2>1. g \in Seq(Entry) /\ WrittenBy(g, own, sheet, k) /\ RecordedIn(history, k) = {}
    BY <1>3, <1>8, <1>9
  <2>2. sheet \in Seq(Topics \X Score) /\ history \in Seq(Entry)
    BY <1>3
  <2> HIDE DEF k, g, sheet, own
  <2>3. /\ LeftWhole(history \o g, k, [evaluation |-> own, sheet |-> sheet])
        /\ \A j : j # k => RecordedIn(history \o g, j) = RecordedIn(history, j)
        /\ \A j, reading : j # k /\ LeftWhole(history, j, reading)
                             => LeftWhole(history \o g, j, reading)
        /\ \A i \in DOMAIN (history \o g) :
             \/ i \in DOMAIN history /\ (history \o g)[i] = history[i]
             \/ (history \o g)[i].now = k
    BY <2>1, <2>2, HistoriesAdd
  <2> QED BY <1>1, <1>9, <2>3 DEF k, g, sheet, own
<1>15. Began(w) \/ Ended(w)
  BY <1>1, NextIs
<1>16. /\ \A k \in DOMAIN read : k \in DOMAIN read' /\ read'[k] = read[k]
       /\ Len(read) + 1 \notin DOMAIN read
       /\ \A k \in DOMAIN read' : k \in DOMAIN read \/ k = Len(read) + 1
  BY <1>1, <1>15, ReadingsStay
<1>17. RecordedIn(history', Len(read) + 1) = {}
  <2>1. RecordedIn(history, Len(read) + 1) = {}
    BY <1>16 DEF WholeInv, ProcessedWhole, RecordedIn
  <2>2. s.now # Len(read) + 1
    BY <1>9, <1>16
  <2> QED BY <1>10, <2>1, <2>2
<1>18. ASSUME NEW k \in DOMAIN read'
       PROVE  LeftWhole(history', k, read'[k])
  <2>1. CASE k = s.now
    BY <1>9, <1>10, <1>16, <2>1
  <2>2. CASE k # s.now /\ k \in DOMAIN read
    <3>1. LeftWhole(history, k, read[k])
      BY <2>2 DEF WholeInv, ProcessedWhole, Recorded, RecordedIn, LeftWhole, RecordedAfter
    <3> QED BY <1>10, <1>16, <2>2, <3>1
  <2>3. CASE k = Len(read) + 1
    BY <1>17, <2>3 DEF LeftWhole
  <2> QED BY <1>16, <2>1, <2>2, <2>3
<1>11. ProcessedWhole'
  <2>1. \A i \in DOMAIN history' : history'[i].now \in DOMAIN read'
    BY <1>9, <1>10, <1>16 DEF WholeInv, ProcessedWhole
  <2>3. \A k : Recorded(k)' = RecordedIn(history', k)
    BY DEF Recorded, RecordedIn
  <2>4. \A t \in Topics : mastery'[t] # NoRow =>
          mastery'[ChapterOf[t]] # NoRow /\ mastery'[Subject] # NoRow
    BY <1>1, <1>7
  <2> QED BY <1>18, <2>1, <2>3, <2>4 DEF ProcessedWhole, LeftWhole, RecordedAfter
<1>19. /\ \A v \in Workers : ReadBy(task[v])'
       /\ \A v, x \in Workers : v # x => Apart(task'[v], task'[x])
  <2>1. ASSUME NEW v \in Workers \ {w}, task[v] # Idle
        PROVE  RecordedIn(history', task[v].now) = {}
    <3>1. task[v].now # s.now /\ RecordedIn(history, task[v].now) = {}
      BY <1>2, <2>1 DEF WholeInv, Apart, ReadBy
    <3> QED BY <1>10, <3>1
  <2> QED BY <1>15, <1>17, <2>1, ReadBetween
<1>12. ASSUME NEW v \in Workers PROVE SessionWhole(task'[v], m)
  <2>1. CASE v = w
    <3>1. task'[w] = Idle \/ \E e \in Evaluations : \E calls : task'[w] = Processing(e, calls)
      BY <1>15 DEF Began, Ended
    <3> QED BY <1>1, <2>1, <3>1, NewWhole
  <2>2. CASE v # w
    <3>1. task'[v] = task[v] /\ SessionWhole(task[v], mastery)
          /\ SessionInv(task[v], mastery)
      BY <1>15, <2>2 DEF WholeInv, MasteryInv, Began, Ended
    <3>2. DOMAIN task[v].value \subseteq Nodes /\ DOMAIN task[v].loaded \subseteq Nodes
      BY <3>1 DEF SessionInv, IsRows
    <3> DEFINE r == task[v]
    <3>3. r = task[v]
      OBVIOUS
    <3> HIDE DEF r
    <3>4. SessionWhole(r, m)
      BY <1>5, <3>1, <3>2, <3>3 DEF SessionWhole
    <3> QED BY <3>1, <3>3, <3>4
  <2> QED BY <2>1, <2>2
<1>13. \A v \in Workers : SessionWhole(task[v], mastery)'
  BY <1>1, <1>12
<1>14. \A n \in Nodes : Counted(mastery[n])'
  BY <1>1, <1>5 DEF Counted
<1>20. \A v, x \in Workers : v # x => Apart(task[v], task[x])'
  BY <1>19
<1> QED BY <1>1, <1>11, <1>13, <1>14, <1>19, <1>20, CommitKeeps DEF WholeInv

\* A handler raises, a processing is asked for.
LEMMA BetweenWhole ==
  ASSUME WholeInv, NEW w \in Workers,
         Raise(w) \/ \E e \in Evaluations : \E calls : Ask(w, e, calls)
  PROVE  WholeInv'
<1>1. MasteryInv
  BY DEF WholeInv
<1>2. MasteryInv'
  BY <1>1, RaiseKeeps, AskKeeps
<1>3. (Began(w) \/ Ended(w)) /\ UNCHANGED <<details, mastery, history>>
  <2>1. CASE Raise(w)
    BY <1>1, <2>1, NextIs DEF Raise
  <2>2. ASSUME NEW e \in Evaluations, NEW calls, Ask(w, e, calls)
        PROVE  Began(w) /\ UNCHANGED <<details, mastery, history>>
    BY ZenonT(60), <1>1, <2>2, BeginIs DEF Ask, Began
  <2> QED BY <2>1, <2>2
<1>4. ASSUME NEW v \in Workers PROVE SessionWhole(task'[v], mastery)
  <2>1. task'[v] = task[v] \/ task'[v] = Idle
        \/ \E e \in Evaluations : \E calls : task'[v] = Processing(e, calls)
    BY <1>3 DEF Began, Ended
  <2> QED BY <1>1, <2>1, NewWhole DEF WholeInv
<1>5. /\ \A k \in DOMAIN read : k \in DOMAIN read' /\ read'[k] = read[k]
      /\ Len(read) + 1 \notin DOMAIN read
      /\ \A k \in DOMAIN read' : k \in DOMAIN read \/ k = Len(read) + 1
  BY <1>1, <1>3, ReadingsStay
<1>6. RecordedIn(history', Len(read) + 1) = {}
  BY <1>3, <1>5 DEF WholeInv, ProcessedWhole, RecordedIn
<1>7. /\ \A v \in Workers : ReadBy(task[v])'
      /\ \A v, x \in Workers : v # x => Apart(task'[v], task'[x])
  <2>1. ASSUME NEW v \in Workers \ {w}, task[v] # Idle
        PROVE  RecordedIn(history', task[v].now) = {}
    BY <1>3, <2>1 DEF WholeInv, ReadBy
  <2> QED BY <1>3, <1>6, <2>1, ReadBetween
<1>8. ProcessedWhole'
  <2>1. \A k : Recorded(k)' = RecordedIn(history', k)
    BY DEF Recorded, RecordedIn
  <2>3. ASSUME NEW k \in DOMAIN read'
        PROVE  LeftWhole(history', k, read'[k])
    <3>1. CASE k = Len(read) + 1
      BY <1>6, <3>1 DEF LeftWhole
    <3>2. CASE k \in DOMAIN read
      <4>1. LeftWhole(history, k, read[k])
        BY <3>2 DEF WholeInv, ProcessedWhole, Recorded, RecordedIn, LeftWhole, RecordedAfter
      <4> QED BY <1>3, <1>5, <3>2, <4>1
    <3> QED BY <1>5, <3>1, <3>2
  <2>4. \A i \in DOMAIN history' : history'[i].now \in DOMAIN read'
    BY <1>3, <1>5 DEF WholeInv, ProcessedWhole
  <2>6. \A t \in Topics : mastery'[t] # NoRow =>
          mastery'[ChapterOf[t]] # NoRow /\ mastery'[Subject] # NoRow
    BY <1>3 DEF WholeInv, ProcessedWhole
  <2> QED BY <2>1, <2>3, <2>4, <2>6 DEF ProcessedWhole, LeftWhole, RecordedAfter
<1>9. /\ \A v \in Workers : SessionWhole(task[v], mastery)'
      /\ \A v, x \in Workers : v # x => Apart(task[v], task[x])'
      /\ \A n \in Nodes : Counted(mastery[n])'
  BY <1>3, <1>4, <1>7 DEF WholeInv
<1> QED BY <1>2, <1>7, <1>8, <1>9 DEF WholeInv

\* Marks change: what was read, and what was recorded of it, stays.
LEMMA RemarkWhole ==
  ASSUME WholeInv, MasteryInv', UNCHANGED <<mastery, history, task, read>>
  PROVE  WholeInv'
<1>1. ProcessedWhole'
  BY DEF WholeInv, ProcessedWhole, Recorded, RecordedAfter
<1>2. \A v \in Workers : ReadBy(task[v])'
  BY DEF WholeInv, ReadBy
<1>3. /\ \A v \in Workers : SessionWhole(task[v], mastery)'
      /\ \A v, x \in Workers : v # x => Apart(task[v], task[x])'
      /\ \A n \in Nodes : Counted(mastery[n])'
  BY DEF WholeInv
<1> QED BY <1>1, <1>2, <1>3 DEF WholeInv

\* The invariant holds at the start.
LEMMA InitWhole == Init => WholeInv
<1> SUFFICES ASSUME Init PROVE WholeInv
  OBVIOUS
<1>1. MasteryInv
  BY InitMastery
<1>2. \A w \in Workers : SessionWhole(task[w], mastery)
  BY <1>1, NewWhole DEF Init
<1>3. DOMAIN history = {} /\ DOMAIN read = {} /\ \A t \in Topics : mastery[t] = NoRow
  BY NoRowTyped DEF Init
<1>4. ProcessedWhole
  BY <1>3 DEF ProcessedWhole
<1>5. \A n \in Nodes : Counted(mastery[n])
  BY DEF Init, Counted
<1>6. \A v \in Workers : task[v] = Idle
  BY DEF Init
<1> QED BY <1>1, <1>2, <1>4, <1>5, <1>6 DEF WholeInv, ReadBy, Apart

\* Every step keeps it.
LEMMA StepWhole == WholeInv /\ [Next]_vars => WholeInv'
<1> SUFFICES ASSUME WholeInv, [Next]_vars PROVE WholeInv'
  OBVIOUS
<1>1. MasteryInv /\ MasteryInv'
  BY StepMastery DEF WholeInv
<1>2. ASSUME NEW w \in Workers, PublishCompleted(w) \/ PostProcess(w) PROVE WholeInv'
  BY <1>2, BetweenWhole DEF PublishCompleted, PostProcess
<1>3. ASSUME NEW w \in Workers, Raise(w) PROVE WholeInv'
  BY <1>3, BetweenWhole
<1>4. ASSUME NEW w \in Workers, Process(w) PROVE WholeInv'
  <2>1. CASE ReadTopic(w)
    BY <1>1, <2>1, ReadTopicWhole, ReadTopicIs, WholeStep, IdleStep DEF OnlyTask
  <2>2. CASE ApplyScore(w) /\ ~Raise(w)
    BY <1>1, <2>2, ApplyScoreWhole, ApplyScoreIs, WholeStep, IdleStep DEF OnlyTask
  <2>3. CASE FlushTopics(w)
    BY <1>1, <2>3, FlushTopicsWhole, FlushTopicsIs, WholeStep, IdleStep DEF OnlyTask
  <2>4. CASE ReadParts(w)
    BY <1>1, <2>4, ReadPartsWhole, ReadPartsIs, WholeStep, IdleStep DEF OnlyTask
  <2>5. CASE ReadNode(w)
    BY <1>1, <2>5, ReadNodeWhole, ReadNodeIs, WholeStep, IdleStep DEF OnlyTask
  <2>6. CASE SaveNode(w) /\ ~Raise(w)
    BY <1>1, <2>6, SaveNodeWhole, SaveNodeIs, WholeStep, IdleStep DEF OnlyTask
  <2>7. CASE Commit(w)
    BY <2>7, CommitWhole
  <2> QED BY <1>3, <1>4, <2>1, <2>2, <2>3, <2>4, <2>5, <2>6, <2>7 DEF Process
<1>5. ASSUME NEW w \in Workers, Fail(w) PROVE WholeInv'
  BY <1>3, <1>5 DEF Fail
<1>6. CASE EndDeadlock
  BY <1>3, <1>6 DEF EndDeadlock
<1>7. CASE UNCHANGED vars
  BY <1>1, <1>7, RemarkWhole DEF vars
<1>8. ASSUME NEW e \in Evaluations, Remark(e) PROVE WholeInv'
  BY <1>1, <1>8, RemarkWhole DEF Remark
<1> QED BY <1>2, <1>4, <1>5, <1>6, <1>7, <1>8 DEF Next

\* Whatever processings race, raise or are repeated, and whatever is marked anew
\* meanwhile: the history has nothing of a processing, or the whole sheet it read, and a
\* topic with a row has its chapter's and the subject's.
THEOREM ProcessingsAreWhole == Spec => []ProcessedWhole
<1>1. WholeInv => ProcessedWhole
  BY DEF WholeInv
<1> QED BY <1>1, InitWhole, StepWhole, PTL DEF Spec

-----------------------------------------------------------------------------
(* As long as processings do not overlap: the proof.                         *)

\* An average depends on the parts alone, and is a row.
LEMMA AverageIs ==
  /\ \A n, v, x : (\A p \in PartsOf(n) : v[p] = x[p]) => Average(v, n) = Average(x, n)
  /\ \A n, v : LET a == Average(v, n)
               IN a = [score |-> a.score, count |-> a.count, correct |-> a.correct]
<1>1. ASSUME NEW n, NEW v, NEW x, \A p \in PartsOf(n) : v[p] = x[p]
      PROVE  Average(v, n) = Average(x, n)
  <2> DEFINE parts == {p \in PartsOf(n) : v[p].count > 0}
             others == {p \in PartsOf(n) : x[p].count > 0}
  <2>1. parts = others
    BY <1>1
  <2>2. [p \in parts |-> v[p].score] = [p \in others |-> x[p].score]
    BY <1>1, <2>1
  <2> QED BY <2>1, <2>2 DEF Average
<1>2. ASSUME NEW n, NEW v
      PROVE  LET a == Average(v, n)
             IN a = [score |-> a.score, count |-> a.count, correct |-> a.correct]
  <2> DEFINE parts == {p \in PartsOf(n) : v[p].count > 0}
             score == Rounded(SumFunction([p \in parts |-> v[p].score]), Cardinality(parts))
             count == Cardinality(parts)
  <2>1. Average(v, n) = IF parts = {} THEN NoRow
                        ELSE [score |-> score, count |-> count, correct |-> 0]
    BY DEF Average
  <2> HIDE DEF parts, score, count
  <2> QED BY <2>1 DEF NoRow
<1> QED BY <1>1, <1>2

\* What nobody else has changed is stored as the session has it.
LEMMA StoredAlone ==
  ASSUME NEW r, NEW v,
         v = [score |-> v.score, count |-> v.count, correct |-> v.correct]
  PROVE  Stored(r, r, v) = v
BY DEF Stored, Written, WrittenScore

\* Nothing to add to a history, and one row more.
LEMMA HistoriesGrow ==
  ASSUME NEW h \in Seq(Entry), NEW g \in Seq(Entry), NEW x \in Entry
  PROVE  h \o <<>> = h /\ h \o Append(g, x) = Append(h \o g, x)
<1>1. h \o <<>> = h
  BY ConcatEmptySeq
<1>2. h \o Append(g, x) = Append(h \o g, x)
  OBVIOUS
<1> QED BY <1>1, <1>2

\* A marked question goes on from the row that the history explains.
LEMMA ExplainsMore ==
  ASSUME NEW h \in Seq(Entry), NEW x \in Entry, NEW row \in Row,
         Explains(h, x.topic, row), x.before = row.score,
         x.after = Applied(row, x.score).score
  PROVE  Explains(Append(h, x), x.topic, Applied(row, x.score))
<1> DEFINE g == Append(h, x)
           k == Len(h) + 1
           P == PlacesOf(h, x.topic)
           Q == PlacesOf(g, x.topic)
           F == {i \in P : h[i].score = Full}
           G == {i \in Q : g[i].score = Full}
           new == Applied(row, x.score)
<1>1. /\ Len(h) \in Nat /\ DOMAIN h = 1 .. Len(h) /\ DOMAIN g = 1 .. k
      /\ g[k] = x /\ \A i \in 1 .. Len(h) : g[i] = h[i]
  BY AppendProperties
<1>2. P \subseteq 1 .. Len(h) /\ F \subseteq P /\ k \notin P
  BY <1>1 DEF PlacesOf
<1>3. Q = P \cup {k}
  BY <1>1 DEF PlacesOf
<1>4. \A i \in P : g[i] = h[i] /\ i \in Nat /\ i < k
  BY <1>1, <1>2
<1>5. G = IF x.score = Full THEN F \cup {k} ELSE F
  BY <1>1, <1>3, <1>4
<1>6. IsFiniteSet(P) /\ IsFiniteSet(F) /\ Cardinality(P) \in Nat /\ Cardinality(F) \in Nat
  <2>1. F \subseteq 1 .. Len(h)
    BY <1>2
  <2> HIDE DEF P, F
  <2> QED BY <1>1, <1>2, <2>1, PlacesFinite
<1>7. /\ new.score = x.after /\ new.count = row.count + 1
      /\ new.correct = IF x.score = Full THEN row.correct + 1 ELSE row.correct
  <2>1. x.score \in Score /\ row.correct \in Nat /\ row.count \in Nat
    BY DEF Entry, Row
  <2>2. x.score >= Full <=> x.score = Full
    BY <2>1, ScoreIs DEF Full
  <2> DEFINE ema == Ema(x.score, row.score, row.count)
             correct == IF x.score >= Full THEN row.correct + 1 ELSE row.correct
  <2>3. new = [score |-> ema, count |-> row.count + 1, correct |-> correct]
    BY DEF Applied
  <2>4. new.score = x.after
    OBVIOUS
  <2> HIDE DEF ema, new
  <2> QED BY <2>2, <2>3, <2>4
<1>8. /\ row.count = Cardinality(P) /\ row.correct = Cardinality(F)
      /\ P = {} => row.score = 0
      /\ \A i \in P : (\A j \in P : j <= i) => row.score = h[i].after
      /\ \A i \in P : (\A j \in P : j >= i) => h[i].before = 0
      /\ \A i, j \in P : j < i /\ (\A n \in P : n <= j \/ n >= i) => h[i].before = h[j].after
  BY DEF Explains
<1> HIDE DEF g, P, Q, F, G, new, k
<1>9. Cardinality(Q) = row.count + 1
  BY <1>2, <1>3, <1>6, <1>8, FS_AddElement
<1>10. Cardinality(G) = new.correct
  <2>1. k \notin F
    BY <1>2
  <2>2. Cardinality(F \cup {k}) = Cardinality(F) + 1
    BY <1>6, <2>1, FS_AddElement
  <2> QED BY <1>5, <1>7, <1>8, <2>2
<1>11. k \in Nat /\ g[k].before = row.score /\ g[k].after = new.score
  BY <1>1, <1>7 DEF k
<1>12. ASSUME NEW i \in Q, \A j \in Q : j >= i PROVE g[i].before = 0
  <2>1. CASE i = k
    <3>1. P = {}
      BY <1>3, <1>4, <1>11, <1>12, <2>1
    <3> QED BY <1>8, <1>11, <2>1, <3>1
  <2>2. CASE i \in P
    BY <1>3, <1>4, <1>8, <1>12, <2>2
  <2> QED BY <1>3, <2>1, <2>2
<1>13. ASSUME NEW i \in Q, NEW j \in Q, j < i, \A n \in Q : n <= j \/ n >= i
       PROVE  g[i].before = g[j].after
  <2>1. j \in P
    BY <1>3, <1>4, <1>11, <1>13
  <2>2. CASE i = k
    <3>1. \A n \in P : n <= j
      BY <1>3, <1>4, <1>11, <1>13, <2>2
    <3> QED BY <1>4, <1>8, <1>11, <2>1, <2>2, <3>1
  <2>3. CASE i \in P
    BY <1>3, <1>4, <1>8, <1>13, <2>1, <2>3
  <2> QED BY <1>3, <2>2, <2>3
<1>14. ASSUME NEW i \in Q, \A j \in Q : j <= i PROVE new.score = g[i].after
  <2>1. i = k
    BY <1>3, <1>4, <1>11, <1>14
  <2> QED BY <1>11, <2>1
<1>15. Q # {}
  BY <1>3
<1>16. /\ \A i \in Q : (\A j \in Q : j >= i) => g[i].before = 0
       /\ \A i, j \in Q : j < i /\ (\A n \in Q : n <= j \/ n >= i) => g[i].before = g[j].after
       /\ \A i \in Q : (\A j \in Q : j <= i) => new.score = g[i].after
       /\ Q = {} => new.score = 0
       /\ new.count = Cardinality(Q) /\ new.correct = Cardinality(G)
  BY <1>7, <1>9, <1>10, <1>12, <1>13, <1>14, <1>15
<1>17. Explains(g, x.topic, new)
  BY Zenon, <1>16 DEF Explains, Q, G
<1> QED BY <1>17 DEF g, new

\* A history row of another topic changes nothing.
LEMMA ExplainsOther ==
  ASSUME NEW h \in Seq(Entry), NEW x \in Entry, NEW t, t # x.topic, NEW row, Explains(h, t, row)
  PROVE  Explains(Append(h, x), t, row)
<1> DEFINE g == Append(h, x)
<1>1. /\ Len(h) \in Nat /\ DOMAIN h = 1 .. Len(h) /\ DOMAIN g = 1 .. (Len(h) + 1)
      /\ g[Len(h) + 1] = x /\ \A i \in 1 .. Len(h) : g[i] = h[i]
  BY AppendProperties
<1>2. PlacesOf(g, t) = PlacesOf(h, t)
  BY <1>1 DEF PlacesOf
<1>3. \A i \in PlacesOf(h, t) : g[i] = h[i]
  BY <1>1 DEF PlacesOf
<1> DEFINE P == PlacesOf(h, t)
           F == {i \in P : h[i].score = Full}
           G == {i \in P : g[i].score = Full}
<1>4. F = G
  BY <1>3
<1>5. /\ \A i \in P : (\A j \in P : j >= i) => h[i].before = 0
      /\ \A i, j \in P : j < i /\ (\A n \in P : n <= j \/ n >= i) => h[i].before = h[j].after
      /\ \A i \in P : (\A j \in P : j <= i) => row.score = h[i].after
      /\ P = {} => row.score = 0
      /\ row.count = Cardinality(P) /\ row.correct = Cardinality(F)
  BY DEF Explains
<1>6. PlacesOf(g, t) = P /\ \A i \in P : g[i] = h[i]
  BY <1>2, <1>3
<1> HIDE DEF g, P, F
<1>7. /\ \A i \in P : (\A j \in P : j >= i) => g[i].before = 0
      /\ \A i, j \in P : j < i /\ (\A n \in P : n <= j \/ n >= i) => g[i].before = g[j].after
      /\ \A i \in P : (\A j \in P : j <= i) => row.score = g[i].after
  BY <1>5, <1>6
<1>8. Explains(g, t, row)
  BY Zenon, <1>4, <1>5, <1>6, <1>7 DEF Explains, G
<1> QED BY <1>8 DEF g

\* The rows of a session are those its outcome has.
LEMMA OutcomeIs ==
  ASSUME NEW u, NEW m, NEW n \in Nodes
  PROVE  Outcome(u, m)[n] = IF n \in DOMAIN u.value THEN u.value[n] ELSE m[n]
BY DEF Outcome

\* A worker that has nothing to do, or a new session.
LEMMA NewAlone ==
  ASSUME NEW m, NEW h \in Seq(Entry), \A t \in Topics : Explains(h, t, m[t]),
         NEW u, u = Idle \/ \E e \in Evaluations : \E calls : u = Processing(e, calls)
  PROVE  SessionAlone(u, m, h)
<1> SUFFICES ASSUME NEW e \in Evaluations, NEW calls, u = Processing(e, calls)
             PROVE  SessionAlone(u, m, h)
  BY DEF SessionAlone
<1>1. u.rows = <<>> /\ u.loaded = NoRows /\ u.value = NoRows /\ DOMAIN NoRows = {}
  BY DEF Processing, Idle, NoRows
<1>2. h \o u.rows = h
  BY <1>1, ConcatEmptySeq
<1>3. \A t \in Topics : Outcome(u, m)[t] = m[t]
  BY <1>1, OutcomeIs, NoRowTyped
<1> HIDE DEF NoRows
<1> QED BY <1>1, <1>2, <1>3 DEF SessionAlone

\* A topic is read: the outcome is the same.
LEMMA ReadTopicAlone ==
  ASSUME WholeInv, NEW w \in Workers, ReadTopic(w),
         SessionAlone(task[w], mastery, history)
  PROVE  SessionAlone(task'[w], mastery, history)
<1> DEFINE s == task[w]
           u == task'[w]
           t == s.sheet[s.at][1]
<1>1. MasteryInv /\ SessionInv(s, mastery)
  BY DEF WholeInv, MasteryInv
<1>2. /\ OnlyTask(w) /\ s.step = "topic" /\ u.step = "apply"
      /\ t \in Topics
      /\ u.evaluation = s.evaluation /\ u.sheet = s.sheet /\ u.now = s.now
      /\ u.rows = s.rows
      /\ DOMAIN u.value = DOMAIN s.value \cup {t}
      /\ DOMAIN u.loaded = DOMAIN s.loaded \cup {t}
      /\ \A n \in DOMAIN s.value : u.value[n] = s.value[n]
      /\ \A n \in DOMAIN s.loaded : u.loaded[n] = s.loaded[n]
      /\ t \notin DOMAIN s.value => t \notin DOMAIN s.loaded
      /\ t \notin DOMAIN s.loaded => u.value[t] = mastery[t] /\ u.loaded[t] = mastery[t]
  BY <1>1, ReadTopicIs
<1>3. s # Idle
  BY <1>2, IdleStep
<1> HIDE DEF s, t, u
<1>4. Outcome(u, mastery) = Outcome(s, mastery)
  BY <1>2 DEF Outcome
<1>5. Subject \notin Topics
  BY NoRowTyped
<1>6. SessionAlone(u, mastery, history)
  BY <1>2, <1>3, <1>4, <1>5 DEF SessionAlone, s
<1> QED BY <1>6 DEF u

\* A marked question is applied: its history row goes on from the row.
LEMMA ApplyScoreAlone ==
  ASSUME WholeInv, NEW w \in Workers, ApplyScore(w), ~Raise(w),
         SessionAlone(task[w], mastery, history)
  PROVE  SessionAlone(task'[w], mastery, history)
<1> DEFINE s == task[w]
           u == task'[w]
           e == s.evaluation
           t == s.sheet[s.at][1]
           score == s.sheet[s.at][2]
           row == s.value[t]
           new == Applied(row, score)
           x == [topic |-> t, evaluation |-> e, score |-> score,
                 before |-> row.score, after |-> new.score,
                     now |-> s.now]
           h == history \o s.rows
<1>1. /\ MasteryInv /\ SessionInv(s, mastery) /\ SessionWhole(s, mastery)
      /\ history \in Seq(Entry) /\ s.rows \in Seq(Entry)
  BY DEF WholeInv, MasteryInv, SessionInv
<1>2. /\ s.step = "apply" /\ e \in Evaluations /\ u.evaluation = e /\ u.loaded = s.loaded
      /\ t \in Topics /\ score \in Score /\ t \in DOMAIN s.value /\ row \in Row
      /\ DOMAIN u.value = DOMAIN s.value /\ u.value[t] = new
      /\ \A n \in DOMAIN s.value \ {t} : u.value[n] = s.value[n]
      /\ u.rows = Append(s.rows, x)
  BY <1>1, ApplyScoreIs
<1>3. s.step = "apply" /\ s # Idle
  <2>1. s.step = "apply"
    BY <1>2
  <2> HIDE DEF s
  <2> QED BY <2>1 DEF Idle
<1>4. DOMAIN s.value \subseteq Topics
  <2> HIDE DEF s
  <2> QED BY <1>1, <1>3 DEF SessionWhole, Applying
<1>5. new.score \in Score /\ row.score \in Score /\ s.now \in Nat
  BY <1>1, <1>2, AppliedTyped DEF Row, SessionInv
<1> HIDE DEF s, u, e, t, score, row, new
<1>6. /\ x \in Entry /\ x.topic = t /\ x.before = row.score /\ x.after = new.score
      /\ x.score = score
  BY <1>2, <1>5 DEF Entry
<1> HIDE DEF x
<1>7. h \in Seq(Entry) /\ history \o u.rows = Append(h, x)
  BY <1>1, <1>2, <1>6, HistoriesGrow, ConcatProperties
<1>8. /\ Outcome(s, mastery)[t] = row /\ Outcome(u, mastery)[t] = new
      /\ \A k \in Topics \ {t} : Outcome(u, mastery)[k] = Outcome(s, mastery)[k]
  BY <1>2, OutcomeIs, NoRowTyped DEF row
<1>9. \A k \in Topics : Explains(h, k, Outcome(s, mastery)[k])
  BY <1>3 DEF SessionAlone, s
<1> HIDE DEF h
<1>10. ASSUME NEW k \in Topics PROVE Explains(history \o u.rows, k, Outcome(u, mastery)[k])
  <2>1. CASE k = t
    <3>1. Explains(h, x.topic, row)
      BY <1>2, <1>6, <1>8, <1>9
    <3>2. Explains(Append(h, x), x.topic, Applied(row, x.score))
      BY <1>2, <1>6, <1>7, <3>1, ExplainsMore DEF new
    <3> QED BY <1>6, <1>7, <1>8, <2>1, <3>2 DEF new
  <2>2. CASE k # t
    <3>1. Explains(Append(h, x), k, Outcome(s, mastery)[k])
      BY <1>6, <1>7, <1>9, <2>2, ExplainsOther
    <3> QED BY <1>7, <1>8, <2>2, <3>1
  <2> QED BY <2>1, <2>2
<1>11. SessionAlone(u, mastery, history)
  <2>1. Subject \notin DOMAIN u.value /\ DOMAIN u.value \ Topics = {}
    BY <1>2, <1>4, NoRowTyped
  <2>2. \A n \in DOMAIN u.loaded : u.loaded[n] = mastery[n]
    BY <1>2, <1>3 DEF SessionAlone, s
  <2> QED BY <1>10, <2>1, <2>2 DEF SessionAlone
<1> QED BY <1>11 DEF u

\* A session that only writes.
LEMMA WritesAlone ==
  ASSUME NEW m, NEW h, NEW s, NEW u, s # Idle, SessionAlone(s, m, h),
         u.sheet = s.sheet, u.rows = s.rows, u.loaded = s.loaded, u.value = s.value
  PROVE  SessionAlone(u, m, h)
<1>1. Outcome(u, m) = Outcome(s, m)
  BY DEF Outcome
<1> QED BY <1>1 DEF SessionAlone

\* The row of a chapter, or of the subject, is looked up: it is the committed one.
LEMMA ReadNodeAlone ==
  ASSUME WholeInv, NEW w \in Workers, ReadNode(w),
         SessionAlone(task[w], mastery, history)
  PROVE  SessionAlone(task'[w], mastery, history)
<1> DEFINE s == task[w]
           u == task'[w]
<1>1. /\ s # Idle
      /\ u.evaluation = s.evaluation /\ u.sheet = s.sheet /\ u.now = s.now
      /\ u.rows = s.rows /\ u.value = s.value
      /\ DOMAIN u.loaded = DOMAIN s.loaded \cup {s.node}
      /\ u.loaded[s.node] = mastery[s.node]
      /\ \A n \in DOMAIN s.loaded \ {s.node} : u.loaded[n] = s.loaded[n]
  BY ReadNodeIs DEF WholeInv
<1>2. SessionAlone(s, mastery, history)
  OBVIOUS
<1> HIDE DEF s, u
<1>3. Outcome(u, mastery) = Outcome(s, mastery)
  BY <1>1 DEF Outcome
<1>4. SessionAlone(u, mastery, history)
  BY <1>1, <1>2, <1>3 DEF SessionAlone
<1> QED BY <1>4 DEF u

\* The parts of a chapter, or of the subject, are read: the session sees its outcome.
LEMMA ReadPartsAlone ==
  ASSUME WholeInv, NEW w \in Workers, ReadParts(w),
         SessionAlone(task[w], mastery, history)
  PROVE  SessionAlone(task'[w], mastery, history)
<1> DEFINE s == task[w]
           u == task'[w]
           k == u.node
           d == s.sheet
<1>1. /\ MasteryInv /\ SessionInv(s, mastery) /\ SessionWhole(s, mastery)
      /\ SessionAlone(s, mastery, history)
  BY DEF WholeInv, MasteryInv
<1>2. /\ s.step = "parts" /\ s # Idle /\ s.evaluation \in Evaluations
      /\ u.evaluation = s.evaluation /\ u.sheet = s.sheet /\ u.now = s.now
      /\ u.rows = s.rows /\ u.loaded = s.loaded
      /\ k \in NodesLeft(d, s.loaded) /\ k \in Nodes \ Topics
      /\ DOMAIN u.value = DOMAIN s.value \cup {k}
      /\ u.value[k] = Average(View(w), k)
      /\ \A n \in DOMAIN s.value \ {k} : u.value[n] = s.value[n]
  BY <1>1, ReadPartsIs
<1>3. \A m \in Nodes : View(w)[m] = IF m \in s.locked THEN s.value[m] ELSE mastery[m]
  BY DEF View
<1>4. /\ s.locked \subseteq DOMAIN s.value
      /\ \A t \in Topics \cap DOMAIN s.value :
           t \in s.locked \/ (t \in DOMAIN s.loaded /\ s.value[t] = s.loaded[t])
      /\ \A n \in DOMAIN s.value \ Topics : n \in DOMAIN s.loaded /\ n \in s.locked
  <2>1. \A t \in Topics \cap DOMAIN s.value : t \in DOMAIN s.loaded
    BY <1>1 DEF SessionInv
  <2> HIDE DEF s
  <2> QED BY <1>1, <1>2, <2>1 DEF SessionWhole, Later
<1>5. ChaptersOf(d) \subseteq Chapters
  <2>1. \A i \in DOMAIN d : d[i][1] \in Topics
    BY <1>1, DetailIs DEF SessionInv
  <2> HIDE DEF d
  <2> QED BY <2>1, PartsAre DEF ChaptersOf
<1>6. /\ \A n \in DOMAIN s.loaded : s.loaded[n] = mastery[n]
      /\ \A t \in Topics : Explains(history \o s.rows, t, Outcome(s, mastery)[t])
      /\ \A n \in DOMAIN s.value \ Topics : s.value[n] = Average(Outcome(s, mastery), n)
      /\ Subject \in DOMAIN s.value => ChaptersOf(d) \subseteq DOMAIN s.loaded
  <2>1. d = s.sheet
    OBVIOUS
  <2> HIDE DEF s, d
  <2> QED BY <1>1, <1>2, <2>1 DEF SessionAlone
<1>7. \A n \in DOMAIN s.value : n \in Nodes
  BY <1>1 DEF SessionInv, IsRows
<1>8. SessionAlone(u, mastery, history)
      <=> \/ u = Idle
          \/ /\ \A n \in DOMAIN s.loaded : s.loaded[n] = mastery[n]
             /\ \A t \in Topics : Explains(history \o s.rows, t, Outcome(u, mastery)[t])
             /\ \A n \in DOMAIN u.value \ Topics : u.value[n] = Average(Outcome(u, mastery), n)
             /\ Subject \in DOMAIN u.value => ChaptersOf(d) \subseteq DOMAIN s.loaded
  <2>1. d = u.sheet
    BY <1>2
  <2> HIDE DEF u, s, d
  <2> QED BY <1>2, <2>1 DEF SessionAlone
<1> HIDE DEF s, u, k, d
<1>9. k \notin DOMAIN s.loaded /\ k \notin DOMAIN s.value
      /\ (k \in Chapters \/ k = Subject)
      /\ (k = Subject => ChaptersOf(d) \subseteq DOMAIN s.loaded)
      /\ (k \in Chapters => Subject \notin DOMAIN s.value)
  <2>1. k \notin DOMAIN s.loaded
    BY <1>2 DEF NodesLeft
  <2>2. k \in ChaptersOf(d) \/ (k = Subject /\ ChaptersOf(d) \subseteq DOMAIN s.loaded)
    BY <1>2 DEF NodesLeft
  <2>3. Subject \notin Chapters
    BY PartsAre
  <2> QED BY <1>2, <1>4, <1>5, <1>6, <2>1, <2>2, <2>3
<1>10. ASSUME NEW n \in Nodes, n # k
       PROVE  Outcome(u, mastery)[n] = Outcome(s, mastery)[n]
              /\ View(w)[n] = Outcome(u, mastery)[n]
  <2>1. Outcome(u, mastery)[n] = Outcome(s, mastery)[n]
    BY <1>2, <1>10, OutcomeIs
  <2>2. View(w)[n] = Outcome(s, mastery)[n]
    BY <1>3, <1>4, <1>6, OutcomeIs
  <2> QED BY <2>1, <2>2
<1>11. \A n : k \in PartsOf(n) => n = Subject /\ k \in Chapters
  <2>1. \A n : n # Subject => PartsOf(n) \subseteq Topics
    BY DEF PartsOf
  <2> QED BY <1>2, <2>1, PartsAre
<1>12. \A t \in Topics : Explains(history \o s.rows, t, Outcome(u, mastery)[t])
  <2>1. \A t \in Topics : Outcome(u, mastery)[t] = Outcome(s, mastery)[t]
    BY <1>2, <1>10, NoRowTyped
  <2> QED BY <1>6, <2>1
<1>13. ASSUME NEW n \in DOMAIN u.value \ Topics
       PROVE  u.value[n] = Average(Outcome(u, mastery), n)
  <2>1. CASE n = k
    <3>1. k \notin PartsOf(k)
      BY <1>9, <1>11, PartsAre
    <3>2. \A p \in PartsOf(k) : View(w)[p] = Outcome(u, mastery)[p]
      BY <1>10, <3>1, PartsAre
    <3> QED BY <1>2, <2>1, <3>2, AverageIs
  <2>2. CASE n # k
    <3>1. n \in DOMAIN s.value \ Topics /\ k \notin PartsOf(n)
      BY <1>2, <1>9, <1>11, <2>2
    <3>2. \A p \in PartsOf(n) : Outcome(s, mastery)[p] = Outcome(u, mastery)[p]
      BY <1>10, <3>1, PartsAre
    <3>3. Average(Outcome(s, mastery), n) = Average(Outcome(u, mastery), n)
      BY <3>2, AverageIs
    <3> QED BY <1>2, <1>6, <2>2, <3>1, <3>3
  <2> QED BY <2>1, <2>2
<1>14. Subject \in DOMAIN u.value => ChaptersOf(d) \subseteq DOMAIN s.loaded
  BY <1>2, <1>6, <1>9
<1>15. SessionAlone(u, mastery, history)
  BY <1>6, <1>8, <1>12, <1>13, <1>14
<1> QED BY <1>15 DEF u

\* A session commits its outcome.
LEMMA CommitAlone ==
  ASSUME WholeInv, NEW w \in Workers, Commit(w),
         SessionAlone(task[w], mastery, history),
         \A n \in Chapters \cup {Subject} : mastery[n] = Average(mastery, n)
  PROVE  /\ \A t \in Topics : Explains(history', t, mastery'[t])
         /\ \A n \in Chapters \cup {Subject} : mastery'[n] = Average(mastery', n)
<1> DEFINE s == task[w]
           m == Outcome(s, mastery)
<1>1. /\ MasteryInv /\ SessionInv(s, mastery) /\ SessionWhole(s, mastery)
      /\ s.step = "commit" /\ history' = history \o s.rows
      /\ mastery' = [n \in Nodes |-> IF n \in DOMAIN s.value
                                     THEN Stored(mastery[n], s.loaded[n], s.value[n])
                                     ELSE mastery[n]]
  BY DEF WholeInv, MasteryInv, Commit
<1>2. s # Idle /\ s.evaluation \in Evaluations
  <2>1. s # Idle
    BY <1>1 DEF Idle
  <2> QED BY <1>1, <2>1 DEF SessionInv
<1>3. /\ \A n \in DOMAIN s.loaded : s.loaded[n] = mastery[n]
      /\ \A t \in Topics : Explains(history \o s.rows, t, m[t])
      /\ \A n \in DOMAIN s.value \ Topics : s.value[n] = Average(m, n)
  BY <1>2 DEF SessionAlone
<1>4. ASSUME NEW n \in DOMAIN s.value
      PROVE  Stored(mastery[n], s.loaded[n], s.value[n]) = s.value[n]
  <2>1. n \in DOMAIN s.loaded
    <3>1. CASE n \in Topics
      BY <1>1, <3>1 DEF SessionInv
    <3>2. CASE n \notin Topics
      <4> HIDE DEF s
      <4> QED BY <1>1, <1>2, <3>2 DEF SessionWhole
    <3> QED BY <3>1, <3>2
  <2> DEFINE v == s.value[n]
  <2>2. v = [score |-> v.score, count |-> v.count, correct |-> v.correct]
    <3>1. CASE n \in Topics
      <4>1. v \in Row
        BY <1>1, <3>1 DEF SessionInv, IsRows
      <4> HIDE DEF v
      <4> QED BY <4>1 DEF Row
    <3>2. CASE n \notin Topics
      <4>1. v = Average(m, n)
        BY <1>3, <3>2
      <4> HIDE DEF v, m
      <4> QED BY <4>1, AverageIs
    <3> QED BY <3>1, <3>2
  <2> HIDE DEF v
  <2>3. Stored(mastery[n], mastery[n], v) = v
    BY <2>2, StoredAlone
  <2> QED BY <1>3, <2>1, <2>3 DEF v
<1>5. mastery' = m
  <2> HIDE DEF s
  <2> QED BY <1>1, <1>4 DEF Outcome
<1>6. ASSUME NEW n \in Chapters \cup {Subject} PROVE m[n] = Average(m, n)
  <2>1. n \in Nodes \ Topics
    BY NoRowTyped
  <2>2. CASE n \in DOMAIN s.value
    BY <1>3, <2>1, <2>2, OutcomeIs
  <2>3. CASE n \notin DOMAIN s.value
    <3>1. ASSUME NEW p \in PartsOf(n) PROVE p \notin DOMAIN s.value
      <4>1. CASE n = Subject
        <5>1. p \in Chapters /\ p \notin Topics
          BY <4>1, PartsAre, NoRowTyped
        <5>2. p \in DOMAIN s.value => s.sheet # <<>>
          <6> HIDE DEF s
          <6> QED BY <1>1, <1>2, <5>1 DEF SessionWhole
        <5>3. NodesLeft(s.sheet, s.loaded) = {}
          BY <1>1, <1>2 DEF SessionWhole
        <5>4. s.sheet # <<>> => Subject \in DOMAIN s.loaded
          BY <5>3 DEF NodesLeft
        <5>5. Subject \in DOMAIN s.loaded => Subject \in DOMAIN s.value
          <6> HIDE DEF s
          <6> QED BY <1>1, <1>2, NoRowTyped DEF SessionWhole
        <5> QED BY <2>3, <4>1, <5>2, <5>4, <5>5
      <4>2. CASE n \in Chapters
        <5>1. p \in Topics /\ ChapterOf[p] = n
          BY <4>2, PartsAre
        <5>2. p \in DOMAIN s.value => n \in DOMAIN s.loaded
          BY <1>1, <1>2, <5>1, TopicsCovered
        <5>3. n \in DOMAIN s.loaded => n \in DOMAIN s.value
          <6> HIDE DEF s
          <6> QED BY <1>1, <1>2, <2>1 DEF SessionWhole
        <5> QED BY <2>3, <5>2, <5>3
      <4> QED BY <4>1, <4>2
    <3>2. \A p \in PartsOf(n) : m[p] = mastery[p]
      BY <3>1, PartsAre, OutcomeIs
    <3>3. m[n] = mastery[n]
      BY <2>1, <2>3, OutcomeIs
    <3> HIDE DEF m
    <3> QED BY <3>2, <3>3, AverageIs
  <2> QED BY <2>2, <2>3
<1> HIDE DEF m
<1> QED BY <1>1, <1>3, <1>5, <1>6

\* A step of the one session that is under way.
LEMMA AloneStep ==
  ASSUME AloneInv, WholeInv', ~overlapped, NEW w \in Workers, OnlyTask(w), task[w] # Idle,
         SessionAlone(task[w], mastery, history)
           => SessionAlone(task'[w], mastery, history)
  PROVE  AloneInv'
<1>1. /\ \A t \in Topics : Explains(history, t, mastery[t])
      /\ \A n \in Chapters \cup {Subject} : mastery[n] = Average(mastery, n)
      /\ \A v \in Workers : SessionAlone(task[v], mastery, history)
      /\ \A v \in Workers \ {w} : task[v] = Idle
  BY DEF AloneInv
<1>2. \A v \in Workers \ {w} : task'[v] = Idle
  BY <1>1 DEF OnlyTask
<1>3. \A v, x \in Workers : v # x => task'[v] = Idle \/ task'[x] = Idle
  BY <1>2
<1>4. ASSUME NEW v \in Workers PROVE SessionAlone(task'[v], mastery, history)
  <2>1. CASE v = w
    BY <1>1, <2>1
  <2>2. CASE v # w
    BY <1>2, <2>2 DEF SessionAlone
  <2> QED BY <2>1, <2>2
<1>5. UNCHANGED <<details, mastery, history, overlapped>>
  BY DEF OnlyTask
<1>6. /\ \A t \in Topics : Explains(history, t, mastery[t])'
      /\ \A n \in Chapters \cup {Subject} : mastery'[n] = Average(mastery', n)
      /\ \A v \in Workers : SessionAlone(task[v], mastery, history)'
  BY <1>1, <1>4, <1>5
<1> QED BY <1>3, <1>6 DEF AloneInv

\* When the committed rows are explained and averages, and whoever is under way begins.
LEMMA AloneAnew ==
  ASSUME WholeInv', NEW w \in Workers,
         \A t \in Topics : Explains(history', t, mastery'[t]),
         \A n \in Chapters \cup {Subject} : mastery'[n] = Average(mastery', n),
         Began(w) \/ Ended(w), \A v \in Workers \ {w} : task'[v] = Idle
  PROVE  AloneInv'
<1>1. history' \in Seq(Entry)
  BY DEF WholeInv, MasteryInv
<1>2. ASSUME NEW v \in Workers PROVE SessionAlone(task'[v], mastery', history')
  <2>1. task'[v] = Idle \/ \E e \in Evaluations : \E calls : task'[v] = Processing(e, calls)
    BY DEF Began, Ended
  <2> QED BY <1>1, <2>1, NewAlone
<1>3. \A v, x \in Workers : v # x => task'[v] = Idle \/ task'[x] = Idle
  OBVIOUS
<1>4. \A v \in Workers : SessionAlone(task[v], mastery, history)'
  BY <1>2
<1>5. \A t \in Topics : Explains(history, t, mastery[t])'
  OBVIOUS
<1>6. \A n \in Chapters \cup {Subject} : (mastery[n] = Average(mastery, n))'
  OBVIOUS
<1> QED BY <1>3, <1>4, <1>5, <1>6 DEF AloneInv

\* A handler raises, or a processing is asked for while nobody is at one.
LEMMA BetweenAlone ==
  ASSUME AloneInv, WholeInv', ~overlapped, ~overlapped', NEW w \in Workers,
         Raise(w) \/ \E e \in Evaluations : \E calls : Ask(w, e, calls)
  PROVE  AloneInv'
<1>1. /\ \A t \in Topics : Explains(history, t, mastery[t])
      /\ \A n \in Chapters \cup {Subject} : mastery[n] = Average(mastery, n)
      /\ \A v, x \in Workers : v # x => task[v] = Idle \/ task[x] = Idle
      /\ MasteryInv
  BY DEF AloneInv, WholeInv
<1>2. CASE Raise(w)
  <2>1. /\ UNCHANGED <<details, mastery, history, overlapped>>
        /\ Began(w) \/ Ended(w)
        /\ \A v \in Workers \ {w} : task'[v] = task[v]
        /\ task[w] = Idle => task'[w] = Idle
    BY <1>1, <1>2, NextIs DEF Raise, Began, Ended
  <2>2. CASE task[w] # Idle
    <3>1. \A v \in Workers \ {w} : task'[v] = Idle
      BY <1>1, <2>1, <2>2
    <3> QED BY <1>1, <2>1, <3>1, AloneAnew
  <2>3. CASE task[w] = Idle
    <3>1. \A v \in Workers : task'[v] = task[v]
      BY <2>1, <2>3
    <3>2. \A v \in Workers : SessionAlone(task[v], mastery, history)'
      <4>1. \A v \in Workers : SessionAlone(task[v], mastery, history)
        BY DEF AloneInv
      <4> QED BY <2>1, <3>1, <4>1
    <3>3. \A t \in Topics : Explains(history, t, mastery[t])'
      BY <1>1, <2>1
    <3>4. \A n \in Chapters \cup {Subject} : (mastery[n] = Average(mastery, n))'
      BY <1>1, <2>1
    <3>5. \A v, x \in Workers : v # x => task'[v] = Idle \/ task'[x] = Idle
      BY <1>1, <3>1
    <3> QED BY <3>2, <3>3, <3>4, <3>5 DEF AloneInv
  <2> QED BY <2>2, <2>3
<1>3. ASSUME NEW e \in Evaluations, NEW calls, Ask(w, e, calls) PROVE AloneInv'
  <2>0. Begin(w, e, calls) /\ UNCHANGED <<details, mastery, history>>
    BY <1>3 DEF Ask
  <2>1. /\ UNCHANGED <<details, mastery, history>>
        /\ Began(w)
        /\ \A v \in Workers \ {w} : task'[v] = task[v] /\ task[v] = Idle
    <3>1. Began(w)
      BY ZenonT(60), <1>1, <2>0, BeginIs DEF Began
    <3>2. \A v \in Workers \ {w} : task'[v] = task[v]
      BY <1>1, <2>0, BeginIs
    <3>3. \A v \in Workers : task[v] = Idle
      BY <1>1, <1>3 DEF Ask
    <3> QED BY <2>0, <3>1, <3>2, <3>3
  <2>2. /\ \A t \in Topics : Explains(history', t, mastery'[t])
        /\ \A n \in Chapters \cup {Subject} : mastery'[n] = Average(mastery', n)
    BY <1>1, <2>1
  <2> QED BY <2>1, <2>2, AloneAnew
<1> QED BY <1>2, <1>3

\* The invariant holds at the start.
LEMMA InitAlone == Init => AloneInv
<1> SUFFICES ASSUME Init PROVE AloneInv
  OBVIOUS
<1>1. WholeInv /\ history \in Seq(Entry)
  BY InitWhole DEF WholeInv, MasteryInv
<1>2. \A t \in Topics : Explains(history, t, mastery[t])
  <2>1. \A t \in Topics : PlacesOf(history, t) = {} /\ mastery[t] = NoRow
    BY NoRowTyped DEF Init, PlacesOf
  <2>2. ASSUME NEW t \in Topics PROVE Explains(history, t, mastery[t])
    BY <2>1, FS_EmptySet DEF Explains, NoRow
  <2> QED BY <2>2
<1>3. ASSUME NEW n \in Chapters \cup {Subject} PROVE mastery[n] = Average(mastery, n)
  <2>1. \A p \in PartsOf(n) : mastery[p].count = 0
    BY PartsAre, NoRowTyped DEF Init
  <2>2. {p \in PartsOf(n) : mastery[p].count > 0} = {}
    BY <2>1
  <2>3. Average(mastery, n) = NoRow
    BY <2>2 DEF Average
  <2> QED BY <2>3, NoRowTyped DEF Init
<1>4. \A w \in Workers : task[w] = Idle
  BY DEF Init
<1>5. \A w \in Workers : SessionAlone(task[w], mastery, history)
  BY <1>4 DEF SessionAlone
<1> QED BY <1>1, <1>2, <1>3, <1>4, <1>5 DEF AloneInv

\* Every step keeps it.
LEMMA StepAlone == AloneInv /\ [Next]_vars => AloneInv'
<1> SUFFICES ASSUME AloneInv, [Next]_vars PROVE AloneInv'
  OBVIOUS
<1>1. WholeInv /\ WholeInv' /\ MasteryInv
  BY StepWhole DEF AloneInv, WholeInv
<1>2. CASE overlapped'
  BY <1>1, <1>2 DEF AloneInv
<1>3. CASE ~overlapped' /\ UNCHANGED vars
  BY <1>1, <1>3 DEF vars, AloneInv
<1>4. CASE ~overlapped' /\ Next
  <2>1. ~overlapped
    BY <1>4 DEF Next, Remark, PublishCompleted, PostProcess, Ask, Process, ReadTopic, ApplyScore,
       FlushTopics, ReadParts, ReadNode, SaveNode, Commit, Fail, EndDeadlock, Raise
  <2>2. ASSUME NEW w \in Workers, PublishCompleted(w) \/ PostProcess(w) PROVE AloneInv'
    BY <1>1, <1>4, <2>1, <2>2, BetweenAlone DEF PublishCompleted, PostProcess
  <2>3. ASSUME NEW w \in Workers, Raise(w) PROVE AloneInv'
    BY <1>1, <1>4, <2>1, <2>3, BetweenAlone
  <2>4. ASSUME NEW w \in Workers, Process(w) PROVE AloneInv'
    <3>1. CASE ReadTopic(w)
      <4>1. OnlyTask(w) /\ task[w] # Idle
        BY <1>1, <3>1, ReadTopicIs, IdleStep
      <4> QED BY <1>1, <2>1, <3>1, <4>1, ReadTopicAlone, AloneStep
    <3>2. CASE ApplyScore(w) /\ ~Raise(w)
      <4>1. OnlyTask(w) /\ task[w].step = "apply"
        BY <1>1, <3>2, ApplyScoreIs
      <4>2. task[w] # Idle
        BY <4>1 DEF Idle
      <4> QED BY <1>1, <2>1, <3>2, <4>1, <4>2, ApplyScoreAlone, AloneStep
    <3>3. CASE FlushTopics(w)
      <4>1. OnlyTask(w) /\ task[w] # Idle /\ task'[w].sheet = task[w].sheet
            /\ task'[w].rows = task[w].rows /\ task'[w].loaded = task[w].loaded
            /\ task'[w].value = task[w].value
        BY <1>1, <3>3, FlushTopicsIs
      <4> QED BY <1>1, <2>1, <4>1, WritesAlone, AloneStep
    <3>4. CASE ReadParts(w)
      <4>1. OnlyTask(w) /\ task[w] # Idle
        BY <1>1, <3>4, ReadPartsIs
      <4> QED BY <1>1, <2>1, <3>4, <4>1, ReadPartsAlone, AloneStep
    <3>5. CASE ReadNode(w)
      <4>1. OnlyTask(w) /\ task[w] # Idle
        BY <1>1, <3>5, ReadNodeIs
      <4> QED BY <1>1, <2>1, <3>5, <4>1, ReadNodeAlone, AloneStep
    <3>6. CASE SaveNode(w) /\ ~Raise(w)
      <4>1. OnlyTask(w) /\ task[w] # Idle /\ task'[w].sheet = task[w].sheet
            /\ task'[w].rows = task[w].rows /\ task'[w].loaded = task[w].loaded
            /\ task'[w].value = task[w].value
        BY <1>1, <3>6, SaveNodeIs
      <4> QED BY <1>1, <2>1, <4>1, WritesAlone, AloneStep
    <3>7. CASE Commit(w)
      <4>1. /\ Began(w) \/ Ended(w)
            /\ \A v \in Workers \ {w} : task'[v] = task[v]
        BY <1>1, <3>7, NextIs DEF Commit, Began, Ended
      <4>2. /\ SessionAlone(task[w], mastery, history)
            /\ \A n \in Chapters \cup {Subject} : mastery[n] = Average(mastery, n)
            /\ \A v, x \in Workers : v # x => task[v] = Idle \/ task[x] = Idle
        BY <2>1 DEF AloneInv
      <4>3. task[w] # Idle
        BY <3>7 DEF Commit, Idle
      <4>4. \A v \in Workers \ {w} : task'[v] = Idle
        BY <4>1, <4>2, <4>3
      <4> QED BY <1>1, <3>7, <4>1, <4>2, <4>4, CommitAlone, AloneAnew
    <3> QED BY <2>3, <2>4, <3>1, <3>2, <3>3, <3>4, <3>5, <3>6, <3>7 DEF Process
  <2>5. ASSUME NEW w \in Workers, Fail(w) PROVE AloneInv'
    BY <2>3, <2>5 DEF Fail
  <2>6. CASE EndDeadlock
    BY <2>3, <2>6 DEF EndDeadlock
  <2>7. ASSUME NEW e \in Evaluations, Remark(e) PROVE AloneInv'
    BY <1>1, <2>7 DEF Remark, AloneInv
  <2> QED BY <1>4, <2>2, <2>4, <2>5, <2>6, <2>7 DEF Next
<1> QED BY <1>2, <1>3, <1>4

\* While no processing begins during another, the rows of a topic in the history form a
\* chain from 0 to its mastery, as many as it counts.
THEOREM HistoriesAreChains == Spec => []HistoryIsChain
<1>1. AloneInv => HistoryIsChain
  <2>1. \A t : HistoryOf(t) = PlacesOf(history, t)
    BY DEF HistoryOf, PlacesOf
  <2>2. ASSUME NEW t \in Topics, Explains(history, t, mastery[t])
        PROVE  LET h == HistoryOf(t)
               IN /\ \A i \in h : (\A j \in h : j >= i) => history[i].before = 0
                  /\ \A i, j \in h :
                       j < i /\ (\A k \in h : k <= j \/ k >= i) =>
                         history[i].before = history[j].after
                  /\ \A i \in h : (\A j \in h : j <= i) => mastery[t].score = history[i].after
                  /\ mastery[t].count = Cardinality(h)
                  /\ mastery[t].correct = Cardinality({i \in h : history[i].score = Full})
    BY Zenon, <2>1, <2>2 DEF Explains
  <2> QED BY <2>2 DEF AloneInv, HistoryIsChain
<1> QED BY <1>1, InitAlone, StepAlone, PTL DEF Spec

\* While no processing begins during another, the chapters and the subject are the
\* averages of their parts after every commit, and after every failure.
THEOREM AggregatesAverage == Spec => []AggregatesAreAverages
<1>1. AloneInv => AggregatesAreAverages
  BY DEF AloneInv, AggregatesAreAverages
<1> QED BY <1>1, InitAlone, StepAlone, PTL DEF Spec

=============================================================================
