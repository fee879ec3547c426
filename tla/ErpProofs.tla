------------------------------- MODULE ErpProofs -------------------------------
(***************************************************************************)
(* Proofs about module ErpSync, for any list of entity types, any records the  *)
(* ERP may serve, any size of page and any number of runs, errors and crashes. *)
(***************************************************************************)
EXTENDS ErpSync, SequenceTheorems, TLAPS

Steps == {"idle", "begin", "fetch", "asked", "answered", "item", "page", "mark", "finish",
          "next", "answer sent", "error sent"}

AnyRecord == UNION {Record(e) : e \in Entities}

RowOf(e) == [status : Statuses \ {"none"}, sync : {"SYNCED", "MISSING_IN_ERP"},
             parents : [Fks(e) \cap Entities -> Ids]] \cup {NoRow}

AnyRow == UNION {RowOf(e) : e \in Entities}

Log == [run : Nat, entity : Entities, status : {"SUCCESS", "PARTIAL", "FAILED"},
        finished : BOOLEAN]

View == {v \in [rows : [Entities -> [Ids -> AnyRow]],
                users : [Users -> {"none", "ACTIVE", "INACTIVE"}], logs : Seq(Log)] :
           \A e \in Entities, i \in Ids : v.rows[e][i] \in RowOf(e)}

Reply == [items : Seq(AnyRecord), total : Nat]

\* A page of the records of one entity type.
Serves(answer, e) == \A n \in DOMAIN answer.items : answer.items[n] \in Record(e)

Results == UNION {[D -> {"SKIPPED_NO_ERP", "FAILED", "SUCCESS", "PARTIAL"}] :
                    D \in SUBSET Entities}

Job == [step : Steps, todo : Seq(Entities), all : BOOLEAN, mode : Modes,
        endpoint : {"academic", "trigger"}, before : [Ids -> AnyRow] \cup {<<>>},
        view : View \cup {Idle.view}, log : Nat, page : Nat \ {0},
        attempt : 1 .. MaxRetries, answer : Reply, at : Nat, seen : SUBSET Ids,
        pulled : Nat, failed : Nat, poisoned : BOOLEAN, results : Results, clean : BOOLEAN]

\* The steps of the loop over the pages of an entity type.
Pulling == {"fetch", "asked", "answered", "item", "page", "mark"}

JobTyped ==
  /\ job \in Job
  /\ job.step # "idle" =>
       /\ job.view \in View /\ job.todo # <<>>
       /\ \A i, j \in DOMAIN job.todo : job.todo[i] = job.todo[j] => i = j
  /\ job.step \in {"asked", "answered", "item", "page"} => Serves(job.answer, Entity)
  /\ job.step = "item" => job.at \in DOMAIN job.answer.items
  /\ job.step \in Pulling \cup {"finish"} => job.log \in DOMAIN job.view.logs
  /\ job.failed <= job.pulled

Spent == [runs : Nat, changes : Nat, drops : Nat, errors : Nat, crashes : Nat]

CacheTyped ==
  \A k \in DOMAIN cache : /\ k \in Page /\ cache[k] \in Reply /\ cache[k].items # <<>>
                         /\ Serves(cache[k], k.e)

TypeInv ==
  /\ configured \in BOOLEAN /\ feed \in Feeds /\ db \in View
  /\ spent \in Spent
  /\ CacheTyped /\ JobTyped

\* A row was written in the session for each record that was noted as seen.
SeenInv ==
  /\ job.step \in Pulling => \A i \in job.seen : job.view.rows[Entity][i].sync = "SYNCED"
  /\ SeenAreWritten

Logged(logs, e) == \E n \in DOMAIN logs : logs[n].run = spent.runs /\ logs[n].entity = e

\* The entity types of sync_all that are still to come after this one.
Ahead == {job.todo[i] : i \in 2 .. Len(job.todo)}

\* The entity types the request is for.
Scope == IF job.all THEN Entities ELSE {Entity}

\* A request that is at no entity type any more, and one that has ended.
Past  == {"next", "answer sent", "error sent"}
Ended == {"answer sent", "error sent"}

\* Those that have a result.
Reported == Scope \ (Ahead \cup (IF job.step \in Past THEN {} ELSE {Entity}))

\* No log row is of a run to come.
RunsInv ==
  /\ \A n \in DOMAIN db.logs : db.logs[n].run <= spent.runs
  /\ job.step # "idle" =>
       \A n \in DOMAIN job.view.logs : job.view.logs[n].run <= spent.runs

\* How far a request has come: results, log rows of the session and committed ones.
RecordInv ==
  /\ job.step \in Pulling \cup {"finish"} => configured
  /\ job.step # "idle" =>
       /\ ~job.all \/ job.step \in Ended => Len(job.todo) = 1
       /\ DOMAIN job.results = Reported
       /\ \A e \in Reported : job.results[e] = "SKIPPED_NO_ERP" <=> ~configured
       /\ \A e \in Reported : Logged(job.view.logs, e) <=> job.results[e] # "FAILED"
       /\ configured => \A e \in Reported : Logged(db.logs, e) <=> Logged(job.view.logs, e)
       /\ ~configured /\ job.step # "answer sent" => \A e \in Reported : ~Logged(db.logs, e)
       /\ \A e \in Ahead : ~Logged(job.view.logs, e) /\ ~Logged(db.logs, e)
       /\ job.step = "begin" => ~Logged(job.view.logs, Entity) /\ ~Logged(db.logs, Entity)
       /\ job.step \in Pulling => Logged(job.view.logs, Entity) /\ ~Logged(db.logs, Entity)
       /\ job.step = "finish" => Logged(job.view.logs, Entity) /\ Logged(db.logs, Entity)
       /\ job.step = "answer sent" => db = job.view
       /\ job.step \in Ended =>
            (job.step = "error sent" <=> job.endpoint = "trigger" /\ Invalid(job.results))

\* An entity type of which no record was seen has its rows as they were.
BeforeInv ==
  job.step \in Pulling /\ job.seen = {} => job.view.rows[Entity] = job.before

\* The records of the entity type that come before a page.
Before(page) == (page - 1) * PageSize

\* The row the ERP's record asks for.
Mirrors(row, e, record) ==
  /\ row.sync = "SYNCED"
  /\ row.status = IF ~record.deleted THEN "ACTIVE"
                  ELSE IF e \in Persons THEN "INACTIVE" ELSE "DELETED"

\* Of the records of an entity type, the first n are seen and written, and no other is seen.
Follows(n, records, e, seen, rows) ==
  /\ n \in 0 .. Len(records)
  /\ seen = {records[i].id : i \in 1 .. n}
  /\ \A i \in 1 .. n : Mirrors(rows[records[i].id], e, records[i])

\* The first n records of the list were pulled.
Pulled(n) == Follows(n, feed[Entity], Entity, job.seen, job.view.rows[Entity])

\* Only an entity type that is being pulled has a transaction that failed.
PoisonInv == job.step \notin Pulling => ~job.poisoned

\* Without an error, a change of the ERP or an old page, the session follows the list.
FollowInv ==
  job.clean /\ job.failed = 0 =>
    /\ ~job.poisoned
    /\ job.step \in {"asked", "answered", "item", "page"} =>
         job.answer = PageOf(feed[Entity], job.page)
    /\ job.step \in {"fetch", "asked", "answered"} => Pulled(Before(job.page))
    /\ job.step = "item" => Pulled(Before(job.page) + job.at - 1)
    /\ job.step = "page" => Pulled(Before(job.page) + Len(job.answer.items))
    /\ job.step = "mark" => Pulled(Len(feed[Entity]))

-----------------------------------------------------------------------------
(* Lemmas about the operators of the model.                                  *)

\* Setting a result leaves results.
LEMMA ResultSet ==
  ASSUME NEW r \in Results, NEW e \in Entities,
         NEW value \in {"SKIPPED_NO_ERP", "FAILED", "SUCCESS", "PARTIAL"}
  PROVE  With(r, e, value) \in Results
<1>1. PICK D \in SUBSET Entities : r \in [D -> {"SKIPPED_NO_ERP", "FAILED", "SUCCESS", "PARTIAL"}]
  BY DEF Results
<1>2. With(r, e, value) \in [D \cup {e} -> {"SKIPPED_NO_ERP", "FAILED", "SUCCESS", "PARTIAL"}]
  BY <1>1 DEF With
<1>3. D \cup {e} \in SUBSET Entities
  OBVIOUS
<1> HIDE DEF Results
<1> QED BY <1>2, <1>3 DEF Results

\* Every entity type of the list is one, and it stands there once.
LEMMA OrderDistinct ==
  /\ Order \in Seq(Entities) /\ Order # <<>>
  /\ \A i, j \in DOMAIN Order : Order[i] = Order[j] => i = j
<1>1. Order \in Seq(Range(FullOrder)) /\ Order # <<>> /\ DOMAIN Order = 1 .. Len(Order)
      /\ Len(Order) \in Nat
  BY ConstantsAssumption, LenProperties
<1>2. \A i \in 1 .. Len(Order) : Order[i] \in Entities
  BY <1>1 DEF Entities, Range
<1>3. Order = [i \in 1 .. Len(Order) |-> Order[i]]
  BY <1>1, LenProperties
<1>4. Order \in Seq(Entities)
  BY <1>1, <1>2, <1>3, SeqDef
<1>5. \A k, l \in DOMAIN FullOrder : k < l => FullOrder[k] # FullOrder[l]
  BY DEF FullOrder
<1>6. ASSUME NEW i \in DOMAIN Order, NEW j \in DOMAIN Order, i < j PROVE Order[i] # Order[j]
  BY <1>5, <1>6, ConstantsAssumption
<1> QED BY <1>1, <1>4, <1>6

\* A view with another row of an entity type, and other users.
Put(view, e, i, row, users) ==
  [rows  |-> [view.rows EXCEPT ![e] = [view.rows[e] EXCEPT ![i] = row]],
   users |-> users,
   logs  |-> view.logs]

\* The columns of a view.
LEMMA ViewIs ==
  ASSUME NEW view \in View
  PROVE  /\ view = [rows |-> view.rows, users |-> view.users, logs |-> view.logs]
         /\ view.rows \in [Entities -> [Ids -> AnyRow]] /\ view.logs \in Seq(Log)
         /\ view.users \in [Users -> {"none", "ACTIVE", "INACTIVE"}]
         /\ \A e \in Entities, i \in Ids : view.rows[e][i] \in RowOf(e)
BY DEF View

\* A row of the table is put where it belongs.
LEMMA RowPut ==
  ASSUME NEW view \in View, NEW e \in Entities, NEW i \in Ids, NEW row \in RowOf(e),
         NEW users \in [Users -> {"none", "ACTIVE", "INACTIVE"}]
  PROVE  LET put == Put(view, e, i, row, users)
         IN  /\ put \in View /\ put.logs = view.logs /\ put.rows[e][i] = row
             /\ \A j \in Ids \ {i} : put.rows[e][j] = view.rows[e][j]
<1> DEFINE rows == [view.rows EXCEPT ![e] = [view.rows[e] EXCEPT ![i] = row]]
<1>1. /\ view.rows \in [Entities -> [Ids -> AnyRow]] /\ view.logs \in Seq(Log)
      /\ \A f \in Entities, j \in Ids : view.rows[f][j] \in RowOf(f)
  BY ViewIs
<1>2. row \in AnyRow
  BY DEF AnyRow
<1>3. /\ rows \in [Entities -> [Ids -> AnyRow]] /\ rows[e][i] = row
      /\ \A j \in Ids \ {i} : rows[e][j] = view.rows[e][j]
      /\ \A f \in Entities \ {e} : rows[f] = view.rows[f]
  BY <1>1, <1>2
<1>4. \A f \in Entities, j \in Ids : rows[f][j] \in RowOf(f)
  BY <1>1, <1>3
<1> HIDE DEF rows
<1>5. Put(view, e, i, row, users) = [rows |-> rows, users |-> users, logs |-> view.logs]
  BY DEF Put, rows
<1>6. Put(view, e, i, row, users) \in View
  BY <1>1, <1>3, <1>4, <1>5 DEF View
<1> QED BY <1>3, <1>5, <1>6

\* A record that the database does not refuse becomes a row of the table, its parents
\* resolved or kept, as the ERP has it; the other rows of the entity type stay.
LEMMA RowWritten ==
  ASSUME NEW view \in View, NEW e \in Entities, NEW item \in Record(e),
         ~Refused(view, e, item)
  PROVE  /\ Upserted(view, e, item) \in View
         /\ Upserted(view, e, item).logs = view.logs
         /\ \A i \in Ids \ {item.id} :
              Upserted(view, e, item).rows[e][i] = view.rows[e][i]
         /\ Mirrors(Upserted(view, e, item).rows[e][item.id], e, item)
<1>1. /\ item.id \in Ids /\ item.parents \in [Fks(e) \cap Entities -> Ids]
      /\ item.deleted \in BOOLEAN
  BY DEF Record
<1>2. view.rows[e][item.id] \in RowOf(e) /\ view.users \in [Users -> {"none", "ACTIVE", "INACTIVE"}]
  BY <1>1 DEF View
<1>3. CASE e \notin Persons
  <2> DEFINE row == TreeRow(view, e, item)
  <2>1. \A p \in Fks(e) \cap Entities : row.parents[p] # "none"
    BY <1>3 DEF Refused
  <2>2. ASSUME NEW p \in Fks(e) \cap Entities PROVE row.parents[p] \in Ids
    <3>1. row.parents[p] = IF Resolved(view, p, item.parents[p]) THEN item.parents[p]
                           ELSE IF view.rows[e][item.id] = NoRow THEN "none"
                           ELSE view.rows[e][item.id].parents[p]
      BY DEF TreeRow
    <3>2. view.rows[e][item.id] # NoRow => view.rows[e][item.id].parents[p] \in Ids
      BY <1>2 DEF RowOf
    <3> QED BY <1>1, <2>1, <3>1, <3>2
  <2>3. row.parents \in [Fks(e) \cap Entities -> Ids]
    BY <2>2 DEF TreeRow
  <2>4. row = [status |-> IF item.deleted THEN "DELETED" ELSE "ACTIVE", sync |-> "SYNCED",
               parents |-> row.parents]
    BY DEF TreeRow
  <2> HIDE DEF row
  <2>5. row \in RowOf(e) /\ Mirrors(row, e, item)
    BY <1>3, <2>3, <2>4 DEF RowOf, Statuses, Mirrors
  <2>6. Upserted(view, e, item) = [view EXCEPT !.rows[e][item.id] = row]
    BY <1>3 DEF Upserted, row
  <2>7. Upserted(view, e, item) = Put(view, e, item.id, row, view.users)
    BY <2>6, ViewIs DEF Put
  <2> QED BY <1>1, <1>2, <2>5, <2>7, RowPut
<1>4. CASE e \in Persons
  <2> DEFINE row == PersonRow(item)
             users == IF item.user = "none" THEN view.users
                      ELSE [view.users EXCEPT ![item.user] = UserStatus(view, item)]
  <2>1. Fks(e) \cap Entities = {}
    BY <1>4 DEF Fks, Persons
  <2>2. NoRow.parents \in [Fks(e) \cap Entities -> Ids]
    BY <2>1 DEF NoRow
  <2>3. row = [status |-> IF item.deleted THEN "INACTIVE" ELSE "ACTIVE", sync |-> "SYNCED",
               parents |-> NoRow.parents]
    BY DEF PersonRow
  <2>4. users \in [Users -> {"none", "ACTIVE", "INACTIVE"}]
    BY <1>2 DEF UserStatus
  <2>5. Upserted(view, e, item) = Put(view, e, item.id, row, users)
    <3>1. Upserted(view, e, item) = [view EXCEPT !.rows[e][item.id] = row, !.users = users]
      BY <1>4, ViewIs DEF Upserted
    <3> HIDE DEF row, users
    <3> QED BY <3>1, ViewIs DEF Put
  <2> HIDE DEF row, users
  <2>6. row \in RowOf(e) /\ Mirrors(row, e, item)
    BY <1>4, <2>2, <2>3 DEF RowOf, Statuses, Mirrors
  <2> QED BY <1>1, <2>4, <2>5, <2>6, RowPut
<1> QED BY <1>3, <1>4

\* What _mark_missing leaves of the rows of an entity type.
LEMMA Marked ==
  ASSUME NEW view \in View, NEW e \in Entities, NEW seen
  PROVE  LET after == [view EXCEPT !.rows[e] = Missing(@, seen)]
         IN  /\ after \in View /\ after.logs = view.logs
             /\ \A i \in Ids \cap seen : after.rows[e][i] = view.rows[e][i]
             /\ \A i \in Ids \ seen : \/ after.rows[e][i].sync # "SYNCED"
                                     \/ after.rows[e][i].status = "DELETED"
<1> DEFINE marked == Missing(view.rows[e], seen)
           after == [view EXCEPT !.rows[e] = Missing(@, seen)]
<1>1. \A i \in Ids : view.rows[e][i] \in RowOf(e)
  BY DEF View
<1>2. ASSUME NEW i \in Ids
      PROVE  /\ marked[i] \in RowOf(e)
             /\ i \in seen => marked[i] = view.rows[e][i]
             /\ i \notin seen => marked[i].sync # "SYNCED" \/ marked[i].status = "DELETED"
  <2> DEFINE row == view.rows[e][i]
  <2>1. marked[i] = IF i \notin seen /\ row.sync = "SYNCED" /\ row.status # "DELETED"
                    THEN [row EXCEPT !.sync = "MISSING_IN_ERP"] ELSE row
    BY DEF Missing
  <2>2. row \in RowOf(e) /\ (row.sync = "SYNCED" => row # NoRow)
    BY <1>1 DEF NoRow
  <2> HIDE DEF row
  <2>3. row.sync = "SYNCED" => [row EXCEPT !.sync = "MISSING_IN_ERP"] \in RowOf(e)
                               /\ [row EXCEPT !.sync = "MISSING_IN_ERP"].sync # "SYNCED"
    BY <2>2 DEF RowOf
  <2> QED BY <2>1, <2>2, <2>3 DEF row
<1>3. marked \in [Ids -> AnyRow]
  <2>1. \A i \in Ids : marked[i] \in AnyRow
    BY <1>2 DEF AnyRow
  <2> QED BY <2>1 DEF Missing
<1>4. after.rows = [view.rows EXCEPT ![e] = marked] /\ after.logs = view.logs
      /\ after = [rows |-> after.rows, users |-> view.users, logs |-> view.logs]
  BY DEF View
<1> HIDE DEF marked
<1>5. after.rows \in [Entities -> [Ids -> AnyRow]] /\ after.rows[e] = marked
      /\ \A f \in Entities \ {e} : after.rows[f] = view.rows[f]
  BY <1>3, <1>4 DEF View
<1> HIDE DEF after
<1>6. after \in View
  BY <1>2, <1>4, <1>5 DEF View
<1> QED BY <1>2, <1>4, <1>5, <1>6 DEF after

-----------------------------------------------------------------------------
(* Types.                                                                    *)

\* The request that is not there.
LEMMA IdleTyped ==
  Idle \in Job /\ Idle.step = "idle" /\ Idle.failed = 0 /\ Idle.pulled = 0
<1>1. NoAnswer \in Reply
  BY EmptySeq DEF NoAnswer, Reply
<1>2. [e \in {} |-> "none"] \in Results
  <2>1. [e \in {} |-> "none"] \in [{} -> {"SKIPPED_NO_ERP", "FAILED", "SUCCESS", "PARTIAL"}]
    OBVIOUS
  <2> QED BY <2>1 DEF Results
<1>3. <<>> \in Seq(Entities)
  BY EmptySeq
<1> QED BY <1>1, <1>2, <1>3 DEF Idle, Job, Steps, Modes, MaxRetries

\* A request that is over.
LEMMA OverTyped ==
  ASSUME job' = Idle
  PROVE  JobTyped'
<1>1. job'.step = "idle" /\ job' \in Job /\ job'.failed = 0 /\ job'.pulled = 0
  BY IdleTyped
<1> QED BY <1>1 DEF JobTyped, Pulling

\* A page of a list is a reply, with that list's records.
LEMMA PageTyped ==
  ASSUME NEW e \in Entities, NEW records \in Seq(Record(e)), NEW page \in Nat \ {0}
  PROVE  /\ PageOf(records, page) \in Reply /\ Serves(PageOf(records, page), e)
         /\ LET last == IF Before(page) + PageSize < Len(records)
                        THEN Before(page) + PageSize ELSE Len(records)
                items == PageOf(records, page).items
            IN /\ PageOf(records, page).total = Len(records)
               /\ Len(items) = IF Before(page) + 1 <= last THEN last - Before(page) ELSE 0
               /\ DOMAIN items = 1 .. Len(items)
               /\ \A i \in 1 .. Len(items) : items[i] = records[Before(page) + i]
         /\ Before(page) \in Nat /\ Before(page + 1) = Before(page) + PageSize
         /\ page * PageSize = Before(page) + PageSize
<1>1. PageSize \in Nat \ {0}
  BY ConstantsAssumption
<1>2. /\ (page - 1) * PageSize \in Nat /\ page * PageSize = (page - 1) * PageSize + PageSize
      /\ (page + 1 - 1) * PageSize = page * PageSize
  BY <1>1
<1> DEFINE o == (page - 1) * PageSize
           last == IF o + PageSize < Len(records) THEN o + PageSize ELSE Len(records)
           items == SubSeq(records, o + 1, last)
<1>3. Before(page) = o /\ Before(page + 1) = o + PageSize /\ o \in Nat
  BY <1>2 DEF Before
<1>4. PageOf(records, page) = [items |-> items, total |-> Len(records)]
  BY <1>2 DEF PageOf
<1> HIDE DEF o
<1>5. Len(records) \in Nat /\ last \in Int /\ o + 1 \in Int /\ last <= Len(records)
  BY <1>1, <1>3, LenProperties
<1>6. \A i \in o + 1 .. last : records[i] \in Record(e)
  BY <1>3, <1>5, ElementOfSeq
<1> HIDE DEF last
<1>7. /\ items \in Seq(Record(e))
      /\ Len(items) = IF o + 1 <= last THEN last - (o + 1) + 1 ELSE 0
      /\ \A i \in 1 .. last - (o + 1) + 1 : items[i] = records[o + 1 + i - 1]
  BY <1>5, <1>6, SubSeqProperties
<1> HIDE DEF items
<1>8. DOMAIN items = 1 .. Len(items) /\ \A i \in 1 .. Len(items) : items[i] \in Record(e)
  BY <1>7, LenProperties, ElementOfSeq
<1>9. items \in Seq(AnyRecord)
  <2>1. items = [i \in 1 .. Len(items) |-> items[i]] /\ Len(items) \in Nat
    BY <1>7, LenProperties
  <2>2. \A i \in 1 .. Len(items) : items[i] \in AnyRecord
    BY <1>8 DEF AnyRecord
  <2> QED BY <2>1, <2>2, SeqDef
<1>10. Len(items) = (IF o + 1 <= last THEN last - o ELSE 0)
       /\ \A i \in 1 .. Len(items) : items[i] = records[o + i]
  BY <1>3, <1>5, <1>7
<1> QED BY <1>2, <1>3, <1>4, <1>5, <1>8, <1>9, <1>10 DEF Reply, Serves, last, o

\* The columns of a request.
LEMMA JobIs ==
  ASSUME TypeInv
  PROVE  /\ job.step \in Steps /\ job.todo \in Seq(Entities) /\ job.all \in BOOLEAN
         /\ job.mode \in Modes /\ job.log \in Nat /\ job.page \in Nat \ {0}
         /\ job.attempt \in 1 .. MaxRetries /\ job.answer \in Reply /\ job.at \in Nat
         /\ job.seen \in SUBSET Ids /\ job.pulled \in Nat /\ job.failed \in Nat
         /\ job.poisoned \in BOOLEAN /\ job.results \in Results /\ job.clean \in BOOLEAN
         /\ job.endpoint \in {"academic", "trigger"}
         /\ job.step # "idle" => /\ job.view \in View /\ Entity \in Entities
                                /\ DOMAIN job.todo = 1 .. Len(job.todo) /\ Len(job.todo) >= 1
<1>1. job \in Job /\ (job.step # "idle" => job.view \in View /\ job.todo # <<>>)
  BY DEF TypeInv, JobTyped
<1>2. job.todo \in Seq(Entities)
  BY <1>1 DEF Job
<1>3. job.todo # <<>> => Entity \in Entities /\ DOMAIN job.todo = 1 .. Len(job.todo)
                         /\ Len(job.todo) >= 1
  BY <1>2, ElementOfSeq, LenProperties, EmptySeq DEF Entity
<1> QED BY <1>1, <1>2, <1>3 DEF Job

\* A request that goes on in the loop over the pages, with the same view.
LEMMA LoopTyped ==
  ASSUME TypeInv, job.step \in Pulling, job' \in Job,
         job'.step \in Pulling, job'.todo = job.todo, job'.view = job.view, job'.log = job.log,
         job'.failed = job.failed, job'.pulled = job.pulled,
         job'.step \in {"asked", "answered", "item", "page"} => Serves(job'.answer, Entity),
         job'.step = "item" => job'.at \in DOMAIN job'.answer.items
  PROVE  JobTyped'
BY DEF TypeInv, JobTyped, Pulling, Entity

\* A request comes.
LEMMA RequestIs ==
  ASSUME TypeInv, Request
  PROVE  /\ JobTyped' /\ job'.step = "begin" /\ job'.view = db /\ ~job'.poisoned
         /\ job.step = "idle" /\ spent'.runs = spent.runs + 1 /\ spent' \in Spent
         /\ UNCHANGED <<configured, feed, cache, db>>
         /\ job'.results = [e \in {} |-> "none"]
         /\ IF job'.all THEN job'.todo = Order ELSE Len(job'.todo) = 1
<1>1. PICK mode \in Modes, todo \in {Order} \cup {<<e>> : e \in Entities},
           endpoint \in {"academic", "trigger"} :
        job' = NewJob(endpoint, mode, todo)
  BY DEF Request
<1>2. /\ todo \in Seq(Entities) /\ todo # <<>>
      /\ \A i, j \in DOMAIN todo : todo[i] = todo[j] => i = j
      /\ todo # Order => Len(todo) = 1
  <2>1. CASE todo = Order
    BY <2>1, OrderDistinct
  <2>2. ASSUME NEW e \in Entities, todo = <<e>>
        PROVE  todo \in Seq(Entities) /\ todo # <<>> /\ DOMAIN todo = {1} /\ Len(todo) = 1
    BY <2>2
  <2> QED BY <1>1, <2>1, <2>2
<1>3. db \in View /\ spent.runs \in Nat
  BY DEF TypeInv, Spent
<1>4. /\ job' \in Job /\ job'.step = "begin" /\ job'.todo = todo /\ job'.view = db
      /\ job'.failed = 0 /\ job'.pulled = 0 /\ (job'.all <=> todo = Order)
  BY <1>1, <1>2, <1>3, IdleTyped DEF NewJob, Job, Steps
<1>5. job'.poisoned = FALSE /\ job'.results = [e \in {} |-> "none"]
  BY <1>1 DEF NewJob, Idle
<1>6. JobTyped'
  BY <1>2, <1>3, <1>4 DEF JobTyped, Pulling
<1>7. /\ spent'.runs = spent.runs + 1 /\ spent' \in Spent /\ job.step = "idle"
      /\ UNCHANGED <<configured, feed, cache, db>>
  BY DEF Request, TypeInv, Spent
<1>8. IF job'.all THEN job'.todo = Order ELSE Len(job'.todo) = 1
  BY <1>2, <1>4
<1> QED BY <1>4, <1>5, <1>6, <1>7, <1>8

\* A run is entered in the log.
LEMMA BeginIs ==
  ASSUME TypeInv, Begin
  PROVE  /\ job.step = "begin" /\ JobTyped'
         /\ UNCHANGED <<configured, feed, cache, db, spent>>
         /\ job'.todo = job.todo /\ job'.all = job.all /\ job'.poisoned = job.poisoned
         /\ job'.view.rows = job.view.rows
         /\ LET last == Len(job.view.logs) + 1
            IN /\ DOMAIN job'.view.logs = DOMAIN job.view.logs \cup {last}
               /\ job'.view.logs[last].run = spent.runs
               /\ job'.view.logs[last].entity = Entity
               /\ \A n \in DOMAIN job.view.logs : job'.view.logs[n] = job.view.logs[n]
         /\ configured => /\ job'.step = "fetch" /\ job'.results = job.results
                          /\ job'.seen = {} /\ job'.page = 1
                          /\ job'.before = job.view.rows[Entity]
         /\ ~configured => /\ job'.step = "next"
                           /\ job'.results = With(job.results, Entity, "SKIPPED_NO_ERP")
<1> DEFINE logs == Append(job.view.logs, NewLog)
           last == Len(job.view.logs) + 1
           before == job.view.rows[Entity]
<1>1. /\ job \in Job /\ job.step = "begin" /\ job.view \in View /\ Entity \in Entities
      /\ job.todo # <<>> /\ \A i, j \in DOMAIN job.todo : job.todo[i] = job.todo[j] => i = j
      /\ job.failed <= job.pulled /\ UNCHANGED <<configured, feed, cache, db, spent>>
  BY JobIs DEF Begin, TypeInv, JobTyped
<1>2. NewLog \in Log /\ NewLog.run = spent.runs /\ NewLog.entity = Entity
  BY <1>1 DEF NewLog, Log, TypeInv, Spent
<1>3. /\ logs \in Seq(Log) /\ Len(logs) = last /\ last \in DOMAIN logs /\ last \in Nat
      /\ DOMAIN logs = DOMAIN job.view.logs \cup {last} /\ last \notin DOMAIN job.view.logs
      /\ logs[last].run = spent.runs /\ logs[last].entity = Entity
      /\ \A n \in DOMAIN job.view.logs : logs[n] = job.view.logs[n]
  <2>1. job.view.logs \in Seq(Log) /\ Len(job.view.logs) \in Nat
        /\ DOMAIN job.view.logs = 1 .. Len(job.view.logs)
    BY <1>1, ViewIs, LenProperties
  <2>2. logs \in Seq(Log) /\ Len(logs) = last /\ logs[last] = NewLog
        /\ \A n \in 1 .. Len(job.view.logs) : logs[n] = job.view.logs[n]
    BY <1>2, <2>1, AppendProperties
  <2> HIDE DEF logs
  <2>3. DOMAIN logs = 1 .. last
    BY <2>1, <2>2, LenProperties
  <2> QED BY <1>2, <2>1, <2>2, <2>3
<1>0. before \in [Ids -> AnyRow]
  BY <1>1 DEF View
<1> HIDE DEF logs, last, before
<1>4. CASE configured
  <2>1. job' = [job EXCEPT !.step = "fetch", !.view.logs = logs, !.log = last,
                           !.page = 1, !.attempt = 1, !.seen = {}, !.pulled = 0,
                           !.failed = 0, !.clean = TRUE, !.before = before]
    BY <1>3, <1>4 DEF Begin, logs, before
  <2> DEFINE view == [job.view EXCEPT !.logs = logs]
  <2>2. view \in View /\ view.logs = logs /\ view.rows = job.view.rows
    BY <1>1, <1>3, ViewIs DEF View
  <2>3. job' = [job EXCEPT !.step = "fetch", !.view = view, !.log = last,
                           !.page = 1, !.attempt = 1, !.seen = {}, !.pulled = 0,
                           !.failed = 0, !.clean = TRUE, !.before = before]
    BY <1>1, <2>1 DEF Job
  <2> HIDE DEF view
  <2>4. /\ job'.step = "fetch" /\ job'.view = view /\ job'.log = last
        /\ job'.failed = 0 /\ job'.pulled = 0 /\ job'.todo = job.todo
        /\ job'.all = job.all /\ job'.poisoned = job.poisoned
        /\ job'.results = job.results /\ job'.seen = {} /\ job'.page = 1
        /\ job'.before = before
    BY <1>1, <2>3 DEF Job
  <2>5. {} \in SUBSET Ids /\ 1 \in 1 .. MaxRetries /\ 1 \in Nat \ {0} /\ 0 \in Nat
    BY DEF MaxRetries
  <2>6. job' \in Job
    BY <1>0, <1>1, <1>3, <2>2, <2>3, <2>5 DEF Job, Steps
  <2>7. JobTyped'
    BY <1>1, <1>3, <2>2, <2>4, <2>6 DEF JobTyped, Pulling
  <2> QED BY <1>1, <1>3, <1>4, <2>2, <2>4, <2>7 DEF last, before
<1>5. CASE ~configured
  <2> DEFINE marked == [logs EXCEPT ![last].status = "FAILED", ![last].finished = TRUE]
             entry == [[logs[last] EXCEPT !.status = "FAILED"] EXCEPT !.finished = TRUE]
             view == [job.view EXCEPT !.logs = marked]
             results == With(job.results, Entity, "SKIPPED_NO_ERP")
  <2>1. job' = [job EXCEPT !.step = "next", !.view.logs = marked, !.results = results]
    BY <1>3, <1>5 DEF Begin, logs
  <2>2. logs[last] \in Log /\ DOMAIN logs = 1 .. Len(logs)
    BY <1>3, ElementOfSeq, LenProperties
  <2>3. entry \in Log /\ entry.run = logs[last].run /\ entry.entity = logs[last].entity
    BY <2>2 DEF Log
  <2>4. marked = [logs EXCEPT ![last] = entry]
    BY <1>3
  <2> HIDE DEF marked, entry
  <2>5. marked \in Seq(Log)
    BY <1>3, <2>3, <2>4, ExceptSeq
  <2>6. /\ DOMAIN marked = DOMAIN logs /\ marked[last].run = spent.runs
        /\ marked[last].entity = Entity
        /\ \A n \in DOMAIN job.view.logs : marked[n] = job.view.logs[n]
    BY <1>3, <2>3, <2>4
  <2>7. view \in View /\ view.logs = marked /\ view.rows = job.view.rows
    BY <1>1, <2>5, ViewIs DEF View
  <2>8. results \in Results
    BY <1>1, JobIs, ResultSet
  <2> HIDE DEF results
  <2>9. job' = [job EXCEPT !.step = "next", !.view = view, !.results = results]
    BY <1>1, <2>1 DEF Job
  <2> HIDE DEF view
  <2>10. /\ job' \in Job /\ job'.step = "next" /\ job'.view = view
         /\ job'.failed = job.failed /\ job'.pulled = job.pulled /\ job'.todo = job.todo
         /\ job'.all = job.all /\ job'.poisoned = job.poisoned /\ job'.results = results
    BY <1>1, <2>7, <2>8, <2>9 DEF Job, Steps
  <2>11. JobTyped'
    BY <1>1, <2>7, <2>10 DEF JobTyped, Pulling
  <2> QED BY <1>1, <1>3, <1>5, <2>6, <2>7, <2>10, <2>11 DEF last, results
<1> QED BY <1>4, <1>5

\* The steps of the loop over the pages that leave the view alone.
LEMMA PageStepTyped ==
  ASSUME TypeInv
  PROVE  FetchCached \/ Ask \/ Answer \/ AnswerError \/ Receive \/ AfterPage =>
           JobTyped' /\ CacheTyped'
<1>1. /\ job \in Job /\ CacheTyped /\ feed \in Feeds
      /\ job.step \in {"asked", "answered", "item", "page"} => Serves(job.answer, Entity)
  BY DEF TypeInv, JobTyped
<1>2. CacheTyped' \/ cache' # cache
  BY <1>1 DEF CacheTyped
<1>3. NoAnswer \in Reply /\ \A e : Serves(NoAnswer, e)
  BY EmptySeq DEF NoAnswer, Reply, Serves
<1>4. ASSUME FetchCached PROVE JobTyped' /\ CacheTyped'
  <2>1. cache[Key] \in Reply /\ Serves(cache[Key], Entity)
    BY <1>1, <1>4 DEF FetchCached, CacheTyped, Key
  <2>2. job' = [job EXCEPT !.step = "answered", !.answer = cache[Key], !.clean = FALSE]
        /\ job.step = "fetch" /\ UNCHANGED cache
    BY <1>4 DEF FetchCached
  <2>3. job' \in Job
    BY <1>1, <2>1, <2>2 DEF Job, Steps
  <2>4. /\ job'.step = "answered" /\ job'.todo = job.todo /\ job'.view = job.view
        /\ job'.log = job.log /\ job'.failed = job.failed /\ job'.pulled = job.pulled
        /\ job'.answer = cache[Key]
    BY <1>1, <2>2 DEF Job
  <2> QED BY <1>2, <2>1, <2>2, <2>3, <2>4, LoopTyped DEF Pulling
<1>5. ASSUME Ask PROVE JobTyped' /\ CacheTyped'
  <2> DEFINE answer == PageOf(feed[Entity], job.page)
  <2>1. job' = [job EXCEPT !.step = "asked", !.answer = answer]
        /\ job.step = "fetch" /\ UNCHANGED cache
    BY <1>5 DEF Ask
  <2>2. answer \in Reply /\ Serves(answer, Entity)
    BY <1>1, <2>1, JobIs, PageTyped, ConstantsAssumption
  <2> HIDE DEF answer
  <2>3. job' \in Job
    BY <1>1, <2>1, <2>2 DEF Job, Steps
  <2>4. /\ job'.step = "asked" /\ job'.todo = job.todo /\ job'.view = job.view
        /\ job'.log = job.log /\ job'.failed = job.failed /\ job'.pulled = job.pulled
        /\ job'.answer = answer
    BY <1>1, <2>1 DEF Job
  <2> QED BY <1>2, <2>1, <2>2, <2>3, <2>4, LoopTyped DEF Pulling
<1>6. ASSUME Answer PROVE JobTyped' /\ CacheTyped'
  <2>1. job' = [job EXCEPT !.step = "answered"] /\ job.step = "asked"
        /\ cache' = IF job.answer.items = <<>> THEN cache ELSE With(cache, Key, job.answer)
    BY <1>6 DEF Answer
  <2>2. job' \in Job
    BY <1>1, <2>1 DEF Job, Steps
  <2>3. /\ job'.step = "answered" /\ job'.todo = job.todo /\ job'.view = job.view
        /\ job'.log = job.log /\ job'.failed = job.failed /\ job'.pulled = job.pulled
        /\ job'.answer = job.answer
    BY <1>1, <2>1 DEF Job
  <2>4. CacheTyped'
    <3>1. Key \in Page /\ Key.e = Entity /\ job.answer \in Reply
      BY <2>1, JobIs DEF Key, Page
    <3>2. CASE job.answer.items = <<>>
      BY <1>2, <2>1, <3>2
    <3>3. CASE job.answer.items # <<>>
      <4>2. cache' = With(cache, Key, job.answer)
        BY <2>1, <3>3
      <4>1. /\ DOMAIN cache' = DOMAIN cache \cup {Key} /\ cache'[Key] = job.answer
            /\ \A k \in DOMAIN cache \ {Key} : cache'[k] = cache[k]
        BY <4>2 DEF With
      <4> QED BY <1>1, <2>1, <3>1, <3>3, <4>1 DEF CacheTyped
    <3> QED BY <3>2, <3>3
  <2> QED BY <1>1, <2>1, <2>2, <2>3, <2>4, LoopTyped DEF Pulling
<1>7. ASSUME AnswerError PROVE JobTyped' /\ CacheTyped'
  <2>1. job' = [job EXCEPT !.step = "answered", !.answer = NoAnswer, !.clean = FALSE]
        /\ job.step = "asked" /\ UNCHANGED cache
    BY <1>7 DEF AnswerError
  <2>2. job' \in Job
    BY <1>1, <1>3, <2>1 DEF Job, Steps
  <2>3. /\ job'.step = "answered" /\ job'.todo = job.todo /\ job'.view = job.view
        /\ job'.log = job.log /\ job'.failed = job.failed /\ job'.pulled = job.pulled
        /\ job'.answer = NoAnswer
    BY <1>1, <2>1 DEF Job
  <2> QED BY <1>2, <1>3, <2>1, <2>2, <2>3, LoopTyped DEF Pulling
<1>8. ASSUME Receive PROVE JobTyped' /\ CacheTyped'
  <2>1. job.step = "answered" /\ UNCHANGED cache
    BY <1>8 DEF Receive
  <2>2. CASE job.answer.items # <<>>
    <3>1. job' = [job EXCEPT !.step = "item", !.at = 1]
      BY <1>8, <2>2 DEF Receive
    <3>2. 1 \in DOMAIN job.answer.items
      BY <2>2, JobIs, LenProperties, EmptySeq DEF Reply
    <3>3. job' \in Job
      BY <1>1, <3>1 DEF Job, Steps
    <3>4. /\ job'.step = "item" /\ job'.todo = job.todo /\ job'.view = job.view
          /\ job'.log = job.log /\ job'.failed = job.failed /\ job'.pulled = job.pulled
          /\ job'.answer = job.answer /\ job'.at = 1
      BY <1>1, <3>1 DEF Job
    <3> QED BY <1>1, <1>2, <2>1, <3>2, <3>3, <3>4, LoopTyped DEF Pulling
  <2>3. CASE ~(job.answer.items # <<>>) /\ job.answer.total > 0 /\ job.attempt < MaxRetries
    <3>1. job' = [job EXCEPT !.step = "fetch", !.attempt = job.attempt + 1]
      BY <1>8, <2>3 DEF Receive
    <3>2. job.attempt + 1 \in 1 .. MaxRetries
      BY <2>3, JobIs DEF MaxRetries
    <3>3. job' \in Job
      BY <1>1, <3>1, <3>2 DEF Job, Steps
    <3>4. /\ job'.step = "fetch" /\ job'.todo = job.todo /\ job'.view = job.view
          /\ job'.log = job.log /\ job'.failed = job.failed /\ job'.pulled = job.pulled
      BY <1>1, <3>1 DEF Job
    <3> QED BY <1>2, <2>1, <3>3, <3>4, LoopTyped DEF Pulling
  <2>4. CASE ~(job.answer.items # <<>>) /\ ~(job.answer.total > 0 /\ job.attempt < MaxRetries)
    <3>1. job' = [job EXCEPT !.step = "mark"]
      BY <1>8, <2>4 DEF Receive
    <3>2. job' \in Job
      BY <1>1, <3>1 DEF Job, Steps
    <3>3. /\ job'.step = "mark" /\ job'.todo = job.todo /\ job'.view = job.view
          /\ job'.log = job.log /\ job'.failed = job.failed /\ job'.pulled = job.pulled
      BY <1>1, <3>1 DEF Job
    <3> QED BY <1>2, <2>1, <3>2, <3>3, LoopTyped DEF Pulling
  <2> QED BY <2>2, <2>3, <2>4
<1>9. ASSUME AfterPage PROVE JobTyped' /\ CacheTyped'
  <2>1. job.step = "page" /\ UNCHANGED cache
        /\ \/ job' = [job EXCEPT !.step = "mark"]
           \/ job' = [job EXCEPT !.step = "fetch", !.page = @ + 1, !.attempt = 1]
    BY <1>9 DEF AfterPage
  <2>2. job.page + 1 \in Nat \ {0} /\ 1 \in 1 .. MaxRetries
    BY JobIs DEF MaxRetries
  <2>3. job' \in Job
    <3>1. CASE job' = [job EXCEPT !.step = "mark"]
      BY <1>1, <3>1 DEF Job, Steps
    <3>2. CASE job' = [job EXCEPT !.step = "fetch", !.page = job.page + 1, !.attempt = 1]
      <4> DEFINE page == job.page + 1
      <4>1. job' = [job EXCEPT !.step = "fetch", !.page = page, !.attempt = 1]
        BY <3>2
      <4> HIDE DEF page
      <4> QED BY <1>1, <2>2, <4>1 DEF Job, Steps, page
    <3> QED BY <2>1, <3>1, <3>2
  <2>4. /\ job'.step \in {"mark", "fetch"} /\ job'.todo = job.todo /\ job'.view = job.view
        /\ job'.log = job.log /\ job'.failed = job.failed /\ job'.pulled = job.pulled
    BY <1>1, <2>1 DEF Job
  <2> QED BY <1>2, <2>1, <2>3, <2>4, LoopTyped DEF Pulling
<1> QED BY <1>4, <1>5, <1>6, <1>7, <1>8, <1>9

\* The session takes the record over.
Good == ~job.poisoned /\ Item.fault # "date" /\ ~Refused(job.view, Entity, Item)

\* What the upsert of one record does to the request.
LEMMA UpsertIs ==
  ASSUME TypeInv, Upsert
  PROVE  /\ job.step = "item" /\ Item \in Record(Entity) /\ job' \in Job
         /\ UNCHANGED <<configured, feed, cache, db, spent>>
         /\ job'.view = IF Good THEN Upserted(job.view, Entity, Item) ELSE job.view
         /\ job'.seen = IF Good THEN job.seen \cup {Item.id} ELSE job.seen
         /\ job'.failed = IF Good THEN job.failed ELSE job.failed + 1
         /\ job'.poisoned = (job.poisoned \/ (~Good /\ Item.fault # "date"))
         /\ job'.pulled = job.pulled + 1 /\ job'.at = job.at + 1
         /\ job'.step = IF job.at = Len(job.answer.items) THEN "page" ELSE "item"
         /\ job'.todo = job.todo /\ job'.all = job.all /\ job'.mode = job.mode
         /\ job'.log = job.log /\ job'.page = job.page /\ job'.answer = job.answer
         /\ job'.results = job.results /\ job'.clean = job.clean
         /\ job'.before = job.before
         /\ job'.view \in View /\ job'.view.logs = job.view.logs
<1>1. /\ job \in Job /\ job.step = "item" /\ job.at \in DOMAIN job.answer.items
      /\ Serves(job.answer, Entity) /\ job.view \in View /\ Entity \in Entities
      /\ UNCHANGED <<configured, feed, cache, db, spent>>
  BY JobIs DEF Upsert, TypeInv, JobTyped
<1>2. Item \in Record(Entity)
  BY <1>1 DEF Item, Serves
<1> DEFINE view == IF Good THEN Upserted(job.view, Entity, Item) ELSE job.view
           seen == IF Good THEN job.seen \cup {Item.id} ELSE job.seen
           failed == IF Good THEN job.failed ELSE job.failed + 1
           poisoned == (job.poisoned \/ (~Good /\ Item.fault # "date"))
           step == IF job.at = Len(job.answer.items) THEN "page" ELSE "item"
           pulled == job.pulled + 1
           at == job.at + 1
<1>3. job' = [job EXCEPT !.view = view, !.seen = seen, !.failed = failed,
                         !.poisoned = poisoned, !.pulled = pulled, !.at = at, !.step = step]
  BY <1>1 DEF Upsert, Good
<1>4. view \in View /\ view.logs = job.view.logs
  BY <1>1, <1>2, RowWritten DEF Good
<1>5. /\ seen \in SUBSET Ids /\ failed \in Nat /\ poisoned \in BOOLEAN /\ pulled \in Nat
      /\ at \in Nat /\ step \in Steps
  <2>1. Item.id \in Ids
    BY <1>2 DEF Record
  <2>2. /\ job.seen \in SUBSET Ids /\ job.failed \in Nat /\ job.pulled \in Nat
        /\ job.poisoned \in BOOLEAN /\ job.at \in Nat
    BY <1>1 DEF Job
  <2>3. poisoned \in BOOLEAN
    <3>1. CASE job.poisoned
      BY <3>1
    <3>2. CASE ~job.poisoned
      BY <2>2, <3>2
    <3> QED BY <3>1, <3>2
  <2>4. seen \in SUBSET Ids
    BY <2>1, <2>2
  <2>5. failed \in Nat /\ pulled \in Nat /\ at \in Nat
    BY <2>2
  <2>6. step \in Steps
    BY DEF Steps
  <2> QED BY <2>3, <2>4, <2>5, <2>6
<1> HIDE DEF view, seen, failed, poisoned, step, pulled, at
<1>6. /\ job'.view = view /\ job'.seen = seen /\ job'.failed = failed
      /\ job'.poisoned = poisoned /\ job'.pulled = pulled /\ job'.at = at /\ job'.step = step
      /\ job'.todo = job.todo /\ job'.all = job.all /\ job'.mode = job.mode
      /\ job'.log = job.log /\ job'.page = job.page /\ job'.answer = job.answer
      /\ job'.results = job.results /\ job'.clean = job.clean /\ job'.before = job.before
  BY <1>1, <1>3 DEF Job
<1>7. job' \in Job
  BY <1>1, <1>3, <1>4, <1>5 DEF Job
<1> QED
  BY <1>1, <1>2, <1>4, <1>6, <1>7 DEF view, seen, failed, poisoned, step, pulled, at

\* The upsert of a record.
LEMMA UpsertTyped ==
  ASSUME TypeInv, Upsert
  PROVE  JobTyped'
<1>1. /\ job.at \in DOMAIN job.answer.items /\ job.answer \in Reply
      /\ DOMAIN job.answer.items = 1 .. Len(job.answer.items)
  BY UpsertIs, JobIs, LenProperties DEF TypeInv, JobTyped, Reply
<1>2. job'.step = "item" => job'.at \in DOMAIN job'.answer.items
  <2>1. Len(job.answer.items) \in Nat
    BY <1>1, LenProperties DEF Reply
  <2> QED BY <1>1, <2>1, UpsertIs
<1>3. job'.failed <= job'.pulled
  <2>1. job.failed <= job.pulled
    BY DEF TypeInv, JobTyped
  <2> QED BY <2>1, UpsertIs, JobIs
<1>4. /\ job.step = "item" /\ Serves(job.answer, Entity) /\ job.todo # <<>>
      /\ job.log \in DOMAIN job.view.logs
      /\ \A i, j \in DOMAIN job.todo : job.todo[i] = job.todo[j] => i = j
  BY UpsertIs DEF TypeInv, JobTyped, Pulling
<1>5. Entity' = Entity
  BY UpsertIs DEF Entity
<1> QED BY <1>2, <1>3, <1>4, <1>5, UpsertIs DEF JobTyped

\* An entity type that failed.
LEMMA RaiseIs ==
  ASSUME TypeInv, job.step = "mark", Raise
  PROVE  /\ JobTyped'
         /\ \/ job' = Idle
            \/ /\ job.all /\ job'.step = "next" /\ job'.view = db /\ job'.todo = job.todo
               /\ job'.results = With(job.results, Entity, "FAILED")
               /\ job'.all = job.all /\ ~job'.poisoned
<1>1. /\ job \in Job /\ db \in View /\ job.failed <= job.pulled /\ job.todo # <<>>
      /\ \A i, j \in DOMAIN job.todo : job.todo[i] = job.todo[j] => i = j
  BY DEF TypeInv, JobTyped
<1>2. CASE ~job.all
  BY <1>2, OverTyped DEF Raise
<1>3. CASE job.all
  <2> DEFINE results == With(job.results, Entity, "FAILED")
  <2>1. job' = [job EXCEPT !.step = "next", !.view = db, !.poisoned = FALSE,
                           !.results = results]
    BY <1>3 DEF Raise
  <2>2. results \in Results
    BY JobIs, ResultSet
  <2> HIDE DEF results
  <2>3. /\ job'.step = "next" /\ job'.view = db /\ job'.todo = job.todo
        /\ job'.results = results /\ job'.failed = job.failed /\ job'.pulled = job.pulled
        /\ job'.all = job.all /\ ~job'.poisoned
    BY <1>1, <2>1 DEF Job
  <2>4. job' \in Job
    BY <1>1, <2>1, <2>2 DEF Job, Steps
  <2>5. JobTyped'
    BY <1>1, <2>3, <2>4 DEF JobTyped, Pulling
  <2> QED BY <1>3, <2>3, <2>5 DEF results
<1> QED BY <1>2, <1>3

\* The rows that _mark_missing leaves, and the commit.
LEMMA MarkIs ==
  ASSUME TypeInv, MarkAndCommit
  PROVE  /\ job.step = "mark" /\ UNCHANGED <<configured, feed, cache, spent>>
         /\ JobTyped' /\ db' \in View
         /\ \/ Raise /\ UNCHANGED db /\ job.poisoned
            \/ /\ ~job.poisoned /\ job'.step = "finish" /\ db' = job'.view
               /\ db'.logs = job.view.logs
               /\ IF job.mode = "FULL" /\ job.seen # {}
                  THEN db' = [job.view EXCEPT !.rows[Entity] = Missing(@, job.seen)]
                  ELSE db' = job.view
               /\ job'.todo = job.todo /\ job'.all = job.all /\ job'.mode = job.mode
               /\ job'.seen = job.seen /\ job'.failed = job.failed
               /\ job'.results = job.results /\ job'.clean = job.clean
               /\ job'.poisoned = job.poisoned /\ job'.before = job.before
<1>1. job.step = "mark" /\ UNCHANGED <<configured, feed, cache, spent>>
  BY DEF MarkAndCommit
<1>2. /\ job \in Job /\ db \in View /\ job.failed <= job.pulled /\ job.todo # <<>>
      /\ job.view \in View /\ job.log \in DOMAIN job.view.logs
      /\ \A i, j \in DOMAIN job.todo : job.todo[i] = job.todo[j] => i = j
  BY <1>1 DEF TypeInv, JobTyped, Pulling
<1>3. CASE job.poisoned
  BY <1>1, <1>2, <1>3, RaiseIs DEF MarkAndCommit
<1>4. CASE ~job.poisoned
  <2> DEFINE view == IF job.mode = "FULL" /\ job.seen # {}
                     THEN [job.view EXCEPT !.rows[Entity] = Missing(@, job.seen)]
                     ELSE job.view
  <2>1. db' = view /\ job' = [job EXCEPT !.step = "finish", !.view = view]
    BY <1>4 DEF MarkAndCommit
  <2>2. view \in View /\ view.logs = job.view.logs
    BY <1>1, <1>2, JobIs, Marked
  <2> HIDE DEF view
  <2>3. job' \in Job
    BY <1>2, <2>1, <2>2 DEF Job, Steps
  <2>4. /\ job'.step = "finish" /\ job'.view = view /\ job'.todo = job.todo
        /\ job'.all = job.all /\ job'.mode = job.mode
        /\ job'.seen = job.seen /\ job'.failed = job.failed /\ job'.pulled = job.pulled
        /\ job'.results = job.results /\ job'.clean = job.clean /\ job'.log = job.log
        /\ job'.poisoned = job.poisoned /\ job'.before = job.before
    BY <1>2, <2>1 DEF Job
  <2>5. JobTyped'
    BY <1>2, <2>2, <2>3, <2>4 DEF JobTyped, Pulling
  <2> QED BY <1>1, <1>4, <2>1, <2>2, <2>4, <2>5 DEF view
<1> QED BY <1>3, <1>4

\* finish_run, and the result of the entity type.
LEMMA FinishIs ==
  ASSUME TypeInv, Finish
  PROVE  /\ job.step = "finish" /\ UNCHANGED <<configured, feed, cache, db, spent>>
         /\ JobTyped' /\ job'.step = "next" /\ job'.todo = job.todo /\ job'.all = job.all
         /\ job'.poisoned = job.poisoned
         /\ \E status \in {"SUCCESS", "PARTIAL"} :
              job'.results = With(job.results, Entity, status)
         /\ DOMAIN job'.view.logs = DOMAIN job.view.logs
         /\ \A n \in DOMAIN job.view.logs :
              /\ job'.view.logs[n].run = job.view.logs[n].run
              /\ job'.view.logs[n].entity = job.view.logs[n].entity
<1>1. job.step = "finish" /\ UNCHANGED <<configured, feed, cache, db, spent>>
  BY DEF Finish
<1>2. /\ job \in Job /\ job.failed <= job.pulled /\ job.todo # <<>>
      /\ job.view \in View /\ job.log \in DOMAIN job.view.logs
      /\ \A i, j \in DOMAIN job.todo : job.todo[i] = job.todo[j] => i = j
  BY <1>1 DEF TypeInv, JobTyped, Pulling
<1> DEFINE status == IF job.failed = 0 THEN "SUCCESS" ELSE "PARTIAL"
           entry == [job.view.logs[job.log] EXCEPT !.status = status, !.finished = TRUE]
           logs == [job.view.logs EXCEPT ![job.log] = entry]
           view == [job.view EXCEPT !.logs = logs]
           results == With(job.results, Entity, status)
<1>3. job' = [job EXCEPT !.step = "next", !.answer = NoAnswer, !.seen = {}, !.before = <<>>,
                         !.view.logs[job.log] = entry, !.results = results]
  BY DEF Finish
<1>4. job.view.logs \in Seq(Log) /\ job.view.logs[job.log] \in Log
      /\ DOMAIN job.view.logs = 1 .. Len(job.view.logs)
  BY <1>2, ViewIs, ElementOfSeq, LenProperties
<1>5. entry \in Log /\ entry.run = job.view.logs[job.log].run
      /\ entry.entity = job.view.logs[job.log].entity
  BY <1>4 DEF Log
<1>6. results \in Results /\ status \in {"SUCCESS", "PARTIAL"}
  BY <1>1, JobIs, ResultSet
<1> HIDE DEF entry, status
<1>7. /\ logs \in Seq(Log) /\ DOMAIN logs = DOMAIN job.view.logs
      /\ \A n \in DOMAIN job.view.logs :
           logs[n] = IF n = job.log THEN entry ELSE job.view.logs[n]
  BY <1>2, <1>4, <1>5, ExceptSeq
<1>8. job.view = [rows |-> job.view.rows, users |-> job.view.users, logs |-> job.view.logs]
  BY <1>2, ViewIs
<1>9. [job.view EXCEPT !.logs[job.log] = entry] = view /\ view.logs = logs
  BY <1>8
<1>10. view \in View
  BY <1>2, <1>7, ViewIs DEF View
<1> HIDE DEF results, logs
<1>11. job' = [job EXCEPT !.step = "next", !.answer = NoAnswer, !.seen = {}, !.before = <<>>, !.view = view,
                          !.results = results]
  BY <1>2, <1>3, <1>9 DEF Job
<1> HIDE DEF view
<1>12. NoAnswer \in Reply /\ {} \in SUBSET Ids
  BY EmptySeq DEF NoAnswer, Reply
<1>13. job' \in Job
  BY <1>2, <1>6, <1>10, <1>11, <1>12 DEF Job, Steps
<1>14. /\ job'.step = "next" /\ job'.view = view /\ job'.results = results
       /\ job'.todo = job.todo /\ job'.all = job.all /\ job'.failed = job.failed
       /\ job'.pulled = job.pulled /\ job'.poisoned = job.poisoned
  BY <1>2, <1>11 DEF Job
<1>15. JobTyped'
  BY <1>2, <1>10, <1>13, <1>14 DEF JobTyped, Pulling
<1> QED BY <1>1, <1>5, <1>6, <1>7, <1>9, <1>14, <1>15 DEF results

\* The next entity type of sync_all.
LEMMA NextIs ==
  ASSUME TypeInv, NextEntity
  PROVE  /\ job.step = "next" /\ JobTyped' /\ UNCHANGED <<configured, feed, cache, db, spent>>
         /\ job'.step = "begin" /\ job'.all = job.all /\ job'.view = job.view
         /\ job'.results = job.results /\ job'.poisoned = job.poisoned
         /\ Len(job.todo) > 1 /\ Entity' = job.todo[2]
         /\ Len(job'.todo) = Len(job.todo) - 1
         /\ \A i \in DOMAIN job'.todo : job'.todo[i] = job.todo[i + 1]
<1> DEFINE todo == Tail(job.todo)
<1>1. /\ job \in Job /\ job.step = "next" /\ job.view \in View /\ job.todo \in Seq(Entities)
      /\ DOMAIN job.todo = 1 .. Len(job.todo) /\ Len(job.todo) > 1 /\ Len(job.todo) \in Nat
      /\ \A i, j \in DOMAIN job.todo : job.todo[i] = job.todo[j] => i = j
      /\ job.failed <= job.pulled /\ UNCHANGED <<configured, feed, cache, db, spent>>
  BY JobIs, LenProperties DEF NextEntity, TypeInv, JobTyped
<1>2. job' = [job EXCEPT !.step = "begin", !.todo = todo]
  BY DEF NextEntity
<1>3. /\ todo \in Seq(Entities) /\ Len(todo) = Len(job.todo) - 1
      /\ \A i \in 1 .. Len(todo) : todo[i] = job.todo[i + 1]
  BY <1>1, HeadTailProperties, EmptySeq
<1> HIDE DEF todo
<1>4. DOMAIN todo = 1 .. Len(todo) /\ todo # <<>> /\ todo[1] = job.todo[2]
  BY <1>1, <1>3, LenProperties, EmptySeq
<1>5. ASSUME NEW i \in DOMAIN todo, NEW j \in DOMAIN todo, todo[i] = todo[j] PROVE i = j
  <2>1. i + 1 \in DOMAIN job.todo /\ j + 1 \in DOMAIN job.todo
    BY <1>1, <1>3, <1>4
  <2> QED BY SMTT(30), <1>1, <1>3, <1>4, <1>5, <2>1
<1>6. job' \in Job
  BY <1>1, <1>2, <1>3 DEF Job, Steps
<1>7. /\ job'.step = "begin" /\ job'.todo = todo /\ job'.view = job.view /\ job'.all = job.all
      /\ job'.results = job.results /\ job'.poisoned = job.poisoned
      /\ job'.failed = job.failed /\ job'.pulled = job.pulled
  BY <1>1, <1>2 DEF Job
<1>8. JobTyped'
  BY <1>1, <1>4, <1>5, <1>6, <1>7 DEF JobTyped, Pulling
<1> QED BY <1>1, <1>3, <1>4, <1>7, <1>8 DEF Entity

\* The request is answered and its session committed, or fails and is rolled back.
LEMMA EndIs ==
  ASSUME TypeInv, EndRequest
  PROVE  /\ job.step = "next" /\ JobTyped' /\ UNCHANGED <<configured, feed, cache, spent>>
         /\ db' \in View
         /\ IF job.endpoint = "trigger" /\ Invalid(job.results)
            THEN job'.step = "error sent" /\ UNCHANGED db
            ELSE job'.step = "answer sent" /\ db' = job.view
         /\ job'.view = job.view /\ job'.todo = job.todo /\ job'.all = job.all
         /\ job'.results = job.results /\ job'.poisoned = job.poisoned /\ Len(job.todo) = 1
         /\ job'.endpoint = job.endpoint
<1> DEFINE failed == job.endpoint = "trigger" /\ Invalid(job.results)
           step == IF failed THEN "error sent" ELSE "answer sent"
<1>1. /\ job \in Job /\ job.step = "next" /\ job' = [job EXCEPT !.step = step]
      /\ job.view \in View /\ db \in View /\ Len(job.todo) = 1
      /\ IF failed THEN UNCHANGED db ELSE db' = job.view
      /\ UNCHANGED <<configured, feed, cache, spent>> /\ job.todo # <<>>
      /\ \A i, j \in DOMAIN job.todo : job.todo[i] = job.todo[j] => i = j
      /\ job.failed <= job.pulled
  BY DEF EndRequest, TypeInv, JobTyped
<1>2. step \in Ended /\ (step = "error sent" <=> failed)
  BY DEF Ended
<1> HIDE DEF failed, step
<1>3. /\ job' \in Job /\ job'.step = step /\ job'.view = job.view
      /\ job'.todo = job.todo /\ job'.all = job.all /\ job'.results = job.results
      /\ job'.failed = job.failed /\ job'.pulled = job.pulled /\ job'.poisoned = job.poisoned
      /\ job'.endpoint = job.endpoint
  BY <1>1, <1>2 DEF Job, Steps, Ended
<1>4. JobTyped'
  <2>1. /\ job.todo # <<>> /\ job.view \in View /\ job.failed <= job.pulled
        /\ \A i, j \in DOMAIN job.todo : job.todo[i] = job.todo[j] => i = j
    BY <1>1
  <2> QED BY <1>2, <1>3, <2>1 DEF JobTyped, Pulling, Ended
<1>5. db' \in View
  BY <1>1
<1> QED BY <1>1, <1>3, <1>4, <1>5 DEF failed, step

\* A change of the ERP's records during a request.
LEMMA ChangeIs ==
  ASSUME TypeInv, ErpChanges
  PROVE  /\ feed' \in Feeds /\ JobTyped' /\ UNCHANGED <<configured, cache, db>>
         /\ spent'.runs = spent.runs /\ spent' \in Spent
         /\ \/ job.step = "idle" /\ job' = Idle
            \/ /\ job.step # "idle" /\ ~job'.clean /\ job'.step = job.step
               /\ job'.todo = job.todo /\ job'.all = job.all /\ job'.mode = job.mode
               /\ job'.view = job.view /\ job'.results = job.results
               /\ job'.seen = job.seen /\ job'.failed = job.failed
               /\ job'.poisoned = job.poisoned /\ job'.endpoint = job.endpoint
               /\ job'.before = job.before
<1>1. job \in Job /\ JobTyped /\ feed' \in Feeds /\ UNCHANGED <<configured, cache, db>>
      /\ spent'.runs = spent.runs /\ spent' \in Spent
  BY DEF ErpChanges, TypeInv, JobTyped, Spent
<1>2. CASE job.step = "idle"
  BY <1>1, <1>2, OverTyped DEF ErpChanges
<1>3. CASE job.step # "idle"
  <2>1. job' = [job EXCEPT !.clean = FALSE]
    BY <1>3 DEF ErpChanges
  <2>2. job' \in Job
    BY <1>1, <2>1 DEF Job
  <2>3. /\ ~job'.clean /\ job'.step = job.step /\ job'.answer = job.answer
        /\ job'.todo = job.todo /\ job'.all = job.all /\ job'.mode = job.mode
        /\ job'.view = job.view /\ job'.results = job.results /\ job'.at = job.at
        /\ job'.seen = job.seen /\ job'.failed = job.failed /\ job'.pulled = job.pulled
        /\ job'.poisoned = job.poisoned /\ job'.log = job.log
        /\ job'.endpoint = job.endpoint /\ job'.before = job.before
    BY <1>1, <2>1 DEF Job
  <2>4. JobTyped'
    BY <1>1, <2>2, <2>3 DEF JobTyped, Entity, Serves
  <2> QED BY <1>1, <1>3, <2>3, <2>4
<1> QED BY <1>2, <1>3

\* Cached answers are only dropped, and the request goes on.
LEMMA DropIs ==
  ASSUME TypeInv, Invalidate \/ Expire
  PROVE  /\ CacheTyped' /\ UNCHANGED <<configured, feed, db, job>>
         /\ spent'.runs = spent.runs /\ spent' \in Spent
<1>1. PICK D \in SUBSET (DOMAIN cache) : cache' = Restrict(cache, D)
  BY DEF Invalidate, Expire
<1>2. DOMAIN cache' \subseteq DOMAIN cache /\ \A k \in DOMAIN cache' : cache'[k] = cache[k]
  BY <1>1 DEF Restrict
<1>3. CacheTyped /\ UNCHANGED <<configured, feed, db, job>> /\ spent'.runs = spent.runs
      /\ spent' \in Spent
  BY DEF Invalidate, Expire, TypeInv, Spent
<1> QED BY <1>2, <1>3 DEF CacheTyped

-----------------------------------------------------------------------------
(* The type invariant.                                                       *)

\* Before the first request.
LEMMA InitType ==
  ASSUME Init
  PROVE  TypeInv
<1>1. NoRow \in AnyRow /\ \A e \in Entities : NoRow \in RowOf(e)
  <2>1. PICK e \in Entities : TRUE
    BY OrderDistinct, ElementOfSeq, LenProperties, EmptySeq
  <2> QED BY <2>1 DEF RowOf, AnyRow
<1>2. /\ db.rows = [e \in Entities |-> [i \in Ids |-> NoRow]] /\ db.logs = <<>>
      /\ db.users = [u \in Users |-> "none"]
      /\ db = [rows |-> db.rows, users |-> db.users, logs |-> db.logs]
  BY DEF Init
<1>3. /\ db.rows \in [Entities -> [Ids -> AnyRow]] /\ db.logs \in Seq(Log)
      /\ db.users \in [Users -> {"none", "ACTIVE", "INACTIVE"}]
      /\ \A e \in Entities, i \in Ids : db.rows[e][i] \in RowOf(e)
  BY <1>1, <1>2, EmptySeq
<1>4. db \in View
  BY <1>2, <1>3 DEF View
<1>5. CacheTyped
  BY DEF Init, CacheTyped
<1>6. JobTyped
  BY IdleTyped DEF Init, JobTyped, Pulling
<1> QED BY <1>4, <1>5, <1>6 DEF Init, TypeInv, Spent

\* Every step keeps the types.
LEMMA StepType ==
  ASSUME TypeInv, [Next]_vars
  PROVE  TypeInv'
<1>1. /\ configured \in BOOLEAN /\ feed \in Feeds /\ db \in View /\ spent \in Spent
      /\ CacheTyped /\ JobTyped
  BY DEF TypeInv
<1>2. UNCHANGED cache => CacheTyped'
  BY <1>1 DEF CacheTyped
<1>3. CASE Request
  BY <1>1, <1>2, <1>3, RequestIs DEF TypeInv
<1>4. CASE Begin
  BY <1>1, <1>2, <1>4, BeginIs DEF TypeInv
<1>5. CASE FetchCached \/ Ask \/ Answer \/ AnswerError \/ Receive \/ AfterPage
  <2>1. UNCHANGED <<configured, feed, db>> /\ spent' \in Spent
    BY <1>1, <1>5 DEF Spent, FetchCached, Ask, Answer, AnswerError, Receive, AfterPage
  <2> QED BY <1>1, <1>5, <2>1, PageStepTyped DEF TypeInv
<1>6. CASE Upsert
  BY <1>1, <1>2, <1>6, UpsertIs, UpsertTyped DEF TypeInv
<1>7. CASE MarkAndCommit
  BY <1>1, <1>2, <1>7, MarkIs DEF TypeInv
<1>8. CASE Finish
  BY <1>1, <1>2, <1>8, FinishIs DEF TypeInv
<1>9. CASE NextEntity
  BY <1>1, <1>2, <1>9, NextIs DEF TypeInv
<1>10. CASE EndRequest
  BY <1>1, <1>2, <1>10, EndIs DEF TypeInv
<1>11. CASE Forget
  <2>1. JobTyped'
    BY <1>11, OverTyped DEF Forget
  <2> QED BY <1>1, <1>2, <1>11, <2>1 DEF TypeInv, Forget
<1>12. CASE ErpChanges
  BY <1>1, <1>2, <1>12, ChangeIs DEF TypeInv
<1>13. CASE Invalidate \/ Expire
  BY <1>1, <1>13, DropIs DEF TypeInv, JobTyped, Serves, Entity
<1>14. CASE Crash
  <2>1. CacheTyped'
    BY <1>14 DEF Crash, CacheTyped
  <2>2. JobTyped'
    BY <1>14, OverTyped DEF Crash
  <2> QED BY <1>1, <1>14, <2>1, <2>2 DEF Crash, TypeInv, Spent
<1>15. CASE UNCHANGED vars
  BY <1>1, <1>2, <1>15 DEF vars, TypeInv, JobTyped, Serves, Entity
<1> QED
  BY <1>3, <1>4, <1>5, <1>6, <1>7, <1>8, <1>9, <1>10, <1>11, <1>12, <1>13, <1>14, <1>15
  DEF Next, SyncStep

\* The types hold in every state.
LEMMA TypeInvHolds == Spec => []TypeInv
BY InitType, StepType, PTL DEF Spec

\* What the types say of the rows: the parents a row refers to are never null.
LEMMA RowsHold ==
  ASSUME NEW view \in View
  PROVE  RowsOK(view)
<1>1. ASSUME NEW e \in Entities, NEW i \in Ids
      PROVE  /\ view.rows[e][i].status \in Statuses
             /\ view.rows[e][i].sync \in {"none", "SYNCED", "MISSING_IN_ERP"}
             /\ \/ view.rows[e][i] = NoRow
                \/ view.rows[e][i].parents \in [DOMAIN view.rows[e][i].parents -> Ids]
  <2>1. view.rows[e][i] \in RowOf(e)
    BY ViewIs
  <2> QED BY <2>1 DEF RowOf, NoRow, Statuses
<1>2. \A n \in DOMAIN view.logs : view.logs[n].status \in {"SUCCESS", "PARTIAL", "FAILED"}
  <2>1. view.logs \in Seq(Log) /\ \A n \in DOMAIN view.logs : view.logs[n] \in Log
    BY ViewIs, ElementOfSeq, LenProperties
  <2> QED BY <2>1 DEF Log
<1> QED BY <1>1, <1>2, ViewIs DEF RowsOK

\* Whatever the ERP serves, fails to serve or changes, and wherever the server crashes,
\* the snapshot tables hold rows of their tables, with every parent they must have, and
\* no page is asked for more often than the retries allow (sync_service.py, models.py).
THEOREM TypeCorrect == Spec => []TypeOK
<1>1. TypeInv => TypeOK
  <2>1. ASSUME TypeInv PROVE TypeOK
    <3>1. \A k \in DOMAIN cache : k \in Page /\ cache[k].items # <<>>
      BY <2>1 DEF TypeInv, CacheTyped
    <3>2. job.step # "idle" => job.view \in View
      BY <2>1, JobIs
    <3>3. job.failed \in 0 .. job.pulled /\ job.attempt \in 1 .. MaxRetries
      BY <2>1, JobIs DEF TypeInv, JobTyped
    <3> QED BY <2>1, <3>1, <3>2, <3>3, RowsHold DEF TypeInv, TypeOK
  <2> QED BY <2>1
<1> QED BY <1>1, TypeInvHolds, PTL

-----------------------------------------------------------------------------
(* What was noted as seen was written.                                       *)

\* The steps of the loop over the pages that ask for a page, receive it or go on.
LEMMA LoopIs ==
  ASSUME TypeInv, FetchCached \/ Ask \/ Answer \/ AnswerError \/ Receive \/ AfterPage
  PROVE  /\ job.step \in Pulling /\ job'.step \in Pulling
         /\ job'.todo = job.todo /\ job'.view = job.view /\ job'.seen = job.seen
         /\ job'.failed = job.failed /\ job'.all = job.all /\ job'.mode = job.mode
         /\ job'.results = job.results /\ job'.poisoned = job.poisoned
         /\ (job'.clean => job.clean) /\ Entity' = Entity /\ job'.before = job.before
         /\ UNCHANGED <<configured, feed, db>> /\ spent'.runs = spent.runs
<1>1. job \in Job /\ spent \in Spent
  BY DEF TypeInv, JobTyped
<1>2. UNCHANGED <<configured, feed, db>> /\ spent'.runs = spent.runs
  BY <1>1 DEF Spent, FetchCached, Ask, Answer, AnswerError, Receive, AfterPage
<1>3. CASE FetchCached
  BY <1>1, <1>2, <1>3 DEF FetchCached, Job, Pulling, Entity
<1>4. CASE Ask
  <2> DEFINE answer == PageOf(feed[Entity], job.page)
  <2>1. job.step = "fetch" /\ job' = [job EXCEPT !.step = "asked", !.answer = answer]
    BY <1>4 DEF Ask
  <2> HIDE DEF answer
  <2> QED BY <1>1, <1>2, <2>1 DEF Job, Pulling, Entity
<1>5. CASE Answer
  BY <1>1, <1>2, <1>5 DEF Answer, Job, Pulling, Entity
<1>6. CASE AnswerError
  BY <1>1, <1>2, <1>6 DEF AnswerError, Job, Pulling, Entity
<1>7. CASE Receive
  BY <1>1, <1>2, <1>7 DEF Receive, Job, Pulling, Entity
<1>8. CASE AfterPage
  BY <1>1, <1>2, <1>8 DEF AfterPage, Job, Pulling, Entity
<1> QED BY <1>3, <1>4, <1>5, <1>6, <1>7, <1>8

\* A request that is over, or at its beginning or end, has nothing to keep.
LEMMA SeenElsewhere ==
  ASSUME job'.step \notin Pulling \cup {"finish"}
  PROVE  SeenInv'
BY DEF SeenInv, SeenAreWritten, Pulling

\* Every step keeps the rows of the records that were seen.
LEMMA StepSeen ==
  ASSUME TypeInv, SeenInv, [Next]_vars
  PROVE  SeenInv'
<1>1. CASE Request
  BY <1>1, RequestIs, SeenElsewhere DEF Pulling
<1>2. CASE Begin
  <2>1. job'.seen = {} \/ job'.step = "next"
    BY <1>2, BeginIs
  <2>2. job'.step \in {"fetch", "next"}
    BY <1>2, BeginIs
  <2> QED BY <2>1, <2>2 DEF SeenInv, SeenAreWritten, Pulling
<1>3. CASE FetchCached \/ Ask \/ Answer \/ AnswerError \/ Receive \/ AfterPage
  BY <1>3, LoopIs DEF SeenInv, SeenAreWritten, Pulling
<1>4. CASE Upsert
  <2>1. /\ job.step = "item" /\ job'.step \in {"item", "page"} /\ Entity' = Entity
        /\ Item \in Record(Entity) /\ job.view \in View /\ Entity \in Entities
        /\ job.seen \in SUBSET Ids
        /\ \A i \in job.seen : job.view.rows[Entity][i].sync = "SYNCED"
    BY <1>4, UpsertIs, JobIs DEF SeenInv, Pulling, Entity
  <2>2. CASE ~Good
    BY <1>4, <2>1, <2>2, UpsertIs DEF SeenInv, SeenAreWritten
  <2>3. CASE Good
    <3>1. job'.view = Upserted(job.view, Entity, Item) /\ job'.seen = job.seen \cup {Item.id}
      BY <1>4, <2>3, UpsertIs
    <3>2. /\ \A i \in Ids \ {Item.id} : job'.view.rows[Entity][i] = job.view.rows[Entity][i]
          /\ job'.view.rows[Entity][Item.id].sync = "SYNCED"
      BY <2>1, <2>3, <3>1, RowWritten DEF Good, Mirrors
    <3>3. \A i \in job'.seen : job'.view.rows[Entity][i].sync = "SYNCED"
      BY <2>1, <3>1, <3>2
    <3> QED BY <2>1, <3>3 DEF SeenInv, SeenAreWritten
  <2> QED BY <2>2, <2>3
<1>5. CASE MarkAndCommit
  <2>1. CASE Raise
    BY <1>5, <2>1, MarkIs, RaiseIs, IdleTyped, SeenElsewhere DEF Pulling
  <2>2. CASE ~job.poisoned
    <3>1. /\ job'.step = "finish" /\ Entity' = Entity /\ job'.seen = job.seen
          /\ job.view \in View /\ Entity \in Entities /\ job.seen \in SUBSET Ids
          /\ \A i \in job.seen : job.view.rows[Entity][i].sync = "SYNCED"
      BY <1>5, <2>2, MarkIs, JobIs DEF SeenInv, Pulling, Entity
    <3>2. \A i \in job.seen : db'.rows[Entity][i].sync = "SYNCED"
      <4>1. CASE db' = job.view
        BY <3>1, <4>1
      <4>2. CASE db' = [job.view EXCEPT !.rows[Entity] = Missing(@, job.seen)]
        BY <3>1, <4>2, Marked
      <4> QED BY <1>5, <2>2, <4>1, <4>2, MarkIs
    <3> QED BY <3>1, <3>2 DEF SeenInv, SeenAreWritten, Pulling
  <2> QED BY <1>5, <2>1, <2>2, MarkIs
<1>6. CASE Finish
  BY <1>6, FinishIs, SeenElsewhere DEF Pulling
<1>7. CASE NextEntity
  BY <1>7, NextIs, SeenElsewhere DEF Pulling
<1>8. CASE EndRequest
  BY <1>8, EndIs, SeenElsewhere DEF Pulling
<1>9. CASE Forget \/ Crash
  BY <1>9, IdleTyped, SeenElsewhere DEF Forget, Crash, Pulling
<1>10. CASE ErpChanges
  <2>1. CASE job' = Idle
    BY <2>1, IdleTyped, SeenElsewhere DEF Pulling
  <2>2. CASE job'.step = job.step /\ job'.todo = job.todo /\ job'.view = job.view
             /\ job'.seen = job.seen
    BY <1>10, <2>2, ChangeIs DEF SeenInv, SeenAreWritten, Entity
  <2> QED BY <1>10, <2>1, <2>2, ChangeIs
<1>11. CASE Invalidate \/ Expire
  BY <1>11, DropIs DEF SeenInv, SeenAreWritten, Entity
<1>12. CASE UNCHANGED vars
  BY <1>12 DEF vars, SeenInv, SeenAreWritten, Entity
<1> QED
  BY <1>1, <1>2, <1>3, <1>4, <1>5, <1>6, <1>7, <1>8, <1>9, <1>10, <1>11, <1>12 DEF Next, SyncStep

\* When the snapshot of an entity type is committed, every record that the sync noted as
\* pulled has its row written, whichever records failed on the way and whatever the cache
\* answered: only rows that were not written are marked missing (_mark_missing).
THEOREM SeenRecordsWritten == Spec => []SeenAreWritten
<1>1. Init => SeenInv
  BY IdleTyped DEF Init, SeenInv, SeenAreWritten, Pulling
<1>2. Spec => []SeenInv
  BY <1>1, StepSeen, TypeInvHolds, PTL DEF Spec
<1>3. SeenInv => SeenAreWritten
  BY DEF SeenInv
<1> QED BY <1>2, <1>3, PTL

-----------------------------------------------------------------------------
(* What the answer of sync_all says.                                         *)

\* Log rows have the numbers of runs.
LEMMA LogRuns ==
  ASSUME NEW view \in View
  PROVE  \A n \in DOMAIN view.logs : view.logs[n].run \in Nat
<1>1. view.logs \in Seq(Log) /\ \A n \in DOMAIN view.logs : view.logs[n] \in Log
  BY ViewIs, ElementOfSeq, LenProperties
<1> QED BY <1>1 DEF Log

\* Runs are numbered in the order they come.
LEMMA StepRuns ==
  ASSUME TypeInv, RunsInv, [Next]_vars
  PROVE  RunsInv'
<1>1. spent.runs \in Nat
  BY DEF TypeInv, Spent
<1>2. CASE Request
  BY <1>1, <1>2, RequestIs, LogRuns DEF RunsInv, TypeInv
<1>3. CASE Begin
  <2>1. \A n \in DOMAIN job'.view.logs : job'.view.logs[n].run <= spent.runs
    BY <1>1, <1>3, BeginIs DEF RunsInv
  <2> QED BY <1>3, <2>1, BeginIs DEF RunsInv
<1>4. CASE FetchCached \/ Ask \/ Answer \/ AnswerError \/ Receive \/ AfterPage
  BY <1>4, LoopIs DEF RunsInv, Pulling
<1>5. CASE Upsert
  BY <1>5, UpsertIs DEF RunsInv
<1>6. CASE MarkAndCommit
  <2>1. CASE Raise
    BY <1>6, <2>1, MarkIs, RaiseIs, IdleTyped DEF RunsInv
  <2>2. CASE ~job.poisoned
    BY <1>6, <2>2, MarkIs DEF RunsInv
  <2> QED BY <1>6, <2>1, <2>2, MarkIs
<1>7. CASE Finish
  BY <1>7, FinishIs DEF RunsInv
<1>8. CASE NextEntity
  BY <1>8, NextIs DEF RunsInv
<1>9. CASE EndRequest
  BY <1>9, EndIs DEF RunsInv
<1>10. CASE Forget
  BY <1>10, IdleTyped DEF Forget, RunsInv
<1>11. CASE Crash
  BY <1>11, IdleTyped DEF Crash, RunsInv, TypeInv, Spent
<1>12. CASE ErpChanges
  BY <1>12, ChangeIs, IdleTyped DEF RunsInv
<1>13. CASE Invalidate \/ Expire
  BY <1>13, DropIs DEF RunsInv
<1>14. CASE UNCHANGED vars
  BY <1>14 DEF vars, RunsInv
<1> QED
  BY <1>2, <1>3, <1>4, <1>5, <1>6, <1>7, <1>8, <1>9, <1>10, <1>11, <1>12, <1>13, <1>14
  DEF Next, SyncStep

\* The entity type the request is at is none of those to come.
LEMMA Places ==
  ASSUME TypeInv, job.step # "idle"
  PROVE  Entity \in Entities /\ Ahead \in SUBSET Entities /\ Entity \notin Ahead
<1>1. /\ job.todo \in Seq(Entities) /\ Entity \in Entities
      /\ DOMAIN job.todo = 1 .. Len(job.todo) /\ Len(job.todo) >= 1 /\ Len(job.todo) \in Nat
      /\ \A i, j \in DOMAIN job.todo : job.todo[i] = job.todo[j] => i = j
  BY JobIs, LenProperties DEF TypeInv, JobTyped
<1>2. \A i \in 2 .. Len(job.todo) : job.todo[i] \in Entities /\ job.todo[i] # job.todo[1]
  BY <1>1, ElementOfSeq
<1> QED BY <1>1, <1>2 DEF Ahead, Entity

\* What is to come, and what is logged, depends on the list and the logs only.
LEMMA SameRecord ==
  ASSUME job'.todo = job.todo, spent'.runs = spent.runs
  PROVE  /\ Ahead' = Ahead /\ Entity' = Entity
         /\ job'.all = job.all => Scope' = Scope
         /\ db'.logs = db.logs => \A e : Logged(db.logs, e)' <=> Logged(db.logs, e)
         /\ job'.view.logs = job.view.logs =>
              \A e : Logged(job.view.logs, e)' <=> Logged(job.view.logs, e)
BY DEF Ahead, Entity, Logged, Scope

\* Every step keeps the results and the log rows together.
LEMMA StepRecord ==
  ASSUME TypeInv, RunsInv, RecordInv, [Next]_vars
  PROVE  RecordInv'
<1>1. CASE Request
  <2>1. /\ job'.step = "begin" /\ job'.view = db /\ UNCHANGED db
        /\ spent'.runs = spent.runs + 1 /\ db \in View /\ spent.runs \in Nat
    BY <1>1, RequestIs DEF TypeInv, Spent
  <2>2. \A e : ~Logged(db.logs, e)'
    <3>1. \A n \in DOMAIN db.logs : db.logs[n].run \in Nat /\ db.logs[n].run <= spent.runs
      BY <2>1, LogRuns DEF RunsInv
    <3> QED BY <2>1, <3>1 DEF Logged
  <2>3. \A e : ~Logged(job.view.logs, e)'
    BY <2>1, <2>2 DEF Logged
  <2>4. DOMAIN job'.results = {} /\ Reported' = {} /\ (~job'.all => Len(job'.todo) = 1)
    <3>1. /\ job'.results = [e \in {} |-> "none"]
          /\ IF job'.all THEN job'.todo = Order ELSE Len(job'.todo) = 1
      BY <1>1, RequestIs
    <3>2. Entities = {Order[i] : i \in 1 .. Len(Order)} /\ Len(Order) \in Nat \ {0}
      BY OrderDistinct, LenProperties, EmptySeq DEF Entities, Range
    <3>3. Scope' \subseteq Ahead' \cup {Entity'}
      BY <3>1, <3>2 DEF Ahead, Entity, Scope
    <3> QED BY <2>1, <3>1, <3>3 DEF Reported, Past
  <2> QED BY <2>1, <2>2, <2>3, <2>4 DEF RecordInv, Pulling, Ended
<1>2. CASE Begin
  <2>1. /\ job.step = "begin" /\ job'.todo = job.todo /\ job'.all = job.all
        /\ UNCHANGED <<configured, db, spent>>
    BY <1>2, BeginIs
  <2>2. \A e : Logged(job.view.logs, e)' <=> Logged(job.view.logs, e) \/ e = Entity
    BY <1>2, BeginIs DEF Logged
  <2>3. /\ Ahead' = Ahead /\ Entity' = Entity
        /\ \A e : Logged(db.logs, e)' <=> Logged(db.logs, e)
        /\ Entity \in Entities /\ Entity \notin Ahead /\ Ahead \in SUBSET Entities
        /\ Scope' = Scope /\ Entity \in Scope
    BY <2>1, SameRecord, Places DEF Scope
  <2>4. CASE configured
    <3>1. job'.step = "fetch" /\ job'.results = job.results
      BY <1>2, <2>4, BeginIs
    <3>2. Reported' = Reported /\ Entity \notin Reported
      BY <2>1, <2>3, <3>1 DEF Reported, Past
    <3> QED BY <2>1, <2>2, <2>3, <2>4, <3>1, <3>2 DEF RecordInv, Pulling, Ended
  <2>5. CASE ~configured
    <3>1. job'.step = "next" /\ job'.results = With(job.results, Entity, "SKIPPED_NO_ERP")
      BY <1>2, <2>5, BeginIs
    <3>2. Reported' = Reported \cup {Entity} /\ Entity \notin Reported
      BY <2>1, <2>3, <3>1 DEF Reported, Past
    <3>3. /\ DOMAIN job'.results = DOMAIN job.results \cup {Entity}
          /\ job'.results[Entity] = "SKIPPED_NO_ERP"
          /\ \A e \in DOMAIN job.results \ {Entity} : job'.results[e] = job.results[e]
      BY <3>1 DEF With
    <3> QED BY <2>1, <2>2, <2>3, <2>5, <3>1, <3>2, <3>3 DEF RecordInv, Pulling, Ended
  <2> QED BY <2>4, <2>5
<1>3. CASE \/ FetchCached \/ Ask \/ Answer \/ AnswerError \/ Receive \/ AfterPage
           \/ Upsert
  <2>1. /\ job.step \in Pulling /\ job'.step \in Pulling /\ job'.todo = job.todo
        /\ job'.all = job.all /\ job'.results = job.results
        /\ job'.view.logs = job.view.logs /\ UNCHANGED <<configured, db>>
        /\ spent'.runs = spent.runs
    BY <1>3, LoopIs, UpsertIs DEF Pulling
  <2>2. Reported' = Reported
    BY <2>1, SameRecord DEF Reported, Pulling, Past
  <2> QED BY <2>1, <2>2, SameRecord DEF RecordInv, Pulling, Ended
<1>4. CASE MarkAndCommit
  <2>1. job.step = "mark" /\ UNCHANGED <<configured, spent>>
    BY <1>4, MarkIs
  <2>2. CASE Raise /\ job'.step = "idle"
    BY <2>2 DEF RecordInv, Pulling, Ended
  <2>3. CASE Raise /\ job'.step # "idle"
    <3>1. /\ job.all /\ job'.step = "next" /\ job'.view = db /\ job'.todo = job.todo
          /\ job'.results = With(job.results, Entity, "FAILED") /\ job'.all = job.all
          /\ UNCHANGED db
      BY <1>4, <2>1, <2>3, RaiseIs, MarkIs, IdleTyped
    <3>2. /\ Ahead' = Ahead /\ Entity' = Entity
          /\ \A e : Logged(db.logs, e)' <=> Logged(db.logs, e)
          /\ \A e : Logged(job.view.logs, e)' <=> Logged(db.logs, e)
          /\ Entity \in Entities /\ Entity \notin Ahead /\ Ahead \in SUBSET Entities
          /\ Scope' = Scope /\ Entity \in Scope
      BY <2>1, <3>1, SameRecord, Places DEF Logged, Scope
    <3>3. Reported' = Reported \cup {Entity} /\ Entity \notin Reported
      <4>1. Reported' = Scope \ Ahead /\ Reported = Scope \ (Ahead \cup {Entity})
        BY <2>1, <3>1, <3>2 DEF Reported, Past
      <4> QED BY <3>2, <4>1
    <3>4. /\ DOMAIN job'.results = DOMAIN job.results \cup {Entity}
          /\ job'.results[Entity] = "FAILED"
          /\ \A e \in DOMAIN job.results \ {Entity} : job'.results[e] = job.results[e]
      BY <3>1 DEF With
    <3> QED BY <2>1, <3>1, <3>2, <3>3, <3>4 DEF RecordInv, Pulling, Ended
  <2>4. CASE ~job.poisoned
    <3>1. /\ job'.step = "finish" /\ db'.logs = job.view.logs /\ job'.view.logs = job.view.logs
          /\ job'.todo = job.todo /\ job'.all = job.all /\ job'.results = job.results
      BY <1>4, <2>4, MarkIs
    <3>2. /\ Ahead' = Ahead /\ Entity' = Entity
          /\ \A e : Logged(db.logs, e)' <=> Logged(job.view.logs, e)
          /\ \A e : Logged(job.view.logs, e)' <=> Logged(job.view.logs, e)
          /\ Scope' = Scope
      BY <2>1, <3>1, SameRecord DEF Logged
    <3>3. Reported' = Reported
      BY <2>1, <3>1, <3>2 DEF Reported, Past
    <3> QED BY <2>1, <3>1, <3>2, <3>3 DEF RecordInv, Pulling, Ended
  <2> QED BY <1>4, <2>2, <2>3, <2>4, MarkIs
<1>5. CASE Finish
  <2>1. /\ job.step = "finish" /\ job'.step = "next" /\ job'.todo = job.todo
        /\ job'.all = job.all /\ UNCHANGED <<configured, db, spent>>
    BY <1>5, FinishIs
  <2>2. /\ Ahead' = Ahead /\ Entity' = Entity
        /\ \A e : Logged(db.logs, e)' <=> Logged(db.logs, e)
        /\ Entity \in Entities /\ Entity \notin Ahead /\ Ahead \in SUBSET Entities
        /\ Scope' = Scope /\ Entity \in Scope
    BY <2>1, SameRecord, Places DEF Scope
  <2>3. \A e : Logged(job.view.logs, e)' <=> Logged(job.view.logs, e)
    BY <1>5, <2>1, FinishIs DEF Logged
  <2>4. Reported' = Reported \cup {Entity} /\ Entity \notin Reported
    <3>1. Reported' = Scope \ Ahead /\ Reported = Scope \ (Ahead \cup {Entity})
      BY <2>1, <2>2 DEF Reported, Past
    <3> QED BY <2>2, <3>1
  <2>5. PICK status \in {"SUCCESS", "PARTIAL"} : job'.results = With(job.results, Entity, status)
    BY <1>5, FinishIs
  <2>6. /\ DOMAIN job'.results = DOMAIN job.results \cup {Entity}
        /\ job'.results[Entity] = status
        /\ \A e \in DOMAIN job.results \ {Entity} : job'.results[e] = job.results[e]
    BY <2>5 DEF With
  <2> QED BY <2>1, <2>2, <2>3, <2>4, <2>6 DEF RecordInv, Pulling, Ended
<1>6. CASE NextEntity
  <2>1. /\ job.step = "next" /\ job'.step = "begin" /\ job'.all = job.all
        /\ job'.view = job.view /\ job'.results = job.results
        /\ UNCHANGED <<configured, db, spent>>
    BY <1>6, NextIs
  <2>2. /\ \A e : Logged(db.logs, e)' <=> Logged(db.logs, e)
        /\ \A e : Logged(job.view.logs, e)' <=> Logged(job.view.logs, e)
    BY <2>1 DEF Logged
  <2>3. Ahead' \cup {Entity'} = Ahead
    <3>1. /\ Len(job.todo) \in Nat /\ Len(job.todo) > 1 /\ Entity' = job.todo[2]
          /\ Len(job'.todo) = Len(job.todo) - 1
          /\ \A i \in 1 .. Len(job.todo) - 1 : job'.todo[i] = job.todo[i + 1]
      <4>1. /\ job'.todo \in Seq(Entities) /\ job.todo \in Seq(Entities)
        BY <1>6, JobIs, NextIs DEF JobTyped, Job
      <4> QED BY <1>6, <4>1, NextIs, LenProperties
    <3>2. ASSUME NEW i \in 2 .. Len(job'.todo) PROVE job'.todo[i] \in Ahead
      <4>1. i + 1 \in 2 .. Len(job.todo) /\ job'.todo[i] = job.todo[i + 1]
        BY <3>1
      <4> QED BY <4>1 DEF Ahead
    <3>3. ASSUME NEW i \in 2 .. Len(job.todo), i # 2 PROVE job.todo[i] \in Ahead'
      <4>1. i - 1 \in 2 .. Len(job'.todo) /\ job'.todo[i - 1] = job.todo[i]
        <5>1. i - 1 \in 2 .. Len(job'.todo) /\ i - 1 \in 1 .. Len(job.todo) - 1 /\ i - 1 + 1 = i
          BY <3>1, <3>3
        <5> QED BY <3>1, <5>1
      <4> QED BY <4>1 DEF Ahead
    <3>4. job.todo[2] \in Ahead
      BY <3>1 DEF Ahead
    <3>5. Ahead' \subseteq Ahead
      BY <3>2 DEF Ahead
    <3>6. Ahead \subseteq Ahead' \cup {Entity'}
      BY <3>1, <3>3 DEF Ahead
    <3> QED BY <3>1, <3>4, <3>5, <3>6
  <2>5. job.all
    BY <1>6, <2>1, NextIs DEF RecordInv
  <2>4. Reported' = Reported
    <3>1. Reported' = Entities \ (Ahead' \cup {Entity'}) /\ Reported = Entities \ Ahead
      BY <2>1, <2>5 DEF Reported, Past, Scope
    <3> QED BY <2>3, <3>1
  <2> QED BY <2>1, <2>2, <2>3, <2>4, <2>5 DEF RecordInv, Pulling, Ended
<1>7. CASE EndRequest
  <2>1. /\ job.step = "next" /\ job'.step \in Ended
        /\ job'.view = job.view /\ job'.todo = job.todo /\ job'.all = job.all
        /\ job'.results = job.results /\ Len(job.todo) = 1
        /\ UNCHANGED <<configured, spent>>
    BY <1>7, EndIs DEF Ended
  <2>2. /\ Ahead' = Ahead /\ Scope' = Scope
        /\ \A e : Logged(job.view.logs, e)' <=> Logged(job.view.logs, e)
        /\ \A e \in Ahead : FALSE
    BY <2>1 DEF Ahead, Logged, Scope, Entity
  <2>3. Reported' = Reported
    BY <2>1, <2>2 DEF Reported, Past, Ended
  <2>4. CASE job'.step = "answer sent"
    <3>1. db' = job.view /\ ~(job'.endpoint = "trigger" /\ Invalid(job'.results))
      BY <1>7, <2>1, <2>4, EndIs
    <3>2. \A e : Logged(db.logs, e)' <=> Logged(job.view.logs, e)
      BY <2>1, <3>1 DEF Logged
    <3> QED BY <2>1, <2>2, <2>3, <2>4, <3>1, <3>2 DEF RecordInv, Pulling, Ended
  <2>5. CASE job'.step # "answer sent"
    <3>1. /\ UNCHANGED db /\ job'.step = "error sent"
          /\ job'.endpoint = "trigger" /\ Invalid(job'.results)
      BY <1>7, <2>1, <2>5, EndIs
    <3>2. \A e : Logged(db.logs, e)' <=> Logged(db.logs, e)
      BY <2>1, <3>1 DEF Logged
    <3> QED BY <2>1, <2>2, <2>3, <3>1, <3>2 DEF RecordInv, Pulling, Ended
  <2> QED BY <2>4, <2>5
<1>8. CASE Forget \/ Crash
  BY <1>8, IdleTyped DEF Forget, Crash, RecordInv, Pulling
<1>9. CASE ErpChanges
  <2>1. CASE job' = Idle
    BY <2>1, IdleTyped DEF RecordInv, Pulling, Ended
  <2>2. CASE job'.step = job.step /\ job'.todo = job.todo /\ job'.view = job.view
             /\ job'.all = job.all /\ job'.results = job.results
             /\ job'.endpoint = job.endpoint
    <3>1. UNCHANGED <<configured, db>> /\ spent'.runs = spent.runs
      BY <1>9, ChangeIs
    <3>2. Reported' = Reported
      BY <2>2, <3>1, SameRecord DEF Reported, Past
    <3> QED BY <2>2, <3>1, <3>2, SameRecord DEF RecordInv, Pulling, Ended
  <2> QED BY <1>9, <2>1, <2>2, ChangeIs
<1>10. CASE (Invalidate \/ Expire) \/ UNCHANGED vars
  <2>1. UNCHANGED <<configured, db, job>> /\ spent'.runs = spent.runs
    BY <1>10, DropIs DEF vars
  <2>2. Reported' = Reported
    BY <2>1, SameRecord DEF Reported, Past
  <2> QED BY <2>1, <2>2, SameRecord DEF RecordInv, Pulling, Ended
<1> QED
  BY <1>1, <1>2, <1>3, <1>4, <1>5, <1>6, <1>7, <1>8, <1>9, <1>10 DEF Next, SyncStep

\* When a request ends, at either endpoint, sync_all has a result for every entity type,
\* whatever became of the others; one that was committed has its log row even if the
\* router then fails on the results and rolls back, one that failed has none, and one
\* skipped has one only if the request is answered; /sync/trigger fails exactly when some
\* entity type failed or was skipped (sync_all, create_run, trigger_inbound_sync).
THEOREM ResultsMatchLogs == Spec => []ResultsOnRecord
<1>1. Init => RunsInv /\ RecordInv
  <2>1. ASSUME Init PROVE DOMAIN db.logs = {} /\ job.step = "idle"
    BY <2>1, IdleTyped DEF Init
  <2>2. DOMAIN db.logs = {} /\ job.step = "idle" => RunsInv
    BY DEF RunsInv
  <2>3. job.step = "idle" => RecordInv
    BY DEF RecordInv, Pulling
  <2> QED BY <2>1, <2>2, <2>3
<1>2. Spec => [](RunsInv /\ RecordInv)
  BY <1>1, StepRuns, StepRecord, TypeInvHolds, PTL DEF Spec
<1>3. TypeInv /\ RecordInv => ResultsOnRecord
  <2> SUFFICES ASSUME TypeInv, RecordInv, job.step \in Ended
               PROVE  /\ job.all => DOMAIN job.results = Entities
                      /\ \A e \in DOMAIN job.results :
                           LogsOf(spent.runs, e) # {} <=>
                             \/ job.results[e] \in {"SUCCESS", "PARTIAL"}
                             \/ job.results[e] = "SKIPPED_NO_ERP" /\ job.step = "answer sent"
                      /\ job.step = "error sent" <=>
                           job.endpoint = "trigger" /\ Invalid(job.results)
    BY DEF ResultsOnRecord, Ended
  <2>1. job.step # "idle" /\ Len(job.todo) = 1 /\ DOMAIN job.results = Reported
    BY DEF RecordInv, Ended
  <2>2. Reported = Scope
    <3>1. Ahead = {}
      BY <2>1 DEF Ahead
    <3> QED BY <3>1 DEF Reported, Past, Ended
  <2>3. ASSUME NEW e \in DOMAIN job.results
        PROVE  LogsOf(spent.runs, e) # {} <=>
                 \/ job.results[e] \in {"SUCCESS", "PARTIAL"}
                 \/ job.results[e] = "SKIPPED_NO_ERP" /\ job.step = "answer sent"
    <3>1. LogsOf(spent.runs, e) # {} <=> Logged(db.logs, e)
      BY DEF LogsOf, Logged
    <3>2. job.results[e] \in {"SKIPPED_NO_ERP", "FAILED", "SUCCESS", "PARTIAL"}
      BY JobIs DEF Results
    <3>3. /\ job.results[e] = "SKIPPED_NO_ERP" <=> ~configured
          /\ Logged(job.view.logs, e) <=> job.results[e] # "FAILED"
          /\ configured => (Logged(db.logs, e) <=> Logged(job.view.logs, e))
          /\ ~configured /\ job.step # "answer sent" => ~Logged(db.logs, e)
          /\ job.step = "answer sent" => db = job.view
      BY <2>1 DEF RecordInv
    <3> QED BY <3>1, <3>2, <3>3
  <2>4. job.step = "error sent" <=> job.endpoint = "trigger" /\ Invalid(job.results)
    BY <2>1 DEF RecordInv
  <2> QED BY <2>1, <2>2, <2>3, <2>4 DEF Scope
<1> QED BY <1>2, <1>3, TypeInvHolds, PTL

-----------------------------------------------------------------------------
(* A clean FULL sync leaves the snapshot as the ERP has it.                  *)

\* The next record is written.
LEMMA FollowsNext ==
  ASSUME NEW e \in Entities, NEW records \in Seq(Record(e)), NEW n \in Nat, NEW seen,
         NEW rows, NEW after, Follows(n, records, e, seen, rows), n < Len(records),
         \A i, j \in DOMAIN records : i # j => records[i].id # records[j].id,
         \A i \in Ids \ {records[n + 1].id} : after[i] = rows[i],
         Mirrors(after[records[n + 1].id], e, records[n + 1])
  PROVE  Follows(n + 1, records, e, seen \cup {records[n + 1].id}, after)
<1>1. Len(records) \in Nat /\ DOMAIN records = 1 .. Len(records)
  BY LenProperties
<1>2. 1 .. n + 1 = 1 .. n \cup {n + 1} /\ n + 1 \in DOMAIN records /\ 1 .. n \subseteq DOMAIN records
  BY <1>1
<1>3. seen \cup {records[n + 1].id} = {records[i].id : i \in 1 .. n + 1}
  BY <1>2 DEF Follows
<1>4. ASSUME NEW i \in 1 .. n PROVE Mirrors(after[records[i].id], e, records[i])
  <2>1. records[i].id \in Ids \ {records[n + 1].id}
    <3>1. records[i] \in Record(e) /\ i # n + 1
      BY <1>1, <1>2, ElementOfSeq
    <3> QED BY <1>2, <3>1 DEF Record
  <2> QED BY <2>1 DEF Follows
<1> QED BY <1>1, <1>2, <1>3, <1>4 DEF Follows

\* Nothing was pulled yet.
LEMMA FollowsNone ==
  ASSUME NEW e \in Entities, NEW records \in Seq(Record(e)), NEW rows
  PROVE  Follows(0, records, e, {}, rows)
<1>1. Len(records) \in Nat
  BY LenProperties
<1> QED BY <1>1 DEF Follows

\* The records that the ERP has of an entity type.
LEMMA FeedIs ==
  ASSUME TypeInv, NEW e \in Entities
  PROVE  /\ feed[e] \in Seq(Record(e)) /\ Len(feed[e]) \in Nat
         /\ DOMAIN feed[e] = 1 .. Len(feed[e])
         /\ \A i, j \in DOMAIN feed[e] : i # j => feed[e][i].id # feed[e][j].id
<1>1. feed \in Feeds
  BY DEF TypeInv
<1>2. feed[e] \in Seq(Record(e))
  BY <1>1, ConstantsAssumption
<1>3. \A i \in DOMAIN feed[e] : \A j \in DOMAIN feed[e] \ {i} : feed[e][i].id # feed[e][j].id
  BY <1>1, ConstantsAssumption
<1> QED BY <1>2, <1>3, LenProperties

\* A transaction that failed is rolled back before the next entity type.
LEMMA StepPoison ==
  ASSUME TypeInv, PoisonInv, [Next]_vars
  PROVE  PoisonInv'
<1>1. Idle.poisoned = FALSE
  BY DEF Idle
<1>2. CASE Request
  BY <1>2, RequestIs DEF PoisonInv
<1>3. CASE Begin
  BY <1>3, BeginIs DEF PoisonInv, Pulling
<1>4. CASE FetchCached \/ Ask \/ Answer \/ AnswerError \/ Receive \/ AfterPage
  BY <1>4, LoopIs DEF PoisonInv
<1>5. CASE Upsert
  BY <1>5, UpsertIs DEF PoisonInv, Pulling
<1>6. CASE MarkAndCommit
  BY <1>1, <1>6, MarkIs, RaiseIs DEF PoisonInv
<1>7. CASE Finish
  BY <1>7, FinishIs DEF PoisonInv, Pulling
<1>8. CASE NextEntity
  BY <1>8, NextIs DEF PoisonInv, Pulling
<1>9. CASE EndRequest
  BY <1>9, EndIs DEF PoisonInv, Pulling
<1>10. CASE Forget \/ Crash
  BY <1>1, <1>10 DEF Forget, Crash, PoisonInv
<1>11. CASE ErpChanges
  BY <1>1, <1>11, ChangeIs DEF PoisonInv
<1>12. CASE (Invalidate \/ Expire) \/ UNCHANGED vars
  BY <1>12, DropIs DEF vars, PoisonInv
<1> QED
  BY <1>2, <1>3, <1>4, <1>5, <1>6, <1>7, <1>8, <1>9, <1>10, <1>11, <1>12 DEF Next, SyncStep

\* A request that asks for a page or receives it: what was pulled stays.
LEMMA FollowLoop ==
  ASSUME TypeInv, FollowInv, FetchCached \/ Ask \/ Answer \/ AnswerError \/ Receive
  PROVE  FollowInv'
<1>1. job \in Job
  BY DEF TypeInv, JobTyped
<1>2. CASE FetchCached
  BY <1>1, <1>2 DEF FetchCached, Job, FollowInv
<1>3. CASE AnswerError
  BY <1>1, <1>3 DEF AnswerError, Job, FollowInv
<1>4. CASE Ask
  <2> DEFINE answer == PageOf(feed[Entity], job.page)
  <2>1. /\ job.step = "fetch" /\ job' = [job EXCEPT !.step = "asked", !.answer = answer]
        /\ UNCHANGED feed
    BY <1>4 DEF Ask
  <2> HIDE DEF answer
  <2>2. /\ job'.step = "asked" /\ job'.answer = answer /\ job'.todo = job.todo
        /\ job'.page = job.page /\ job'.clean = job.clean /\ job'.failed = job.failed
        /\ job'.poisoned = job.poisoned /\ job'.seen = job.seen /\ job'.view = job.view
    BY <1>1, <2>1 DEF Job
  <2> QED BY <2>1, <2>2 DEF FollowInv, Pulled, Entity, answer
<1>5. CASE Answer
  <2>1. /\ job.step = "asked" /\ UNCHANGED feed
        /\ job'.step = "answered" /\ job'.answer = job.answer /\ job'.todo = job.todo
        /\ job'.page = job.page /\ job'.clean = job.clean /\ job'.failed = job.failed
        /\ job'.poisoned = job.poisoned /\ job'.seen = job.seen /\ job'.view = job.view
    BY <1>1, <1>5 DEF Answer, Job
  <2> QED BY <2>1 DEF FollowInv, Pulled, Entity
<1>6. CASE Receive
  <2>1. /\ job.step = "answered" /\ UNCHANGED feed /\ job'.answer = job.answer
        /\ job'.todo = job.todo /\ job'.page = job.page /\ job'.clean = job.clean
        /\ job'.failed = job.failed /\ job'.poisoned = job.poisoned
        /\ job'.seen = job.seen /\ job'.view = job.view
        /\ \/ job.answer.items # <<>> /\ job'.step = "item" /\ job'.at = 1
           \/ job'.step = "fetch"
           \/ job.answer.items = <<>> /\ job'.step = "mark"
    BY <1>1, <1>6 DEF Receive, Job
  <2> SUFFICES ASSUME job.clean, job.failed = 0
               PROVE  FollowInv'
    BY <2>1 DEF FollowInv
  <2> DEFINE records == feed[Entity]
             last == IF Before(job.page) + PageSize < Len(records)
                     THEN Before(job.page) + PageSize ELSE Len(records)
  <2>2. /\ job.answer = PageOf(records, job.page) /\ ~job.poisoned
        /\ Pulled(Before(job.page))
    BY <2>1 DEF FollowInv
  <2>3. /\ Entity \in Entities /\ records \in Seq(Record(Entity)) /\ Len(records) \in Nat
        /\ job.page \in Nat \ {0}
    BY <2>1, JobIs, FeedIs
  <2>4. /\ Len(job.answer.items) = IF Before(job.page) + 1 <= last
                                   THEN last - Before(job.page) ELSE 0
        /\ Before(job.page) \in Nat
    <3> HIDE DEF records
    <3>1. LET items == PageOf(records, job.page).items
          IN  /\ Len(items) = IF Before(job.page) + 1 <= last THEN last - Before(job.page) ELSE 0
              /\ Before(job.page) \in Nat
      BY <2>3, PageTyped
    <3> QED BY <2>2, <3>1
  <2>5. PageSize \in Nat \ {0} /\ Before(job.page) \in 0 .. Len(records)
    BY <2>2, ConstantsAssumption DEF Pulled, Follows
  <2>6. job.answer.items = <<>> => Before(job.page) = Len(records)
    <3>1. job.answer.items = <<>> => Len(job.answer.items) = 0
      OBVIOUS
    <3> HIDE DEF records
    <3> QED BY <2>3, <2>4, <2>5, <3>1
  <2>7. Before(job.page) + 1 - 1 = Before(job.page)
    BY <2>4
  <2> HIDE DEF last
  <2> QED BY <2>1, <2>2, <2>6, <2>7 DEF FollowInv, Pulled, Entity
<1> QED BY <1>2, <1>3, <1>4, <1>5, <1>6

\* A record was pulled, or a page: the session has come that much further down the list.
LEMMA FollowPull ==
  ASSUME TypeInv, FollowInv, Upsert \/ AfterPage
  PROVE  FollowInv'
<1>1. job \in Job
  BY DEF TypeInv, JobTyped
<1> DEFINE records == feed[Entity]
           page == job.page
           last == IF Before(page) + PageSize < Len(records)
                   THEN Before(page) + PageSize ELSE Len(records)
           items == job.answer.items
<1>2. /\ job.step \in {"item", "page"} /\ Entity \in Entities /\ page \in Nat \ {0}
      /\ records \in Seq(Record(Entity)) /\ Len(records) \in Nat
      /\ DOMAIN records = 1 .. Len(records)
      /\ \A i, j \in DOMAIN records : i # j => records[i].id # records[j].id
      /\ PageSize \in Nat \ {0}
  BY JobIs, FeedIs, ConstantsAssumption DEF Upsert, AfterPage
<1>3. ASSUME job.clean, job.failed = 0
      PROVE  /\ ~job.poisoned
             /\ job.answer = PageOf(records, page) /\ job.answer.total = Len(records)
             /\ Len(items) = IF Before(page) + 1 <= last THEN last - Before(page) ELSE 0
             /\ DOMAIN items = 1 .. Len(items) /\ Before(page) \in Nat
             /\ \A i \in 1 .. Len(items) : items[i] = records[Before(page) + i]
             /\ Before(page + 1) = Before(page) + PageSize
             /\ page * PageSize = Before(page) + PageSize
  <2>1. ~job.poisoned /\ job.answer = PageOf(records, page)
    BY <1>2, <1>3 DEF FollowInv
  <2> HIDE DEF records
  <2>2. LET served == PageOf(records, page).items
        IN  /\ PageOf(records, page).total = Len(records)
            /\ Len(served) = IF Before(page) + 1 <= last THEN last - Before(page) ELSE 0
            /\ DOMAIN served = 1 .. Len(served) /\ Before(page) \in Nat
            /\ \A i \in 1 .. Len(served) : served[i] = records[Before(page) + i]
            /\ Before(page + 1) = Before(page) + PageSize
            /\ page * PageSize = Before(page) + PageSize
    BY <1>2, PageTyped
  <2> QED BY <2>1, <2>2
<1>4. CASE Upsert
  <2> SUFFICES ASSUME job'.clean, job'.failed = 0
               PROVE  FollowInv'
    BY DEF FollowInv
  <2>1. Good /\ job.clean /\ job.failed = 0
    <3>1. job.failed \in Nat /\ job'.failed = IF Good THEN job.failed ELSE job.failed + 1
      BY <1>4, UpsertIs, JobIs
    <3>2. Good /\ job.failed = 0
      BY <3>1
    <3> QED BY <1>4, <3>2, UpsertIs
  <2>2. /\ job.step = "item" /\ job'.view = Upserted(job.view, Entity, Item)
        /\ job'.seen = job.seen \cup {Item.id} /\ job'.page = page
        /\ job'.answer = job.answer /\ job'.at = job.at + 1 /\ ~job'.poisoned
        /\ job'.step = IF job.at = Len(items) THEN "page" ELSE "item"
        /\ Entity' = Entity /\ UNCHANGED feed /\ job.view \in View
        /\ job.at \in DOMAIN items /\ job.at \in Nat /\ Item \in Record(Entity)
    BY <1>3, <1>4, <2>1, UpsertIs, JobIs DEF Entity, TypeInv, JobTyped
  <2> DEFINE n == Before(page) + job.at - 1
  <2>3. Item = records[n + 1] /\ n \in Nat /\ n + 1 = Before(page) + job.at
        /\ n + 1 \in DOMAIN records
    <3>1. /\ Item = items[job.at] /\ job.at \in 1 .. Len(items) /\ Before(page) \in Nat
          /\ items[job.at] = records[Before(page) + job.at]
      BY <1>3, <2>1, <2>2 DEF Item
    <3>2. n \in Nat /\ n + 1 = Before(page) + job.at
      BY <2>2, <3>1
    <3>3. Before(page) + job.at <= Len(records)
      <4>1. Len(items) = IF Before(page) + 1 <= last THEN last - Before(page) ELSE 0
        BY <1>3, <2>1
      <4>2. last <= Len(records) /\ last \in Int
        BY <1>2, <3>1
      <4> HIDE DEF last, items
      <4> QED BY <1>2, <3>1, <4>1, <4>2, <2>2
    <3> QED BY <1>2, <3>1, <3>2, <3>3
  <2>4. Follows(n, records, Entity, job.seen, job.view.rows[Entity])
    BY <2>1, <2>2 DEF FollowInv, Pulled
  <2>5. /\ \A i \in Ids \ {Item.id} :
             job'.view.rows[Entity][i] = job.view.rows[Entity][i]
        /\ Mirrors(job'.view.rows[Entity][Item.id], Entity, Item)
    BY <1>2, <2>1, <2>2, RowWritten DEF Good
  <2> HIDE DEF n
  <2>6. n < Len(records)
    BY <1>2, <2>3
  <2>7. Follows(n + 1, records, Entity, job'.seen, job'.view.rows[Entity])
    <3> HIDE DEF records
    <3> QED BY SMTT(30), <1>2, <2>2, <2>3, <2>4, <2>5, <2>6, FollowsNext
  <2>8. /\ n + 1 = Before(job'.page) + job'.at - 1
        /\ job'.step = "page" => n + 1 = Before(job'.page) + Len(job'.answer.items)
    <3>1. Before(page) \in Nat
      BY <1>3, <2>1
    <3> QED BY <2>2, <2>3, <3>1
  <2>9. job'.answer = PageOf(feed'[Entity'], job'.page)
    BY <1>3, <2>1, <2>2
  <2> QED BY <2>2, <2>7, <2>8, <2>9 DEF FollowInv, Pulled
<1>5. CASE AfterPage
  <2>1. /\ job.step = "page" /\ UNCHANGED feed /\ job'.todo = job.todo
        /\ job'.clean = job.clean /\ job'.failed = job.failed
        /\ job'.poisoned = job.poisoned /\ job'.seen = job.seen /\ job'.view = job.view
        /\ \/ page * PageSize >= job.answer.total /\ job'.step = "mark"
           \/ /\ ~(page * PageSize >= job.answer.total) /\ job'.step = "fetch"
              /\ job'.page = page + 1
    BY <1>1, <1>5 DEF AfterPage, Job
  <2> SUFFICES ASSUME job.clean, job.failed = 0
               PROVE  FollowInv'
    BY <2>1 DEF FollowInv
  <2>2. Pulled(Before(page) + Len(items)) /\ ~job.poisoned
    BY <2>1 DEF FollowInv
  <2>3. Before(page) + Len(items) \in 0 .. Len(records) /\ Len(items) \in Nat
    <3>1. items \in Seq(AnyRecord)
      BY JobIs DEF Reply
    <3> QED BY <2>2, <3>1, LenProperties DEF Pulled, Follows
  <2>4. /\ page * PageSize >= job.answer.total => Before(page) + Len(items) = Len(records)
        /\ ~(page * PageSize >= job.answer.total) =>
             Before(page) + Len(items) = Before(page + 1)
    <3> DEFINE x == page * PageSize
    <3>1. /\ job.answer.total = Len(records) /\ Before(page) \in Nat
          /\ Len(items) = IF Before(page) + 1 <= last THEN last - Before(page) ELSE 0
          /\ Before(page + 1) = Before(page) + PageSize /\ x = Before(page) + PageSize
      BY <1>3
    <3> HIDE DEF x, items, records
    <3>2. x >= Len(records) => Before(page) + Len(items) = Len(records)
      BY <1>2, <2>3, <3>1
    <3>3. ~(x >= Len(records)) => Before(page) + Len(items) = Before(page + 1)
      BY <1>2, <2>3, <3>1
    <3> QED BY <3>1, <3>2, <3>3 DEF x
  <2> HIDE DEF last, items
  <2> QED BY <2>1, <2>2, <2>4 DEF FollowInv, Pulled, Entity
<1> QED BY <1>4, <1>5

\* Every step keeps the session and the list together.
LEMMA StepFollow ==
  ASSUME TypeInv, PoisonInv, FollowInv, [Next]_vars
  PROVE  FollowInv'
<1>1. Idle.poisoned = FALSE /\ Idle.step = "idle"
  BY DEF Idle
<1>2. CASE Request
  BY <1>2, RequestIs DEF FollowInv
<1>3. CASE Begin
  <2>1. /\ job.step = "begin" /\ ~job'.poisoned /\ Entity' = Entity /\ UNCHANGED feed
        /\ Entity \in Entities
    BY <1>3, BeginIs, JobIs DEF PoisonInv, Pulling, Entity
  <2>2. CASE configured
    <3>1. job'.step = "fetch" /\ job'.seen = {} /\ job'.page = 1
      BY <1>3, <2>2, BeginIs
    <3>2. Before(1) = 0
      BY ConstantsAssumption DEF Before
    <3>3. Follows(0, feed[Entity], Entity, {}, job'.view.rows[Entity])
      BY <2>1, FeedIs, FollowsNone
    <3> QED BY <2>1, <3>1, <3>2, <3>3 DEF FollowInv, Pulled
  <2>3. CASE ~configured
    BY <1>3, <2>1, <2>3, BeginIs DEF FollowInv
  <2> QED BY <2>2, <2>3
<1>4. CASE FetchCached \/ Ask \/ Answer \/ AnswerError \/ Receive
  BY <1>4, FollowLoop
<1>5. CASE Upsert \/ AfterPage
  BY <1>5, FollowPull
<1>6. CASE MarkAndCommit
  BY <1>1, <1>6, MarkIs, RaiseIs DEF FollowInv
<1>7. CASE Finish
  BY <1>7, FinishIs DEF FollowInv, PoisonInv, Pulling
<1>8. CASE NextEntity
  BY <1>8, NextIs DEF FollowInv, PoisonInv, Pulling
<1>9. CASE EndRequest
  BY <1>9, EndIs DEF FollowInv, PoisonInv, Pulling
<1>10. CASE Forget \/ Crash
  BY <1>1, <1>10 DEF Forget, Crash, FollowInv
<1>11. CASE ErpChanges
  BY <1>1, <1>11, ChangeIs DEF FollowInv
<1>12. CASE (Invalidate \/ Expire) \/ UNCHANGED vars
  <2>1. UNCHANGED <<feed, job>>
    BY <1>12, DropIs DEF vars
  <2> QED BY <2>1 DEF FollowInv, Pulled, Entity
<1> QED
  BY <1>2, <1>3, <1>4, <1>5, <1>6, <1>7, <1>8, <1>9, <1>10, <1>11, <1>12 DEF Next, SyncStep

\* Every step leaves the rows alone until a record is seen.
LEMMA StepBefore ==
  ASSUME TypeInv, BeforeInv, [Next]_vars
  PROVE  BeforeInv'
<1>1. CASE job'.step \notin Pulling
  BY <1>1 DEF BeforeInv
<1>2. CASE Begin
  <2>1. /\ Entity' = Entity /\ job'.view.rows = job.view.rows
        /\ configured => job'.before = job.view.rows[Entity]
        /\ ~configured => job'.step = "next"
    BY <1>2, BeginIs DEF Entity
  <2> QED BY <2>1 DEF BeforeInv, Pulling
<1>3. CASE FetchCached \/ Ask \/ Answer \/ AnswerError \/ Receive \/ AfterPage
  BY <1>3, LoopIs DEF BeforeInv
<1>4. CASE Upsert
  <2>1. job.step \in Pulling /\ Entity' = Entity /\ job'.before = job.before
    BY <1>4, UpsertIs DEF Pulling, Entity
  <2>2. CASE Good
    BY <1>4, <2>2, UpsertIs DEF BeforeInv
  <2>3. CASE ~Good
    BY <1>4, <2>1, <2>3, UpsertIs DEF BeforeInv
  <2> QED BY <2>2, <2>3
<1>5. CASE ErpChanges /\ job'.step \in Pulling
  <2>1. /\ job'.step = job.step /\ job'.todo = job.todo /\ job'.view = job.view
        /\ job'.seen = job.seen /\ job'.before = job.before
    BY <1>5, ChangeIs, IdleTyped DEF Pulling
  <2> QED BY <2>1 DEF BeforeInv, Entity
<1>6. CASE (Invalidate \/ Expire) \/ UNCHANGED vars
  <2>1. UNCHANGED job
    BY <1>6, DropIs DEF vars
  <2> QED BY <2>1 DEF BeforeInv, Entity
<1>7. ASSUME Request \/ MarkAndCommit \/ Finish \/ NextEntity \/ EndRequest
      PROVE  job'.step \notin Pulling
  BY <1>7, RequestIs, MarkIs, RaiseIs, IdleTyped, FinishIs, NextIs, EndIs DEF Pulling
<1>8. ASSUME Forget \/ Crash PROVE job'.step \notin Pulling
  BY <1>8, IdleTyped DEF Forget, Crash, Pulling
<1> QED BY <1>1, <1>2, <1>3, <1>4, <1>5, <1>6, <1>7, <1>8 DEF Next, SyncStep

\* The commit of an entity type whose list was followed to its end.
LEMMA CommitMirrors ==
  ASSUME TypeInv, FollowInv, BeforeInv, MarkAndCommit
  PROVE  CleanSyncMirrors'
<1> SUFFICES ASSUME job'.step = "finish", job'.clean, job'.mode = "FULL", job'.failed = 0
             PROVE  /\ Served(Entity)' = {} => db'.rows[Entity'] = job'.before
                    /\ Served(Entity)' # {} => \A i \in Ids :
                         /\ i \in Served(Entity)' => db'.rows[Entity'][i].sync = "SYNCED"
                         /\ i \notin Served(Entity)' => \/ db'.rows[Entity'][i].sync # "SYNCED"
                                                       \/ db'.rows[Entity'][i].status = "DELETED"
                         /\ \A n \in DOMAIN feed'[Entity'] : feed'[Entity'][n].id = i =>
                              db'.rows[Entity'][i].status =
                                IF ~feed'[Entity'][n].deleted THEN "ACTIVE"
                                ELSE IF Entity' \in Persons THEN "INACTIVE" ELSE "DELETED"
  BY DEF CleanSyncMirrors
<1> DEFINE records == feed[Entity]
<1>1. /\ job.step = "mark" /\ UNCHANGED feed /\ Entity' = Entity /\ job.seen = job'.seen
      /\ job.clean /\ job.failed = 0 /\ job.view \in View /\ Entity \in Entities
      /\ job'.before = job.before
      /\ IF job.seen # {}
         THEN db' = [job.view EXCEPT !.rows[Entity] = Missing(@, job.seen)]
         ELSE db' = job.view
  <2>1. ~Raise \/ job'.step # "finish"
    BY MarkIs, RaiseIs, IdleTyped
  <2>2. db' = job'.view /\ job.mode = "FULL"
    BY <2>1, MarkIs
  <2> QED BY <2>1, <2>2, MarkIs, JobIs DEF Entity
<1>2. /\ DOMAIN records = 1 .. Len(records)
      /\ Follows(Len(records), records, Entity, job.seen, job.view.rows[Entity])
  BY <1>1, FeedIs DEF FollowInv, Pulled
<1>3. job.seen = {records[n].id : n \in DOMAIN records}
  BY <1>2 DEF Follows
<1>4. job.seen = Served(Entity)'
  BY <1>1, <1>3 DEF Served
<1>7. Served(Entity)' = {} => db'.rows[Entity'] = job'.before
  BY <1>1, <1>4 DEF BeforeInv, Pulling
<1> SUFFICES ASSUME job.seen # {}, NEW i \in Ids
             PROVE  /\ i \in Served(Entity)' => db'.rows[Entity'][i].sync = "SYNCED"
                    /\ i \notin Served(Entity)' => \/ db'.rows[Entity'][i].sync # "SYNCED"
                                                  \/ db'.rows[Entity'][i].status = "DELETED"
                    /\ \A n \in DOMAIN feed'[Entity'] : feed'[Entity'][n].id = i =>
                         db'.rows[Entity'][i].status =
                           IF ~feed'[Entity'][n].deleted THEN "ACTIVE"
                           ELSE IF Entity' \in Persons THEN "INACTIVE" ELSE "DELETED"
  BY <1>4, <1>7
<1>8. db' = [job.view EXCEPT !.rows[Entity] = Missing(@, job.seen)]
  BY <1>1
<1>5. CASE i \in job.seen
  <2>1. db'.rows[Entity][i] = job.view.rows[Entity][i]
    BY <1>1, <1>5, <1>8, Marked
  <2>2. \A n \in DOMAIN records : records[n].id = i => Mirrors(db'.rows[Entity][i], Entity, records[n])
    BY <1>2, <2>1 DEF Follows
  <2>3. \E n \in DOMAIN records : records[n].id = i
    BY <1>3, <1>5
  <2> QED BY <1>1, <1>4, <1>5, <2>2, <2>3 DEF Mirrors
<1>6. CASE i \notin job.seen
  <2>1. db'.rows[Entity][i].sync # "SYNCED" \/ db'.rows[Entity][i].status = "DELETED"
    BY <1>1, <1>6, <1>8, Marked
  <2>2. \A n \in DOMAIN records : records[n].id # i
    BY <1>3, <1>6
  <2> QED BY <1>1, <1>4, <1>6, <2>1, <2>2
<1> QED BY <1>5, <1>6

\* Every step keeps the mirror.
LEMMA StepMirror ==
  ASSUME TypeInv, FollowInv, BeforeInv, CleanSyncMirrors, [Next]_vars
  PROVE  CleanSyncMirrors'
<1>1. CASE job'.step # "finish" \/ ~job'.clean
  BY <1>1 DEF CleanSyncMirrors
<1>2. CASE MarkAndCommit
  BY <1>2, CommitMirrors
<1>3. CASE (Invalidate \/ Expire) \/ UNCHANGED vars
  <2>1. UNCHANGED <<feed, db, job>>
    BY <1>3, DropIs DEF vars
  <2>2. Entity' = Entity /\ Served(Entity)' = Served(Entity)
    BY <2>1 DEF Served, Entity
  <2> QED BY <2>1, <2>2 DEF CleanSyncMirrors
<1>4. ASSUME ErpChanges PROVE job'.step # "finish" \/ ~job'.clean
  BY <1>4, ChangeIs, IdleTyped
<1>5. ASSUME FetchCached \/ Ask \/ Answer \/ AnswerError \/ Receive \/ AfterPage \/ Upsert
      PROVE  job'.step # "finish"
  BY <1>5, LoopIs, UpsertIs DEF Pulling
<1>6. ASSUME Request \/ Begin \/ Finish \/ NextEntity \/ EndRequest
      PROVE  job'.step # "finish"
  BY <1>6, RequestIs, BeginIs, FinishIs, NextIs, EndIs
<1>7. ASSUME Forget \/ Crash PROVE job'.step # "finish"
  BY <1>7, IdleTyped DEF Forget, Crash
<1> QED
  BY <1>1, <1>2, <1>3, <1>4, <1>5, <1>6, <1>7 DEF Next, SyncStep

\* A FULL sync of an entity type whose pages all came from the ERP, with nothing changed
\* there meanwhile and no record failed, commits the snapshot as the ERP has it, however
\* many pages there are, however large, and however often one had to be asked for again:
\* exactly the records served are SYNCED and not deleted, unless the ERP has none of the
\* type, which leaves every row as it was (sync_service.py: header, _mark_missing).
THEOREM CleanSyncIsAMirror == Spec => []CleanSyncMirrors
<1>1. Init => PoisonInv /\ FollowInv /\ BeforeInv /\ CleanSyncMirrors
  <2>1. ASSUME Init PROVE job.step = "idle" /\ ~job.poisoned
    BY <2>1 DEF Init, Idle
  <2> QED BY <2>1 DEF PoisonInv, FollowInv, BeforeInv, Pulling, CleanSyncMirrors
<1>2. Spec => [](PoisonInv /\ FollowInv /\ BeforeInv /\ CleanSyncMirrors)
  BY <1>1, StepPoison, StepFollow, StepBefore, StepMirror, TypeInvHolds, PTL DEF Spec
<1> QED BY <1>2, PTL

=============================================================================
