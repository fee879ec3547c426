-------------------------------- MODULE ErpSync --------------------------------
(***************************************************************************)
(* The inbound synchronisation with the ERP (modules/integration):           *)
(* SyncService pulls the pages of an entity type through ERPClient and its    *)
(* cache, upserts the records into the snapshot tables, marks what the ERP no *)
(* longer has, and keeps a row per run in erp_sync_logs.                      *)
(*                                                                         *)
(* One request syncs one entity type or all of them, parents first, in one    *)
(* session: the snapshot of an entity type is committed as a whole, and what  *)
(* finish_run writes after that waits for the next commit.  A flush that the  *)
(* database refuses rolls the transaction back and leaves the session         *)
(* unusable until rollback() is called.                                      *)
(***************************************************************************)
EXTENDS Integers, Sequences, FiniteSets, SequencesExt, TLC

CONSTANTS
  Order,       \* the entity types the ERP serves here, in the order of sync_all
  Ids,         \* ERP ids of records
  Users,       \* ERP ids of users
  Feeds,       \* what the ERP may have: the records of each entity, in order
  PageSize,
  MaxRuns,     \* bound: sync requests
  MaxChanges,  \* bound: changes in the ERP
  MaxDrops,    \* bound: invalidations and expiries of cached pages
  MaxErrors,   \* bound: answers of the ERP that are errors
  MaxCrashes   \* bound: crashes of the server

FullOrder == << "board", "school", "session", "class", "subject", "chapter", "unit",
                "topic", "student", "teacher" >>

Entities == Range(Order)

\* The foreign keys of a snapshot table that are taken from the ERP; they are
\* NOT NULL.  The school of a student or teacher falls back to any school.
Fks(e) == CASE e = "school"  -> {"board"}
            [] e = "session" -> {"school"}
            [] e = "class"   -> {"school"}
            [] e = "subject" -> {"board", "class"}
            [] e = "chapter" -> {"subject"}
            [] e = "unit"    -> {"chapter"}
            [] e = "topic"   -> {"unit"}
            [] OTHER -> {}

Persons    == {"student", "teacher"}
MaxRetries == 3
Modes      == {"FULL", "INCREMENTAL"}      \* MANUAL is as INCREMENTAL

\* A record as the ERP sends it.  fault: nothing, a date that cannot be parsed
\* (before anything is written), or a value the database refuses.
Record(e) == [id : Ids, parents : [Fks(e) \cap Entities -> Ids], user : Users \cup {"none"},
              deleted : BOOLEAN, fault : {"none", "date", "column"}]

ASSUME ConstantsAssumption ==
  /\ Order \in Seq(Range(FullOrder)) \ {<<>>}
  /\ \A i, j \in DOMAIN Order : i < j =>
       \E k, l \in DOMAIN FullOrder :
         k < l /\ Order[i] = FullOrder[k] /\ Order[j] = FullOrder[l]
  /\ \A f \in Feeds : \A e \in Entities : f[e] \in Seq(Record(e))
  /\ \A f \in Feeds, e \in Entities : \A i \in DOMAIN f[e] :
       /\ f[e][i].fault = "date" => e = "session"
       /\ \A j \in DOMAIN f[e] \ {i} : f[e][i].id # f[e][j].id
  /\ PageSize \in Nat \ {0} /\ MaxRuns \in Nat /\ MaxChanges \in Nat
  /\ MaxDrops \in Nat /\ MaxErrors \in Nat /\ MaxCrashes \in Nat

VARIABLES
  configured,  \* ERP_API_BASE_URL is set
  feed,        \* what the ERP has now
  cache,       \* academic_cache: the answers kept, by entity and page
  db,          \* what is committed: snapshot rows, users, erp_sync_logs
  job,         \* the sync request under way
  spent        \* how much of the bounds is used

vars == <<configured, feed, cache, db, job, spent>>

-----------------------------------------------------------------------------
\* A mapping after key was set (TTLCache.set; the results of sync_all, by entity type).
With(d, key, value) == [k \in DOMAIN d \cup {key} |-> IF k = key THEN value ELSE d[k]]

NoRow == [status |-> "none", sync |-> "none", parents |-> [p \in {} |-> "none"]]

Page == [e : Entities, page : Nat]

NoAnswer == [items |-> <<>>, total |-> 0]

\* The slice of the records that an offset and a limit give.
PageOf(records, page) ==
  [items |-> SubSeq(records, (page - 1) * PageSize + 1,
                    IF page * PageSize < Len(records) THEN page * PageSize ELSE Len(records)),
   total |-> Len(records)]

Idle == [step     |-> "idle",
         todo     |-> <<>>,          \* entity types still to come, this one first
         all      |-> FALSE,         \* sync_all
         endpoint |-> "academic",    \* /sync/academic, or /sync/trigger
         mode     |-> "FULL",
         view     |-> [rows |-> <<>>, users |-> <<>>, logs |-> <<>>],
         log      |-> 0,             \* log.id, as a position
         page     |-> 1,
         attempt  |-> 1,
         answer   |-> NoAnswer,
         at       |-> 1,             \* the item it is at
         seen     |-> {},            \* pulled_erp_ids
         pulled   |-> 0, failed |-> 0,
         poisoned |-> FALSE,         \* a flush failed: rollback() is awaited
         results  |-> [e \in {} |-> "none"],
         clean    |-> TRUE,          \* history: no error, no change, no old page
         before   |-> <<>>]          \* history: the rows when the entity type began

Entity == job.todo[1]

Init ==
  /\ configured \in BOOLEAN
  /\ feed \in Feeds
  /\ cache = [k \in {} |-> NoAnswer]
  /\ db = [rows  |-> [e \in Entities |-> [i \in Ids |-> NoRow]],
           users |-> [u \in Users |-> "none"],
           logs  |-> <<>>]
  /\ job = Idle
  /\ spent = [runs |-> 0, changes |-> 0, drops |-> 0, errors |-> 0, crashes |-> 0]

-----------------------------------------------------------------------------
(* Upserting a record.                                                       *)

\* A parent is resolved among the rows that are not deleted.
Resolved(view, p, i) == view.rows[p][i].status \notin {"none", "DELETED"}

\* _upsert_record: what resolves is taken over, what does not keeps its value.
TreeRow(view, e, item) ==
  LET old == view.rows[e][item.id]
  IN [status  |-> IF item.deleted THEN "DELETED" ELSE "ACTIVE",
      sync    |-> "SYNCED",
      parents |-> [p \in Fks(e) \cap Entities |->
                     IF Resolved(view, p, item.parents[p]) THEN item.parents[p]
                     ELSE IF old = NoRow THEN "none" ELSE old.parents[p]]]

\* _upsert_student, _upsert_teacher: a new user is ACTIVE whatever the record.
PersonRow(item) ==
  [status  |-> IF item.deleted THEN "INACTIVE" ELSE "ACTIVE",
   sync    |-> "SYNCED",
   parents |-> NoRow.parents]

UserStatus(view, item) ==
  IF view.users[item.user] # "none" /\ item.deleted THEN "INACTIVE" ELSE "ACTIVE"

Upserted(view, e, item) ==
  IF e \notin Persons
  THEN [view EXCEPT !.rows[e][item.id] = TreeRow(view, e, item)]
  ELSE [view EXCEPT !.rows[e][item.id] = PersonRow(item),
                    !.users = IF item.user = "none" THEN @
                              ELSE [@ EXCEPT ![item.user] = UserStatus(view, item)]]

NullableParents(view, e, item) == item.fault = "column"   \* mutant: no NOT NULL

\* The database refuses the row: a NOT NULL parent that did not resolve, or a
\* new profile with user_id 0, or a teacher of a school that is not there.
Refused(view, e, item) ==
  \/ item.fault = "column"
  \/ e \notin Persons /\ \E p \in Fks(e) \cap Entities :
                           TreeRow(view, e, item).parents[p] = "none"
  \/ e \in Persons /\ item.user = "none" /\ view.rows[e][item.id] = NoRow
  \/ e = "teacher" /\ "school" \in Entities
                   /\ \A i \in Ids : view.rows["school"][i] = NoRow

\* _mark_missing looks at rows that are SYNCED and not deleted.
Missing(rows, seen) ==
  [i \in Ids |-> IF /\ i \notin seen /\ rows[i].sync = "SYNCED"
                    /\ rows[i].status # "DELETED"
                 THEN [rows[i] EXCEPT !.sync = "MISSING_IN_ERP"]
                 ELSE rows[i]]

-----------------------------------------------------------------------------
(* The request.                                                              *)

NewJob(endpoint, mode, todo) ==
  [Idle EXCEPT !.step = "begin", !.todo = todo, !.all = todo = Order,
               !.endpoint = endpoint, !.mode = mode, !.view = db]

\* POST /sync/academic is sync_all in FULL mode; POST /sync/trigger names the mode
\* and, if it likes, an entity type.
Request ==
  /\ job.step = "idle"
  /\ spent.runs < MaxRuns
  /\ \E mode \in Modes, todo \in {Order} \cup {<<e>> : e \in Entities},
        endpoint \in {"academic", "trigger"} :
       /\ endpoint = "academic" => mode = "FULL" /\ todo = Order
       /\ job' = NewJob(endpoint, mode, todo)
  /\ spent' = [spent EXCEPT !.runs = @ + 1]
  /\ UNCHANGED <<configured, feed, cache, db>>

NewLog == [run |-> spent.runs, entity |-> Entity, status |-> "SUCCESS", finished |-> FALSE]

\* sync_entity_type up to its page loop: create_run, flushed.
Begin ==
  /\ job.step = "begin"
  /\ LET logs == Append(job.view.logs, NewLog)
     IN IF configured
        THEN job' = [job EXCEPT !.step = "fetch", !.view.logs = logs, !.log = Len(logs),
                                !.page = 1, !.attempt = 1, !.seen = {}, !.pulled = 0,
                                !.failed = 0, !.clean = TRUE,
                                !.before = job.view.rows[Entity]]
        ELSE job' = [job EXCEPT !.step = "next",
                                !.view.logs = [logs EXCEPT ![Len(logs)].status = "FAILED",
                                                           ![Len(logs)].finished = TRUE],
                                !.results = With(@, Entity, "SKIPPED_NO_ERP")]
  /\ UNCHANGED <<configured, feed, cache, db, spent>>

Key == [e |-> Entity, page |-> job.page]

\* get_academic_page answers from the cache, whatever the mode.
FetchCached ==
  /\ job.step = "fetch"
  /\ Key \in DOMAIN cache
  /\ job' = [job EXCEPT !.step = "answered", !.answer = cache[Key], !.clean = FALSE]
  /\ UNCHANGED <<configured, feed, cache, db, spent>>

\* The ERP reads its records; the answer is on its way.
Ask ==
  /\ job.step = "fetch"
  /\ Key \notin DOMAIN cache
  /\ job' = [job EXCEPT !.step = "asked", !.answer = PageOf(feed[Entity], job.page)]
  /\ UNCHANGED <<configured, feed, cache, db, spent>>

\* The answer arrives; one with items is cached.
Answer ==
  /\ job.step = "asked"
  /\ cache' = IF job.answer.items = <<>> THEN cache ELSE With(cache, Key, job.answer)
  /\ job' = [job EXCEPT !.step = "answered"]
  /\ UNCHANGED <<configured, feed, db, spent>>

\* An HTTP status, a timeout or bad JSON becomes an empty page of an empty list.
AnswerError ==
  /\ job.step = "asked"
  /\ spent.errors < MaxErrors
  /\ spent' = [spent EXCEPT !.errors = @ + 1]
  /\ job' = [job EXCEPT !.step = "answered", !.answer = NoAnswer, !.clean = FALSE]
  /\ UNCHANGED <<configured, feed, cache, db>>

ReceiveRetriesForever ==                    \* mutant: the attempts are not counted
  /\ job.step = "answered"
  /\ job' = IF job.answer.items # <<>>
            THEN [job EXCEPT !.step = "item", !.at = 1]
            ELSE IF job.answer.total > 0
            THEN [job EXCEPT !.step = "fetch"]
            ELSE [job EXCEPT !.step = "mark"]
  /\ UNCHANGED <<configured, feed, cache, db, spent>>

\* _fetch_page_with_retry asks again only for an empty page of a list that is
\* not empty; sync_entity_type ends its loop on an empty page.
Receive ==
  /\ job.step = "answered"
  /\ job' = IF job.answer.items # <<>>
            THEN [job EXCEPT !.step = "item", !.at = 1]
            ELSE IF job.answer.total > 0 /\ job.attempt < MaxRetries
            THEN [job EXCEPT !.step = "fetch", !.attempt = @ + 1]
            ELSE [job EXCEPT !.step = "mark"]
  /\ UNCHANGED <<configured, feed, cache, db, spent>>

Item == job.answer.items[job.at]

\* One record.  After a refused flush every statement of the session fails.
UpsertFailedIsSeen ==                       \* mutant: the id is noted before
  /\ job.step = "item"
  /\ job' = LET good == ~job.poisoned /\ Item.fault # "date"
                           /\ ~Refused(job.view, Entity, Item)
            IN [job EXCEPT
                  !.view = IF good THEN Upserted(@, Entity, Item) ELSE @,
                  !.seen = @ \cup {Item.id},
                  !.failed = IF good THEN @ ELSE @ + 1,
                  !.poisoned = @ \/ (~good /\ Item.fault # "date"),
                  !.pulled = @ + 1, !.at = @ + 1,
                  !.step = IF job.at = Len(job.answer.items) THEN "page" ELSE "item"]
  /\ UNCHANGED <<configured, feed, cache, db, spent>>

Upsert ==
  /\ job.step = "item"
  /\ job' = LET good == ~job.poisoned /\ Item.fault # "date"
                           /\ ~Refused(job.view, Entity, Item)
            IN [job EXCEPT
                  !.view = IF good THEN Upserted(@, Entity, Item) ELSE @,
                  !.seen = IF good THEN @ \cup {Item.id} ELSE @,
                  !.failed = IF good THEN @ ELSE @ + 1,
                  !.poisoned = @ \/ (~good /\ Item.fault # "date"),
                  !.pulled = @ + 1, !.at = @ + 1,
                  !.step = IF job.at = Len(job.answer.items) THEN "page" ELSE "item"]
  /\ UNCHANGED <<configured, feed, cache, db, spent>>

AfterPageStopsEarly ==                      \* mutant: the last page is not pulled
  /\ job.step = "page"
  /\ job' = IF (job.page + 1) * PageSize >= job.answer.total
            THEN [job EXCEPT !.step = "mark"]
            ELSE [job EXCEPT !.step = "fetch", !.page = @ + 1, !.attempt = 1]
  /\ UNCHANGED <<configured, feed, cache, db, spent>>

AfterPage ==
  /\ job.step = "page"
  /\ job' = IF job.page * PageSize >= job.answer.total
            THEN [job EXCEPT !.step = "mark"]
            ELSE [job EXCEPT !.step = "fetch", !.page = @ + 1, !.attempt = 1]
  /\ UNCHANGED <<configured, feed, cache, db, spent>>

\* An exception out of sync_entity_type: sync_all rolls back and goes on, the
\* request for one entity type fails.
RaiseUnreported ==                          \* mutant: the entity gets no result
  job' = IF job.all
         THEN [job EXCEPT !.step = "next", !.view = db, !.poisoned = FALSE]
         ELSE Idle

Raise ==
  job' = IF job.all
         THEN [job EXCEPT !.step = "next", !.view = db, !.poisoned = FALSE,
                          !.results = With(@, Entity, "FAILED")]
         ELSE Idle

\* _mark_missing, then the commit of the entity type.
MarkAndCommit ==
  /\ job.step = "mark"
  /\ IF job.poisoned
     THEN Raise /\ UNCHANGED db
     ELSE LET view == IF job.mode = "FULL" /\ job.seen # {}
                      THEN [job.view EXCEPT !.rows[Entity] = Missing(@, job.seen)]
                      ELSE job.view
          IN /\ db' = view
             /\ job' = [job EXCEPT !.step = "finish", !.view = view]
  /\ UNCHANGED <<configured, feed, cache, spent>>

\* finish_run: flushed, not committed.
Finish ==
  /\ job.step = "finish"
  /\ LET status == IF job.failed = 0 THEN "SUCCESS" ELSE "PARTIAL"
     IN job' = [job EXCEPT !.step = "next", !.answer = NoAnswer, !.seen = {}, !.before = <<>>,
                           !.view.logs[job.log] = [@ EXCEPT !.status = status,
                                                            !.finished = TRUE],
                           !.results = With(@, Entity, status)]
  /\ UNCHANGED <<configured, feed, cache, db, spent>>

\* The next entity type of sync_all.
NextEntity ==
  /\ job.step = "next"
  /\ Len(job.todo) > 1
  /\ job' = [job EXCEPT !.step = "begin", !.todo = Tail(@)]
  /\ UNCHANGED <<configured, feed, cache, db, spent>>

\* trigger_inbound_sync makes an InboundSyncResult of each result; its mode is
\* required, and FAILED and SKIPPED_NO_ERP results have none.
Invalid(results) == \E e \in DOMAIN results : results[e] \in {"FAILED", "SKIPPED_NO_ERP"}

\* The request is answered and get_db commits, or the ValidationError makes it
\* a 500 and get_db rolls back.
EndRequest ==
  /\ job.step = "next"
  /\ Len(job.todo) = 1
  /\ IF job.endpoint = "trigger" /\ Invalid(job.results)
     THEN job' = [job EXCEPT !.step = "error sent"] /\ UNCHANGED db
     ELSE job' = [job EXCEPT !.step = "answer sent"] /\ db' = job.view
  /\ UNCHANGED <<configured, feed, cache, spent>>

Forget ==
  /\ job.step \in {"answer sent", "error sent"}
  /\ job' = Idle
  /\ UNCHANGED <<configured, feed, cache, db, spent>>

-----------------------------------------------------------------------------
(* The ERP, its call to /internal/cache/invalidate, time and crashes.         *)

ErpChanges ==
  /\ spent.changes < MaxChanges
  /\ feed' \in Feeds \ {feed}
  /\ job' = IF job.step = "idle" THEN Idle ELSE [job EXCEPT !.clean = FALSE]
  /\ spent' = [spent EXCEPT !.changes = @ + 1]
  /\ UNCHANGED <<configured, cache, db>>

\* For one entity type, or for all of them.
Invalidate ==
  /\ spent.drops < MaxDrops
  /\ cache # [k \in {} |-> NoAnswer]
  /\ \E es \in {Entities} \cup {{e} : e \in Entities} :
       cache' = Restrict(cache, {k \in DOMAIN cache : k.e \notin es})
  /\ spent' = [spent EXCEPT !.drops = @ + 1]
  /\ UNCHANGED <<configured, feed, db, job>>

\* An entry is ten minutes old.
Expire ==
  /\ spent.drops < MaxDrops
  /\ \E k \in DOMAIN cache : cache' = Restrict(cache, DOMAIN cache \ {k})
  /\ spent' = [spent EXCEPT !.drops = @ + 1]
  /\ UNCHANGED <<configured, feed, db, job>>

\* The process ends: the transaction is rolled back, the cache is lost.
Crash ==
  /\ job.step # "idle"
  /\ spent.crashes < MaxCrashes
  /\ job' = Idle
  /\ cache' = [k \in {} |-> NoAnswer]
  /\ spent' = [spent EXCEPT !.crashes = @ + 1]
  /\ UNCHANGED <<configured, feed, db>>

SyncStep ==
  \/ Begin \/ FetchCached \/ Ask \/ Answer \/ AnswerError \/ Receive \/ Upsert
  \/ AfterPage \/ MarkAndCommit \/ Finish \/ NextEntity \/ EndRequest \/ Forget

Next == Request \/ SyncStep \/ ErpChanges \/ Invalidate \/ Expire \/ Crash

\* The request's coroutine is resumed; the HTTP client gives up after a timeout.
Spec == Init /\ [][Next]_vars /\ WF_vars(SyncStep)

-----------------------------------------------------------------------------
(* Properties.                                                               *)

Statuses == {"none", "ACTIVE", "INACTIVE", "DELETED"}

RowsOK(view) ==
  /\ \A e \in Entities, i \in Ids :
       /\ view.rows[e][i].status \in Statuses
       /\ view.rows[e][i].sync \in {"none", "SYNCED", "MISSING_IN_ERP"}
       /\ view.rows[e][i] = NoRow \/ view.rows[e][i].parents \in [DOMAIN view.rows[e][i].parents -> Ids]
  /\ view.users \in [Users -> {"none", "ACTIVE", "INACTIVE"}]
  /\ \A n \in DOMAIN view.logs :
       view.logs[n].status \in {"SUCCESS", "PARTIAL", "FAILED"}

\* Type correctness; the parents a row refers to are never null.
TypeOK ==
  /\ configured \in BOOLEAN /\ feed \in Feeds
  /\ \A k \in DOMAIN cache : k \in Page /\ cache[k].items # <<>>
  /\ RowsOK(db)
  /\ job.step # "idle" => RowsOK(job.view)
  /\ job.attempt \in 1 .. MaxRetries /\ job.failed \in 0 .. job.pulled

Served(e) == {feed[e][i].id : i \in DOMAIN feed[e]}

\* A FULL sync of an entity type whose pages all came from the ERP, while
\* nothing changed there and no record failed, leaves the snapshot as the ERP
\* has it: a row SYNCED and not deleted for exactly the records served and not
\* deleted (the header of sync_service.py, points 2 to 5).  Not so when the ERP has
\* no record of the type at all, against point 5: _mark_missing returns at once
\* (sync_service.py:440), and every row stays as it was, SYNCED ones SYNCED.
CleanSyncMirrors ==
  job.step = "finish" /\ job.clean /\ job.mode = "FULL" /\ job.failed = 0 =>
    IF Served(Entity) = {}
    THEN db.rows[Entity] = job.before
    ELSE \A i \in Ids :
           LET row == db.rows[Entity][i]
           IN /\ i \in Served(Entity) => row.sync = "SYNCED"
              /\ i \notin Served(Entity) => row.sync # "SYNCED" \/ row.status = "DELETED"
              /\ \A n \in DOMAIN feed[Entity] : feed[Entity][n].id = i =>
                   row.status = IF ~feed[Entity][n].deleted THEN "ACTIVE"
                                ELSE IF Entity \in Persons THEN "INACTIVE" ELSE "DELETED"

\* The ids the sync notes as pulled are those whose row it wrote: each has a
\* SYNCED row when the entity type is committed, so that only rows it did not
\* write are marked missing (_mark_missing, pulled_erp_ids).
SeenAreWritten ==
  job.step = "finish" => \A i \in job.seen : db.rows[Entity][i].sync = "SYNCED"

LogsOf(run, e) == {n \in DOMAIN db.logs : db.logs[n].run = run /\ db.logs[n].entity = e}

\* When a request ends, sync_all has a result for every entity type whatever became
\* of the others; one that was committed has its log row whether the request is then
\* answered or fails, one that FAILED has none, and one skipped for want of an ERP
\* has one only if the request is answered.  No answer of /sync/trigger shows a
\* failed or skipped entity type (sync_all, create_run, trigger_inbound_sync).
ResultsOnRecord ==
  job.step \in {"answer sent", "error sent"} =>
    /\ job.all => DOMAIN job.results = Entities
    /\ \A e \in DOMAIN job.results :
         LogsOf(spent.runs, e) # {} <=>
           \/ job.results[e] \in {"SUCCESS", "PARTIAL"}
           \/ job.results[e] = "SKIPPED_NO_ERP" /\ job.step = "answer sent"
    /\ job.step = "error sent" <=> job.endpoint = "trigger" /\ Invalid(job.results)

\* "Tracks what was pulled from the ERP and whether the run succeeded / partially
\* failed" (models.py:53): the committed log row of a run says what the answer
\* says.  finish_run is only flushed: the rollback for the next entity type
\* takes it back.
LogTellsResult ==
  job.step = "answer sent" =>
    \A e \in DOMAIN job.results : \A n \in LogsOf(spent.runs, e) :
      job.results[e] # "SKIPPED_NO_ERP" =>
        db.logs[n].status = job.results[e] /\ db.logs[n].finished

\* Every sync request ends: the pages end, the retries are bounded.
SyncEnds == job.step # "idle" ~> job.step = "idle"

=============================================================================
