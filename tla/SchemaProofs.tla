------------------------------ MODULE SchemaProofs -----------------------------
(***************************************************************************)
(* Proofs about module Schema, for any number of alembic commands at once:    *)
(* when every script is right on its own, no interleaving and no crash makes  *)
(* the version row and the tables disagree, and no command is refused unless  *)
(* another one overtook it.  Whether the scripts are right on their own is a  *)
(* question about the text of three migrations, which the run answers.        *)
(***************************************************************************)
EXTENDS Schema, TLAPS

ScriptOf(c) == Script[c.from][c.to]

\* Where a command is when it is alone.
StateOf(c) == Alone[c.from][c.to][c.at]

IsCommand(c) ==
  /\ c = [step |-> c.step, from |-> c.from, to |-> c.to, at |-> c.at,
          changed |-> c.changed, locked |-> c.locked, stamped |-> c.stamped,
          overtaken |-> c.overtaken]
  /\ c.step \in {"idle", "open", "refused"}
  /\ c.overtaken \in BOOLEAN
  /\ c.step # "open" => c.locked = {}

Typed ==
  /\ command = [p \in Runners |-> command[p]]
  /\ \A p \in Runners : IsCommand(command[p])
  /\ db = [revision |-> db.revision, schema |-> db.schema]
  /\ db.revision \in 0 .. Newest

\* No two commands hold a lock on the same table.
Exclusive ==
  \A p, q \in Runners : p # q => command[p].locked \cap command[q].locked = {}

OnItsWay(c) ==
  /\ c.from \in 0 .. Newest /\ c.to \in 0 .. Newest /\ c.from # c.to
  /\ c.at \in 1 .. Len(ScriptOf(c)) + 1
  /\ DOMAIN c.changed \subseteq Names \cap c.locked

\* A table the command has changed is as it would be alone, if it was found as
\* the command's first revision has it; the others are as that revision has them.
ChangesFollow(c, schema) ==
  \A t \in Names :
    IF t \in DOMAIN c.changed
    THEN schema[t] = SchemaAt[c.from][t] => c.changed[t] = StateOf(c).schema[t]
    ELSE StateOf(c).schema[t] = SchemaAt[c.from][t]

\* A stamp holds the version row, so nobody commits between it and the end.
StampFollows(c, revision) ==
  IF c.stamped = -1
  THEN /\ StateOf(c).revision = c.from
       /\ \A i \in 1 .. c.at - 1 : ScriptOf(c)[i].do # "stamp"
  ELSE /\ c.stamped = StateOf(c).revision
       /\ "alembic_version" \in c.locked
       /\ revision = c.from

CommandInv(c, data) ==
  /\ c.step = "open" =>
       /\ OnItsWay(c)
       /\ ChangesFollow(c, data.schema)
       /\ StampFollows(c, data.revision)
       /\ ~c.overtaken => data.revision = c.from
  /\ c.step = "refused" => c.overtaken

SchemaInv ==
  /\ Typed
  /\ Exclusive
  /\ RevisionTellsSchema
  /\ \A p \in Runners : CommandInv(command[p], db)

-----------------------------------------------------------------------------
(* What a right script gives.                                                *)

\* The parts of Right, for a command that has somewhere to go.
LEMMA RightMeans ==
  ASSUME AllRight, NEW from \in 0 .. Newest, NEW to \in 0 .. Newest, from # to
  PROVE  RightScript(from, to)
<1>1. Right[from][to] = RightScript(from, to)
  BY DEF Right
<1>2. Right[from][to]
  BY DEF AllRight
<1>3. QED
  BY <1>1, <1>2

\* The lengths of the scripts, and what they end with.
LEMMA ScriptEnds ==
  ASSUME AllRight, NEW from \in 0 .. Newest, NEW to \in 0 .. Newest, from # to
  PROVE  /\ Len(Script[from][to]) \in Nat \ {0}
         /\ Script[from][to][Len(Script[from][to])].do = "stamp"
         /\ Alone[from][to][1] = At(from)
         /\ Alone[from][to][Len(Script[from][to]) + 1] = At(to)
<1>1. RightScript(from, to)
  BY RightMeans
<1>2. Script[from][to] \in Seq(Range(Script[from][to])) \ {<<>>}
  BY <1>1 DEF RightScript
<1>3. Len(Script[from][to]) \in Nat \ {0}
  BY <1>2
<1>4. QED
  BY <1>1, <1>3 DEF RightScript

\* One step of a script.
LEMMA ScriptGoes ==
  ASSUME AllRight, NEW from \in 0 .. Newest, NEW to \in 0 .. Newest, from # to,
         NEW i \in 1 .. Len(Script[from][to])
  PROVE  /\ IsState(Alone[from][to][i])
         /\ Allowed(Alone[from][to][i], Script[from][to][i])
         /\ Alone[from][to][i + 1] = Stepped(Alone[from][to][i], Script[from][to][i])
<1>1. RightScript(from, to)
  BY RightMeans
<1>2. QED
  BY <1>1 DEF RightScript

\* Every revision is a state with a row for every table.
LEMMA RevisionIsState ==
  ASSUME AllRight, NEW n \in 0 .. Newest
  PROVE  IsState(At(n))
<1>1. PICK m \in 0 .. Newest : n # m
  <2>1. 0 \in 0 .. Newest /\ 1 \in 0 .. Newest
    BY DEF Newest
  <2>2. QED
    BY <2>1
<1>2. Alone[n][m][1] = At(n) /\ 1 \in 1 .. Len(Script[n][m])
  BY <1>1, ScriptEnds
<1>3. IsState(Alone[n][m][1])
  BY <1>1, <1>2, ScriptGoes
<1>4. QED
  BY <1>2, <1>3

\* The tables of a revision.
LEMMA SchemaIsOverTables ==
  ASSUME AllRight, NEW n \in 0 .. Newest
  PROVE  SchemaAt[n] = [t \in Names |-> SchemaAt[n][t]]
<1>1. At(n).schema = SchemaAt[n]
  BY DEF At
<1>2. SchemaAt[n] \in [Names -> Range(SchemaAt[n])]
  BY <1>1, RevisionIsState DEF IsState
<1>3. QED
  BY <1>2

\* Every state of a script is a state with a row for every table.
LEMMA AloneIsState ==
  ASSUME AllRight, NEW from \in 0 .. Newest, NEW to \in 0 .. Newest, from # to,
         NEW i \in 1 .. Len(Script[from][to]) + 1
  PROVE  IsState(Alone[from][to][i])
<1>1. Len(Script[from][to]) \in Nat
  BY ScriptEnds
<1>2. CASE i \in 1 .. Len(Script[from][to])
  BY <1>2, ScriptGoes
<1>3. CASE i = Len(Script[from][to]) + 1
  BY <1>3, ScriptEnds, RevisionIsState
<1>4. QED
  BY <1>1, <1>2, <1>3

\* What a statement makes of its table depends on that table alone.
LEMMA ResultIsLocal ==
  ASSUME NEW one, NEW other, NEW s, one[s.row.table] = other[s.row.table]
  PROVE  Result(one, s) = Result(other, s)
BY DEF Result

\* A statement that is not a stamp changes the row of its table.
LEMMA SteppedTable ==
  ASSUME NEW state, IsState(state), NEW s, s.do # "stamp", s.row.table \in Names,
         NEW t \in Names
  PROVE  /\ Stepped(state, s).revision = state.revision
         /\ Stepped(state, s).schema[t] =
              IF t = s.row.table THEN Result(state.schema, s) ELSE state.schema[t]
<1>1. Stepped(state, s) = [state EXCEPT !.schema[s.row.table] = Result(state.schema, s)]
  BY DEF Stepped
<1>. DEFINE result == Result(state.schema, s)
<1>. HIDE DEF result
<1>2. Stepped(state, s) = [state EXCEPT !.schema[s.row.table] = result]
  BY <1>1 DEF result
<1>3. QED
  BY <1>2 DEF IsState, result

\* A stamp changes the revision.
LEMMA SteppedStamp ==
  ASSUME NEW state, IsState(state), NEW s, s.do = "stamp"
  PROVE  /\ Stepped(state, s).revision = s.to
         /\ Stepped(state, s).schema = state.schema
BY DEF Stepped, IsState

-----------------------------------------------------------------------------
(* The invariant, action by action.                                          *)

\* A step of one command that commits nothing.
LEMMA OneMoves ==
  ASSUME SchemaInv, NEW p \in Runners, NEW STATE new, db' = db,
         command' = [command EXCEPT ![p] = new],
         IsCommand(new), CommandInv(new, db),
         \A q \in Runners \ {p} : new.locked \cap command[q].locked = {}
  PROVE  SchemaInv'
<1>1. \A q \in Runners : command'[q] = IF q = p THEN new ELSE command[q]
  BY DEF SchemaInv, Typed
<1>2. Typed'
  <2>1. command' = [q \in Runners |-> command'[q]]
    BY DEF SchemaInv, Typed
  <2>2. \A q \in Runners : IsCommand(command'[q])
    BY <1>1 DEF SchemaInv, Typed
  <2>3. QED
    BY <2>1, <2>2 DEF SchemaInv, Typed
<1>3. Exclusive'
  BY <1>1 DEF SchemaInv, Exclusive
<1>4. RevisionTellsSchema'
  BY DEF SchemaInv, RevisionTellsSchema
<1>5. \A q \in Runners : CommandInv(command'[q], db')
  BY <1>1 DEF SchemaInv
<1>6. QED
  BY <1>2, <1>3, <1>4, <1>5 DEF SchemaInv

\* The fields of a command that has done nothing.
LEMMA FreshFields ==
  ASSUME NEW step \in {"idle", "open", "refused"}, NEW from, NEW to, NEW late \in BOOLEAN,
         NEW c, c = Fresh(step, from, to, late)
  PROVE  /\ c.step = step /\ c.from = from /\ c.to = to /\ c.at = 1
         /\ c.changed = NoChange /\ c.locked = {} /\ c.stamped = -1
         /\ c.overtaken = late
         /\ IsCommand(c)
<1>1. /\ c.step = step /\ c.from = from /\ c.to = to /\ c.at = 1
      /\ c.changed = NoChange /\ c.locked = {} /\ c.stamped = -1
      /\ c.overtaken = late
  BY DEF Fresh
<1>2. c = [step |-> c.step, from |-> c.from, to |-> c.to, at |-> c.at,
           changed |-> c.changed, locked |-> c.locked, stamped |-> c.stamped,
           overtaken |-> c.overtaken]
  BY DEF Fresh
<1>3. QED
  BY <1>1, <1>2 DEF IsCommand

\* A command that ends holds nothing.
LEMMA EndedIsFree ==
  ASSUME NEW step \in {"idle", "refused"}, NEW late \in BOOLEAN,
         step = "refused" => late,
         NEW c, c = Fresh(step, 0, 0, late)
  PROVE  IsCommand(c) /\ c.locked = {} /\ \A data : CommandInv(c, data)
<1>1. c.step = step /\ c.locked = {} /\ c.overtaken = late /\ IsCommand(c)
  BY FreshFields
<1>2. QED
  BY <1>1 DEF CommandInv

\* The same of a command that is not running.
LEMMA IdleIsFree ==
  IsCommand(Idle) /\ Idle.locked = {} /\ \A data : CommandInv(Idle, data)
BY EndedIsFree DEF Idle

\* The invariant holds of the empty database.
LEMMA InitSchema ==
  ASSUME AllRight, Init
  PROVE  SchemaInv
<1>1. \A p \in Runners : command[p] = Idle /\ command[p].locked = {}
  BY DEF Init, Idle, Fresh
<1>2. IsCommand(Idle) /\ \A data : CommandInv(Idle, data)
  BY IdleIsFree
<1>3. Typed
  <2>1. command = [p \in Runners |-> command[p]]
    BY DEF Init
  <2>2. db = [revision |-> db.revision, schema |-> db.schema] /\ db.revision \in 0 .. Newest
    BY DEF Init, Newest
  <2>3. QED
    BY <1>1, <1>2, <2>1, <2>2 DEF Typed
<1>4. Exclusive
  BY <1>1 DEF Exclusive
<1>5. RevisionTellsSchema
  BY DEF RevisionTellsSchema, AllRight, Init
<1>6. QED
  BY <1>1, <1>2, <1>3, <1>4, <1>5 DEF SchemaInv

\* A command begins at the revision it reads.
LEMMA BeginKeeps ==
  ASSUME AllRight, SchemaInv, NEW p \in Runners, Begin(p)
  PROVE  SchemaInv'
<1>1. PICK to \in 0 .. Newest \ {db.revision} :
        command' = [command EXCEPT ![p] =
          Fresh("open", db.revision, to, FALSE)]
  BY DEF Begin
<1>. DEFINE new == Fresh("open", db.revision, to, FALSE)
<1>2. /\ db.revision \in 0 .. Newest
      /\ db' = db
  BY DEF SchemaInv, Typed, Begin
<1>0. new = [step |-> "open", from |-> db.revision, to |-> to, at |-> 1,
             changed |-> NoChange, locked |-> {}, stamped |-> -1, overtaken |-> FALSE]
  BY DEF Fresh
<1>. HIDE DEF new
<1>3. /\ new.step = "open" /\ new.from = db.revision /\ new.to = to /\ new.at = 1
      /\ new.changed = NoChange /\ new.locked = {} /\ new.stamped = -1
      /\ new.overtaken = FALSE
  BY <1>0
<1>13. IsCommand(new)
  BY <1>0, <1>3 DEF IsCommand
<1>4. to \in 0 .. Newest /\ db.revision # to
  BY <1>1
<1>5. StateOf(new) = At(db.revision)
  BY <1>2, <1>3, <1>4, ScriptEnds DEF StateOf
<1>6. OnItsWay(new)
  <2>1. DOMAIN NoChange = {}
    BY DEF NoChange
  <2>2. Len(ScriptOf(new)) \in Nat
    BY <1>2, <1>3, <1>4, ScriptEnds DEF ScriptOf
  <2>3. new.at \in 1 .. Len(ScriptOf(new)) + 1
    BY <1>3, <2>2
  <2>4. QED
    BY <1>2, <1>3, <1>4, <2>1, <2>3 DEF OnItsWay
<1>7. ChangesFollow(new, db.schema)
  <2>1. DOMAIN new.changed = {}
    BY <1>3 DEF NoChange
  <2>2. \A t \in Names : StateOf(new).schema[t] = SchemaAt[new.from][t]
    BY <1>3, <1>5 DEF At
  <2>3. QED
    BY <2>1, <2>2 DEF ChangesFollow
<1>8. StampFollows(new, db.revision)
  <2>1. StateOf(new).revision = new.from
    BY <1>3, <1>5 DEF At
  <2>2. 1 .. new.at - 1 = {}
    BY <1>3
  <2>3. QED
    BY <1>3, <2>1, <2>2 DEF StampFollows
<1>9. CommandInv(new, db)
  BY <1>3, <1>6, <1>7, <1>8 DEF CommandInv
<1>10. \A q \in Runners \ {p} : new.locked \cap command[q].locked = {}
  BY <1>3
<1>11. command' = [command EXCEPT ![p] = new]
  BY <1>1 DEF new
<1>12. QED
  BY <1>2, <1>9, <1>10, <1>11, <1>13, OneMoves

\* A killed command leaves nothing behind.
LEMMA CrashKeeps ==
  ASSUME SchemaInv, NEW p \in Runners, Crash(p)
  PROVE  SchemaInv'
<1>1. command' = [command EXCEPT ![p] = Idle] /\ db' = db
  BY DEF Crash
<1>2. /\ IsCommand(Idle) /\ CommandInv(Idle, db)
      /\ Idle.locked = {}
  BY IdleIsFree
<1>3. QED
  BY <1>1, <1>2, OneMoves

\* What a command at work is about to do.
LEMMA AtStatement ==
  ASSUME AllRight, SchemaInv, NEW p \in Runners, AtWork(p)
  PROVE  /\ command[p].step = "open" /\ OnItsWay(command[p])
         /\ command[p].at \in 1 .. Len(ScriptOf(command[p]))
         /\ Len(ScriptOf(command[p])) \in Nat
         /\ Current(p) = ScriptOf(command[p])[command[p].at]
         /\ IsState(StateOf(command[p]))
         /\ Allowed(StateOf(command[p]), Current(p))
         /\ Alone[command[p].from][command[p].to][command[p].at + 1] =
              Stepped(StateOf(command[p]), Current(p))
<1>1. command[p].step = "open" /\ OnItsWay(command[p])
  BY DEF SchemaInv, CommandInv, AtWork
<1>2. /\ command[p].from \in 0 .. Newest /\ command[p].to \in 0 .. Newest
      /\ command[p].from # command[p].to
      /\ command[p].at \in 1 .. Len(ScriptOf(command[p])) + 1
  BY <1>1 DEF OnItsWay
<1>3. Len(ScriptOf(command[p])) \in Nat
  BY <1>2, ScriptEnds DEF ScriptOf
<1>4. command[p].at \in 1 .. Len(ScriptOf(command[p]))
  BY <1>2, <1>3 DEF AtWork, ScriptOf
<1>5. Current(p) = ScriptOf(command[p])[command[p].at]
  BY DEF Current, ScriptOf
<1>6. /\ IsState(StateOf(command[p]))
      /\ Allowed(StateOf(command[p]), Current(p))
      /\ Alone[command[p].from][command[p].to][command[p].at + 1] =
           Stepped(StateOf(command[p]), Current(p))
  BY <1>2, <1>4, ScriptGoes DEF Current, StateOf, ScriptOf
<1>7. QED
  BY <1>1, <1>3, <1>4, <1>5, <1>6

\* A command that finds the tables of its first revision sees what it would alone.
LEMMA SeesAlone ==
  ASSUME AllRight, SchemaInv, NEW p \in Runners, command[p].step = "open",
         db.schema = SchemaAt[command[p].from]
  PROVE  Visible(p) = StateOf(command[p]).schema
<1>. DEFINE c == command[p]
<1>1. OnItsWay(c) /\ ChangesFollow(c, db.schema)
  BY DEF SchemaInv, CommandInv
<1>2. /\ c.from \in 0 .. Newest /\ c.to \in 0 .. Newest /\ c.from # c.to
      /\ c.at \in 1 .. Len(Script[c.from][c.to]) + 1
  BY <1>1 DEF OnItsWay, ScriptOf
<1>3. IsState(StateOf(c))
  <2>. HIDE DEF c
  <2>1. QED
    BY <1>2, AloneIsState DEF StateOf
<1>4. StateOf(c).schema = [t \in Names |-> StateOf(c).schema[t]]
  BY <1>3 DEF IsState
<1>5. \A t \in Names :
        (IF t \in DOMAIN c.changed THEN c.changed[t] ELSE db.schema[t]) =
          StateOf(c).schema[t]
  BY <1>1 DEF ChangesFollow
<1>6. Visible(p) = [t \in Names |-> IF t \in DOMAIN c.changed
                                   THEN c.changed[t] ELSE db.schema[t]]
  BY DEF Visible
<1>. HIDE DEF c
<1>7. Visible(p) = StateOf(c).schema
  BY <1>4, <1>5, <1>6
<1>8. QED
  BY <1>7 DEF c

\* Nobody refuses a command that was not overtaken.
LEMMA RefusedIsOvertaken ==
  ASSUME AllRight, SchemaInv, NEW p \in Runners, Refuse(p)
  PROVE  command[p].overtaken
<1>1. SUFFICES ASSUME ~command[p].overtaken PROVE FALSE
  OBVIOUS
<1>2. AtWork(p)
  BY DEF Refuse
<1>3. db.revision = command[p].from /\ StampFollows(command[p], db.revision)
  BY <1>1, <1>2 DEF SchemaInv, CommandInv, AtWork
<1>4. Visible(p) = StateOf(command[p]).schema
  BY <1>2, <1>3, SeesAlone DEF SchemaInv, RevisionTellsSchema, AtWork
<1>5. Allowed(StateOf(command[p]), Current(p))
  BY <1>2, AtStatement
<1>6. CASE Current(p).do = "stamp"
  <2>1. Current(p).from = StateOf(command[p]).revision
    BY <1>5, <1>6 DEF Allowed
  <2>2. StampFits(p)
    BY <1>3, <2>1 DEF StampFollows, StampFits
  <2>3. QED
    BY <1>6, <2>2 DEF Refuse
<1>7. CASE Current(p).do # "stamp"
  <2>1. Fits(Visible(p), Current(p))
    BY <1>4, <1>5, <1>7 DEF Allowed
  <2>2. QED
    BY <1>7, <2>1 DEF Refuse
<1>8. QED
  BY <1>6, <1>7

\* A refused command leaves nothing behind, and was overtaken.
LEMMA RefuseKeeps ==
  ASSUME AllRight, SchemaInv, NEW p \in Runners, Refuse(p)
  PROVE  SchemaInv'
<1>. DEFINE new == Fresh("refused", 0, 0, command[p].overtaken)
<1>1. command' = [command EXCEPT ![p] = new] /\ db' = db
  BY DEF Refuse
<1>2. command[p].overtaken /\ command[p].overtaken \in BOOLEAN
  BY RefusedIsOvertaken DEF SchemaInv, Typed, IsCommand
<1>3. IsCommand(new) /\ new.locked = {} /\ \A data : CommandInv(new, data)
  BY <1>2, EndedIsFree
<1>. HIDE DEF new
<1>4. QED
  BY <1>1, <1>3, OneMoves

\* A command with other changes or another stamp, other locks and another place.
Advance(c, changed, locked, at) ==
  [c EXCEPT !.changed = changed, !.locked = locked, !.at = at]

Move(c, stamped, locked, at) ==
  [c EXCEPT !.stamped = stamped, !.locked = locked, !.at = at]

\* The fields of a command after a statement.
LEMMA Advanced ==
  ASSUME NEW c, IsCommand(c), NEW changed, NEW locked, NEW at, c.step = "open",
         NEW new, new = Advance(c, changed, locked, at)
  PROVE  /\ new.step = "open" /\ new.from = c.from /\ new.to = c.to
         /\ new.at = at /\ new.changed = changed /\ new.locked = locked
         /\ new.stamped = c.stamped /\ new.overtaken = c.overtaken
         /\ IsCommand(new)
<1>1. /\ new.step = "open" /\ new.from = c.from /\ new.to = c.to
      /\ new.at = at /\ new.changed = changed /\ new.locked = locked
      /\ new.stamped = c.stamped /\ new.overtaken = c.overtaken
  BY DEF IsCommand, Advance
<1>2. new = [step |-> new.step, from |-> new.from, to |-> new.to, at |-> new.at,
             changed |-> new.changed, locked |-> new.locked, stamped |-> new.stamped,
             overtaken |-> new.overtaken]
  BY DEF IsCommand, Advance
<1>3. QED
  BY <1>1, <1>2 DEF IsCommand

\* The fields of a command after a stamp.
LEMMA StampedFields ==
  ASSUME NEW c, IsCommand(c), NEW stamped, NEW locked, NEW at, c.step = "open",
         NEW new, new = Move(c, stamped, locked, at)
  PROVE  /\ new.step = "open" /\ new.from = c.from /\ new.to = c.to
         /\ new.at = at /\ new.changed = c.changed /\ new.locked = locked
         /\ new.stamped = stamped /\ new.overtaken = c.overtaken
         /\ IsCommand(new)
<1>1. /\ new.step = "open" /\ new.from = c.from /\ new.to = c.to
      /\ new.at = at /\ new.changed = c.changed /\ new.locked = locked
      /\ new.stamped = stamped /\ new.overtaken = c.overtaken
  BY DEF IsCommand, Move
<1>2. new = [step |-> new.step, from |-> new.from, to |-> new.to, at |-> new.at,
             changed |-> new.changed, locked |-> new.locked, stamped |-> new.stamped,
             overtaken |-> new.overtaken]
  BY DEF IsCommand, Move
<1>3. QED
  BY <1>1, <1>2 DEF IsCommand

\* Three fields of one command change.
LEMMA ThreeFields ==
  ASSUME Typed, NEW p \in Runners, NEW changed, NEW locked, NEW at
  PROVE  [command EXCEPT ![p].changed = changed, ![p].locked = locked, ![p].at = at] =
           [command EXCEPT ![p] =
              [command[p] EXCEPT !.changed = changed, !.locked = locked, !.at = at]]
BY DEF Typed

\* The same of a stamp.
LEMMA ThreeOthers ==
  ASSUME Typed, NEW p \in Runners, NEW stamped, NEW locked, NEW at
  PROVE  [command EXCEPT ![p].stamped = stamped, ![p].locked = locked, ![p].at = at] =
           [command EXCEPT ![p] =
              [command[p] EXCEPT !.stamped = stamped, !.locked = locked, !.at = at]]
BY DEF Typed

\* A statement that fits takes its locks and changes one table.
LEMMA ExecuteKeeps ==
  ASSUME AllRight, SchemaInv, NEW p \in Runners, Execute(p)
  PROVE  SchemaInv'
<1>. DEFINE c == command[p]
            s == Current(p)
            t == s.row.table
            result == Result(Visible(p), s)
            changed == [u \in DOMAIN c.changed \cup {t} |->
                          IF u = t THEN result ELSE c.changed[u]]
            touched == Touched(Visible(p), s)
            locked == c.locked \cup touched
            new == [c EXCEPT !.changed = changed, !.locked = locked, !.at = c.at + 1]
<1>1. /\ AtWork(p) /\ Granted(p) /\ s.do # "stamp" /\ db' = db
      /\ command' = [command EXCEPT ![p].changed = changed, ![p].locked = locked,
                                    ![p].at = c.at + 1]
  <2>1. /\ AtWork(p) /\ Granted(p) /\ s.do # "stamp" /\ db' = db
    BY DEF Execute
  <2>2. command' = [command EXCEPT ![p].changed = changed, ![p].locked = locked,
                                   ![p].at = c.at + 1]
    BY DEF Execute, SchemaInv, Typed
  <2>3. QED
    BY <2>1, <2>2
<1>2. /\ IsCommand(c) /\ Typed /\ c.step = "open" /\ OnItsWay(c)
      /\ ChangesFollow(c, db.schema) /\ StampFollows(c, db.revision)
      /\ ~c.overtaken => db.revision = c.from
  BY <1>1 DEF SchemaInv, Typed, CommandInv, AtWork
<1>3. /\ c.at \in 1 .. Len(ScriptOf(c)) /\ Len(ScriptOf(c)) \in Nat
      /\ s = ScriptOf(c)[c.at]
      /\ IsState(StateOf(c)) /\ Allowed(StateOf(c), s)
      /\ Alone[c.from][c.to][c.at + 1] = Stepped(StateOf(c), s)
  BY <1>1, AtStatement
<1>4. t \in Names
  BY <1>1, <1>3 DEF Allowed
<1>5. t \in touched
  BY DEF Touched
<1>. HIDE DEF touched, result
<1>6. DOMAIN changed = DOMAIN c.changed \cup {t}
  OBVIOUS
<1>7. \A u \in DOMAIN changed : changed[u] = IF u = t THEN result ELSE c.changed[u]
  OBVIOUS
<1>. HIDE DEF changed
<1>8. command' = [command EXCEPT ![p] = new]
  BY <1>1, <1>2, ThreeFields
<1>. HIDE DEF s, c
<1>9. /\ new.step = "open" /\ new.from = c.from /\ new.to = c.to
      /\ new.at = c.at + 1 /\ new.changed = changed /\ new.locked = locked
      /\ new.stamped = c.stamped /\ new.overtaken = c.overtaken
      /\ IsCommand(new)
  <2>. DEFINE at == c.at + 1
  <2>. HIDE DEF locked, new, at
  <2>1. new = Advance(c, changed, locked, at)
    BY DEF new, at, Advance
  <2>2. /\ new.step = "open" /\ new.from = c.from /\ new.to = c.to
        /\ new.at = at /\ new.changed = changed /\ new.locked = locked
        /\ new.stamped = c.stamped /\ new.overtaken = c.overtaken
        /\ IsCommand(new)
    BY <1>2, <2>1, Advanced
  <2>3. QED
    BY <2>2 DEF at
<1>. HIDE DEF new
<1>10. ScriptOf(new) = ScriptOf(c) /\ StateOf(new) = Stepped(StateOf(c), s)
  BY <1>3, <1>9 DEF ScriptOf, StateOf
<1>11. OnItsWay(new)
  <2>1. new.at \in 1 .. Len(ScriptOf(new)) + 1
    BY <1>3, <1>9, <1>10
  <2>2. DOMAIN changed \subseteq Names \cap locked
    BY <1>2, <1>4, <1>5, <1>6 DEF OnItsWay
  <2>3. QED
    BY <1>2, <1>9, <2>1, <2>2 DEF OnItsWay
<1>12. ChangesFollow(new, db.schema)
  <2>1. SUFFICES ASSUME NEW u \in Names
                 PROVE  IF u \in DOMAIN new.changed
                        THEN db.schema[u] = SchemaAt[new.from][u]
                               => new.changed[u] = StateOf(new).schema[u]
                        ELSE StateOf(new).schema[u] = SchemaAt[new.from][u]
    BY DEF ChangesFollow
  <2>2. StateOf(new).schema[u] =
          IF u = t THEN Result(StateOf(c).schema, s) ELSE StateOf(c).schema[u]
    BY <1>1, <1>3, <1>4, <1>10, SteppedTable
  <2>3. IF u \in DOMAIN c.changed
        THEN db.schema[u] = SchemaAt[c.from][u] => c.changed[u] = StateOf(c).schema[u]
        ELSE StateOf(c).schema[u] = SchemaAt[c.from][u]
    BY <1>2 DEF ChangesFollow
  <2>4. CASE u # t
    BY <1>6, <1>7, <1>9, <2>2, <2>3, <2>4
  <2>5. CASE u = t
    <3>1. SUFFICES ASSUME db.schema[t] = SchemaAt[c.from][t]
                   PROVE  result = StateOf(new).schema[t]
      BY <1>6, <1>7, <1>9, <2>5
    <3>2. Visible(p)[t] = IF t \in DOMAIN c.changed THEN c.changed[t] ELSE db.schema[t]
      BY <1>4 DEF Visible, c
    <3>3. Visible(p)[t] = StateOf(c).schema[t]
      BY <2>3, <2>5, <3>1, <3>2
    <3>4. Result(Visible(p), s) = Result(StateOf(c).schema, s)
      BY <3>3, ResultIsLocal
    <3>5. QED
      BY <2>2, <2>5, <3>4 DEF result
  <2>6. QED
    BY <2>4, <2>5
<1>13. StampFollows(new, db.revision)
  <2>1. StateOf(new).revision = StateOf(c).revision
    BY <1>1, <1>3, <1>4, <1>10, SteppedTable
  <2>2. \A i \in 1 .. new.at - 1 : i \in 1 .. c.at - 1 \/ i = c.at
    BY <1>3, <1>9
  <2>3. ScriptOf(c)[c.at].do # "stamp"
    BY <1>1, <1>3 DEF s
  <2>4. QED
    BY <1>2, <1>9, <1>10, <2>1, <2>2, <2>3 DEF StampFollows
<1>14. CommandInv(new, db)
  BY <1>2, <1>9, <1>11, <1>12, <1>13 DEF CommandInv
<1>15. \A q \in Runners \ {p} : new.locked \cap command[q].locked = {}
  <2>1. SUFFICES ASSUME NEW q \in Runners \ {p} PROVE locked \cap command[q].locked = {}
    BY <1>9
  <2>2. touched \cap command[q].locked = {}
    BY <1>1 DEF Granted, touched, s
  <2>3. c.locked \cap command[q].locked = {}
    BY DEF SchemaInv, Exclusive, c
  <2>4. QED
    BY <2>2, <2>3
<1>16. QED
  BY <1>1, <1>8, <1>9, <1>14, <1>15, OneMoves

\* A stamp holds the version row from then on.
LEMMA StampedKeeps ==
  ASSUME AllRight, SchemaInv, NEW p \in Runners, Stamped(p)
  PROVE  SchemaInv'
<1>. DEFINE c == command[p]
            s == Current(p)
            locked == c.locked \cup {"alembic_version"}
            new == [c EXCEPT !.stamped = s.to, !.locked = locked, !.at = c.at + 1]
<1>1. /\ AtWork(p) /\ Granted(p) /\ s.do = "stamp" /\ StampFits(p) /\ db' = db
      /\ command' = [command EXCEPT ![p].stamped = s.to, ![p].locked = locked,
                                    ![p].at = c.at + 1]
  <2>1. /\ AtWork(p) /\ Granted(p) /\ s.do = "stamp" /\ StampFits(p) /\ db' = db
    BY DEF Stamped
  <2>2. command' = [command EXCEPT ![p].stamped = s.to, ![p].locked = locked,
                                   ![p].at = c.at + 1]
    BY DEF Stamped, SchemaInv, Typed
  <2>3. QED
    BY <2>1, <2>2
<1>2. /\ IsCommand(c) /\ Typed /\ c.step = "open" /\ OnItsWay(c)
      /\ ChangesFollow(c, db.schema) /\ StampFollows(c, db.revision)
      /\ ~c.overtaken => db.revision = c.from
  BY <1>1 DEF SchemaInv, Typed, CommandInv, AtWork
<1>3. /\ c.at \in 1 .. Len(ScriptOf(c)) /\ Len(ScriptOf(c)) \in Nat
      /\ s = ScriptOf(c)[c.at]
      /\ IsState(StateOf(c)) /\ Allowed(StateOf(c), s)
      /\ Alone[c.from][c.to][c.at + 1] = Stepped(StateOf(c), s)
  BY <1>1, AtStatement
<1>4. s.from = StateOf(c).revision
  BY <1>1, <1>3 DEF Allowed
<1>5. s.row.table = "alembic_version"
  BY <1>1, <1>3 DEF Allowed
<1>8. command' = [command EXCEPT ![p] = new]
  BY <1>1, <1>2, ThreeOthers
<1>6. db.revision = c.from
  BY <1>1, <1>2, <1>4 DEF StampFits, StampFollows
<1>. HIDE DEF s, c
<1>9. /\ new.step = "open" /\ new.from = c.from /\ new.to = c.to
      /\ new.at = c.at + 1 /\ new.changed = c.changed /\ new.locked = locked
      /\ new.stamped = s.to /\ new.overtaken = c.overtaken
      /\ IsCommand(new)
  <2>. DEFINE to == s.to
              at == c.at + 1
  <2>. HIDE DEF locked, new, to, at
  <2>1. new = Move(c, to, locked, at)
    BY DEF new, to, at, Move
  <2>2. /\ new.step = "open" /\ new.from = c.from /\ new.to = c.to
        /\ new.at = at /\ new.changed = c.changed /\ new.locked = locked
        /\ new.stamped = to /\ new.overtaken = c.overtaken
        /\ IsCommand(new)
    BY <1>2, <2>1, StampedFields
  <2>3. QED
    BY <2>2 DEF to, at
<1>. HIDE DEF new
<1>10. ScriptOf(new) = ScriptOf(c) /\ StateOf(new) = Stepped(StateOf(c), s)
  BY <1>3, <1>9 DEF ScriptOf, StateOf
<1>7. StateOf(new).revision = s.to /\ StateOf(new).schema = StateOf(c).schema
  BY <1>1, <1>3, <1>10, SteppedStamp
<1>11. OnItsWay(new)
  <2>1. new.at \in 1 .. Len(ScriptOf(new)) + 1
    BY <1>3, <1>9, <1>10
  <2>2. QED
    BY <1>2, <1>9, <2>1 DEF OnItsWay
<1>12. ChangesFollow(new, db.schema)
  BY <1>2, <1>7, <1>9 DEF ChangesFollow
<1>13. StampFollows(new, db.revision)
  <2>1. new.stamped \in 0 .. Newest
    <3>1. new.at \in 1 .. Len(Script[new.from][new.to]) + 1
      BY <1>11 DEF OnItsWay, ScriptOf
    <3>2. IsState(StateOf(new))
      BY <1>11, <3>1, AloneIsState DEF StateOf, OnItsWay
    <3>3. QED
      BY <1>7, <1>9, <3>2 DEF IsState
  <2>2. new.stamped # -1
    BY <2>1
  <2>3. QED
    BY <1>6, <1>7, <1>9, <2>2 DEF StampFollows
<1>14. CommandInv(new, db)
  BY <1>2, <1>9, <1>11, <1>12, <1>13 DEF CommandInv
<1>15. \A q \in Runners \ {p} : new.locked \cap command[q].locked = {}
  <2>1. SUFFICES ASSUME NEW q \in Runners \ {p} PROVE locked \cap command[q].locked = {}
    BY <1>9
  <2>2. {"alembic_version"} \cap command[q].locked = {}
    BY <1>1, <1>5 DEF Granted, Touched, s
  <2>3. c.locked \cap command[q].locked = {}
    BY DEF SchemaInv, Exclusive, c
  <2>4. QED
    BY <2>2, <2>3
<1>16. QED
  BY <1>1, <1>8, <1>9, <1>14, <1>15, OneMoves

\* A command that somebody else's commit finds at work.
Overtake(c) == [c EXCEPT !.overtaken = @ \/ c.step = "open"]

\* The fields of a command after somebody else's commit.
LEMMA OvertakeFields ==
  ASSUME NEW c, IsCommand(c), NEW new, new = Overtake(c)
  PROVE  /\ new.step = c.step /\ new.from = c.from /\ new.to = c.to
         /\ new.at = c.at /\ new.changed = c.changed /\ new.locked = c.locked
         /\ new.stamped = c.stamped
         /\ c.step = "open" => new.overtaken
         /\ c.overtaken => new.overtaken
         /\ IsCommand(new)
<1>. DEFINE late == c.overtaken \/ c.step = "open"
<1>1. new = [c EXCEPT !.overtaken = late]
  BY DEF Overtake
<1>2. late \in BOOLEAN /\ (c.step = "open" => late) /\ (c.overtaken => late)
  BY DEF IsCommand
<1>. HIDE DEF late
<1>3. /\ new.step = c.step /\ new.from = c.from /\ new.to = c.to
      /\ new.at = c.at /\ new.changed = c.changed /\ new.locked = c.locked
      /\ new.stamped = c.stamped /\ new.overtaken = late
  BY <1>1 DEF IsCommand
<1>4. new = [step |-> new.step, from |-> new.from, to |-> new.to, at |-> new.at,
             changed |-> new.changed, locked |-> new.locked, stamped |-> new.stamped,
             overtaken |-> new.overtaken]
  BY <1>1 DEF IsCommand
<1>5. IsCommand(new)
  BY <1>2, <1>3, <1>4 DEF IsCommand
<1>6. QED
  BY <1>2, <1>3, <1>5

\* A script at its end has stamped the revision it was asked for, over the
\* revision it began at, with the tables of the one it ends at.
LEMMA CommitIsRevision ==
  ASSUME AllRight, SchemaInv, NEW p \in Runners, Commit(p)
  PROVE  /\ command[p].stamped = command[p].to
         /\ command[p].to \in 0 .. Newest
         /\ "alembic_version" \in command[p].locked
         /\ Visible(p) = SchemaAt[command[p].to]
<1>. DEFINE c == command[p]
<1>1. /\ c.step = "open" /\ ~AtWork(p) /\ OnItsWay(c) /\ StampFollows(c, db.revision)
  BY DEF Commit, SchemaInv, CommandInv
<1>2. /\ c.from \in 0 .. Newest /\ c.to \in 0 .. Newest /\ c.from # c.to
      /\ c.at \in 1 .. Len(ScriptOf(c)) + 1
  BY <1>1 DEF OnItsWay
<1>3. /\ Len(ScriptOf(c)) \in Nat \ {0}
      /\ ScriptOf(c)[Len(ScriptOf(c))].do = "stamp"
      /\ Alone[c.from][c.to][Len(ScriptOf(c)) + 1] = At(c.to)
  BY <1>2, ScriptEnds DEF ScriptOf
<1>4. c.at = Len(ScriptOf(c)) + 1
  <2>1. ~(c.at <= Len(ScriptOf(c)))
    BY <1>1 DEF AtWork, ScriptOf
  <2>. HIDE DEF c
  <2>2. QED
    BY <1>2, <1>3, <2>1
<1>5. StateOf(c) = At(c.to)
  BY <1>3, <1>4 DEF StateOf
<1>6. c.stamped # -1
  <2>1. SUFFICES ASSUME c.stamped = -1 PROVE FALSE
    OBVIOUS
  <2>2. \A i \in 1 .. c.at - 1 : ScriptOf(c)[i].do # "stamp"
    BY <1>1, <2>1 DEF StampFollows
  <2>3. Len(ScriptOf(c)) \in 1 .. c.at - 1
    BY <1>3, <1>4
  <2>4. QED
    BY <1>3, <2>2, <2>3
<1>7. /\ c.stamped = StateOf(c).revision /\ "alembic_version" \in c.locked
      /\ db.revision = c.from
  BY <1>1, <1>6 DEF StampFollows
<1>8. Visible(p) = StateOf(c).schema
  BY <1>1, <1>7, SeesAlone DEF SchemaInv, RevisionTellsSchema
<1>9. QED
  BY <1>2, <1>5, <1>7, <1>8 DEF At

\* The commit of one command leaves the others right.
LEMMA OthersStay ==
  ASSUME AllRight, SchemaInv, NEW p \in Runners, NEW q \in Runners \ {p}, Commit(p),
         NEW new, new = Overtake(command[q])
  PROVE  CommandInv(new, db')
<1>. DEFINE c == command[q]
<1>1. IsCommand(c) /\ CommandInv(c, db)
  BY DEF SchemaInv, Typed
<1>2. /\ new.step = c.step /\ new.from = c.from /\ new.to = c.to
      /\ new.at = c.at /\ new.changed = c.changed /\ new.locked = c.locked
      /\ new.stamped = c.stamped
      /\ c.step = "open" => new.overtaken
      /\ c.overtaken => new.overtaken
  BY <1>1, OvertakeFields
<1>3. /\ db'.schema = Visible(p)
      /\ command[p].step = "open"
      /\ "alembic_version" \in command[p].locked
      /\ command[p].locked \cap c.locked = {}
  BY CommitIsRevision DEF Commit, SchemaInv, Exclusive
<1>4. DOMAIN command[p].changed \subseteq command[p].locked
  BY <1>3 DEF SchemaInv, CommandInv, OnItsWay
<1>. HIDE DEF c
<1>5. CASE new.step = "open"
  <2>1. /\ OnItsWay(c) /\ ChangesFollow(c, db.schema) /\ StampFollows(c, db.revision)
    BY <1>1, <1>2, <1>5 DEF CommandInv
  <2>2. OnItsWay(new)
    BY <1>2, <2>1 DEF OnItsWay, ScriptOf
  <2>3. StateOf(new) = StateOf(c) /\ ScriptOf(new) = ScriptOf(c)
    BY <1>2 DEF StateOf, ScriptOf
  <2>4. \A t \in DOMAIN c.changed : t \in Names => db'.schema[t] = db.schema[t]
    BY <1>3, <1>4, <2>1 DEF Visible, OnItsWay
  <2>5. ChangesFollow(new, db'.schema)
    BY <1>2, <2>1, <2>3, <2>4 DEF ChangesFollow
  <2>6. StampFollows(new, db'.revision)
    BY <1>2, <1>3, <2>1, <2>3 DEF StampFollows
  <2>7. QED
    BY <1>2, <1>5, <2>2, <2>5, <2>6 DEF CommandInv
<1>6. CASE new.step # "open"
  BY <1>1, <1>2, <1>6 DEF CommandInv
<1>7. QED
  BY <1>5, <1>6

\* A commit makes the database the revision the command was asked for.
LEMMA CommitKeeps ==
  ASSUME AllRight, SchemaInv, NEW p \in Runners, Commit(p)
  PROVE  SchemaInv'
<1>1. /\ db' = [revision |-> command[p].stamped, schema |-> Visible(p)]
      /\ command' = [o \in Runners |-> IF o = p THEN Idle ELSE Overtake(command[o])]
  BY DEF Commit, Overtake
<1>2. /\ command[p].stamped = command[p].to
      /\ command[p].to \in 0 .. Newest
      /\ Visible(p) = SchemaAt[command[p].to]
  BY CommitIsRevision
<1>3. command'[p] = Idle /\ \A q \in Runners \ {p} : command'[q] = Overtake(command[q])
  BY <1>1
<1>4. \A q \in Runners \ {p} : /\ IsCommand(Overtake(command[q]))
                               /\ Overtake(command[q]).locked = command[q].locked
  BY OvertakeFields DEF SchemaInv, Typed
<1>5. Typed'
  <2>1. command' = [q \in Runners |-> command'[q]]
    BY <1>1
  <2>2. \A q \in Runners : IsCommand(command'[q])
    BY <1>3, <1>4, IdleIsFree
  <2>3. db' = [revision |-> db'.revision, schema |-> db'.schema] /\ db'.revision \in 0 .. Newest
    BY <1>1, <1>2
  <2>4. QED
    BY <2>1, <2>2, <2>3 DEF Typed
<1>6. Exclusive'
  <2>1. SUFFICES ASSUME NEW q \in Runners, NEW o \in Runners, q # o
                 PROVE  command'[q].locked \cap command'[o].locked = {}
    BY DEF Exclusive
  <2>2. command'[q].locked \subseteq command[q].locked
    BY <1>3, <1>4, IdleIsFree
  <2>3. command'[o].locked \subseteq command[o].locked
    BY <1>3, <1>4, IdleIsFree
  <2>4. command[q].locked \cap command[o].locked = {}
    BY <2>1 DEF SchemaInv, Exclusive
  <2>5. QED
    BY <2>2, <2>3, <2>4
<1>7. RevisionTellsSchema'
  BY <1>1, <1>2 DEF RevisionTellsSchema
<1>8. \A q \in Runners : CommandInv(command'[q], db')
  <2>1. CommandInv(command'[p], db')
    BY <1>3, IdleIsFree
  <2>2. \A q \in Runners \ {p} : CommandInv(command'[q], db')
    BY <1>3, OthersStay
  <2>3. QED
    BY <2>1, <2>2
<1>9. QED
  BY <1>5, <1>6, <1>7, <1>8 DEF SchemaInv

\* The invariant is inductive.
LEMMA NextSchema ==
  ASSUME AllRight, SchemaInv, [Next]_vars
  PROVE  SchemaInv'
<1>1. CASE Next
  <2>1. PICK p \in Runners : Begin(p) \/ Execute(p) \/ Stamped(p) \/ Refuse(p)
                             \/ Commit(p) \/ Crash(p)
    BY <1>1 DEF Next
  <2>2. CASE Begin(p)
    BY <2>2, BeginKeeps
  <2>3. CASE Execute(p)
    BY <2>3, ExecuteKeeps
  <2>4. CASE Stamped(p)
    BY <2>4, StampedKeeps
  <2>5. CASE Refuse(p)
    BY <2>5, RefuseKeeps
  <2>6. CASE Commit(p)
    BY <2>6, CommitKeeps
  <2>7. CASE Crash(p)
    BY <2>7, CrashKeeps
  <2>8. QED
    BY <2>1, <2>2, <2>3, <2>4, <2>5, <2>6, <2>7
<1>2. CASE UNCHANGED vars
  BY <1>2 DEF vars, SchemaInv, Typed, Exclusive, RevisionTellsSchema
<1>3. QED
  BY <1>1, <1>2

-----------------------------------------------------------------------------
(* The theorems.                                                             *)

\* Every state satisfies the invariant.
LEMMA SchemaHolds ==
  ASSUME AllRight
  PROVE  Spec => []SchemaInv
<1>1. Init => SchemaInv
  BY InitSchema
<1>2. SchemaInv /\ [Next]_vars => SchemaInv'
  BY NextSchema
<1>3. QED
  BY <1>1, <1>2, PTL DEF Spec

\* When every script is right on its own, the version row tells the tables that
\* are there, whatever the number of commands, their interleaving and the places
\* they die at (one transaction for a command, the lock on the version row).
THEOREM VersionRowTells ==
  ASSUME AllRight
  PROVE  Spec => []RevisionTellsSchema
<1>1. SchemaInv => RevisionTellsSchema
  BY DEF SchemaInv
<1>2. QED
  BY <1>1, SchemaHolds, PTL

\* When every script is right on its own, a command is refused a statement only
\* if another one committed after it began.
THEOREM NoneIsRefused ==
  ASSUME AllRight
  PROVE  Spec => []ScriptsFit
<1>1. SchemaInv => ScriptsFit
  BY DEF SchemaInv, CommandInv, ScriptsFit
<1>2. QED
  BY <1>1, SchemaHolds, PTL

\* When every script is right on its own and the upgrades of an empty database
\* make the tables the ORM classes declare, a database at the last revision has
\* them, however it came there.
THEOREM NewestIsDeclared ==
  ASSUME AllRight, Declares(SchemaAt[Newest])
  PROVE  Spec => []MigratedIsDeclared
<1>1. RevisionTellsSchema => MigratedIsDeclared
  BY DEF RevisionTellsSchema, MigratedIsDeclared
<1>2. QED
  BY <1>1, VersionRowTells, PTL

=============================================================================
