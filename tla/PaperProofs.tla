------------------------------ MODULE PaperProofs ------------------------------
(***************************************************************************)
(* Proofs about modules QuestionBank and PaperGeneration, for any bank, any   *)
(* number of requests, blueprints, drafts, edits and crashes.                 *)
(***************************************************************************)
EXTENDS PaperGeneration, FiniteSetTheorems, TLAPS

(* Blueprints and configurations.                                            *)

Statuses  == {"DRAFT", "ACTIVE", "ARCHIVED"}
Blueprint == [design : Designs, status : Statuses]
Config    == [blueprint : Nat, chapters : Chapters, status : Statuses]

\* The blueprint n has been activated, and perhaps retired since.
Activated(rows, n) == n \in DOMAIN rows /\ rows[n].status # "DRAFT"

\* What a request on blueprints or configurations is about; it never asks for a
\* blueprint to be a draft again.
DeskInv(r, rows) ==
  /\ DOMAIN r = DOMAIN Free
  /\ r.step = "blueprint" => r.status \in {"ACTIVE", "ARCHIVED"}
  /\ r.step = "config status" => r.status \in Statuses
  /\ r.step = "config" => Activated(rows, r.at)

StatusInv ==
  /\ blueprints \in Seq(Blueprint) /\ configs \in Seq(Config)
  /\ desk = [d \in Desks |-> desk[d]]
  /\ \A d \in Desks : DeskInv(desk[d], blueprints)
  /\ \A n \in DOMAIN configs : Activated(blueprints, configs[n].blueprint)

\* A row of a table, and a table with another row in its place.
LEMMA RowsAre ==
  ASSUME NEW S, NEW rows \in Seq(S)
  PROVE  /\ Len(rows) \in Nat /\ DOMAIN rows = 1 .. Len(rows)
         /\ \A n \in DOMAIN rows : rows[n] \in S
         /\ \A n \in DOMAIN rows, row \in S : [rows EXCEPT ![n] = row] \in Seq(S)
         /\ \A n, row : n \notin DOMAIN rows => [rows EXCEPT ![n] = row] = rows
<1>1. Len(rows) \in Nat /\ DOMAIN rows = 1 .. Len(rows) /\ rows \in [1 .. Len(rows) -> S]
  OBVIOUS
<1>2. \A n \in DOMAIN rows, row \in S : [rows EXCEPT ![n] = row] \in Seq(S)
  OBVIOUS
<1>3. ASSUME NEW n, NEW row, n \notin DOMAIN rows PROVE [rows EXCEPT ![n] = row] = rows
  BY <1>1, <1>3
<1> QED BY <1>1, <1>2, <1>3

\* From no status a row is turned into a draft.
LEMMA TurnsForward ==
  ASSUME NEW s \in Statuses, NEW t \in Turns[s]
  PROVE  t \in {"ACTIVE", "ARCHIVED"}
BY DEF Statuses, Turns

\* An idle request.
LEMMA FreeIs == Free.step = "idle" /\ \A rows : DeskInv(Free, rows)
BY DEF Free, DeskInv

\* A step that changes one request and no row.
LEMMA DeskStep ==
  ASSUME StatusInv, NEW d \in Desks, NEW r, DeskInv(r, blueprints),
         desk' = [desk EXCEPT ![d] = r], UNCHANGED <<blueprints, configs>>
  PROVE  StatusInv'
<1>1. /\ desk'[d] = r /\ \A e \in Desks \ {d} : desk'[e] = desk[e]
      /\ desk' = [e \in Desks |-> desk'[e]]
  BY DEF StatusInv
<1>2. \A e \in Desks : DeskInv(desk'[e], blueprints)
  BY <1>1 DEF StatusInv
<1> QED BY <1>1, <1>2 DEF StatusInv

\* A blueprint is created.
LEMMA CreateBlueprintKeeps ==
  ASSUME StatusInv, CreateBlueprint
  PROVE  StatusInv'
<1>1. PICK design \in Designs :
        blueprints' = Append(blueprints, [design |-> design, status |-> "DRAFT"])
  BY DEF CreateBlueprint
<1>2. [design |-> design, status |-> "DRAFT"] \in Blueprint
  BY DEF Blueprint, Statuses
<1>3. /\ blueprints' \in Seq(Blueprint) /\ \A n \in DOMAIN blueprints :
           n \in DOMAIN blueprints' /\ blueprints'[n] = blueprints[n]
  BY <1>1, <1>2 DEF StatusInv
<1>4. \A n : Activated(blueprints, n) => Activated(blueprints, n)'
  BY <1>3 DEF Activated
<1>5. UNCHANGED <<configs, desk>>
  BY DEF CreateBlueprint
<1> QED BY <1>3, <1>4, <1>5 DEF StatusInv, DeskInv

\* A change of a status is asked for.
LEMMA AskedKeeps ==
  ASSUME StatusInv, NEW d \in Desks, LoadBlueprint(d) \/ LoadConfig(d)
  PROVE  StatusInv'
<1>1. CASE LoadBlueprint(d)
  <2>0. PICK n \in DOMAIN blueprints : \E status \in Turns[blueprints[n].status] :
          desk' = [desk EXCEPT ![d] =
                     [Free EXCEPT !.step = "blueprint", !.at = n, !.status = status]]
    BY <1>1 DEF LoadBlueprint, Asked
  <2>1. PICK status \in Turns[blueprints[n].status] :
          desk' = [desk EXCEPT ![d] =
                     [Free EXCEPT !.step = "blueprint", !.at = n, !.status = status]]
    BY <2>0
  <2> DEFINE r == [Free EXCEPT !.step = "blueprint", !.at = n, !.status = status]
  <2>2. status \in {"ACTIVE", "ARCHIVED"}
    <3>1. blueprints[n].status \in Statuses
      <4>1. blueprints \in Seq(Blueprint)
        BY DEF StatusInv
      <4>2. blueprints[n] \in Blueprint
        BY <4>1, RowsAre
      <4> QED BY <4>2 DEF Blueprint
    <3> QED BY <3>1, TurnsForward
  <2>3. DeskInv(r, blueprints)
    BY <2>2 DEF DeskInv, Free
  <2> QED BY <1>1, <2>1, <2>3, DeskStep DEF LoadBlueprint, Asked
<1>2. CASE LoadConfig(d)
  <2>0. PICK n \in DOMAIN configs : \E status \in Turns[configs[n].status] :
          desk' = [desk EXCEPT ![d] =
                     [Free EXCEPT !.step = "config status", !.at = n, !.status = status]]
    BY <1>2 DEF LoadConfig, Asked
  <2>1. PICK status \in Turns[configs[n].status] :
          desk' = [desk EXCEPT ![d] =
                     [Free EXCEPT !.step = "config status", !.at = n, !.status = status]]
    BY <2>0
  <2> DEFINE r == [Free EXCEPT !.step = "config status", !.at = n, !.status = status]
  <2>2. status \in Statuses
    <3>1. configs[n].status \in Statuses
      <4>1. configs \in Seq(Config)
        BY DEF StatusInv
      <4>2. configs[n] \in Config
        BY <4>1, RowsAre
      <4> QED BY <4>2 DEF Config
    <3> QED BY <3>1, TurnsForward DEF Statuses
  <2>3. DeskInv(r, blueprints)
    BY <2>2 DEF DeskInv, Free
  <2> QED BY <1>2, <2>1, <2>3, DeskStep DEF LoadConfig, Asked
<1> QED BY <1>1, <1>2

\* A blueprint gets the status that was asked for on a copy that may be stale: it
\* is not made a draft again, so what was activated stays so.
LEMMA StoreBlueprintKeeps ==
  ASSUME StatusInv, NEW d \in Desks, StoreBlueprint(d)
  PROVE  StatusInv'
<1> DEFINE r == desk[d]
<1>1. /\ r.step = "blueprint" /\ blueprints' = [blueprints EXCEPT ![r.at].status = r.status]
      /\ desk' = [desk EXCEPT ![d] = Free] /\ UNCHANGED configs
  BY DEF StoreBlueprint
<1>2. r.status \in {"ACTIVE", "ARCHIVED"}
  BY <1>1 DEF StatusInv, DeskInv
<1>3. /\ blueprints' \in Seq(Blueprint) /\ DOMAIN blueprints' = DOMAIN blueprints
      /\ \A n \in DOMAIN blueprints :
           blueprints'[n].status \in {blueprints[n].status, r.status}
  <2>1. blueprints \in Seq(Blueprint) /\ r.status \in Statuses
    BY <1>2 DEF StatusInv, Statuses
  <2> HIDE DEF r
  <2>2. CASE r.at \notin DOMAIN blueprints
    <3> DEFINE row == [blueprints[r.at] EXCEPT !.status = r.status]
    <3>1. blueprints' = [blueprints EXCEPT ![r.at] = row]
      BY <1>1
    <3> HIDE DEF row
    <3>2. blueprints' = blueprints
      BY <2>1, <2>2, <3>1, RowsAre
    <3> QED BY <2>1, <3>2
  <2>3. CASE r.at \in DOMAIN blueprints
    <3> DEFINE row == [blueprints[r.at] EXCEPT !.status = r.status]
    <3>1. blueprints' = [blueprints EXCEPT ![r.at] = row]
      BY <1>1
    <3>2. blueprints[r.at] \in Blueprint
      BY <2>1, <2>3, RowsAre
    <3>3. row \in Blueprint /\ row.status = r.status
      BY <2>1, <3>2 DEF Blueprint
    <3> HIDE DEF row
    <3>4. blueprints' \in Seq(Blueprint)
      BY <2>1, <2>3, <3>1, <3>3, RowsAre
    <3> QED BY <3>1, <3>3, <3>4
  <2> QED BY <2>2, <2>3
<1>4. \A n : Activated(blueprints, n) => Activated(blueprints, n)'
  BY <1>2, <1>3 DEF Activated
<1>5. /\ desk' = [e \in Desks |-> desk'[e]]
      /\ \A e \in Desks : desk'[e] = Free \/ desk'[e] = desk[e]
  BY <1>1 DEF StatusInv
<1>6. \A e \in Desks : DeskInv(desk[e], blueprints)'
  BY <1>4, <1>5, FreeIs DEF StatusInv, DeskInv
<1> QED BY <1>1, <1>3, <1>4, <1>5, <1>6 DEF StatusInv

\* A configuration is asked for, of a blueprint that is ACTIVE at that time.
LEMMA LoadForConfigKeeps ==
  ASSUME StatusInv, NEW d \in Desks, LoadForConfig(d)
  PROVE  StatusInv'
<1>1. PICK n \in DOMAIN blueprints :
        /\ blueprints[n].status = "ACTIVE"
        /\ desk' = [desk EXCEPT ![d] = [Free EXCEPT !.step = "config", !.at = n]]
  BY DEF LoadForConfig
<1> DEFINE r == [Free EXCEPT !.step = "config", !.at = n]
<1>2. DeskInv(r, blueprints)
  BY <1>1 DEF DeskInv, Free, Activated
<1> QED BY <1>1, <1>2, DeskStep DEF LoadForConfig

\* The configuration is stored.
LEMMA StoreConfigKeeps ==
  ASSUME StatusInv, NEW d \in Desks, StoreConfig(d)
  PROVE  StatusInv'
<1>1. PICK chapters \in Chapters :
        configs' = Append(configs, [blueprint |-> desk[d].at, chapters |-> chapters,
                                    status |-> "DRAFT"])
  BY DEF StoreConfig
<1> DEFINE row == [blueprint |-> desk[d].at, chapters |-> chapters, status |-> "DRAFT"]
<1>2. Activated(blueprints, desk[d].at) /\ desk[d].at \in Nat
  <2>1. blueprints \in Seq(Blueprint) /\ Activated(blueprints, desk[d].at)
    BY DEF StoreConfig, StatusInv, DeskInv
  <2> QED BY <2>1, RowsAre DEF Activated
<1>3. row \in Config /\ Activated(blueprints, row.blueprint)
  BY <1>2 DEF Config, Statuses
<1> HIDE DEF row
<1>4. /\ configs' \in Seq(Config) /\ \A n \in DOMAIN configs' :
           configs'[n] = row \/ (n \in DOMAIN configs /\ configs'[n] = configs[n])
  BY <1>1, <1>3 DEF StatusInv, row
<1>5. /\ desk' = [e \in Desks |-> desk'[e]] /\ UNCHANGED blueprints
      /\ \A e \in Desks : desk'[e] = Free \/ desk'[e] = desk[e]
  BY DEF StoreConfig, StatusInv
<1>6. \A e \in Desks : DeskInv(desk[e], blueprints)'
  BY <1>5, FreeIs DEF StatusInv
<1>7. \A n \in DOMAIN configs' : Activated(blueprints', configs'[n].blueprint)
  BY <1>3, <1>4, <1>5 DEF StatusInv
<1> QED BY <1>4, <1>5, <1>6, <1>7 DEF StatusInv

\* A configuration gets a status.
LEMMA StoreConfigStatusKeeps ==
  ASSUME StatusInv, NEW d \in Desks, StoreConfigStatus(d)
  PROVE  StatusInv'
<1> DEFINE r == desk[d]
<1>1. /\ configs' = [configs EXCEPT ![r.at].status = r.status]
      /\ desk' = [desk EXCEPT ![d] = Free] /\ UNCHANGED blueprints
  BY DEF StoreConfigStatus
<1>2. configs \in Seq(Config) /\ r.status \in Statuses
  BY DEF StoreConfigStatus, StatusInv, DeskInv
<1>3. /\ configs' \in Seq(Config) /\ DOMAIN configs' = DOMAIN configs
      /\ \A n \in DOMAIN configs : configs'[n].blueprint = configs[n].blueprint
  <2> HIDE DEF r
  <2>1. CASE r.at \notin DOMAIN configs
    <3> DEFINE row == [configs[r.at] EXCEPT !.status = r.status]
    <3>1. configs' = [configs EXCEPT ![r.at] = row]
      BY <1>1
    <3> HIDE DEF row
    <3>2. configs' = configs
      BY <1>2, <2>1, <3>1, RowsAre
    <3> QED BY <1>2, <3>2
  <2>2. CASE r.at \in DOMAIN configs
    <3> DEFINE row == [configs[r.at] EXCEPT !.status = r.status]
    <3>1. configs' = [configs EXCEPT ![r.at] = row]
      BY <1>1
    <3>2. configs[r.at] \in Config
      BY <1>2, <2>2, RowsAre
    <3>3. row \in Config /\ row.blueprint = configs[r.at].blueprint
      BY <1>2, <3>2 DEF Config
    <3> HIDE DEF row
    <3>4. configs' \in Seq(Config)
      BY <1>2, <2>2, <3>1, <3>3, RowsAre
    <3> QED BY <3>1, <3>3, <3>4
  <2> QED BY <2>1, <2>2
<1>4. /\ desk' = [e \in Desks |-> desk'[e]]
      /\ \A e \in Desks : desk'[e] = Free \/ desk'[e] = desk[e]
  BY <1>1 DEF StatusInv
<1>5. \A e \in Desks : DeskInv(desk[e], blueprints)'
  BY <1>1, <1>4, FreeIs DEF StatusInv
<1> QED BY <1>1, <1>3, <1>4, <1>5 DEF StatusInv

\* The steps of generation leave blueprints and configurations alone, and a request
\* that generates has no status to store.
LEMMA GenerationKeeps ==
  ASSUME StatusInv, NEW d \in Desks, Generate(d) \/ FillSlot(d) \/ WritePaper(d)
  PROVE  StatusInv'
<1>1. CASE Generate(d)
  <2>1. PICK n \in DOMAIN configs, weak \in WeakTopics,
             todo \in {<<Shared>>} \cup {SetToSeq(ss) : ss \in SUBSET Students \ {{}}} :
          desk' = [desk EXCEPT ![d] = [Free EXCEPT !.step = "slot", !.at = n, !.weak = weak,
                                                   !.todo = todo, !.chosen = << <<>> >>]]
    BY <1>1 DEF Generate
  <2> DEFINE r == [Free EXCEPT !.step = "slot", !.at = n, !.weak = weak,
                               !.todo = todo, !.chosen = << <<>> >>]
  <2>2. DeskInv(r, blueprints)
    BY DEF DeskInv, Free
  <2> QED BY <1>1, <2>1, <2>2, DeskStep DEF Generate
<1>2. CASE FillSlot(d)
  <2>1. \E chosen : desk' = [desk EXCEPT ![d] = AfterSlot(d, chosen)]
    BY <1>2 DEF FillSlot
  <2>2. PICK chosen : desk' = [desk EXCEPT ![d] = AfterSlot(d, chosen)]
    BY <2>1
  <2>3. desk[d].step = "slot" /\ UNCHANGED <<blueprints, configs>>
    BY <1>2 DEF FillSlot
  <2>4. AfterSlot(d, chosen).step \in {"slot", "write"}
        /\ DOMAIN AfterSlot(d, chosen) = DOMAIN Free
    <3>1. DOMAIN desk[d] = DOMAIN Free
      BY DEF StatusInv, DeskInv
    <3> QED BY <2>3, <3>1 DEF AfterSlot, Free
  <2>5. DeskInv(AfterSlot(d, chosen), blueprints)
    BY <2>4 DEF DeskInv
  <2> QED BY <2>2, <2>3, <2>5, DeskStep
<1>3. CASE WritePaper(d)
  <2> DEFINE r == IF Len(desk[d].todo) = 1 THEN Free
                  ELSE [Free EXCEPT !.step = "slot", !.at = desk[d].at,
                                    !.chosen = << <<>> >>, !.todo = Tail(desk[d].todo)]
  <2>1. desk' = [desk EXCEPT ![d] = r] /\ UNCHANGED <<blueprints, configs>>
    BY <1>3 DEF WritePaper
  <2>2. r.step \in {"idle", "slot"}
    BY DEF Free
  <2>3. DeskInv(r, blueprints)
    BY <2>2 DEF DeskInv
  <2> HIDE DEF r
  <2> QED BY <2>1, <2>3, DeskStep
<1> QED BY <1>1, <1>2, <1>3

\* The bank changes, or the server ends: no request gets anything to store.
LEMMA BankStepKeeps ==
  ASSUME StatusInv, BankStep \/ Crash
  PROVE  StatusInv'
<1>1. UNCHANGED <<blueprints, configs>>
  BY DEF BankStep, Crash
<1>2. /\ desk' = [d \in Desks |-> desk'[d]]
      /\ \A d \in Desks : \/ desk'[d] = desk[d] \/ desk'[d] = Free
                          \/ \E steady : desk'[d] = [desk[d] EXCEPT !.steady = steady]
  BY DEF BankStep, Crash, StatusInv
<1>3. \A d \in Desks : DeskInv(desk[d], blueprints)'
  <2>1. ASSUME NEW d \in Desks PROVE DeskInv(desk'[d], blueprints)
    <3>1. DeskInv(desk[d], blueprints)
      BY DEF StatusInv
    <3>2. CASE desk'[d] = desk[d] \/ desk'[d] = Free
      BY <3>1, <3>2, FreeIs
    <3>3. CASE \E steady : desk'[d] = [desk[d] EXCEPT !.steady = steady]
      <4> DEFINE r == desk[d]
      <4>1. PICK steady : desk'[d] = [r EXCEPT !.steady = steady]
        BY <3>3
      <4> DEFINE new == [r EXCEPT !.steady = steady]
      <4>2. new.step = r.step /\ new.at = r.at /\ new.status = r.status
            /\ DOMAIN new = DOMAIN Free
        BY <3>1 DEF DeskInv, Free
      <4> HIDE DEF new
      <4>3. DeskInv(new, blueprints)
        BY <3>1, <4>2 DEF DeskInv
      <4> QED BY <4>1, <4>3 DEF new
    <3> QED BY <1>2, <3>2, <3>3
  <2> QED BY <1>1, <2>1
<1> QED BY <1>1, <1>2, <1>3 DEF StatusInv

\* The invariant holds at the start.
LEMMA InitStatus == Init => StatusInv
BY FreeIs DEF Init, StatusInv

\* Every step keeps it.
LEMMA StepStatus == StatusInv /\ [Next]_vars => StatusInv'
<1> SUFFICES ASSUME StatusInv, [Next]_vars PROVE StatusInv'
  OBVIOUS
<1>1. CASE BankStep \/ Crash
  BY <1>1, BankStepKeeps
<1>2. CASE CreateBlueprint
  BY <1>2, CreateBlueprintKeeps
<1>3. CASE Approve
  BY <1>3 DEF Approve, StatusInv
<1>4. ASSUME NEW d \in Desks,
             \/ LoadBlueprint(d) \/ StoreBlueprint(d) \/ LoadForConfig(d) \/ StoreConfig(d)
             \/ LoadConfig(d) \/ StoreConfigStatus(d)
      PROVE  StatusInv'
  BY <1>4, AskedKeeps, StoreBlueprintKeeps, LoadForConfigKeeps, StoreConfigKeeps,
     StoreConfigStatusKeeps
<1>5. ASSUME NEW d \in Desks, Generate(d) \/ FillSlot(d) \/ WritePaper(d) PROVE StatusInv'
  BY <1>5, GenerationKeeps
<1>6. CASE UNCHANGED vars
  BY <1>6 DEF vars, paperVars, StatusInv
<1> QED BY <1>1, <1>2, <1>3, <1>4, <1>5, <1>6 DEF Next

\* A configuration belongs to a blueprint that has been activated, however the
\* look-up in create_exam_config interleaves with changes of status.
THEOREM ConfigsStandOnActivated == Spec => []ConfigsActivated
<1>1. StatusInv => ConfigsActivated
  BY DEF StatusInv, ConfigsActivated, Activated
<1> QED BY <1>1, InitStatus, StepStatus, PTL DEF Spec

-----------------------------------------------------------------------------
(* Questions and their versions.                                             *)

IsSeq(s) == \E S : s \in Seq(S)

OfType(rows, type) == {i \in DOMAIN rows : rows[i].type = type}

\* The numbers of the versions of a question.
Numbers(vs, type, id) ==
  {vs[k].version_no : k \in {j \in DOMAIN vs : vs[j].type = type /\ vs[j].id = id}}

Numbered1toN(row, vs) ==
  \E n \in 1 .. Len(vs) :
    Numbers(vs, row.type, row.id) = 1 .. n /\ row.version_no \in 1 .. n

\* Rows rows and versions vs: a question is known by its type and id, no version is
\* of a question that is not there, and the numbers run on.
RowsInv(rows, vs) ==
  /\ IsSeq(rows) /\ IsSeq(vs)
  /\ \A i \in DOMAIN rows :
       /\ {"type", "id", "version_no"} \subseteq DOMAIN rows[i]
       /\ rows[i].id \in 1 .. Cardinality(OfType(rows, rows[i].type))
       /\ Numbered1toN(rows[i], vs)
  /\ \A i, j \in DOMAIN rows :
       rows[i].type = rows[j].type /\ rows[i].id = rows[j].id => i = j
  /\ \A k \in DOMAIN vs : \E i \in DOMAIN rows :
       vs[k].type = rows[i].type /\ vs[k].id = rows[i].id

\* A request with a copy it loaded, which may be stale: its number is one of the
\* question's.
ClerkInv(r, rows, vs) ==
  r.step # "idle" =>
    /\ r.at \in DOMAIN rows
    /\ r.loaded.type = rows[r.at].type /\ r.loaded.id = rows[r.at].id
    /\ r.loaded.version_no \in Numbers(vs, r.loaded.type, r.loaded.id)
    /\ DOMAIN r.data \subseteq {"difficulty", "marks", "status"}

BankInv ==
  /\ RowsInv(questions, versions)
  /\ clerk = [c \in Clerks |-> clerk[c]]
  /\ \A c \in Clerks : ClerkInv(clerk[c], questions, versions)

\* Questions keep their place, type and id, and versions are only added.
Grown(rows, vs, rows2, vs2) ==
  /\ \A i \in DOMAIN rows : /\ i \in DOMAIN rows2 /\ rows2[i].type = rows[i].type
                            /\ rows2[i].id = rows[i].id
  /\ \A type, id : Numbers(vs, type, id) \subseteq Numbers(vs2, type, id)

\* A sequence with one more.
LEMMA AppendIs ==
  ASSUME NEW s, IsSeq(s), NEW x
  PROVE  /\ IsSeq(Append(s, x)) /\ Len(s) \in Nat /\ DOMAIN s = 1 .. Len(s)
         /\ Len(Append(s, x)) = Len(s) + 1 /\ DOMAIN Append(s, x) = 1 .. Len(s) + 1
         /\ Append(s, x)[Len(s) + 1] = x
         /\ \A i \in DOMAIN s : Append(s, x)[i] = s[i]
<1>1. PICK S : s \in Seq(S)
  BY DEF IsSeq
<1> DEFINE T == S \cup {x}
<1>2. s \in Seq(T) /\ x \in T
  BY <1>1
<1> HIDE DEF T
<1> QED BY <1>2 DEF IsSeq

\* The rows of a type are finitely many; one more is one more.
LEMMA OneMoreOfType ==
  ASSUME NEW rows, IsSeq(rows), NEW row, NEW type
  PROVE  /\ Cardinality(OfType(rows, type)) \in Nat
         /\ Cardinality(OfType(Append(rows, row), type)) =
              Cardinality(OfType(rows, type)) + (IF row.type = type THEN 1 ELSE 0)
<1> DEFINE n == Len(rows)
           more == Append(rows, row)
<1>1. /\ n \in Nat /\ DOMAIN rows = 1 .. n /\ DOMAIN more = 1 .. n + 1
      /\ more[n + 1] = row /\ \A i \in 1 .. n : more[i] = rows[i]
  BY AppendIs
<1>2. IsFiniteSet(OfType(rows, type)) /\ n + 1 \notin OfType(rows, type)
  <2>1. IsFiniteSet(1 .. n) /\ OfType(rows, type) \subseteq 1 .. n
    BY <1>1, FS_Interval DEF OfType
  <2> QED BY <1>1, <2>1, FS_Subset
<1> HIDE DEF n, more
<1>3. CASE row.type = type
  <2>1. OfType(more, type) = OfType(rows, type) \cup {n + 1}
    BY <1>1, <1>3 DEF OfType
  <2> QED BY <1>2, <1>3, <2>1, FS_AddElement, FS_CardinalityType DEF more
<1>4. CASE row.type # type
  <2>1. OfType(more, type) = OfType(rows, type)
    BY <1>1, <1>4 DEF OfType
  <2>2. Cardinality(OfType(rows, type)) \in Nat
    BY <1>2, FS_CardinalityType
  <2> QED BY <1>4, <2>1, <2>2 DEF more
<1> QED BY <1>3, <1>4

\* One version more gives its question one number more.
LEMMA NumbersGrow ==
  ASSUME NEW vs, IsSeq(vs), NEW v, NEW type, NEW id, NEW no,
         v.type = type, v.id = id, v.version_no = no
  PROVE  /\ Numbers(Append(vs, v), type, id) = Numbers(vs, type, id) \cup {no}
         /\ \A ty, x : ~(ty = type /\ x = id) =>
                         Numbers(Append(vs, v), ty, x) = Numbers(vs, ty, x)
BY AppendIs DEF Numbers

\* What a request has loaded stays good as the bank grows.
LEMMA ClerkStays ==
  ASSUME NEW r, NEW rows, NEW vs, NEW rows2, NEW vs2,
         ClerkInv(r, rows, vs), Grown(rows, vs, rows2, vs2)
  PROVE  ClerkInv(r, rows2, vs2)
BY DEF ClerkInv, Grown

\* A question is entered, with its first version.
LEMMA EnteredKeeps ==
  ASSUME NEW rows, NEW vs, RowsInv(rows, vs), NEW draft, NEW rows2, NEW vs2,
         rows2 = Entered(rows, draft), vs2 = Append(vs, FirstVersion(Last(rows2)))
  PROVE  RowsInv(rows2, vs2) /\ Grown(rows, vs, rows2, vs2)
<1> DEFINE n == Len(rows)
           id == NextId(rows, draft.type)
           row == [type |-> draft.type, id |-> id,
                   chapter |-> draft.chapter, topic |-> draft.topic, bloom |-> draft.bloom,
                   difficulty |-> draft.difficulty, marks |-> draft.marks,
                   status |-> "DRAFT", version_no |-> 1]
           first == FirstVersion(row)
<1>1. rows2 = Append(rows, row)
  BY DEF Entered
<1>2. /\ row.type = draft.type /\ row.id = id /\ row.version_no = 1
      /\ {"type", "id", "version_no"} \subseteq DOMAIN row
  OBVIOUS
<1>3. first.type = row.type /\ first.id = row.id /\ first.version_no = 1
  BY DEF FirstVersion
<1>4. id = 1 + Cardinality(OfType(rows, row.type))
  BY <1>2 DEF NextId, OfType
<1> HIDE DEF row, id
<1>5. IsSeq(rows) /\ IsSeq(vs)
  BY DEF RowsInv
<1>6. /\ IsSeq(rows2) /\ n \in Nat /\ DOMAIN rows = 1 .. n /\ DOMAIN rows2 = 1 .. n + 1
      /\ Len(rows2) = n + 1 /\ rows2[n + 1] = row /\ \A i \in 1 .. n : rows2[i] = rows[i]
  BY <1>1, <1>5, AppendIs
<1>7. vs2 = Append(vs, first)
  BY <1>6 DEF Last
<1> HIDE DEF first
<1>8. /\ IsSeq(vs2) /\ Len(vs) \in Nat /\ DOMAIN vs = 1 .. Len(vs) /\ Len(vs2) = Len(vs) + 1
      /\ DOMAIN vs2 = 1 .. Len(vs) + 1
      /\ vs2[Len(vs) + 1] = first /\ \A k \in DOMAIN vs : vs2[k] = vs[k]
  BY <1>5, <1>7, AppendIs
<1>9. /\ Numbers(vs2, row.type, row.id) = Numbers(vs, row.type, row.id) \cup {1}
      /\ \A type, x : ~(type = row.type /\ x = row.id) =>
                         Numbers(vs2, type, x) = Numbers(vs, type, x)
  <2> DEFINE type == row.type
             x == row.id
  <2>1. first.type = type /\ first.id = x /\ first.version_no = 1
    BY <1>3
  <2> HIDE DEF type, x
  <2>2. /\ Numbers(vs2, type, x) = Numbers(vs, type, x) \cup {1}
        /\ \A ty, y : ~(ty = type /\ y = x) => Numbers(vs2, ty, y) = Numbers(vs, ty, y)
    <3>1. IsSeq(vs) /\ vs2 = Append(vs, first)
      BY <1>5, <1>7
    <3>2. Numbers(Append(vs, first), type, x) = Numbers(vs, type, x) \cup {1}
      BY <2>1, <3>1, NumbersGrow
    <3>3. ASSUME NEW ty, NEW y, ~(ty = type /\ y = x)
          PROVE  Numbers(Append(vs, first), ty, y) = Numbers(vs, ty, y)
      BY <2>1, <3>1, <3>3, NumbersGrow
    <3> QED BY <3>1, <3>2, <3>3
  <2> QED BY <2>2 DEF type, x
<1>10. \A type : /\ Cardinality(OfType(rows, type)) \in Nat
                 /\ Cardinality(OfType(rows2, type)) =
                      Cardinality(OfType(rows, type)) + (IF row.type = type THEN 1 ELSE 0)
  BY <1>1, <1>5, OneMoreOfType
\* The new id is no question's, so far.
<1>11. \A i \in 1 .. n : rows[i].type # row.type \/ rows[i].id # row.id
  BY <1>2, <1>4, <1>6, <1>10 DEF RowsInv
<1>12. ASSUME NEW i \in 1 .. n
       PROVE  /\ {"type", "id", "version_no"} \subseteq DOMAIN rows2[i]
              /\ rows2[i].id \in 1 .. Cardinality(OfType(rows2, rows2[i].type))
              /\ Numbered1toN(rows2[i], vs2)
  <2>1. /\ {"type", "id", "version_no"} \subseteq DOMAIN rows[i]
        /\ rows[i].id \in 1 .. Cardinality(OfType(rows, rows[i].type))
        /\ Numbered1toN(rows[i], vs) /\ rows2[i] = rows[i]
    BY <1>6 DEF RowsInv
  <2>2. Numbers(vs2, rows[i].type, rows[i].id) = Numbers(vs, rows[i].type, rows[i].id)
    BY <1>9, <1>11
  <2>3. Numbered1toN(rows[i], vs2)
    BY <1>8, <2>1, <2>2 DEF Numbered1toN
  <2>4. rows[i].id \in 1 .. Cardinality(OfType(rows2, rows[i].type))
    BY <1>10, <2>1
  <2> QED BY <2>1, <2>3, <2>4
<1>13. /\ row.id \in 1 .. Cardinality(OfType(rows2, row.type))
       /\ Numbered1toN(row, vs2)
  <2>1. row.id \in 1 .. Cardinality(OfType(rows2, row.type))
    BY <1>2, <1>4, <1>10
  <2>2. Numbers(vs, row.type, row.id) = {}
    <3>1. \A k \in DOMAIN vs : ~(vs[k].type = row.type /\ vs[k].id = row.id)
      BY <1>6, <1>11 DEF RowsInv
    <3> QED BY <3>1 DEF Numbers
  <2>3. Numbers(vs2, row.type, row.id) = {1}
    BY <1>3, <1>9, <2>2
  <2>4. 1 \in 1 .. Len(vs2) /\ 1 .. 1 = {1}
    BY <1>8
  <2> QED BY <1>2, <2>1, <2>3, <2>4 DEF Numbered1toN
<1>14. \A i, j \in DOMAIN rows2 :
         rows2[i].type = rows2[j].type /\ rows2[i].id = rows2[j].id => i = j
  <2>1. \A i, j \in 1 .. n :
          rows[i].type = rows[j].type /\ rows[i].id = rows[j].id => i = j
    BY <1>6 DEF RowsInv
  <2> QED BY <1>6, <1>11, <2>1
<1>15. ASSUME NEW k \in DOMAIN vs2
       PROVE  \E i \in DOMAIN rows2 : vs2[k].type = rows2[i].type /\ vs2[k].id = rows2[i].id
  <2>1. CASE k \in DOMAIN vs
    <3>1. PICK i \in DOMAIN rows : vs[k].type = rows[i].type /\ vs[k].id = rows[i].id
      BY <2>1 DEF RowsInv
    <3> QED BY <1>6, <1>8, <2>1, <3>1
  <2>2. CASE k = Len(vs) + 1
    <3>1. n + 1 \in DOMAIN rows2
      BY <1>6
    <3> QED BY <1>3, <1>6, <1>8, <2>2, <3>1
  <2> QED BY <1>8, <2>1, <2>2
<1>16. \A i \in DOMAIN rows2 :
         /\ {"type", "id", "version_no"} \subseteq DOMAIN rows2[i]
         /\ rows2[i].id \in 1 .. Cardinality(OfType(rows2, rows2[i].type))
         /\ Numbered1toN(rows2[i], vs2)
  BY <1>2, <1>6, <1>12, <1>13
<1>17. RowsInv(rows2, vs2)
  BY <1>6, <1>8, <1>14, <1>15, <1>16 DEF RowsInv
<1>18. Grown(rows, vs, rows2, vs2)
  BY <1>6, <1>9 DEF Grown
<1> QED BY <1>17, <1>18

\* Versions are added for one question only.
AddedFor(row, vs, vs2) ==
  /\ IsSeq(vs2) /\ Len(vs) \in Nat /\ Len(vs2) \in Nat /\ Len(vs2) >= Len(vs)
  /\ \A k \in DOMAIN vs2 : \/ k \in DOMAIN vs /\ vs2[k] = vs[k]
                           \/ vs2[k].type = row.type /\ vs2[k].id = row.id
  /\ \A type, id : ~(type = row.type /\ id = row.id) =>
                      Numbers(vs2, type, id) = Numbers(vs, type, id)

\* Another row for a question.
ChangedTo(old, new) ==
  /\ {"type", "id", "version_no"} \subseteq DOMAIN new
  /\ new.type = old.type /\ new.id = old.id

\* A question is changed, perhaps with more versions.
LEMMA ChangedKeeps ==
  ASSUME NEW rows, NEW vs, NEW n, NEW row, NEW vs2, n \in DOMAIN rows,
         RowsInv(rows, vs), ChangedTo(rows[n], row), Numbered1toN(row, vs2),
         AddedFor(row, vs, vs2)
  PROVE  RowsInv([rows EXCEPT ![n] = row], vs2)
<1> DEFINE rows2 == [rows EXCEPT ![n] = row]
<1>0. /\ {"type", "id", "version_no"} \subseteq DOMAIN row
      /\ row.type = rows[n].type /\ row.id = rows[n].id
      /\ IsSeq(vs2) /\ Len(vs) \in Nat /\ Len(vs2) \in Nat /\ Len(vs2) >= Len(vs)
      /\ \A k \in DOMAIN vs2 : \/ k \in DOMAIN vs /\ vs2[k] = vs[k]
                               \/ vs2[k].type = row.type /\ vs2[k].id = row.id
      /\ \A type, id : ~(type = row.type /\ id = row.id) =>
                          Numbers(vs2, type, id) = Numbers(vs, type, id)
  BY DEF ChangedTo, AddedFor
<1>1. DOMAIN rows2 = DOMAIN rows /\ rows2[n] = row
      /\ \A i \in DOMAIN rows \ {n} : rows2[i] = rows[i]
  OBVIOUS
<1> HIDE DEF rows2
<1>2. IsSeq(rows2)
  <2>1. PICK S : rows \in Seq(S)
    BY DEF RowsInv, IsSeq
  <2> DEFINE T == S \cup {row}
  <2>2. rows \in Seq(T) /\ row \in T
    BY <2>1
  <2> HIDE DEF T
  <2>3. rows2 \in Seq(T)
    BY <2>2, RowsAre DEF rows2
  <2> QED BY <2>3 DEF IsSeq
<1>3. \A i \in DOMAIN rows : rows2[i].type = rows[i].type /\ rows2[i].id = rows[i].id
  BY <1>0, <1>1
<1>4. \A type : OfType(rows2, type) = OfType(rows, type)
  BY <1>1, <1>3 DEF OfType
<1>5. ASSUME NEW i \in DOMAIN rows
      PROVE  /\ {"type", "id", "version_no"} \subseteq DOMAIN rows2[i]
             /\ rows2[i].id \in 1 .. Cardinality(OfType(rows2, rows2[i].type))
             /\ Numbered1toN(rows2[i], vs2)
  <2>1. /\ {"type", "id", "version_no"} \subseteq DOMAIN rows[i]
        /\ rows[i].id \in 1 .. Cardinality(OfType(rows, rows[i].type))
        /\ Numbered1toN(rows[i], vs)
    BY DEF RowsInv
  <2>2. CASE i = n
    BY <1>0, <1>1, <1>3, <1>4, <2>1, <2>2
  <2>3. CASE i # n
    <3>1. rows2[i] = rows[i] /\ ~(rows[i].type = row.type /\ rows[i].id = row.id)
      BY <1>0, <1>1, <2>3 DEF RowsInv
    <3> DEFINE type == rows[i].type
               id == rows[i].id
    <3>2. Numbers(vs2, type, id) = Numbers(vs, type, id)
      BY <1>0, <3>1
    <3>3. Numbered1toN(rows[i], vs2)
      BY <1>0, <2>1, <3>2 DEF Numbered1toN
    <3> QED BY <1>4, <2>1, <3>1, <3>3
  <2> QED BY <2>2, <2>3
<1>6. \A i, j \in DOMAIN rows2 :
        rows2[i].type = rows2[j].type /\ rows2[i].id = rows2[j].id => i = j
  <2>1. \A i, j \in DOMAIN rows :
          rows[i].type = rows[j].type /\ rows[i].id = rows[j].id => i = j
    BY DEF RowsInv
  <2> QED BY <1>1, <1>3, <2>1
<1>7. ASSUME NEW k \in DOMAIN vs2
      PROVE  \E i \in DOMAIN rows2 : vs2[k].type = rows2[i].type /\ vs2[k].id = rows2[i].id
  <2>1. CASE k \in DOMAIN vs /\ vs2[k] = vs[k]
    <3>1. PICK i \in DOMAIN rows : vs[k].type = rows[i].type /\ vs[k].id = rows[i].id
      BY <2>1 DEF RowsInv
    <3> QED BY <1>1, <1>3, <2>1, <3>1
  <2>2. CASE vs2[k].type = row.type /\ vs2[k].id = row.id
    BY <1>0, <1>1, <2>2
  <2> QED BY <1>0, <2>1, <2>2
<1>8. RowsInv(rows2, vs2)
  BY <1>0, <1>1, <1>2, <1>5, <1>6, <1>7 DEF RowsInv
<1> QED BY <1>8 DEF rows2

\* An update writes no type and no id, and a number only if it has one.
LEMMA WrittenIs ==
  ASSUME NEW row, NEW loaded, NEW data, NEW new, new = Written(row, loaded, data),
         {"type", "id", "version_no"} \subseteq DOMAIN row,
         "type" \notin DOMAIN data, "id" \notin DOMAIN data
  PROVE  /\ ChangedTo(row, new)
         /\ "version_no" \notin DOMAIN data => new.version_no = row.version_no
         /\ "version_no" \in DOMAIN data /\ data.version_no # loaded.version_no =>
              new.version_no = data.version_no
BY DEF Written, ChangedTo

\* The bank at the start.
LEMMA InitBank == BankInit => BankInv
<1> SUFFICES ASSUME BankInit PROVE BankInv
  OBVIOUS
<1>1. /\ Bank \in Seq(Question) /\ questions = Bank
      /\ versions = [i \in DOMAIN Bank |-> FirstVersion(Bank[i])]
  BY BankAssumption DEF BankInit
<1>2. Len(Bank) \in Nat /\ DOMAIN Bank = 1 .. Len(Bank)
      /\ \A i \in DOMAIN Bank : Bank[i] \in Question
  BY <1>1, RowsAre
<1>3. \A i \in DOMAIN Bank : {"type", "id", "version_no"} \subseteq DOMAIN Bank[i]
  BY <1>2 DEF Question
<1>4. \A i \in DOMAIN Bank : /\ versions[i].type = Bank[i].type /\ versions[i].id = Bank[i].id
                             /\ versions[i].version_no = 1
  BY <1>1 DEF FirstVersion
<1>5. IsSeq(questions) /\ IsSeq(versions) /\ Len(versions) = Len(Bank)
      /\ DOMAIN versions = DOMAIN Bank
  <2> DEFINE S == {versions[i] : i \in DOMAIN Bank}
  <2>1. versions \in [1 .. Len(Bank) -> S]
    BY <1>1, <1>2
  <2> HIDE DEF S
  <2>2. versions \in Seq(S) /\ Len(versions) = Len(Bank)
    BY <1>2, <2>1
  <2> QED BY <1>1, <1>2, <2>1, <2>2 DEF IsSeq
<1>6. \A i, j \in DOMAIN Bank : Bank[i].type = Bank[j].type /\ Bank[i].id = Bank[j].id => i = j
  BY BankAssumption
<1>7. \A i \in DOMAIN Bank :
        Bank[i].id \in 1 .. Cardinality(OfType(Bank, Bank[i].type)) /\ Bank[i].version_no = 1
  BY BankAssumption DEF OfType
<1>8. ASSUME NEW i \in DOMAIN Bank PROVE Numbered1toN(Bank[i], versions)
  <2>1. Numbers(versions, Bank[i].type, Bank[i].id) = {1}
    BY <1>4, <1>5 DEF Numbers
  <2>2. 1 \in 1 .. Len(versions) /\ 1 .. 1 = {1}
    BY <1>2, <1>5
  <2> QED BY <1>7, <2>1, <2>2 DEF Numbered1toN
<1>9. RowsInv(questions, versions)
  BY <1>1, <1>3, <1>4, <1>5, <1>6, <1>7, <1>8 DEF RowsInv
<1>10. clerk = [c \in Clerks |-> AtRest] /\ AtRest.step = "idle"
  BY DEF BankInit, AtRest
<1> QED BY <1>9, <1>10 DEF BankInv, ClerkInv

\* Questions are entered while requests are under way.
LEMMA EnteringKeeps ==
  ASSUME BankInv, Create \/ Import
  PROVE  BankInv'
<1>1. /\ RowsInv(questions', versions') /\ Grown(questions, versions, questions', versions')
      /\ clerk' = clerk
  <2>1. CASE Create
    BY <2>1, EnteredKeeps DEF Create, BankInv
  <2>2. CASE Import
    <3>1. PICK first \in Drafts : \E second \in Drafts :
            LET one == Entered(questions, first)
                two == Entered(one, second)
            IN /\ questions' = two
               /\ versions' = versions \o <<FirstVersion(Last(one)), FirstVersion(Last(two))>>
      BY <2>2 DEF Import
    <3> DEFINE one == Entered(questions, first)
               between == Append(versions, FirstVersion(Last(one)))
    <3>2. PICK second \in Drafts :
            /\ questions' = Entered(one, second)
            /\ versions' = versions \o <<FirstVersion(Last(one)), FirstVersion(Last(questions'))>>
      BY <3>1
    <3>3. RowsInv(one, between) /\ Grown(questions, versions, one, between)
      BY EnteredKeeps DEF BankInv
    <3>4. versions' = Append(between, FirstVersion(Last(questions')))
      <4>1. PICK S : versions \in Seq(S)
        BY DEF BankInv, RowsInv, IsSeq
      <4> DEFINE a == FirstVersion(Last(one))
                 b == FirstVersion(Last(questions'))
      <4> HIDE DEF a, b
      <4>2. versions \o <<a, b>> = Append(Append(versions, a), b)
        BY <4>1
      <4> QED BY <3>2, <4>2 DEF a, b
    <3> HIDE DEF one, between
    <3>5. RowsInv(questions', versions') /\ Grown(one, between, questions', versions')
      BY <3>2, <3>3, <3>4, EnteredKeeps
    <3>6. Grown(questions, versions, questions', versions')
      BY <3>3, <3>5 DEF Grown
    <3> QED BY <2>2, <3>5, <3>6 DEF Import
  <2> QED BY <2>1, <2>2
<1>2. \A c \in Clerks : ClerkInv(clerk[c], questions', versions')
  BY <1>1, ClerkStays DEF BankInv
<1> QED BY <1>1, <1>2 DEF BankInv

\* A request loads a question.
LEMMA LoadKeeps ==
  ASSUME BankInv, NEW c \in Clerks, LoadForVersion(c) \/ LoadForStatus(c)
  PROVE  BankInv'
<1>1. PICK i \in DOMAIN questions : \E data, step :
        /\ clerk' = [clerk EXCEPT ![c] = [step |-> step, at |-> i,
                                          loaded |-> questions[i], data |-> data]]
        /\ DOMAIN data \subseteq {"difficulty", "marks", "status"}
  <2>1. CASE LoadForVersion(c)
    BY <2>1, BankAssumption DEF LoadForVersion
  <2>2. CASE LoadForStatus(c)
    <3>1. PICK i \in DOMAIN questions : \E status \in Targets :
            clerk' = [clerk EXCEPT ![c] = [step |-> "status", at |-> i,
                                           loaded |-> questions[i],
                                           data |-> [status |-> status]]]
      BY <2>2 DEF LoadForStatus
    <3>2. PICK status :
            clerk' = [clerk EXCEPT ![c] = [step |-> "status", at |-> i,
                                           loaded |-> questions[i],
                                           data |-> [status |-> status]]]
      BY <3>1
    <3> DEFINE data == [status |-> status]
    <3>3. DOMAIN data \subseteq {"difficulty", "marks", "status"}
      OBVIOUS
    <3>4. clerk' = [clerk EXCEPT ![c] = [step |-> "status", at |-> i,
                                         loaded |-> questions[i], data |-> data]]
      BY <3>2
    <3> HIDE DEF data
    <3> QED BY <3>3, <3>4
  <2> QED BY <2>1, <2>2
<1>2. PICK data, step :
        /\ clerk' = [clerk EXCEPT ![c] = [step |-> step, at |-> i,
                                          loaded |-> questions[i], data |-> data]]
        /\ DOMAIN data \subseteq {"difficulty", "marks", "status"}
  BY <1>1
<1>3. questions[i].version_no \in Numbers(versions, questions[i].type, questions[i].id)
  BY DEF BankInv, RowsInv, Numbered1toN
<1> DEFINE r == [step |-> step, at |-> i, loaded |-> questions[i], data |-> data]
<1>4. ClerkInv(r, questions, versions)
  BY <1>2, <1>3 DEF ClerkInv
<1> HIDE DEF r
<1>5. UNCHANGED <<questions, versions>>
  BY DEF LoadForVersion, LoadForStatus
<1>6. /\ clerk' = [b \in Clerks |-> clerk'[b]]
      /\ \A b \in Clerks : clerk'[b] = clerk[b] \/ clerk'[b] = r
  BY <1>2 DEF BankInv, r
<1> QED BY <1>4, <1>5, <1>6 DEF BankInv

\* An edit is stored: it numbers its version after the copy it loaded.
LEMMA StoreVersionKeeps ==
  ASSUME BankInv, NEW c \in Clerks, StoreVersion(c)
  PROVE  BankInv'
<1> DEFINE r == clerk[c]
           k == r.loaded.version_no
           no == k + 1
           type == questions[r.at].type
           id == questions[r.at].id
           row == Written(questions[r.at], r.loaded, Numbered(r.data, no))
           v == [type |-> r.loaded.type, id |-> r.loaded.id, version_no |-> no,
                 is_current |-> TRUE, snapshot |-> r.data]
<1>1. /\ r.step = "version" /\ questions' = [questions EXCEPT ![r.at] = row]
      /\ versions' = Append(versions, v) /\ clerk' = [clerk EXCEPT ![c] = AtRest]
  BY DEF StoreVersion
<1>2. /\ r.at \in DOMAIN questions /\ r.loaded.type = type /\ r.loaded.id = id
      /\ k \in Numbers(versions, type, id)
      /\ DOMAIN r.data \subseteq {"difficulty", "marks", "status"}
  BY <1>1 DEF BankInv, ClerkInv
<1>3. RowsInv(questions, versions) /\ IsSeq(versions)
  BY DEF BankInv, RowsInv
<1>4. {"type", "id", "version_no"} \subseteq DOMAIN questions[r.at]
      /\ Numbered1toN(questions[r.at], versions)
  BY <1>2, <1>3 DEF RowsInv
<1>5. PICK n \in 1 .. Len(versions) : Numbers(versions, type, id) = 1 .. n
  BY <1>4 DEF Numbered1toN
<1>6. k \in 1 .. n /\ no \in Nat /\ no # k
  BY <1>2, <1>5
<1>7. v.type = type /\ v.id = id /\ v.version_no = no
  BY <1>2
<1>8. ChangedTo(questions[r.at], row) /\ row.version_no = no
  <2> DEFINE data == Numbered(r.data, no)
             base == questions[r.at]
             loaded == r.loaded
  <2>1. /\ "type" \notin DOMAIN data /\ "id" \notin DOMAIN data
        /\ "version_no" \in DOMAIN data /\ data.version_no = no
    BY <1>2 DEF Numbered
  <2>2. row = Written(base, loaded, data) /\ data.version_no # loaded.version_no
        /\ {"type", "id", "version_no"} \subseteq DOMAIN base
    BY <1>4, <1>6, <2>1
  <2> HIDE DEF data, base, loaded, row, no
  <2>3. ChangedTo(base, row) /\ row.version_no = data.version_no
    BY <2>1, <2>2, WrittenIs
  <2> QED BY <2>1, <2>3 DEF base
<1> HIDE DEF row, v, no, type, id
<1>9. /\ IsSeq(versions') /\ Len(versions) \in Nat /\ Len(versions') = Len(versions) + 1
      /\ DOMAIN versions' = 1 .. Len(versions) + 1 /\ DOMAIN versions = 1 .. Len(versions)
      /\ versions'[Len(versions) + 1] = v
      /\ \A j \in DOMAIN versions : versions'[j] = versions[j]
  BY <1>1, <1>3, AppendIs
<1>10. Numbers(versions', type, id) = Numbers(versions, type, id) \cup {no}
  <2>1. Numbers(Append(versions, v), type, id) = Numbers(versions, type, id) \cup {no}
    BY <1>3, <1>7, NumbersGrow
  <2> QED BY <1>1, <2>1
<1>11. ASSUME NEW ty, NEW x, ~(ty = type /\ x = id)
       PROVE  Numbers(versions', ty, x) = Numbers(versions, ty, x)
  <2>1. Numbers(Append(versions, v), ty, x) = Numbers(versions, ty, x)
    BY <1>3, <1>7, <1>11, NumbersGrow
  <2> QED BY <1>1, <2>1
<1>13. row.type = type /\ row.id = id
  BY <1>8 DEF ChangedTo, type, id
<1>12. Numbered1toN(row, versions')
  <2>1. CASE k < n
    <3>1. Numbers(versions', type, id) = 1 .. n /\ no \in 1 .. n
      BY <1>5, <1>6, <1>10, <2>1 DEF no
    <3> QED BY <1>8, <1>13, <1>9, <3>1 DEF Numbered1toN
  <2>2. CASE k = n
    <3>1. Numbers(versions', type, id) = 1 .. n + 1 /\ no = n + 1
      BY <1>5, <1>6, <1>10, <2>2 DEF no
    <3>2. n + 1 \in 1 .. Len(versions')
      BY <1>9
    <3> QED BY <1>8, <1>13, <3>1, <3>2 DEF Numbered1toN
  <2> QED BY <1>6, <2>1, <2>2
<1>14. AddedFor(row, versions, versions')
  <2>1. ASSUME NEW j \in DOMAIN versions'
        PROVE  \/ j \in DOMAIN versions /\ versions'[j] = versions[j]
               \/ versions'[j].type = row.type /\ versions'[j].id = row.id
    <3>1. j \in DOMAIN versions \/ versions'[j] = v
      BY <1>9
    <3> QED BY <1>7, <1>9, <1>13, <3>1
  <2>2. Len(versions') \in Nat /\ Len(versions') >= Len(versions)
    BY <1>9
  <2> QED BY <1>9, <1>11, <1>13, <2>1, <2>2 DEF AddedFor
<1>16. RowsInv(questions', versions')
  <2> DEFINE at == r.at
  <2>1. at \in DOMAIN questions /\ ChangedTo(questions[at], row)
        /\ questions' = [questions EXCEPT ![at] = row]
    BY <1>1, <1>2, <1>8
  <2> HIDE DEF at
  <2>2. RowsInv([questions EXCEPT ![at] = row], versions')
    BY <1>3, <1>12, <1>14, <2>1, ChangedKeeps
  <2> QED BY <2>1, <2>2
<1>17. Grown(questions, versions, questions', versions')
  <2>1. \A i \in DOMAIN questions : /\ i \in DOMAIN questions'
                                    /\ questions'[i].type = questions[i].type
                                    /\ questions'[i].id = questions[i].id
    BY <1>1, <1>8 DEF ChangedTo
  <2> QED BY <1>10, <1>11, <2>1 DEF Grown
<1>18. /\ clerk' = [b \in Clerks |-> clerk'[b]]
       /\ \A b \in Clerks : clerk'[b] = clerk[b] \/ clerk'[b] = AtRest
  BY <1>1 DEF BankInv
<1>19. \A b \in Clerks : ClerkInv(clerk'[b], questions', versions')
  <2>1. \A b \in Clerks : ClerkInv(clerk[b], questions', versions')
    BY <1>17, ClerkStays DEF BankInv
  <2>2. ClerkInv(AtRest, questions', versions')
    BY DEF ClerkInv, AtRest
  <2> QED BY <1>18, <2>1, <2>2
<1> QED BY <1>16, <1>18, <1>19 DEF BankInv

\* A status is stored.
LEMMA StoreStatusKeeps ==
  ASSUME BankInv, NEW c \in Clerks, StoreStatus(c)
  PROVE  BankInv'
<1> DEFINE r == clerk[c]
           old == questions[r.at]
           row == Written(old, r.loaded, r.data)
<1>1. /\ r.step = "status" /\ questions' = [questions EXCEPT ![r.at] = row]
      /\ versions' = versions /\ clerk' = [clerk EXCEPT ![c] = AtRest]
  BY DEF StoreStatus
<1>2. /\ r.at \in DOMAIN questions
      /\ DOMAIN r.data \subseteq {"difficulty", "marks", "status"}
  BY <1>1 DEF BankInv, ClerkInv
<1>3. RowsInv(questions, versions) /\ IsSeq(versions)
  BY DEF BankInv, RowsInv
<1>4. {"type", "id", "version_no"} \subseteq DOMAIN old /\ Numbered1toN(old, versions)
  BY <1>2, <1>3 DEF RowsInv
<1>5. ChangedTo(old, row) /\ row.version_no = old.version_no
  <2> DEFINE data == r.data
             loaded == r.loaded
  <2>1. {"type", "id", "version_no"} \cap DOMAIN data = {}
    BY <1>2
  <2>2. row = Written(old, loaded, data)
    OBVIOUS
  <2> HIDE DEF r, old, data, loaded, row
  <2> QED BY <1>4, <2>1, <2>2, WrittenIs
<1> HIDE DEF row
<1>6. Numbered1toN(row, versions)
  BY <1>4, <1>5 DEF Numbered1toN, ChangedTo
<1>7. Len(versions) \in Nat
  BY <1>3, AppendIs
<1>8. RowsInv(questions', versions')
  <2> DEFINE n == r.at
  <2>1. n \in DOMAIN questions /\ ChangedTo(questions[n], row)
        /\ questions' = [questions EXCEPT ![n] = row]
    BY <1>1, <1>2, <1>5
  <2>2. AddedFor(row, versions, versions)
    BY <1>3, <1>7 DEF AddedFor
  <2> HIDE DEF n
  <2>3. RowsInv([questions EXCEPT ![n] = row], versions)
    BY <1>3, <1>6, <2>1, <2>2, ChangedKeeps
  <2> QED BY <1>1, <2>1, <2>3
<1>9. Grown(questions, versions, questions', versions')
  BY <1>1, <1>5 DEF Grown, ChangedTo
<1>10. /\ clerk' = [b \in Clerks |-> clerk'[b]]
       /\ \A b \in Clerks : clerk'[b] = clerk[b] \/ clerk'[b] = AtRest
  BY <1>1 DEF BankInv
<1>11. \A b \in Clerks : ClerkInv(clerk'[b], questions', versions')
  <2>1. \A b \in Clerks : ClerkInv(clerk[b], questions', versions')
    BY <1>9, ClerkStays DEF BankInv
  <2>2. ClerkInv(AtRest, questions', versions')
    BY DEF ClerkInv, AtRest
  <2> QED BY <1>10, <2>1, <2>2
<1> QED BY <1>8, <1>10, <1>11 DEF BankInv

\* Every step keeps the bank's invariant; a crash leaves the requests at rest.
LEMMA StepBank == BankInv /\ [Next]_vars => BankInv'
<1> SUFFICES ASSUME BankInv, [Next]_vars PROVE BankInv'
  OBVIOUS
<1>1. CASE BankStep
  <2>1. CASE Create \/ Import
    BY <2>1, EnteringKeeps
  <2>2. ASSUME NEW c \in Clerks,
               LoadForVersion(c) \/ StoreVersion(c) \/ LoadForStatus(c) \/ StoreStatus(c)
        PROVE  BankInv'
    BY <2>2, LoadKeeps, StoreVersionKeeps, StoreStatusKeeps
  <2> QED BY <1>1, <2>1, <2>2 DEF BankStep, BankNext
<1>2. CASE Crash
  <2>1. clerk' = [c \in Clerks |-> AtRest] /\ UNCHANGED <<questions, versions>>
    BY <1>2 DEF Crash
  <2> QED BY <2>1 DEF BankInv, ClerkInv, AtRest
<1>3. CASE UNCHANGED bankVars
  BY <1>3 DEF bankVars, BankInv
<1>4. UNCHANGED bankVars \/ BankStep \/ Crash
  BY DEF Next, vars, CreateBlueprint, Approve, LoadBlueprint, LoadConfig, Asked,
     StoreBlueprint, LoadForConfig, StoreConfig, StoreConfigStatus, Generate, FillSlot,
     WritePaper
<1> QED BY <1>1, <1>2, <1>3, <1>4

\* The versions of a question run on from 1 without a gap, and its own number is one
\* of theirs, however many stale edits are stored over one another.
THEOREM VersionsOfAQuestionRunOn == Spec => []VersionsRunOn
<1>1. BankInv => VersionsRunOn
  <2> SUFFICES ASSUME BankInv, NEW i \in DOMAIN questions
               PROVE  \E n \in 1 .. Len(versions) :
                        /\ {v.version_no : v \in VersionsOf(questions[i])} = 1 .. n
                        /\ questions[i].version_no \in 1 .. n
    BY DEF VersionsRunOn, Range
  <2>1. {v.version_no : v \in VersionsOf(questions[i])} =
          Numbers(versions, questions[i].type, questions[i].id)
    BY DEF VersionsOf, Range, Numbers
  <2> QED BY <2>1 DEF BankInv, RowsInv, Numbered1toN
<1>2. Init => BankInv
  BY InitBank DEF Init
<1> QED BY <1>1, <1>2, StepBank, PTL DEF Spec

-----------------------------------------------------------------------------
(* Papers.                                                                   *)

\* What every step leaves of blueprints and configurations.
RowsStay ==
  /\ \A n \in DOMAIN blueprints :
       n \in DOMAIN blueprints' /\ blueprints'[n].design = blueprints[n].design
  /\ \A n \in DOMAIN configs :
       /\ n \in DOMAIN configs' /\ configs'[n].blueprint = configs[n].blueprint
       /\ configs'[n].chapters = configs[n].chapters

DesignIn(bs, cs, n) == bs[cs[n].blueprint].design

DesignAt(n) == DesignIn(blueprints, configs, n)

\* A row with another status.
LEMMA OtherStatus ==
  ASSUME NEW S, NEW rows \in Seq(S), NEW n, NEW status,
         \A row \in S : {"status"} \subseteq DOMAIN row
  PROVE  LET rows2 == [rows EXCEPT ![n].status = status]
         IN /\ DOMAIN rows2 = DOMAIN rows
            /\ \A m \in DOMAIN rows : \A c \in DOMAIN rows[m] \ {"status"} :
                 rows2[m][c] = rows[m][c]
<1> DEFINE rows2 == [rows EXCEPT ![n].status = status]
<1>1. DOMAIN rows2 = DOMAIN rows
  OBVIOUS
<1>2. ASSUME NEW m \in DOMAIN rows, NEW c \in DOMAIN rows[m] \ {"status"}
      PROVE  rows2[m][c] = rows[m][c]
  <2>1. CASE m = n
    <3>1. rows2[m] = [rows[m] EXCEPT !.status = status]
      BY <2>1
    <3> HIDE DEF rows2
    <3> QED BY <3>1
  <2>2. CASE m # n
    BY <2>2
  <2> QED BY <2>1, <2>2
<1> QED BY <1>1, <1>2

\* A row of blueprints or configurations keeps what is not its status.
LEMMA StepRows == StatusInv /\ [Next]_vars => RowsStay
<1> SUFFICES ASSUME StatusInv, [Next]_vars PROVE RowsStay
  OBVIOUS
<1>0. /\ blueprints \in Seq(Blueprint) /\ configs \in Seq(Config)
      /\ DOMAIN blueprints = 1 .. Len(blueprints) /\ Len(blueprints) \in Nat
      /\ DOMAIN configs = 1 .. Len(configs) /\ Len(configs) \in Nat
  BY DEF StatusInv
<1>1. CASE CreateBlueprint
  <2>1. PICK row : blueprints' = Append(blueprints, row)
    BY <1>1 DEF CreateBlueprint
  <2>2. UNCHANGED configs
    BY <1>1 DEF CreateBlueprint
  <2>3. IsSeq(blueprints)
    BY <1>0 DEF IsSeq
  <2>4. \A n \in DOMAIN blueprints : n \in DOMAIN blueprints' /\ blueprints'[n] = blueprints[n]
    BY <2>1, <2>3, AppendIs, <1>0
  <2> QED BY <2>2, <2>4 DEF RowsStay
<1>2. ASSUME NEW d \in Desks, StoreConfig(d) PROVE RowsStay
  <2>1. PICK row : configs' = Append(configs, row)
    BY <1>2 DEF StoreConfig
  <2>2. UNCHANGED blueprints
    BY <1>2 DEF StoreConfig
  <2>3. IsSeq(configs)
    BY <1>0 DEF IsSeq
  <2>4. \A n \in DOMAIN configs : n \in DOMAIN configs' /\ configs'[n] = configs[n]
    BY <2>1, <2>3, AppendIs, <1>0
  <2> QED BY <2>2, <2>4 DEF RowsStay
<1>3. ASSUME NEW d \in Desks, StoreBlueprint(d) PROVE RowsStay
  <2>1. /\ blueprints' = [blueprints EXCEPT ![desk[d].at].status = desk[d].status]
        /\ UNCHANGED configs
    BY <1>3 DEF StoreBlueprint
  <2>2. \A row \in Blueprint : {"status", "design"} \subseteq DOMAIN row
    BY DEF Blueprint
  <2>3. \A n \in DOMAIN blueprints :
          n \in DOMAIN blueprints' /\ blueprints'[n].design = blueprints[n].design
    BY <1>0, <2>1, <2>2, OtherStatus
  <2> QED BY <2>1, <2>3 DEF RowsStay
<1>4. ASSUME NEW d \in Desks, StoreConfigStatus(d) PROVE RowsStay
  <2>1. /\ configs' = [configs EXCEPT ![desk[d].at].status = desk[d].status]
        /\ UNCHANGED blueprints
    BY <1>4 DEF StoreConfigStatus
  <2>2. \A row \in Config : {"status", "blueprint", "chapters"} \subseteq DOMAIN row
    BY DEF Config
  <2>3. \A n \in DOMAIN configs :
          /\ n \in DOMAIN configs' /\ configs'[n].blueprint = configs[n].blueprint
          /\ configs'[n].chapters = configs[n].chapters
    BY <1>0, <2>1, <2>2, OtherStatus
  <2> QED BY <2>1, <2>3 DEF RowsStay
<1>5. CASE UNCHANGED <<blueprints, configs>>
  BY <1>5 DEF RowsStay
<1>6. \/ CreateBlueprint \/ UNCHANGED <<blueprints, configs>>
      \/ \E d \in Desks : StoreConfig(d) \/ StoreBlueprint(d) \/ StoreConfigStatus(d)
  BY DEF Next, vars, paperVars, BankStep, Approve, Crash, LoadBlueprint, LoadConfig, Asked,
     LoadForConfig, Generate, FillSlot, WritePaper
<1> QED BY <1>1, <1>2, <1>3, <1>4, <1>5, <1>6

\* What a request has chosen: sections from the first on, each with questions of its
\* type, and not too many.
ShapeOf(chosen, sections) ==
  /\ IsSeq(chosen) /\ Len(chosen) \in 1 .. Len(sections)
  /\ \A t \in DOMAIN chosen :
       /\ IsSeq(chosen[t]) /\ Len(chosen[t]) <= sections[t].count
       /\ \A k \in DOMAIN chosen[t] : chosen[t][k].type = sections[t].type

\* At slot n of the present section, none of the later slots is filled.
SlotOf(chosen, sections, n) ==
  LET s == Len(chosen) IN n \in 1 .. sections[s].count /\ Len(chosen[s]) < n

\* A request that generates.
Assembling(r, design) ==
  /\ ShapeOf(r.chosen, design.sections)
  /\ r.step = "slot" => SlotOf(r.chosen, design.sections, r.slot)
  /\ r.step = "write" => Len(r.chosen) = Len(design.sections)

\* What makes a paper one that a student can sit.
Complete(paper, design, chapters) ==
  paper.status # "NEEDS_ATTENTION" =>
    LET sections == design.sections
        chosen   == paper.chosen
    IN /\ paper.total = design.total
       /\ Len(chosen) = Len(sections)
       /\ \A s \in DOMAIN sections :
            /\ Len(chosen[s]) = sections[s].count
            /\ \A k \in DOMAIN chosen[s] : chosen[s][k].type = sections[s].type
            /\ (\A t \in DOMAIN sections : sections[t].label = sections[s].label => t <= s)
                 => MarksOf(chosen[s]) = sections[s].marks
       /\ \A a, b \in Places(chosen) : Named(At(chosen, a)) = Named(At(chosen, b)) => a = b
       /\ \A c \in chapters : \E a \in Places(chosen) : At(chosen, a).chapter = c

PapersInv ==
  /\ \A d \in Desks : desk[d].step \in {"slot", "write"} =>
       /\ desk[d].at \in DOMAIN configs
       /\ Assembling(desk[d], DesignAt(desk[d].at))
  /\ IsSeq(papers)
  /\ \A p \in DOMAIN papers :
       /\ papers[p].config \in DOMAIN configs
       /\ Complete(papers[p], DesignAt(papers[p].config), configs[papers[p].config].chapters)

\* The blueprint of a configuration is one that could be created, so its sections
\* are what the schemas ask for.
LEMMA DesignIs ==
  ASSUME StatusInv, NEW n \in DOMAIN configs
  PROVE  /\ configs[n].blueprint \in DOMAIN blueprints
         /\ DesignAt(n) \in Designs
         /\ IsSeq(DesignAt(n).sections) /\ Len(DesignAt(n).sections) \in Nat \ {0}
         /\ DOMAIN DesignAt(n).sections = 1 .. Len(DesignAt(n).sections)
         /\ \A s \in DOMAIN DesignAt(n).sections :
              DesignAt(n).sections[s].count \in Nat \ {0}
<1>1. configs[n].blueprint \in DOMAIN blueprints
  BY DEF StatusInv, Activated
<1>2. DesignAt(n) \in Designs
  <2>1. blueprints \in Seq(Blueprint)
    BY DEF StatusInv
  <2>2. blueprints[configs[n].blueprint] \in Blueprint
    BY <1>1, <2>1, RowsAre
  <2> QED BY <2>2 DEF DesignAt, DesignIn, Blueprint
<1> DEFINE sections == DesignAt(n).sections
<1>3. /\ sections \in Seq(Range(sections)) \ {<<>>}
      /\ \A s \in Range(sections) : s.count \in Nat \ {0}
  BY <1>2, PaperAssumption
<1> HIDE DEF sections
<1>4. /\ IsSeq(sections) /\ Len(sections) \in Nat \ {0}
      /\ DOMAIN sections = 1 .. Len(sections)
  BY <1>3 DEF IsSeq
<1>5. \A s \in DOMAIN sections : sections[s].count \in Nat \ {0}
  BY <1>3 DEF Range
<1> QED BY <1>1, <1>2, <1>4, <1>5 DEF sections

\* The invariant's parts that a step does not touch.
LEMMA DesignStays ==
  ASSUME StatusInv, RowsStay, NEW n \in DOMAIN configs
  PROVE  /\ n \in DOMAIN configs' /\ DesignIn(blueprints', configs', n) = DesignAt(n)
         /\ configs'[n].chapters = configs[n].chapters
BY DesignIs DEF RowsStay, DesignAt, DesignIn

\* A sequence with an element replaced.
LEMMA ReplaceIs ==
  ASSUME NEW s, IsSeq(s), NEW i \in DOMAIN s, NEW x
  PROVE  LET t == [s EXCEPT ![i] = x]
         IN /\ IsSeq(t) /\ Len(t) = Len(s) /\ DOMAIN t = DOMAIN s /\ t[i] = x
            /\ \A j \in DOMAIN s \ {i} : t[j] = s[j]
<1>1. PICK S : s \in Seq(S)
  BY DEF IsSeq
<1> DEFINE T == S \cup {x}
<1>2. s \in Seq(T) /\ x \in T
  BY <1>1
<1> HIDE DEF T
<1>3. [s EXCEPT ![i] = x] \in Seq(T)
  BY <1>2
<1> QED BY <1>2, <1>3 DEF IsSeq

\* The questions chosen after a pick for slot n.
LEMMA PickKeepsShape ==
  ASSUME NEW sections, NEW chosen, ShapeOf(chosen, sections), NEW n,
         Len(sections) \in Nat, DOMAIN sections = 1 .. Len(sections),
         \A s \in DOMAIN sections : sections[s].count \in Nat \ {0},
         SlotOf(chosen, sections, n),
         NEW q, q.type = sections[Len(chosen)].type
  PROVE  LET picked == [chosen EXCEPT ![Len(chosen)] = Append(@, q)]
         IN /\ ShapeOf(picked, sections) /\ Len(picked) = Len(chosen)
            /\ Len(picked[Len(chosen)]) = Len(chosen[Len(chosen)]) + 1
            /\ Len(picked[Len(chosen)]) <= n
<1> DEFINE s == Len(chosen)
           more == Append(chosen[s], q)
           picked == [chosen EXCEPT ![s] = Append(@, q)]
<1>1. IsSeq(chosen) /\ s \in 1 .. Len(sections) /\ s \in Nat /\ DOMAIN chosen = 1 .. s
  BY AppendIs DEF ShapeOf
<1>2. IsSeq(chosen[s]) /\ \A k \in DOMAIN chosen[s] : chosen[s][k].type = sections[s].type
  BY <1>1 DEF ShapeOf
<1>3. n \in 1 .. sections[s].count /\ Len(chosen[s]) < n /\ sections[s].count \in Nat
  BY <1>1 DEF SlotOf
<1>4. /\ IsSeq(more) /\ Len(more) = Len(chosen[s]) + 1 /\ Len(chosen[s]) \in Nat
      /\ \A k \in DOMAIN more : more[k].type = sections[s].type
  <2>1. /\ IsSeq(more) /\ Len(chosen[s]) \in Nat /\ DOMAIN chosen[s] = 1 .. Len(chosen[s])
        /\ Len(more) = Len(chosen[s]) + 1 /\ DOMAIN more = 1 .. Len(chosen[s]) + 1
        /\ more[Len(chosen[s]) + 1] = q
        /\ \A k \in DOMAIN chosen[s] : more[k] = chosen[s][k]
    BY <1>2, AppendIs
  <2>2. ASSUME NEW k \in DOMAIN more PROVE more[k].type = sections[s].type
    <3>1. k \in DOMAIN chosen[s] \/ k = Len(chosen[s]) + 1
      BY <2>1
    <3> QED BY <1>2, <2>1, <3>1
  <2> QED BY <2>1, <2>2
<1>5. picked = [chosen EXCEPT ![s] = more]
  OBVIOUS
<1> HIDE DEF more, picked
<1>6. /\ IsSeq(picked) /\ Len(picked) = s /\ DOMAIN picked = DOMAIN chosen
      /\ picked[s] = more /\ \A t \in DOMAIN chosen \ {s} : picked[t] = chosen[t]
  <2>1. s \in DOMAIN chosen
    BY <1>1
  <2> HIDE DEF s
  <2> QED BY <1>1, <1>5, <2>1, ReplaceIs DEF s
<1>7. Len(more) <= n /\ Len(more) <= sections[s].count
  BY <1>3, <1>4
<1>8. ShapeOf(picked, sections)
  <2>1. ASSUME NEW t \in DOMAIN picked
        PROVE  /\ IsSeq(picked[t]) /\ Len(picked[t]) <= sections[t].count
               /\ \A k \in DOMAIN picked[t] : picked[t][k].type = sections[t].type
    <3>1. CASE t = s
      BY <1>4, <1>6, <1>7, <3>1
    <3>2. CASE t # s
      BY <1>6, <2>1, <3>2 DEF ShapeOf
    <3> QED BY <3>1, <3>2
  <2> QED BY <1>1, <1>6, <2>1 DEF ShapeOf, s
<1> QED BY <1>4, <1>6, <1>7, <1>8 DEF picked, s

\* After slot n the request is at the next one, at the next section, or done.
LEMMA AfterSlotShape ==
  ASSUME NEW d \in Desks, NEW design, NEW chosen, DOMAIN desk[d] = DOMAIN Free,
         desk[d].step = "slot", design = Design(d),
         ShapeOf(chosen, design.sections), DOMAIN design.sections = 1 .. Len(design.sections),
         Len(design.sections) \in Nat,
         \A s \in DOMAIN design.sections : design.sections[s].count \in Nat \ {0},
         desk[d].slot \in 1 .. design.sections[Len(chosen)].count,
         Len(chosen[Len(chosen)]) <= desk[d].slot
  PROVE  /\ Assembling(AfterSlot(d, chosen), design)
         /\ AfterSlot(d, chosen).step \in {"slot", "write"}
         /\ AfterSlot(d, chosen).at = desk[d].at
         /\ AfterSlot(d, chosen).steady = desk[d].steady
<1> DEFINE s        == Len(chosen)
           sections == design.sections
           r        == AfterSlot(d, chosen)
           over     == desk[d].slot = sections[s].count
           end      == s = Len(sections)
<1>1. /\ IsSeq(chosen) /\ s \in 1 .. Len(sections) /\ DOMAIN chosen = 1 .. s /\ s \in Nat
      /\ IsSeq(chosen[s]) /\ sections[s].count \in Nat
  BY AppendIs DEF ShapeOf
<1>2. Len(chosen[s]) \in Nat
  BY <1>1, AppendIs
<1>3. /\ r.at = desk[d].at /\ r.steady = desk[d].steady
      /\ r.chosen = IF over /\ ~end THEN Append(chosen, <<>>) ELSE chosen
      /\ r.slot = IF over THEN 1 ELSE desk[d].slot + 1
      /\ r.step = IF over /\ end THEN "write" ELSE "slot"
  <2> DEFINE r0     == desk[d]
             now    == IF over /\ ~end THEN Append(chosen, <<>>) ELSE chosen
             step   == IF over /\ end THEN "write" ELSE r0.step
  <2>1. r = [r0 EXCEPT !.chosen = now, !.slot = IF over THEN 1 ELSE @ + 1, !.step = step]
    BY Zenon DEF AfterSlot
  <2>2. DOMAIN r0 = DOMAIN Free /\ r0.step = "slot" /\ r0 = desk[d]
    OBVIOUS
  <2> HIDE DEF r0, now, over, r
  <2> QED BY <2>1, <2>2 DEF Free, now
<1> HIDE DEF r
<1>4. CASE ~over
  <2>1. SlotOf(chosen, sections, desk[d].slot + 1)
    BY <1>1, <1>2, <1>4 DEF SlotOf
  <2> QED BY <1>3, <1>4, <2>1 DEF Assembling, r
<1>5. CASE over /\ end
  BY <1>3, <1>5 DEF Assembling, r
<1>6. CASE over /\ ~end
  <2> DEFINE more == Append(chosen, <<>>)
  <2>1. /\ IsSeq(more) /\ Len(more) = s + 1 /\ DOMAIN more = 1 .. s + 1
        /\ more[s + 1] = <<>> /\ \A t \in DOMAIN chosen : more[t] = chosen[t]
    BY <1>1, AppendIs
  <2> HIDE DEF more
  <2>2. s + 1 \in 1 .. Len(sections) /\ sections[s + 1].count \in Nat \ {0}
    BY <1>1, <1>6
  <2>3. IsSeq(<< >>) /\ Len(<< >>) = 0 /\ DOMAIN << >> = {}
    BY DEF IsSeq
  <2>4. ShapeOf(more, sections)
    <3>1. ASSUME NEW t \in DOMAIN more
          PROVE  /\ IsSeq(more[t]) /\ Len(more[t]) <= sections[t].count
                 /\ \A k \in DOMAIN more[t] : more[t][k].type = sections[t].type
      <4>1. CASE t \in DOMAIN chosen
        BY <2>1, <4>1 DEF ShapeOf
      <4>2. CASE t = s + 1
        BY <2>1, <2>2, <2>3, <4>2
      <4> QED BY <1>1, <2>1, <4>1, <4>2
    <3> QED BY <2>1, <2>2, <3>1 DEF ShapeOf
  <2>5. SlotOf(more, sections, 1)
    BY <2>1, <2>2, <2>3 DEF SlotOf
  <2> QED BY <1>3, <1>6, <2>4, <2>5 DEF Assembling, r, more
<1> QED BY <1>4, <1>5, <1>6

\* The image of a finite set.
LEMMA ImageIs ==
  ASSUME NEW f, NEW S, f = [x \in S |-> f[x]], IsFiniteSet(S)
  PROVE  LET T == {f[x] : x \in S}
         IN /\ f \in Surjection(S, T) /\ IsFiniteSet(T)
            /\ Cardinality(S) \in Nat /\ Cardinality(T) \in Nat
            /\ Cardinality(T) <= Cardinality(S)
<1> DEFINE T == {f[x] : x \in S}
<1>1. f \in Surjection(S, T)
  BY DEF Surjection
<1> HIDE DEF T
<1>2. IsFiniteSet(T) /\ Cardinality(T) <= Cardinality(S)
  BY <1>1, FS_Surjection
<1>3. Cardinality(S) \in Nat /\ Cardinality(T) \in Nat
  BY <1>2, FS_CardinalityType
<1> QED BY <1>1, <1>2, <1>3 DEF T

\* The union of finitely many finite sets.
LEMMA UnionIs ==
  ASSUME NEW f, NEW S, f = [x \in S |-> f[x]], IsFiniteSet(S),
         \A x \in S : IsFiniteSet(f[x])
  PROVE  IsFiniteSet(UNION {f[x] : x \in S})
<1> DEFINE T == {f[x] : x \in S}
<1>1. IsFiniteSet(T) /\ \A X \in T : IsFiniteSet(X)
  BY ImageIs
<1> HIDE DEF T
<1>2. IsFiniteSet(UNION T)
  BY <1>1, FS_UNION
<1> QED BY <1>2 DEF T

\* A paper has finitely many places.
LEMMA PlacesAre ==
  ASSUME NEW chosen, IsSeq(chosen), \A s \in DOMAIN chosen : IsSeq(chosen[s])
  PROVE  IsFiniteSet(Places(chosen)) /\ Cardinality(Places(chosen)) \in Nat
<1> DEFINE f == [s \in DOMAIN chosen |-> {s} \X DOMAIN chosen[s]]
<1>1. IsFiniteSet(DOMAIN chosen)
  BY AppendIs, FS_Interval
<1>2. ASSUME NEW s \in DOMAIN chosen PROVE IsFiniteSet({s} \X DOMAIN chosen[s])
  <2>1. IsFiniteSet(DOMAIN chosen[s])
    BY AppendIs, FS_Interval
  <2>2. IsFiniteSet({s})
    BY FS_Singleton
  <2> QED BY <2>1, <2>2, FS_Product
<1>3. /\ f = [s \in DOMAIN chosen |-> f[s]]
      /\ \A s \in DOMAIN chosen : IsFiniteSet(f[s])
  BY <1>2
<1>4. Places(chosen) = UNION {f[s] : s \in DOMAIN chosen}
  BY DEF Places
<1> HIDE DEF f
<1>5. IsFiniteSet(Places(chosen))
  BY <1>1, <1>3, <1>4, UnionIs
<1> QED BY <1>5, FS_CardinalityType

\* As many names as places: no two places have one name.
LEMMA NamedOnce ==
  ASSUME NEW chosen, IsSeq(chosen), \A s \in DOMAIN chosen : IsSeq(chosen[s]),
         NoDuplicateQuestions(chosen),
         NEW a \in Places(chosen), NEW b \in Places(chosen),
         Named(At(chosen, a)) = Named(At(chosen, b))
  PROVE  a = b
<1> DEFINE P == Places(chosen)
           f == [place \in P |-> Named(At(chosen, place))]
           T == {f[place] : place \in P}
<1>1. IsFiniteSet(P)
  BY PlacesAre
<1>2. f = [place \in P |-> f[place]] /\ f[a] = f[b]
  OBVIOUS
<1>3. Names(chosen) = T
  BY DEF Names
<1>4. Cardinality(P) = Cardinality(T)
  BY <1>3 DEF NoDuplicateQuestions
<1>5. a \in P /\ b \in P
  OBVIOUS
<1> HIDE DEF P, f
<1>6. f \in Surjection(P, T)
  BY <1>1, <1>2, ImageIs
<1> HIDE DEF T
<1>7. f \in Injection(P, T)
  BY <1>1, <1>4, <1>6, FS_SurjSameCardinalityImpliesInj
<1> QED BY <1>2, <1>5, <1>7 DEF Injection, IsInjective

\* The last section of a label has its own marks to match.
LEMMA RuleOfLast ==
  ASSUME NEW design, IsSeq(design.sections), NEW s \in DOMAIN design.sections,
         \A t \in DOMAIN design.sections :
           design.sections[t].label = design.sections[s].label => t <= s
  PROVE  Rule(design, s) = design.sections[s]
<1> DEFINE same == {t \in DOMAIN design.sections :
                      design.sections[t].label = design.sections[s].label}
<1>1. DOMAIN design.sections \subseteq Nat
  BY AppendIs
<1>2. s \in same /\ same \subseteq Nat /\ \A u \in same : u <= s
  BY <1>1
<1>3. Rule(design, s) = design.sections[CHOOSE t \in same : \A u \in same : u <= t]
  BY DEF Rule
<1> HIDE DEF same
<1>4. \A t \in same : (\A u \in same : u <= t) => t = s
  BY <1>2
<1>5. (CHOOSE t \in same : \A u \in same : u <= t) = s
  BY <1>2, <1>4
<1> QED BY <1>3, <1>5

\* A paper of which all rules hold is complete.
LEMMA PassedIsComplete ==
  ASSUME NEW design, NEW chosen, NEW chapters, NEW paper,
         IsSeq(design.sections), ShapeOf(chosen, design.sections),
         \A s \in DOMAIN design.sections : design.sections[s].count \in Nat \ {0},
         Len(chosen) = Len(design.sections), paper.chosen = chosen,
         paper.total = RecordedTotal(design, chosen),
         AllPassed(RuleResults(design, chosen, chapters))
  PROVE  Complete(paper, design, chapters)
<1> DEFINE sections == design.sections
<1>1. /\ TotalMarksMatch(design, chosen) /\ SectionMarksMatch(design, chosen)
      /\ NoDuplicateQuestions(chosen) /\ ChapterCoverage(chosen, chapters)
      /\ QuestionAvailability(design, chosen)
  <2> DEFINE results == RuleResults(design, chosen, chapters)
  <2>1. /\ {"TOTAL_MARKS_MATCH", "SECTION_MARKS_MATCH", "NO_DUPLICATE_QUESTIONS",
            "CHAPTER_COVERAGE", "QUESTION_AVAILABILITY"} \subseteq DOMAIN results
        /\ results.TOTAL_MARKS_MATCH = TotalMarksMatch(design, chosen)
        /\ results.SECTION_MARKS_MATCH = SectionMarksMatch(design, chosen)
        /\ results.NO_DUPLICATE_QUESTIONS = NoDuplicateQuestions(chosen)
        /\ results.CHAPTER_COVERAGE = ChapterCoverage(chosen, chapters)
        /\ results.QUESTION_AVAILABILITY = QuestionAvailability(design, chosen)
    BY DEF RuleResults
  <2>2. \A code \in DOMAIN results : results[code]
    BY DEF AllPassed
  <2> HIDE DEF results
  <2> QED BY <2>1, <2>2
<1>2. paper.total = design.total
  BY <1>1 DEF TotalMarksMatch
<1>3. DOMAIN chosen = DOMAIN sections /\ DOMAIN sections = 1 .. Len(sections)
  BY AppendIs DEF ShapeOf
<1>4. ASSUME NEW s \in DOMAIN sections
      PROVE  /\ Len(chosen[s]) = sections[s].count
             /\ \A k \in DOMAIN chosen[s] : chosen[s][k].type = sections[s].type
             /\ (\A t \in DOMAIN sections : sections[t].label = sections[s].label => t <= s)
                  => MarksOf(chosen[s]) = sections[s].marks
  <2>1. /\ IsSeq(chosen[s]) /\ Len(chosen[s]) <= sections[s].count
        /\ \A k \in DOMAIN chosen[s] : chosen[s][k].type = sections[s].type
    BY <1>3 DEF ShapeOf
  <2>2. Len(chosen[s]) \in Nat /\ sections[s].count \in Nat
    BY <2>1, AppendIs
  <2>3. Len(chosen[s]) >= sections[s].count
    BY <1>1, <1>3 DEF QuestionAvailability
  <2>4. ASSUME \A t \in DOMAIN sections : sections[t].label = sections[s].label => t <= s
        PROVE  MarksOf(chosen[s]) = sections[s].marks
    <3>1. Rule(design, s) = sections[s]
      BY <2>4, RuleOfLast
    <3>2. MarksOf(chosen[s]) = Rule(design, s).marks
      BY <1>1, <1>3 DEF SectionMarksMatch
    <3> QED BY <3>1, <3>2
  <2> QED BY <2>1, <2>2, <2>3, <2>4
<1>5. \A a, b \in Places(chosen) : Named(At(chosen, a)) = Named(At(chosen, b)) => a = b
  <2>1. IsSeq(chosen) /\ \A s \in DOMAIN chosen : IsSeq(chosen[s])
    BY DEF ShapeOf
  <2> QED BY <1>1, <2>1, NamedOnce
<1>6. \A c \in chapters : \E a \in Places(chosen) : At(chosen, a).chapter = c
  BY <1>1 DEF ChapterCoverage
<1> QED BY <1>2, <1>4, <1>5, <1>6 DEF Complete

Generating(r) == r.step \in {"slot", "write"}

\* What a request that generates is at is the same in a later copy.
SameWork(new, old) ==
  new.step = old.step /\ new.at = old.at /\ new.chosen = old.chosen /\ new.slot = old.slot

\* A request that generates goes on as it is, or in accordance with its blueprint.
DesksGoOn ==
  \A e \in Desks : Generating(desk'[e]) =>
    \/ SameWork(desk'[e], desk[e])
    \/ desk'[e].at \in DOMAIN configs /\ Assembling(desk'[e], DesignAt(desk'[e].at))

\* A paper is as it was, or one that has not passed, or complete.
PapersGoOn ==
  /\ IsSeq(papers')
  /\ \A p \in DOMAIN papers' :
       \/ /\ p \in DOMAIN papers
          /\ papers'[p] = papers[p]
       \/ /\ papers'[p].config \in DOMAIN configs
          /\ Complete(papers'[p], DesignAt(papers'[p].config),
                      configs[papers'[p].config].chapters)

\* What both say of a step is enough.
LEMMA PapersStep ==
  ASSUME StatusInv, PapersInv, RowsStay, DesksGoOn, PapersGoOn
  PROVE  PapersInv'
<1>1. ASSUME NEW e \in Desks, desk'[e].step \in {"slot", "write"}
      PROVE  /\ desk'[e].at \in DOMAIN configs'
             /\ Assembling(desk'[e], DesignIn(blueprints', configs', desk'[e].at))
  <2>1. desk'[e].at \in DOMAIN configs /\ Assembling(desk'[e], DesignAt(desk'[e].at))
    <3>1. CASE SameWork(desk'[e], desk[e])
      <4>1. desk[e].at \in DOMAIN configs /\ Assembling(desk[e], DesignAt(desk[e].at))
        BY <1>1, <3>1 DEF SameWork, PapersInv
      <4> QED BY <3>1, <4>1 DEF SameWork, Assembling
    <3> QED BY <1>1, <3>1 DEF DesksGoOn, Generating
  <2> QED BY <2>1, DesignStays
<1>2. ASSUME NEW p \in DOMAIN papers'
      PROVE  /\ papers'[p].config \in DOMAIN configs'
             /\ Complete(papers'[p], DesignIn(blueprints', configs', papers'[p].config),
                         configs'[papers'[p].config].chapters)
  <2>1. /\ papers'[p].config \in DOMAIN configs
        /\ Complete(papers'[p], DesignAt(papers'[p].config),
                    configs[papers'[p].config].chapters)
    BY <1>2 DEF PapersGoOn, PapersInv
  <2>2. /\ papers'[p].config \in DOMAIN configs'
        /\ DesignIn(blueprints', configs', papers'[p].config) = DesignAt(papers'[p].config)
        /\ configs'[papers'[p].config].chapters = configs[papers'[p].config].chapters
    BY <2>1, DesignStays
  <2> QED BY <2>1, <2>2
<1>3. \A e \in Desks : desk'[e].step \in {"slot", "write"} =>
        /\ desk'[e].at \in DOMAIN configs'
        /\ Assembling(desk'[e], DesignIn(blueprints', configs', desk'[e].at))
  BY <1>1
<1>4. IsSeq(papers')
  BY DEF PapersGoOn
<1> QED BY <1>2, <1>3, <1>4 DEF PapersInv, DesignAt, DesignIn

\* Papers that a step leaves alone.
LEMMA PapersStay == PapersInv /\ UNCHANGED papers => PapersGoOn
BY DEF PapersInv, PapersGoOn

\* A step that changes one request.
LEMMA OneDesk ==
  ASSUME StatusInv, NEW d \in Desks, NEW r, desk' = [desk EXCEPT ![d] = r],
         Generating(r) => r.at \in DOMAIN configs /\ Assembling(r, DesignAt(r.at))
  PROVE  DesksGoOn
<1>1. desk'[d] = r /\ \A e \in Desks \ {d} : desk'[e] = desk[e]
  BY DEF StatusInv
<1> QED BY <1>1 DEF DesksGoOn, SameWork

\* Generation begins, or goes on with the next student, at the first slot.
LEMMA FirstSlot ==
  ASSUME StatusInv, NEW n \in DOMAIN configs, NEW r,
         r.step = "slot", r.chosen = << <<>> >>, r.slot = 1
  PROVE  Assembling(r, DesignAt(n))
<1> DEFINE sections == DesignAt(n).sections
           chosen == << <<>> >>
<1>1. /\ Len(sections) \in Nat \ {0} /\ DOMAIN sections = 1 .. Len(sections)
      /\ \A s \in DOMAIN sections : sections[s].count \in Nat \ {0}
  BY DesignIs
<1>2. /\ IsSeq(chosen) /\ Len(chosen) = 1 /\ DOMAIN chosen = {1}
      /\ IsSeq(chosen[1]) /\ Len(chosen[1]) = 0 /\ DOMAIN chosen[1] = {}
  <2>1. IsSeq(<< >>) /\ Len(<< >>) = 0 /\ DOMAIN << >> = {}
    BY DEF IsSeq
  <2>2. chosen \in Seq({<< >>}) /\ Len(chosen) = 1 /\ DOMAIN chosen = {1} /\ chosen[1] = << >>
    OBVIOUS
  <2>3. IsSeq(chosen)
    BY <2>2 DEF IsSeq
  <2> QED BY <2>1, <2>2, <2>3
<1> HIDE DEF sections, chosen
<1>3. 1 \in DOMAIN sections /\ sections[1].count \in Nat \ {0}
  BY <1>1
<1>4. ShapeOf(chosen, sections)
  <2>1. ASSUME NEW t \in DOMAIN chosen
        PROVE  /\ IsSeq(chosen[t]) /\ Len(chosen[t]) <= sections[t].count
               /\ \A k \in DOMAIN chosen[t] : chosen[t][k].type = sections[t].type
    BY <1>2, <1>3
  <2> QED BY <1>1, <1>2, <2>1 DEF ShapeOf
<1>5. SlotOf(chosen, sections, 1)
  BY <1>2, <1>3 DEF SlotOf
<1> QED BY <1>4, <1>5 DEF Assembling, sections, chosen

\* generate_paper and generate_bulk begin; a bulk request goes on when a paper is
\* written, or ends.
LEMMA FirstRequest ==
  ASSUME StatusInv, PapersInv, NEW d \in Desks, Generate(d) \/ WritePaper(d)
  PROVE  \E r : /\ desk' = [desk EXCEPT ![d] = r]
                /\ \/ r.step \notin {"slot", "write"}
                   \/ /\ r.step = "slot" /\ r.chosen = << <<>> >> /\ r.slot = 1
                      /\ r.at \in DOMAIN configs
<1>1. CASE Generate(d)
  <2>1. PICK n \in DOMAIN configs, weak \in WeakTopics,
             todo \in {<<Shared>>} \cup {SetToSeq(ss) : ss \in SUBSET Students \ {{}}} :
          desk' = [desk EXCEPT ![d] = [Free EXCEPT !.step = "slot", !.at = n, !.weak = weak,
                                                   !.todo = todo, !.chosen = << <<>> >>]]
    BY <1>1 DEF Generate
  <2> DEFINE r == [Free EXCEPT !.step = "slot", !.at = n, !.weak = weak,
                               !.todo = todo, !.chosen = << <<>> >>]
  <2>2. r.step = "slot" /\ r.at = n /\ r.chosen = << <<>> >> /\ r.slot = 1
    BY DEF Free
  <2>3. desk' = [desk EXCEPT ![d] = r]
    BY <2>1
  <2> HIDE DEF r
  <2> QED BY <2>2, <2>3
<1>2. CASE WritePaper(d)
  <2> DEFINE n == desk[d].at
             r == IF Len(desk[d].todo) = 1 THEN Free
                  ELSE [Free EXCEPT !.step = "slot", !.at = n, !.chosen = << <<>> >>,
                                    !.todo = Tail(desk[d].todo)]
  <2>1. desk' = [desk EXCEPT ![d] = r]
    BY <1>2 DEF WritePaper
  <2>2. n \in DOMAIN configs
    BY <1>2 DEF WritePaper, PapersInv
  <2>3. \/ r = Free
        \/ r.step = "slot" /\ r.at = n /\ r.chosen = << <<>> >> /\ r.slot = 1
    BY DEF Free
  <2> HIDE DEF r
  <2> QED BY <2>1, <2>2, <2>3, FreeIs
<1> QED BY <1>1, <1>2

\* Such a request is at its first slot.
LEMMA FirstGoesOn ==
  ASSUME StatusInv, PapersInv, NEW d \in Desks, Generate(d) \/ WritePaper(d)
  PROVE  DesksGoOn
<1>1. PICK r : /\ desk' = [desk EXCEPT ![d] = r]
               /\ \/ r.step \notin {"slot", "write"}
                  \/ /\ r.step = "slot" /\ r.chosen = << <<>> >> /\ r.slot = 1
                     /\ r.at \in DOMAIN configs
  BY FirstRequest
<1>2. Generating(r) => r.at \in DOMAIN configs /\ Assembling(r, DesignAt(r.at))
  BY <1>1, FirstSlot DEF Generating
<1> QED BY <1>1, <1>2, OneDesk

\* The next question, or none.
LEMMA FillSlotGoesOn ==
  ASSUME StatusInv, PapersInv, NEW d \in Desks, FillSlot(d)
  PROVE  DesksGoOn
<1> DEFINE design   == Design(d)
           chosen   == desk[d].chosen
           s        == Len(chosen)
           section  == design.sections[s]
<1>1. /\ desk[d].step = "slot" /\ desk[d].at \in DOMAIN configs
      /\ design = DesignAt(desk[d].at) /\ DOMAIN desk[d] = DOMAIN Free
      /\ Assembling(desk[d], design)
  <2>1. desk[d].step = "slot"
    BY DEF FillSlot
  <2>2. desk[d].at \in DOMAIN configs /\ Assembling(desk[d], DesignAt(desk[d].at))
    BY <2>1 DEF PapersInv
  <2> QED BY <2>1, <2>2 DEF Design, DesignAt, DesignIn, StatusInv, DeskInv
<1>2. /\ IsSeq(design.sections) /\ Len(design.sections) \in Nat \ {0}
      /\ DOMAIN design.sections = 1 .. Len(design.sections)
      /\ \A t \in DOMAIN design.sections : design.sections[t].count \in Nat \ {0}
  BY <1>1, DesignIs
<1>3. ShapeOf(chosen, design.sections) /\ SlotOf(chosen, design.sections, desk[d].slot)
  BY <1>1 DEF Assembling
<1>4. /\ desk[d].slot \in 1 .. section.count /\ section.count \in Nat
      /\ Len(chosen[s]) <= desk[d].slot
  <2>1. s \in 1 .. Len(design.sections) /\ s \in Nat /\ IsSeq(chosen[s])
    BY <1>3, AppendIs DEF ShapeOf
  <2>2. section.count \in Nat /\ Len(chosen[s]) \in Nat
    BY <1>2, <2>1, AppendIs
  <2>3. desk[d].slot \in 1 .. section.count /\ Len(chosen[s]) < desk[d].slot
    BY <1>3 DEF SlotOf
  <2> HIDE DEF section
  <2> QED BY <2>2, <2>3
<1>5. ASSUME NEW now, desk' = [desk EXCEPT ![d] = AfterSlot(d, now)],
             ShapeOf(now, design.sections), Len(now) = s, Len(now[s]) <= desk[d].slot
      PROVE  DesksGoOn
  <2> DEFINE r == AfterSlot(d, now)
  <2>1. Assembling(r, design) /\ r.at = desk[d].at
    <3> HIDE DEF design, r
    <3> QED BY <1>1, <1>2, <1>4, <1>5, AfterSlotShape DEF r, design
  <2> HIDE DEF r
  <2> QED BY <1>1, <1>5, <2>1, OneDesk DEF r
<1>6. \/ desk' = [desk EXCEPT ![d] = AfterSlot(d, chosen)]
      \/ \E q : /\ q.type = section.type
                /\ desk' = [desk EXCEPT ![d] =
                      AfterSlot(d, [chosen EXCEPT ![s] = Append(@, q)])]
  BY DEF FillSlot, Best, Candidates
<1>7. CASE desk' = [desk EXCEPT ![d] = AfterSlot(d, chosen)]
  <2> HIDE DEF design, chosen, section
  <2> QED BY <1>3, <1>4, <1>5, <1>7
<1>8. CASE \E q : /\ q.type = section.type
                  /\ desk' = [desk EXCEPT ![d] =
                        AfterSlot(d, [chosen EXCEPT ![s] = Append(@, q)])]
  <2>1. PICK q : /\ q.type = section.type
                 /\ desk' = [desk EXCEPT ![d] =
                       AfterSlot(d, [chosen EXCEPT ![s] = Append(@, q)])]
    BY <1>8
  <2> DEFINE picked == [chosen EXCEPT ![s] = Append(@, q)]
  <2>2. /\ ShapeOf(picked, design.sections) /\ Len(picked) = s
        /\ Len(picked[s]) <= desk[d].slot
    <3> HIDE DEF design, chosen
    <3> QED BY ZenonT(60), <1>2, <1>3, <2>1, PickKeepsShape
  <2>3. desk' = [desk EXCEPT ![d] = AfterSlot(d, picked)]
    BY <2>1
  <2> HIDE DEF design, chosen, section, picked
  <2> QED BY <1>5, <2>2, <2>3
<1> QED BY <1>6, <1>7, <1>8

\* The rows of the paper are committed.
LEMMA WritePaperGoesOn ==
  ASSUME StatusInv, PapersInv, NEW d \in Desks, WritePaper(d)
  PROVE  DesksGoOn /\ PapersGoOn
<1> DEFINE n        == desk[d].at
           design   == DesignAt(n)
           chosen   == desk[d].chosen
           chapters == configs[n].chapters
           results  == RuleResults(design, chosen, chapters)
           status   == IF AllPassed(results) THEN "GENERATED" ELSE "NEEDS_ATTENTION"
           paper    == [config |-> n, student |-> desk[d].todo[1], status |-> status,
                        total |-> RecordedTotal(design, chosen), chosen |-> chosen,
                        rules |-> results,
                        versions |-> <<[version_no |-> 1, is_current |-> TRUE,
                                        status |-> status]>>]
<1>1. desk[d].step = "write" /\ n \in DOMAIN configs /\ Assembling(desk[d], design)
  BY DEF WritePaper, PapersInv
<1>2. papers' = Append(papers, paper)
  <2>1. Design(d) = design
    BY DEF Design, DesignAt, DesignIn
  <2> QED BY <2>1 DEF WritePaper
<1>3. /\ paper.config = n /\ paper.status = status /\ paper.chosen = chosen
      /\ paper.total = RecordedTotal(design, chosen)
  OBVIOUS
<1>4. Complete(paper, design, chapters)
  <2>1. CASE AllPassed(results)
    <3>1. /\ IsSeq(design.sections)
          /\ \A s \in DOMAIN design.sections : design.sections[s].count \in Nat \ {0}
      BY <1>1, DesignIs
    <3>2. ShapeOf(chosen, design.sections) /\ Len(chosen) = Len(design.sections)
      BY <1>1 DEF Assembling
    <3> HIDE DEF paper, design, chosen, chapters
    <3> QED BY <1>3, <2>1, <3>1, <3>2, PassedIsComplete
  <2>2. CASE ~AllPassed(results)
    <3>1. paper.status = "NEEDS_ATTENTION"
      BY <1>3, <2>2
    <3> QED BY <3>1 DEF Complete
  <2> QED BY <2>1, <2>2
<1> HIDE DEF paper
<1>5. PapersGoOn
  <2>1. IsSeq(papers)
    BY DEF PapersInv
  <2>2. /\ IsSeq(papers') /\ DOMAIN papers' = 1 .. Len(papers) + 1
        /\ papers'[Len(papers) + 1] = paper
        /\ DOMAIN papers = 1 .. Len(papers) /\ Len(papers) \in Nat
        /\ \A p \in DOMAIN papers : papers'[p] = papers[p]
    BY <1>2, <2>1, AppendIs
  <2>3. ASSUME NEW p \in DOMAIN papers'
        PROVE  \/ p \in DOMAIN papers /\ papers'[p] = papers[p]
               \/ papers'[p] = paper
    BY <2>2
  <2>4. \A p \in DOMAIN papers' : papers'[p] = paper =>
          /\ papers'[p].config \in DOMAIN configs
          /\ Complete(papers'[p], DesignAt(papers'[p].config),
                      configs[papers'[p].config].chapters)
    BY <1>1, <1>3, <1>4
  <2> QED BY <2>2, <2>3, <2>4 DEF PapersGoOn
<1> QED BY <1>5, FirstGoesOn

\* A refused approval changes nothing; a paper that needs attention is refused.
LEMMA ApproveGoesOn ==
  ASSUME StatusInv, PapersInv, Approve
  PROVE  PapersGoOn
<1>1. PICK n \in DOMAIN papers :
        papers' = IF "APPROVED" \in PaperTransitions[papers[n].status] /\ AllPassed(papers[n].rules)
                  THEN [papers EXCEPT ![n].status = "APPROVED"] ELSE papers
  BY DEF Approve
<1>2. CASE papers' = papers
  BY <1>2, PapersStay
<1>3. CASE /\ "APPROVED" \in PaperTransitions[papers[n].status]
           /\ papers' = [papers EXCEPT ![n].status = "APPROVED"]
  <2> DEFINE old == papers[n]
             new == [old EXCEPT !.status = "APPROVED"]
  <2>1. old.status # "NEEDS_ATTENTION"
    BY <1>3 DEF PaperTransitions
  <2>2. /\ new.config = old.config /\ new.total = old.total /\ new.chosen = old.chosen
    OBVIOUS
  <2>3. papers' = [papers EXCEPT ![n] = new]
    BY <1>3
  <2>4. /\ old.config \in DOMAIN configs
        /\ Complete(old, DesignAt(old.config), configs[old.config].chapters)
    BY DEF PapersInv
  <2> HIDE DEF old, new
  <2>5. Complete(new, DesignAt(new.config), configs[new.config].chapters)
    BY <2>1, <2>2, <2>4 DEF Complete
  <2>6. /\ IsSeq(papers') /\ DOMAIN papers' = DOMAIN papers /\ papers'[n] = new
        /\ \A p \in DOMAIN papers \ {n} : papers'[p] = papers[p]
    <3>1. IsSeq(papers)
      BY DEF PapersInv
    <3> QED BY <2>3, <3>1, ReplaceIs
  <2>7. ASSUME NEW p \in DOMAIN papers'
        PROVE  \/ p \in DOMAIN papers /\ papers'[p] = papers[p]
               \/ /\ papers'[p].config \in DOMAIN configs
                  /\ Complete(papers'[p], DesignAt(papers'[p].config),
                              configs[papers'[p].config].chapters)
    <3>1. CASE p = n
      BY <2>2, <2>4, <2>5, <2>6, <3>1
    <3>2. CASE p # n
      BY <2>6, <3>2
    <3> QED BY <3>1, <3>2
  <2> QED BY <2>6, <2>7 DEF PapersGoOn
<1> QED BY <1>1, <1>2, <1>3

\* The bank changes, or the server ends: requests keep their work, or lose it.
LEMMA BankGoesOn ==
  ASSUME StatusInv, BankStep \/ Crash
  PROVE  DesksGoOn
<1>1. \A e \in Desks : \/ desk'[e] = desk[e] \/ desk'[e] = Free
                       \/ \E steady : desk'[e] = [desk[e] EXCEPT !.steady = steady]
  BY DEF BankStep, Crash, StatusInv
<1>2. ASSUME NEW e \in Desks, NEW steady, desk'[e] = [desk[e] EXCEPT !.steady = steady]
      PROVE  SameWork(desk'[e], desk[e])
  <2> DEFINE old == desk[e]
             new == [old EXCEPT !.steady = steady]
  <2>1. DOMAIN old = DOMAIN Free
    BY DEF StatusInv, DeskInv
  <2>2. new.step = old.step /\ new.at = old.at /\ new.chosen = old.chosen /\ new.slot = old.slot
    BY <2>1 DEF Free
  <2> HIDE DEF new
  <2> QED BY <1>2, <2>2 DEF SameWork, new
<1>3. ASSUME NEW e \in Desks, Generating(desk'[e])
      PROVE  SameWork(desk'[e], desk[e])
  <2>1. desk'[e] # Free
    BY <1>3, FreeIs DEF Generating
  <2> QED BY <1>1, <1>2, <2>1 DEF SameWork
<1> QED BY <1>3 DEF DesksGoOn

\* The other requests are not generating.
LEMMA OtherRequest ==
  ASSUME NEW d \in Desks,
         \/ LoadBlueprint(d) \/ StoreBlueprint(d) \/ LoadForConfig(d) \/ StoreConfig(d)
         \/ LoadConfig(d) \/ StoreConfigStatus(d)
  PROVE  \E r : r.step \notin {"slot", "write"} /\ desk' = [desk EXCEPT ![d] = r]
<1>1. CASE StoreBlueprint(d) \/ StoreConfig(d) \/ StoreConfigStatus(d)
  <2>1. desk' = [desk EXCEPT ![d] = Free]
    BY <1>1 DEF StoreBlueprint, StoreConfig, StoreConfigStatus
  <2> QED BY <2>1, FreeIs
<1>2. CASE LoadForConfig(d)
  <2>1. PICK n \in DOMAIN blueprints :
          desk' = [desk EXCEPT ![d] = [Free EXCEPT !.step = "config", !.at = n]]
    BY <1>2 DEF LoadForConfig
  <2> DEFINE r == [Free EXCEPT !.step = "config", !.at = n]
  <2>2. r.step = "config" /\ desk' = [desk EXCEPT ![d] = r]
    BY <2>1 DEF Free
  <2> HIDE DEF r
  <2> QED BY <2>2
<1>3. ASSUME NEW rows, NEW kind \in {"blueprint", "config status"}, Asked(rows, kind, d)
      PROVE  \E r : r.step \notin {"slot", "write"} /\ desk' = [desk EXCEPT ![d] = r]
  <2>1. PICK n \in DOMAIN rows : \E status \in Turns[rows[n].status] :
          desk' = [desk EXCEPT ![d] = [Free EXCEPT !.step = kind, !.at = n, !.status = status]]
    BY <1>3 DEF Asked
  <2>2. PICK status \in Turns[rows[n].status] :
          desk' = [desk EXCEPT ![d] = [Free EXCEPT !.step = kind, !.at = n, !.status = status]]
    BY <2>1
  <2> DEFINE r == [Free EXCEPT !.step = kind, !.at = n, !.status = status]
  <2>3. r.step = kind /\ desk' = [desk EXCEPT ![d] = r]
    BY <2>2 DEF Free
  <2> HIDE DEF r
  <2> QED BY <2>3
<1> QED BY <1>1, <1>2, <1>3 DEF LoadBlueprint, LoadConfig

\* Every step keeps what is said of papers and of the requests that make them.
LEMMA StepPapers == StatusInv /\ PapersInv /\ [Next]_vars => PapersInv'
<1> SUFFICES ASSUME StatusInv, PapersInv, [Next]_vars PROVE PapersInv'
  OBVIOUS
<1>0. RowsStay
  BY StepRows
<1>1. CASE BankStep \/ Crash
  <2>1. UNCHANGED papers
    BY <1>1 DEF BankStep, Crash
  <2> QED BY <1>0, <1>1, <2>1, BankGoesOn, PapersStay, PapersStep
<1>2. CASE Approve
  <2>1. UNCHANGED desk
    BY <1>2 DEF Approve
  <2>2. DesksGoOn
    BY <2>1 DEF DesksGoOn, SameWork
  <2> QED BY <1>0, <1>2, <2>2, ApproveGoesOn, PapersStep
<1>3. CASE CreateBlueprint \/ UNCHANGED vars
  <2>1. UNCHANGED <<desk, papers>>
    BY <1>3 DEF CreateBlueprint, vars, paperVars
  <2>2. DesksGoOn
    BY <2>1 DEF DesksGoOn, SameWork
  <2> QED BY <1>0, <2>1, <2>2, PapersStay, PapersStep
<1>4. ASSUME NEW d \in Desks,
             \/ LoadBlueprint(d) \/ StoreBlueprint(d) \/ LoadForConfig(d) \/ StoreConfig(d)
             \/ LoadConfig(d) \/ StoreConfigStatus(d)
      PROVE  PapersInv'
  <2>1. UNCHANGED papers
    BY <1>4 DEF LoadBlueprint, LoadConfig, Asked, LoadForConfig, StoreBlueprint, StoreConfig,
       StoreConfigStatus
  <2>2. DesksGoOn
    BY <1>4, OtherRequest, OneDesk DEF Generating
  <2> QED BY <1>0, <2>1, <2>2, PapersStay, PapersStep
<1>5. ASSUME NEW d \in Desks, Generate(d) \/ FillSlot(d) PROVE PapersInv'
  <2>1. UNCHANGED papers
    BY <1>5 DEF Generate, FillSlot
  <2>2. DesksGoOn
    BY <1>5, FirstGoesOn, FillSlotGoesOn
  <2> QED BY <1>0, <2>1, <2>2, PapersStay, PapersStep
<1>6. ASSUME NEW d \in Desks, WritePaper(d) PROVE PapersInv'
  BY <1>0, <1>6, WritePaperGoesOn, PapersStep
<1> QED BY <1>1, <1>2, <1>3, <1>4, <1>5, <1>6 DEF Next

\* There are no papers at the start, and no request.
LEMMA InitPapers == Init => PapersInv
<1> SUFFICES ASSUME Init PROVE PapersInv
  OBVIOUS
<1>1. papers = << >> /\ \A d \in Desks : desk[d] = Free
  BY DEF Init
<1>2. IsSeq(papers) /\ DOMAIN papers = {}
  BY <1>1 DEF IsSeq
<1> QED BY <1>1, <1>2, FreeIs DEF PapersInv

\* A paper not marked NEEDS_ATTENTION has the questions, the types, the marks and the
\* chapters its blueprint and configuration ask for, and none twice: for any bank,
\* any blueprints and any number of requests, while the bank changes between the
\* searches and the server ends at any time.
THEOREM PapersAreComplete == Spec => []GeneratedIsComplete
<1>1. PapersInv => GeneratedIsComplete
  <2>1. (\A paper \in Range(papers) :
           Complete(paper, DesignOf(paper), configs[paper.config].chapters))
          => GeneratedIsComplete
    BY Zenon DEF GeneratedIsComplete, Complete
  <2>2. ASSUME PapersInv, NEW paper \in Range(papers)
        PROVE  Complete(paper, DesignOf(paper), configs[paper.config].chapters)
    <3>1. PICK p \in DOMAIN papers : paper = papers[p]
      BY DEF Range
    <3>2. DesignOf(paper) = DesignAt(paper.config)
      BY DEF DesignOf, DesignAt, DesignIn
    <3> QED BY <2>2, <3>1, <3>2 DEF PapersInv
  <2> QED BY <2>1, <2>2
<1> QED BY <1>1, InitStatus, InitPapers, StepStatus, StepPapers, PTL DEF Spec

-----------------------------------------------------------------------------
(* Filled slots.                                                             *)

\* The questions of a search are finitely many.
LEMMA MatchingIs ==
  ASSUME NEW rows, IsSeq(rows), NEW level, NEW bloom
  PROVE  IsFiniteSet(Matching(rows, level, bloom))
<1> DEFINE T == {rows[i] : i \in DOMAIN rows}
<1>1. IsFiniteSet(DOMAIN rows) /\ rows = [i \in DOMAIN rows |-> rows[i]]
  <2>1. PICK S : rows \in Seq(S)
    BY DEF IsSeq
  <2> QED BY <2>1, AppendIs, FS_Interval
<1>2. IsFiniteSet(T)
  BY <1>1, ImageIs
<1>3. Matching(rows, level, bloom) \subseteq T
  BY DEF Matching, Range
<1> QED BY <1>2, <1>3, FS_Subset

\* A page with room for all that is found is all that is found.
LEMMA WholePage ==
  ASSUME NEW found, IsFiniteSet(found), Cardinality(found) <= PageSize,
         NEW page \in FirstPages(found)
  PROVE  page = found
<1>1. Cardinality(found) \in Nat /\ PageSize \in Nat
  BY FS_CardinalityType, BankAssumption
<1>2. page \subseteq found
      /\ Cardinality(page) = IF Cardinality(found) < PageSize THEN Cardinality(found)
                             ELSE PageSize
  BY DEF FirstPages
<1>3. Cardinality(page) = Cardinality(found)
  BY <1>1, <1>2
<1> QED BY <1>2, <1>3, FS_Subset

\* A section without bloom levels has slots that ask for none.
LEMMA NoBloom ==
  ASSUME NEW section, section.bloom = << >>, section.count \in Nat,
         NEW k \in 1 .. section.count
  PROVE  Slots(section)[k].bloom = "none"
<1> DEFINE fill == Copies("none", section.count)
           blooms == Spread(section.bloom, section.count, "none")
<1>1. fill \in Seq({"none"}) /\ Len(fill) = section.count
      /\ \A i \in 1 .. section.count : fill[i] = "none"
  BY DEF Copies
<1>2. blooms = SubSeq(<< >> \o fill, 1, section.count)
  <2>1. DOMAIN section.bloom = {}
    OBVIOUS
  <2> QED BY <2>1 DEF Spread, FlattenSeq
<1> HIDE DEF fill
<1>3. << >> \o fill = fill
  BY <1>1
<1>4. blooms[k] = "none"
  BY <1>1, <1>2, <1>3
<1> HIDE DEF blooms
<1> QED BY <1>4 DEF Slots, blooms

\* The slots of a type and difficulty.
Wanted(sections, type, level) ==
  UNION {{s} \X {k \in 1 .. sections[s].count : Slots(sections[s])[k].difficulty = level} :
           s \in {t \in DOMAIN sections : sections[t].type = type}}

\* They are finitely many.
LEMMA WantedIs ==
  ASSUME NEW sections, IsSeq(sections),
         \A s \in DOMAIN sections : sections[s].count \in Nat \ {0},
         NEW type, NEW level
  PROVE  /\ Demand(sections, type, level) = Cardinality(Wanted(sections, type, level))
         /\ IsFiniteSet(Wanted(sections, type, level))
         /\ \A s, k : <<s, k>> \in Wanted(sections, type, level) <=>
              /\ s \in DOMAIN sections /\ sections[s].type = type
              /\ k \in 1 .. sections[s].count /\ Slots(sections[s])[k].difficulty = level
<1> DEFINE S == {t \in DOMAIN sections : sections[t].type = type}
           slots(s) == {k \in 1 .. sections[s].count : Slots(sections[s])[k].difficulty = level}
           f == [s \in S |-> {s} \X slots(s)]
<1>1. IsFiniteSet(S)
  <2>1. DOMAIN sections = 1 .. Len(sections) /\ Len(sections) \in Nat
    BY AppendIs
  <2>2. IsFiniteSet(1 .. Len(sections))
    BY <2>1, FS_Interval
  <2> QED BY <2>1, <2>2, FS_Subset
<1>2. ASSUME NEW s \in S PROVE IsFiniteSet({s} \X slots(s))
  <2>0. sections[s].count \in Int
    OBVIOUS
  <2>1. IsFiniteSet(1 .. sections[s].count)
    BY <2>0, FS_Interval
  <2>2. IsFiniteSet(slots(s))
    BY <2>1, FS_Subset
  <2>3. IsFiniteSet({s})
    BY FS_Singleton
  <2> HIDE DEF slots
  <2> QED BY <2>2, <2>3, FS_Product
<1>3. f = [s \in S |-> f[s]] /\ \A s \in S : IsFiniteSet(f[s])
  BY <1>2
<1>4. Wanted(sections, type, level) = UNION {f[s] : s \in S}
  BY ZenonT(60) DEF Wanted
<1>5. Demand(sections, type, level) = Cardinality(Wanted(sections, type, level))
  BY DEF Demand, Wanted
<1>6. \A s, k : <<s, k>> \in Wanted(sections, type, level) <=>
              /\ s \in DOMAIN sections /\ sections[s].type = type
              /\ k \in 1 .. sections[s].count /\ Slots(sections[s])[k].difficulty = level
  BY DEF Wanted
<1> HIDE DEF f, S
<1>7. IsFiniteSet(Wanted(sections, type, level))
  BY <1>1, <1>3, <1>4, UnionIs
<1> QED BY <1>5, <1>6, <1>7

\* There are questions enough for every slot, and each search has room for them.
Suffices(sections, rows) ==
  \A s \in DOMAIN sections :
    /\ sections[s].bloom = << >>
    /\ \A k \in 1 .. sections[s].count :
         LET level == Slots(sections[s])[k].difficulty
         IN /\ Cardinality(Matching(rows, level, "none")) <= PageSize
            /\ Demand(sections, sections[s].type, level)
                 <= Cardinality({q \in Matching(rows, level, "none") : q.type = sections[s].type})

\* What is chosen are questions of the bank, each of the difficulty of its slot.
FromBank(chosen, rows) ==
  \A t \in DOMAIN chosen : \A k \in DOMAIN chosen[t] : chosen[t][k] \in Range(rows)

OfSlots(chosen, sections) ==
  \A t \in DOMAIN chosen : \A k \in DOMAIN chosen[t] :
    chosen[t][k].difficulty = Slots(sections[t])[k].difficulty

\* The sections before the present one are full.
FullBefore(chosen, sections) ==
  \A t \in DOMAIN chosen : t < Len(chosen) => Len(chosen[t]) = sections[t].count

\* A question is known by its name.
NamesTell(rows) ==
  \A i, j \in DOMAIN rows : Named(rows[i]) = Named(rows[j]) => i = j

\* While there are questions enough and none stays out, there is one for slot n: the
\* questions of its type and difficulty that are taken fill such slots, each one,
\* and the present slot is one more.
LEMMA OneIsLeft ==
  ASSUME NEW rows, IsSeq(rows), NamesTell(rows),
         NEW sections, IsSeq(sections),
         \A s \in DOMAIN sections : sections[s].count \in Nat \ {0},
         NEW chosen, ShapeOf(chosen, sections), FromBank(chosen, rows),
         OfSlots(chosen, sections), Suffices(sections, rows),
         NEW s, s = Len(chosen), NEW n \in 1 .. sections[s].count, Len(chosen[s]) < n,
         NEW slot, slot = Slots(sections[s])[n],
         NEW page \in FirstPages(Matching(rows, slot.difficulty, slot.bloom))
  PROVE  Candidates(page, sections[s].type, Names(chosen)) # {}
<1> DEFINE type   == sections[s].type
           level  == slot.difficulty
           found  == Matching(rows, level, "none")
           supply == {q \in found : q.type = type}
           want   == Wanted(sections, type, level)
           taken  == {place \in Places(chosen) : place \in want}
           f      == [place \in taken |-> At(chosen, place)]
           T      == {f[place] : place \in taken}
<1>1. /\ s \in DOMAIN sections /\ s \in DOMAIN chosen /\ DOMAIN chosen = 1 .. s
      /\ DOMAIN sections = 1 .. Len(sections) /\ Len(sections) \in Nat /\ s \in Nat
  BY AppendIs DEF ShapeOf
<1>2. /\ sections[s].bloom = << >> /\ Cardinality(found) <= PageSize
      /\ Demand(sections, type, level) <= Cardinality(supply)
  BY <1>1 DEF Suffices
<1>3. slot.bloom = "none"
  <2>1. sections[s].count \in Nat
    BY <1>1
  <2> QED BY <1>2, <2>1, NoBloom
<1>4. IsFiniteSet(found)
  BY MatchingIs
<1>5. page = found
  <2>1. page \in FirstPages(found)
    BY <1>3
  <2> HIDE DEF found
  <2> QED BY <1>2, <1>4, <2>1, WholePage
<1>6. IsFiniteSet(supply) /\ Cardinality(supply) \in Nat
  BY <1>4, FS_Subset, FS_CardinalityType
<1>7. /\ Demand(sections, type, level) = Cardinality(want) /\ IsFiniteSet(want)
      /\ \A t, k : <<t, k>> \in want <=>
              /\ t \in DOMAIN sections /\ sections[t].type = type
              /\ k \in 1 .. sections[t].count /\ Slots(sections[t])[k].difficulty = level
  <2> HIDE DEF type, level
  <2> QED BY WantedIs
<1> HIDE DEF want, found
<1>8. <<s, n>> \in want
  BY <1>1, <1>7
<1>9. <<s, n>> \notin Places(chosen)
  <2>1. IsSeq(chosen[s])
    BY <1>1 DEF ShapeOf
  <2>2. DOMAIN chosen[s] = 1 .. Len(chosen[s]) /\ Len(chosen[s]) \in Nat
    BY <2>1, AppendIs
  <2>3. n \notin DOMAIN chosen[s]
    BY <2>2
  <2> QED BY <2>3 DEF Places
<1>10. Cardinality(taken) < Cardinality(want) /\ IsFiniteSet(taken)
  <2>1. taken \subseteq want \ {<<s, n>>}
    BY <1>9
  <2>2. /\ IsFiniteSet(want \ {<<s, n>>})
        /\ Cardinality(want \ {<<s, n>>}) = Cardinality(want) - 1
    BY <1>7, <1>8, FS_RemoveElement
  <2>3. Cardinality(want) \in Nat
    BY <1>7, FS_CardinalityType
  <2> HIDE DEF taken
  <2>4. IsFiniteSet(taken) /\ Cardinality(taken) <= Cardinality(want \ {<<s, n>>})
    BY <2>1, <2>2, FS_Subset
  <2>5. Cardinality(taken) \in Nat
    BY <2>4, FS_CardinalityType
  <2> QED BY <2>2, <2>3, <2>4, <2>5
<1>11. IsFiniteSet(T) /\ Cardinality(T) <= Cardinality(taken)
       /\ Cardinality(T) \in Nat /\ Cardinality(taken) \in Nat
  <2>1. f = [place \in taken |-> f[place]]
    OBVIOUS
  <2> HIDE DEF f, taken
  <2> QED BY <1>10, <2>1, ImageIs
<1>12. ASSUME Candidates(page, type, Names(chosen)) = {}
       PROVE  supply \subseteq T
  <2> SUFFICES ASSUME NEW q \in supply PROVE q \in T
    OBVIOUS
  <2>1. q \in page /\ q.type = type /\ q.difficulty = level /\ q \in Range(rows)
    BY <1>5 DEF found, Matching
  <2>2. Named(q) \in Names(chosen)
    BY <1>12, <2>1 DEF Candidates
  <2>3. PICK t \in DOMAIN chosen : \E k \in DOMAIN chosen[t] : Named(chosen[t][k]) = Named(q)
    BY <2>2 DEF Names, Places, At
  <2>4. PICK k \in DOMAIN chosen[t] : Named(chosen[t][k]) = Named(q)
    BY <2>3
  <2>5. chosen[t][k] = q
    <3>1. chosen[t][k] \in Range(rows)
      BY DEF FromBank
    <3> QED BY <2>1, <2>4, <3>1 DEF NamesTell, Range
  <2>6. /\ sections[t].type = type /\ Slots(sections[t])[k].difficulty = level
        /\ t \in DOMAIN sections
    <3>1. chosen[t][k].type = sections[t].type
      BY DEF ShapeOf
    <3>2. chosen[t][k].difficulty = Slots(sections[t])[k].difficulty
      BY DEF OfSlots
    <3>3. t \in DOMAIN sections
      BY <1>1 DEF ShapeOf
    <3> QED BY <2>1, <2>5, <3>1, <3>2, <3>3
  <2>7. k \in 1 .. sections[t].count
    <3>1. IsSeq(chosen[t]) /\ Len(chosen[t]) <= sections[t].count
      BY DEF ShapeOf
    <3>2. DOMAIN chosen[t] = 1 .. Len(chosen[t]) /\ Len(chosen[t]) \in Nat
      BY <3>1, AppendIs
    <3>3. sections[t].count \in Nat
      BY <2>6
    <3> QED BY <3>1, <3>2, <3>3
  <2>8. <<t, k>> \in taken
    <3>1. <<t, k>> \in Places(chosen)
      BY DEF Places
    <3>2. <<t, k>> \in want
      BY <1>7, <2>6, <2>7
    <3> QED BY <3>1, <3>2
  <2>9. f[<<t, k>>] = q
    BY <2>5, <2>8 DEF At
  <2> HIDE DEF f, taken
  <2> QED BY <2>8, <2>9
<1>13. ASSUME supply \subseteq T PROVE FALSE
  <2> HIDE DEF supply, T
  <2>1. Cardinality(supply) <= Cardinality(T)
    BY <1>11, <1>13, FS_Subset
  <2>2. Cardinality(want) \in Nat
    BY <1>7, FS_CardinalityType
  <2> HIDE DEF taken
  <2> QED BY <1>2, <1>6, <1>7, <1>10, <1>11, <2>1, <2>2
<1> QED BY <1>12, <1>13

\* What a request has chosen while the bank stood still.
Filling(r, sections, rows) ==
  Generating(r) /\ r.steady =>
    /\ FromBank(r.chosen, rows)
    /\ Suffices(sections, rows) =>
         /\ OfSlots(r.chosen, sections) /\ FullBefore(r.chosen, sections)
         /\ r.step = "slot" => Len(r.chosen[Len(r.chosen)]) = r.slot - 1
         /\ r.step = "write" => \A t \in DOMAIN r.chosen : Len(r.chosen[t]) = sections[t].count

SectionsAt(n) == DesignAt(n).sections

FillInv == \A d \in Desks : Filling(desk[d], SectionsAt(desk[d].at), questions)

\* A request whose bank stood still goes on as it is, or as it should.
FillsOn ==
  \A e \in Desks : Generating(desk'[e]) /\ desk'[e].steady =>
    /\ questions' = questions
    /\ desk'[e].at \in DOMAIN configs
    /\ \/ SameWork(desk'[e], desk[e]) /\ desk[e].steady
       \/ Filling(desk'[e], SectionsAt(desk'[e].at), questions)

\* That is enough.
LEMMA FillStep ==
  ASSUME StatusInv, RowsStay, FillInv, FillsOn
  PROVE  FillInv'
<1>1. ASSUME NEW e \in Desks
      PROVE  Filling(desk'[e], DesignIn(blueprints', configs', desk'[e].at).sections, questions')
  <2>1. SUFFICES ASSUME Generating(desk'[e]), desk'[e].steady
                 PROVE  Filling(desk'[e], DesignIn(blueprints', configs', desk'[e].at).sections,
                                questions')
    BY DEF Filling
  <2>2. questions' = questions /\ desk'[e].at \in DOMAIN configs
    BY <2>1 DEF FillsOn
  <2>3. DesignIn(blueprints', configs', desk'[e].at).sections = SectionsAt(desk'[e].at)
    BY <2>2, DesignStays DEF SectionsAt
  <2>4. Filling(desk'[e], SectionsAt(desk'[e].at), questions)
    <3>1. CASE SameWork(desk'[e], desk[e]) /\ desk[e].steady
      <4>1. Filling(desk[e], SectionsAt(desk[e].at), questions)
        BY DEF FillInv
      <4>2. Generating(desk[e])
        BY <2>1, <3>1 DEF SameWork, Generating
      <4> QED BY <3>1, <4>1, <4>2 DEF SameWork, Filling
    <3> QED BY <2>1, <3>1 DEF FillsOn
  <2> QED BY <2>2, <2>3, <2>4
<1> QED BY <1>1 DEF FillInv, SectionsAt, DesignAt

\* A step that changes one request and no question.
LEMMA OneDeskFills ==
  ASSUME StatusInv, PapersInv, NEW d \in Desks, NEW r, desk' = [desk EXCEPT ![d] = r],
         UNCHANGED questions,
         Generating(r) => r.at \in DOMAIN configs /\ Filling(r, SectionsAt(r.at), questions)
  PROVE  FillsOn
<1>1. desk'[d] = r /\ \A e \in Desks \ {d} : desk'[e] = desk[e]
  BY DEF StatusInv
<1>2. ASSUME NEW e \in Desks, Generating(desk'[e]), desk'[e].steady
      PROVE  /\ questions' = questions
             /\ desk'[e].at \in DOMAIN configs
             /\ \/ SameWork(desk'[e], desk[e]) /\ desk[e].steady
                \/ Filling(desk'[e], SectionsAt(desk'[e].at), questions)
  <2>1. CASE e = d
    BY <1>1, <1>2, <2>1
  <2>2. CASE e # d
    <3>1. desk'[e] = desk[e]
      BY <1>1, <2>2
    <3>2. desk[e].at \in DOMAIN configs
      BY <1>2, <3>1 DEF PapersInv, Generating
    <3> QED BY <1>2, <3>1, <3>2 DEF SameWork
  <2> QED BY <2>1, <2>2
<1> QED BY <1>2 DEF FillsOn

\* Nothing is chosen at the first slot.
LEMMA FirstFills ==
  ASSUME NEW r, r.step = "slot", r.chosen = << <<>> >>, r.slot = 1, NEW sections, NEW rows
  PROVE  Filling(r, sections, rows)
<1> DEFINE chosen == << <<>> >>
<1>1. /\ Len(chosen) = 1 /\ DOMAIN chosen = {1} /\ chosen[1] = << >>
      /\ Len(<< >>) = 0 /\ DOMAIN << >> = {}
  OBVIOUS
<1> HIDE DEF chosen
<1>2. FromBank(chosen, rows) /\ OfSlots(chosen, sections) /\ FullBefore(chosen, sections)
  BY <1>1 DEF FromBank, OfSlots, FullBefore
<1> QED BY <1>1, <1>2 DEF Filling, chosen

\* A pick for slot n of a question of the bank, of the slot's difficulty.
LEMMA PickFills ==
  ASSUME NEW sections, NEW rows, NEW chosen, ShapeOf(chosen, sections), NEW q,
         FromBank(chosen, rows), q \in Range(rows)
  PROVE  LET s      == Len(chosen)
             picked == [chosen EXCEPT ![s] = Append(@, q)]
         IN /\ FromBank(picked, rows)
            /\ FullBefore(chosen, sections) => FullBefore(picked, sections)
            /\ OfSlots(chosen, sections)
                 /\ q.difficulty = Slots(sections[s])[Len(chosen[s]) + 1].difficulty
                 => OfSlots(picked, sections)
<1> DEFINE s == Len(chosen)
           more == Append(chosen[s], q)
           picked == [chosen EXCEPT ![s] = Append(@, q)]
<1>1. /\ IsSeq(chosen) /\ s \in DOMAIN chosen /\ DOMAIN chosen = 1 .. s /\ s \in Nat
      /\ IsSeq(chosen[s])
  BY AppendIs DEF ShapeOf
<1>2. /\ DOMAIN chosen[s] = 1 .. Len(chosen[s]) /\ Len(chosen[s]) \in Nat
      /\ DOMAIN more = 1 .. Len(chosen[s]) + 1 /\ more[Len(chosen[s]) + 1] = q
      /\ \A k \in DOMAIN chosen[s] : more[k] = chosen[s][k]
  BY <1>1, AppendIs
<1>3. picked = [chosen EXCEPT ![s] = more]
  OBVIOUS
<1> HIDE DEF more, picked
<1>4. /\ Len(picked) = s /\ DOMAIN picked = DOMAIN chosen /\ picked[s] = more
      /\ \A t \in DOMAIN chosen \ {s} : picked[t] = chosen[t]
  <2> HIDE DEF s
  <2> QED BY <1>1, <1>3, ReplaceIs DEF s
<1>5. ASSUME NEW t \in DOMAIN picked, NEW k \in DOMAIN picked[t]
      PROVE  \/ t \in DOMAIN chosen /\ k \in DOMAIN chosen[t] /\ picked[t][k] = chosen[t][k]
             \/ t = s /\ k = Len(chosen[s]) + 1 /\ picked[t][k] = q
  BY <1>2, <1>4
<1>6. FromBank(picked, rows)
  BY <1>5 DEF FromBank
<1>7. ASSUME FullBefore(chosen, sections) PROVE FullBefore(picked, sections)
  BY <1>1, <1>4, <1>7 DEF FullBefore
<1>8. ASSUME OfSlots(chosen, sections),
             q.difficulty = Slots(sections[s])[Len(chosen[s]) + 1].difficulty
      PROVE  OfSlots(picked, sections)
  BY <1>5, <1>8 DEF OfSlots
<1> QED BY <1>6, <1>7, <1>8 DEF picked, s

\* After a slot that is filled if there are questions enough.
LEMMA AfterSlotFills ==
  ASSUME NEW d \in Desks, NEW sections, NEW chosen, NEW rows,
         DOMAIN desk[d] = DOMAIN Free, desk[d].step = "slot", sections = Design(d).sections,
         ShapeOf(chosen, sections), FromBank(chosen, rows),
         Suffices(sections, rows) =>
           /\ OfSlots(chosen, sections) /\ FullBefore(chosen, sections)
           /\ Len(chosen[Len(chosen)]) = desk[d].slot,
         desk[d].slot \in Nat
  PROVE  Filling(AfterSlot(d, chosen), sections, rows)
<1> DEFINE s    == Len(chosen)
           r    == AfterSlot(d, chosen)
           over == desk[d].slot = sections[s].count
           end  == s = Len(sections)
<1>1. IsSeq(chosen) /\ s \in Nat /\ DOMAIN chosen = 1 .. s
  BY AppendIs DEF ShapeOf
<1>2. /\ r.chosen = IF over /\ ~end THEN Append(chosen, <<>>) ELSE chosen
      /\ r.slot = IF over THEN 1 ELSE desk[d].slot + 1
      /\ r.step = IF over /\ end THEN "write" ELSE "slot"
  <2> DEFINE r0   == desk[d]
             now  == IF over /\ ~end THEN Append(chosen, <<>>) ELSE chosen
             step == IF over /\ end THEN "write" ELSE r0.step
  <2>1. r = [r0 EXCEPT !.chosen = now, !.slot = IF over THEN 1 ELSE @ + 1, !.step = step]
    BY Zenon DEF AfterSlot
  <2>2. DOMAIN r0 = DOMAIN Free /\ r0.step = "slot" /\ r0 = desk[d]
    OBVIOUS
  <2> HIDE DEF r0, now, over, r
  <2> QED BY <2>1, <2>2 DEF Free, now
<1> SUFFICES Filling(r, sections, rows)
  OBVIOUS
<1> HIDE DEF r
<1>3. CASE ~over
  BY <1>2, <1>3 DEF Filling
<1>4. CASE over /\ end
  <2>1. ASSUME Suffices(sections, rows), NEW t \in DOMAIN chosen
        PROVE  Len(chosen[t]) = sections[t].count
    <3>1. CASE t = s
      BY <1>4, <2>1, <3>1
    <3>2. CASE t # s
      <4>1. t < s
        BY <1>1, <3>2
      <4> QED BY <2>1, <4>1 DEF FullBefore
    <3> QED BY <3>1, <3>2
  <2>2. r.chosen = chosen /\ r.step = "write"
    BY <1>2, <1>4
  <2> QED BY <2>1, <2>2 DEF Filling
<1>5. CASE over /\ ~end
  <2> DEFINE more == Append(chosen, << >>)
  <2>1. /\ Len(more) = s + 1 /\ DOMAIN more = 1 .. s + 1
        /\ more[s + 1] = << >> /\ \A t \in DOMAIN chosen : more[t] = chosen[t]
    BY <1>1, AppendIs
  <2>2. Len(<< >>) = 0 /\ DOMAIN << >> = {}
    OBVIOUS
  <2> HIDE DEF more
  <2>3. FromBank(more, rows)
    BY <1>1, <2>1, <2>2 DEF FromBank
  <2>4. ASSUME Suffices(sections, rows)
        PROVE  OfSlots(more, sections) /\ FullBefore(more, sections)
    <3>1. OfSlots(more, sections)
      BY <1>1, <2>1, <2>2, <2>4 DEF OfSlots
    <3>2. ASSUME NEW t \in DOMAIN more, t < s + 1 PROVE Len(more[t]) = sections[t].count
      <4>1. t \in DOMAIN chosen /\ more[t] = chosen[t] /\ (t = s \/ t < s)
        BY <1>1, <2>1, <3>2
      <4> QED BY <1>5, <2>4, <4>1 DEF FullBefore
    <3> QED BY <2>1, <3>1, <3>2 DEF FullBefore
  <2>5. r.chosen = more /\ r.slot = 1 /\ r.step = "slot"
    BY <1>2, <1>5 DEF more
  <2>6. Len(more[Len(more)]) = 1 - 1
    BY <2>1, <2>2
  <2> QED BY <2>3, <2>4, <2>5, <2>6 DEF Filling
<1> QED BY <1>3, <1>4, <1>5

\* A slot is filled, or left empty.
LEMMA FillSlotFills ==
  ASSUME StatusInv, BankInv, PapersInv, FillInv, NEW d \in Desks, FillSlot(d)
  PROVE  FillsOn
<1> DEFINE sections == Design(d).sections
           chosen   == desk[d].chosen
           s        == Len(chosen)
           n        == desk[d].slot
           section  == sections[s]
           slot     == Slots(section)[n]
<1>1. /\ desk[d].step = "slot" /\ desk[d].at \in DOMAIN configs
      /\ sections = SectionsAt(desk[d].at) /\ DOMAIN desk[d] = DOMAIN Free
      /\ Assembling(desk[d], Design(d))
  <2>1. desk[d].step = "slot"
    BY DEF FillSlot
  <2>2. desk[d].at \in DOMAIN configs /\ Assembling(desk[d], DesignAt(desk[d].at))
    BY <2>1 DEF PapersInv
  <2> QED BY <2>1, <2>2 DEF Design, SectionsAt, DesignAt, DesignIn, StatusInv, DeskInv
<1>2. /\ IsSeq(sections) /\ Len(sections) \in Nat \ {0} /\ DOMAIN sections = 1 .. Len(sections)
      /\ \A t \in DOMAIN sections : sections[t].count \in Nat \ {0}
  BY <1>1, DesignIs DEF SectionsAt
<1>3. ShapeOf(chosen, sections) /\ SlotOf(chosen, sections, n)
  BY <1>1 DEF Assembling
<1>4. n \in 1 .. section.count /\ Len(chosen[s]) < n /\ n \in Nat
  BY <1>3 DEF SlotOf
<1>5. ASSUME desk[d].steady
      PROVE  /\ FromBank(chosen, questions)
             /\ Suffices(sections, questions) =>
                  /\ OfSlots(chosen, sections) /\ FullBefore(chosen, sections)
                  /\ Len(chosen[s]) = n - 1
  <2>1. Filling(desk[d], sections, questions)
    BY <1>1 DEF FillInv
  <2> HIDE DEF sections
  <2> QED BY <1>1, <1>5, <2>1 DEF Filling, Generating
<1>6. ASSUME NEW now, desk' = [desk EXCEPT ![d] = AfterSlot(d, now)],
             ShapeOf(now, sections), Len(now) = s, Len(now[s]) <= n,
             desk[d].steady => /\ FromBank(now, questions)
                               /\ Suffices(sections, questions) =>
                                    /\ OfSlots(now, sections) /\ FullBefore(now, sections)
                                    /\ Len(now[s]) = n
      PROVE  FillsOn
  <2> DEFINE r == AfterSlot(d, now)
  <2>1. r.at = desk[d].at /\ r.steady = desk[d].steady
    BY <1>1 DEF AfterSlot, Free
  <2>2. Filling(r, sections, questions)
    <3>1. CASE desk[d].steady
      <4> HIDE DEF sections, n, r
      <4> QED BY <1>1, <1>4, <1>6, <3>1, AfterSlotFills DEF sections, n, r
    <3>2. CASE ~desk[d].steady
      <4> HIDE DEF r
      <4> QED BY <2>1, <3>2 DEF Filling
    <3> QED BY <3>1, <3>2
  <2>3. UNCHANGED questions /\ desk' = [desk EXCEPT ![d] = r]
    BY <1>6 DEF FillSlot, bankVars
  <2> HIDE DEF r
  <2> QED BY <1>1, <2>1, <2>2, <2>3, OneDeskFills
<1>7. PICK page \in FirstPages(Matching(questions, slot.difficulty, slot.bloom)) :
        LET found == Candidates(page, section.type, Names(chosen))
        IN \/ found = {} /\ desk' = [desk EXCEPT ![d] = AfterSlot(d, chosen)]
           \/ \E q \in found :
                desk' = [desk EXCEPT ![d] =
                           AfterSlot(d, [chosen EXCEPT ![s] = Append(@, q)])]
  BY DEF FillSlot, Best
<1> DEFINE found == Candidates(page, section.type, Names(chosen))
<1>8. ASSUME desk[d].steady, Suffices(sections, questions) PROVE found # {}
  <2>1. IsSeq(questions) /\ NamesTell(questions)
    BY DEF BankInv, RowsInv, NamesTell, Named
  <2>2. OfSlots(chosen, sections) /\ FromBank(chosen, questions)
    BY <1>5, <1>8
  <2> HIDE DEF sections, chosen, n
  <2> QED BY <1>2, <1>3, <1>4, <1>8, <2>1, <2>2, OneIsLeft
<1>9. CASE found = {} /\ desk' = [desk EXCEPT ![d] = AfterSlot(d, chosen)]
  <2>1. Len(chosen[s]) <= n
    <3>1. IsSeq(chosen[s])
      BY <1>3, AppendIs DEF ShapeOf
    <3>2. Len(chosen[s]) \in Nat
      BY <3>1, AppendIs
    <3> QED BY <1>4, <3>2
  <2> HIDE DEF sections, n, chosen, found
  <2> QED BY <1>3, <1>5, <1>6, <1>8, <1>9, <2>1
<1>10. ASSUME NEW q \in found,
              desk' = [desk EXCEPT ![d] = AfterSlot(d, [chosen EXCEPT ![s] = Append(@, q)])]
       PROVE  FillsOn
  <2> DEFINE picked == [chosen EXCEPT ![s] = Append(@, q)]
  <2>1. q.type = section.type /\ q.difficulty = slot.difficulty /\ q \in Range(questions)
    BY DEF Candidates, FirstPages, Matching
  <2>2. /\ ShapeOf(picked, sections) /\ Len(picked) = s /\ Len(picked[s]) <= n
        /\ Len(picked[s]) = Len(chosen[s]) + 1
    <3> HIDE DEF sections, n, chosen
    <3> QED BY ZenonT(60), <1>2, <1>3, <2>1, PickKeepsShape
  <2>3. ASSUME desk[d].steady
        PROVE  /\ FromBank(picked, questions)
               /\ Suffices(sections, questions) =>
                    /\ OfSlots(picked, sections) /\ FullBefore(picked, sections)
                    /\ Len(picked[s]) = n
    <3>1. FromBank(chosen, questions)
      BY <1>5, <2>3
    <3>2. /\ FromBank(picked, questions)
          /\ FullBefore(chosen, sections) => FullBefore(picked, sections)
          /\ OfSlots(chosen, sections)
               /\ q.difficulty = Slots(sections[s])[Len(chosen[s]) + 1].difficulty
               => OfSlots(picked, sections)
      <4> HIDE DEF sections, chosen
      <4> QED BY <1>3, <2>1, <3>1, PickFills
    <3>3. ASSUME Suffices(sections, questions)
          PROVE  /\ OfSlots(picked, sections) /\ FullBefore(picked, sections)
                 /\ Len(picked[s]) = n
      <4>1. Len(chosen[s]) = n - 1 /\ OfSlots(chosen, sections) /\ FullBefore(chosen, sections)
        BY <1>5, <2>3, <3>3
      <4>2. Len(chosen[s]) + 1 = n
        BY <1>4, <4>1
      <4> HIDE DEF sections, chosen, picked, n
      <4> QED BY <2>1, <2>2, <3>2, <4>1, <4>2
    <3> QED BY <3>2, <3>3
  <2>4. desk' = [desk EXCEPT ![d] = AfterSlot(d, picked)]
    BY <1>10
  <2> HIDE DEF sections, chosen, picked, n, found
  <2> QED BY <1>6, <2>2, <2>3, <2>4
<1> QED BY <1>7, <1>9, <1>10

\* Every step keeps it; a change of the bank ends what was steady.
LEMMA StepFill == StatusInv /\ BankInv /\ PapersInv /\ FillInv /\ [Next]_vars => FillInv'
<1> SUFFICES ASSUME StatusInv, BankInv, PapersInv, FillInv, [Next]_vars PROVE FillInv'
  OBVIOUS
<1>0. RowsStay
  BY StepRows
<1>1. CASE UNCHANGED <<questions, desk>>
  <2>1. \A e \in Desks : Generating(desk[e]) => desk[e].at \in DOMAIN configs
    BY DEF PapersInv, Generating
  <2>2. FillsOn
    BY <1>1, <2>1 DEF FillsOn, SameWork
  <2> QED BY <1>0, <2>2, FillStep
<1>2. CASE BankStep /\ questions' # questions
  <2>1. desk' = [e \in Desks |-> [desk[e] EXCEPT !.steady = desk[e].step = "idle"]]
    BY <1>2 DEF BankStep
  <2>2. ASSUME NEW e \in Desks PROVE ~(Generating(desk'[e]) /\ desk'[e].steady)
    <3> DEFINE old == desk[e]
               new == [old EXCEPT !.steady = old.step = "idle"]
    <3>1. desk'[e] = new
      BY <2>1
    <3>2. DOMAIN old = DOMAIN Free
      BY DEF StatusInv, DeskInv
    <3>3. new.step = old.step /\ new.steady = (old.step = "idle")
      BY <3>2 DEF Free
    <3> HIDE DEF new
    <3> QED BY <3>1, <3>3 DEF Generating
  <2>3. FillsOn
    BY <2>2 DEF FillsOn
  <2> QED BY <1>0, <2>3, FillStep
<1>3. CASE Crash
  <2>1. \A e \in Desks : desk'[e] = Free
    BY <1>3 DEF Crash
  <2>2. FillsOn
    BY <2>1, FreeIs DEF FillsOn, Generating
  <2> QED BY <1>0, <2>2, FillStep
<1>4. ASSUME NEW d \in Desks,
             \/ LoadBlueprint(d) \/ StoreBlueprint(d) \/ LoadForConfig(d) \/ StoreConfig(d)
             \/ LoadConfig(d) \/ StoreConfigStatus(d)
      PROVE  FillInv'
  <2>1. PICK r : r.step \notin {"slot", "write"} /\ desk' = [desk EXCEPT ![d] = r]
    BY <1>4, OtherRequest
  <2>2. UNCHANGED questions
    BY <1>4 DEF LoadBlueprint, LoadConfig, Asked, LoadForConfig, StoreBlueprint, StoreConfig,
       StoreConfigStatus, bankVars
  <2> QED BY <1>0, <2>1, <2>2, OneDeskFills, FillStep DEF Generating
<1>5. ASSUME NEW d \in Desks, Generate(d) \/ WritePaper(d) PROVE FillInv'
  <2>1. PICK r : /\ desk' = [desk EXCEPT ![d] = r]
                 /\ \/ r.step \notin {"slot", "write"}
                    \/ /\ r.step = "slot" /\ r.chosen = << <<>> >> /\ r.slot = 1
                       /\ r.at \in DOMAIN configs
    BY <1>5, FirstRequest
  <2>2. UNCHANGED questions
    BY <1>5 DEF Generate, WritePaper, bankVars
  <2>3. Generating(r) => r.at \in DOMAIN configs /\ Filling(r, SectionsAt(r.at), questions)
    BY <2>1, FirstFills DEF Generating
  <2> QED BY <1>0, <2>1, <2>2, <2>3, OneDeskFills, FillStep
<1>6. ASSUME NEW d \in Desks, FillSlot(d) PROVE FillInv'
  BY <1>0, <1>6, FillSlotFills, FillStep
<1>7. ASSUME BankStep \/ CreateBlueprint \/ Approve \/ UNCHANGED vars
      PROVE  UNCHANGED <<questions, desk>> \/ (BankStep /\ questions' # questions)
  BY <1>7 DEF BankStep, CreateBlueprint, Approve, vars, bankVars, paperVars
<1> QED BY <1>1, <1>2, <1>3, <1>4, <1>5, <1>6, <1>7 DEF Next

\* No request generates at the start.
LEMMA InitFill == Init => FillInv
BY FreeIs DEF Init, FillInv, Filling, Generating

\* Enough questions are enough, for any bank and blueprint: however early slots are
\* filled, each question they take was for such a slot, so the last slot finds one.
THEOREM EnoughFills == Spec => []EnoughIsFilled
<1>1. PapersInv /\ FillInv => EnoughIsFilled
  <2> SUFFICES ASSUME PapersInv, FillInv, NEW d \in Desks,
                      desk[d].step = "write", desk[d].steady,
                      Suffices(Design(d).sections, questions),
                      NEW s \in DOMAIN Design(d).sections
               PROVE  Len(desk[d].chosen[s]) = Design(d).sections[s].count
    BY Zenon DEF EnoughIsFilled, Suffices
  <2>1. Design(d).sections = SectionsAt(desk[d].at)
    BY DEF Design, SectionsAt, DesignAt, DesignIn
  <2>2. \A t \in DOMAIN desk[d].chosen : Len(desk[d].chosen[t]) = Design(d).sections[t].count
    BY <2>1 DEF FillInv, Filling, Generating
  <2>3. s \in DOMAIN desk[d].chosen
    <3>1. Assembling(desk[d], DesignAt(desk[d].at))
      BY DEF PapersInv
    <3>2. /\ IsSeq(desk[d].chosen) /\ Len(desk[d].chosen) = Len(SectionsAt(desk[d].at))
      BY <3>1 DEF Assembling, ShapeOf, SectionsAt
    <3> QED BY <2>1, <3>2, AppendIs
  <2> QED BY <2>2, <2>3
<1>2. Init => BankInv
  BY InitBank DEF Init
<1> QED BY <1>1, <1>2, InitStatus, InitPapers, InitFill, StepStatus, StepBank, StepPapers,
           StepFill, PTL DEF Spec

=============================================================================
