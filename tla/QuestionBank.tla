------------------------------ MODULE QuestionBank ------------------------------
(***************************************************************************)
(* The question bank (modules/question_bank): questions of three types in     *)
(* three tables, their numbered versions, and the search that paper           *)
(* generation draws its candidates from.                                      *)
(*                                                                         *)
(* A question is edited in place: a request loads it, and at its commit the    *)
(* columns that differ from the loaded copy are written, whatever another      *)
(* request wrote in between.                                                  *)
(***************************************************************************)
EXTENDS Integers, Sequences, FiniteSets, SequencesExt, TLC

CONSTANTS
  Clerks,       \* requests that may be in flight on the bank
  Drafts,       \* the questions that may be entered
  Edits,        \* the updated_data of a new version: some columns with their values
  Targets,      \* the statuses that may be asked for
  Bank,         \* the questions there are at the start
  PageSize,     \* the questions of a page of search results
  MaxBankOps    \* bound: requests on the bank

Types            == <<"OBJECTIVE", "SUBJECTIVE", "FILL_BLANK">>
Difficulties     == {"EASY", "MEDIUM", "HARD"}
QuestionStatuses == {"DRAFT", "NEEDS_REVIEW", "ACTIVE", "ARCHIVED"}

Question == [type : Range(Types), id : Nat, chapter : Nat, topic : Nat, bloom : STRING,
             difficulty : Difficulties, marks : Nat, status : QuestionStatuses,
             version_no : Nat]

ASSUME BankAssumption ==
  /\ Bank \in Seq(Question)
  /\ \A i, j \in DOMAIN Bank :
       Bank[i].type = Bank[j].type /\ Bank[i].id = Bank[j].id => i = j
  /\ \A i \in DOMAIN Bank :           \* as the sequence of each table numbers its rows
       Bank[i].id \in 1 .. Cardinality({j \in DOMAIN Bank : Bank[j].type = Bank[i].type})
  /\ \A i \in DOMAIN Bank : Bank[i].version_no = 1
  /\ \A e \in Edits : DOMAIN e \subseteq {"difficulty", "marks", "status"}
  /\ Targets \subseteq QuestionStatuses
  /\ PageSize \in Nat \ {0} /\ MaxBankOps \in Nat

VARIABLES
  questions,   \* objective_questions, subjective_questions, fill_blank_questions
  versions,    \* question_versions
  clerk,       \* the requests on the bank
  bankOps      \* how many there were

bankVars == <<questions, versions, clerk, bankOps>>

NoEdit == [c \in {} |-> 0]
AtRest == [step |-> "idle", at |-> 0, loaded |-> NoEdit, data |-> NoEdit]

FirstVersion(q) ==
  [type |-> q.type, id |-> q.id, version_no |-> 1, is_current |-> TRUE,
   snapshot |-> [difficulty |-> q.difficulty, marks |-> q.marks, status |-> q.status]]

BankInit ==
  /\ questions = Bank
  /\ versions = [i \in DOMAIN Bank |-> FirstVersion(Bank[i])]
  /\ clerk = [c \in Clerks |-> AtRest]
  /\ bankOps = 0

-----------------------------------------------------------------------------
(* Entering questions.                                                       *)

\* Each type has its own table and ids.
NextId(rows, type) == 1 + Cardinality({i \in DOMAIN rows : rows[i].type = type})

Entered(rows, draft) ==
  Append(rows, [type |-> draft.type, id |-> NextId(rows, draft.type),
                chapter |-> draft.chapter, topic |-> draft.topic, bloom |-> draft.bloom,
                difficulty |-> draft.difficulty, marks |-> draft.marks,
                status |-> "DRAFT", version_no |-> 1])

Counted == /\ bankOps < MaxBankOps
           /\ bankOps' = bankOps + 1

\* A question is never refused as a duplicate: a match is only logged.
Create ==
  /\ Counted
  /\ \E draft \in Drafts :
       /\ draft.marks > 0
       /\ questions' = Entered(questions, draft)
       /\ versions' = Append(versions, FirstVersion(Last(questions')))
  /\ UNCHANGED clerk

\* What the parser makes of a paragraph of a DOCX file.
Parsed(draft) == draft.type = "OBJECTIVE" /\ draft.difficulty = "MEDIUM"
                 /\ draft.bloom = "UNDERSTAND" /\ draft.marks = 1

\* The items of a file are entered in one transaction.
Import ==
  /\ Counted
  /\ \E first, second \in {d \in Drafts : Parsed(d)} :
       LET one == Entered(questions, first)
           two == Entered(one, second)
       IN /\ questions' = two
          /\ versions' = versions \o <<FirstVersion(Last(one)), FirstVersion(Last(two))>>
  /\ UNCHANGED clerk

-----------------------------------------------------------------------------
(* Changing a question.                                                      *)

\* The columns of data that differ from the loaded copy.
Written(row, loaded, data) ==
  [c \in DOMAIN row |-> IF c \in DOMAIN data /\ data[c] # loaded[c] THEN data[c] ELSE row[c]]

LoadForVersion(c) ==
  /\ clerk[c].step = "idle"
  /\ Counted
  /\ \E i \in DOMAIN questions, data \in Edits :
       clerk' = [clerk EXCEPT ![c] = [step |-> "version", at |-> i,
                                      loaded |-> questions[i], data |-> data]]
  /\ UNCHANGED <<questions, versions>>

\* updated_dict: the data with the number of the new version.
Numbered(data, no) ==
  [c \in DOMAIN data \cup {"version_no"} |-> IF c = "version_no" THEN no ELSE data[c]]

StoreVersionTwice(c) ==               \* mutant: numbered after the update, once more
  /\ clerk[c].step = "version"
  /\ LET r  == clerk[c]
         no == r.loaded.version_no + 1
     IN /\ questions' = [questions EXCEPT ![r.at] = Written(@, r.loaded, Numbered(r.data, no))]
        /\ versions' = Append(versions,
             [type |-> r.loaded.type, id |-> r.loaded.id, version_no |-> no + 1,
              is_current |-> TRUE, snapshot |-> r.data])
  /\ clerk' = [clerk EXCEPT ![c] = AtRest]
  /\ UNCHANGED bankOps

\* create_version numbers from the copy it loaded and leaves the older versions
\* current; the snapshot holds what was changed.
StoreVersion(c) ==
  /\ clerk[c].step = "version"
  /\ LET r  == clerk[c]
         no == r.loaded.version_no + 1
     IN /\ questions' = [questions EXCEPT ![r.at] = Written(@, r.loaded, Numbered(r.data, no))]
        /\ versions' = Append(versions,
             [type |-> r.loaded.type, id |-> r.loaded.id, version_no |-> no,
              is_current |-> TRUE, snapshot |-> r.data])
  /\ clerk' = [clerk EXCEPT ![c] = AtRest]
  /\ UNCHANGED bankOps

\* The one change of status that is refused, on the copy that was loaded.
Unreviewed(loaded, status) == loaded.status = "NEEDS_REVIEW" /\ status = "ACTIVE"

LoadForStatus(c) ==
  /\ clerk[c].step = "idle"
  /\ Counted
  /\ \E i \in DOMAIN questions, status \in Targets :
       /\ ~Unreviewed(questions[i], status)
       /\ clerk' = [clerk EXCEPT ![c] = [step |-> "status", at |-> i,
                                         loaded |-> questions[i],
                                         data |-> [status |-> status]]]
  /\ UNCHANGED <<questions, versions>>

StoreStatus(c) ==
  /\ clerk[c].step = "status"
  /\ LET r == clerk[c]
     IN questions' = [questions EXCEPT ![r.at] = Written(@, r.loaded, r.data)]
  /\ clerk' = [clerk EXCEPT ![c] = AtRest]
  /\ UNCHANGED <<versions, bankOps>>

BankNext ==
  \/ Create \/ Import
  \/ \E c \in Clerks : LoadForVersion(c) \/ StoreVersion(c) \/ LoadForStatus(c) \/ StoreStatus(c)

-----------------------------------------------------------------------------
(* Searching.                                                                *)

\* The ACTIVE questions of any type with a difficulty and, if given, a bloom level.
Matching(rows, difficulty, bloom) ==
  {q \in Range(rows) : /\ q.status = "ACTIVE"
                       /\ q.difficulty = difficulty
                       /\ bloom = "none" \/ q.bloom = bloom}

Place(type) == CHOOSE p \in DOMAIN Types : Types[p] = type

\* The first page of a search: objective questions come before subjective ones
\* and those before fill-in-the-blank ones; within a type no order is asked for.
FirstPages(found) ==
  {page \in SUBSET found :
     /\ Cardinality(page) = IF Cardinality(found) < PageSize THEN Cardinality(found) ELSE PageSize
     /\ \A in \in page, out \in found \ page : Place(in.type) <= Place(out.type)}

-----------------------------------------------------------------------------
(* Properties.                                                               *)

VersionsOf(q) == {v \in Range(versions) : v.type = q.type /\ v.id = q.id}

\* The versions of a question are numbered from 1 without a gap, and the number
\* the question carries is one of theirs, whatever edits interleave: a number may
\* be given twice, and a late edit may turn the question's own number back, but
\* none is skipped (create_version).
VersionsRunOn ==
  \A q \in Range(questions) : \E n \in 1 .. Len(versions) :
    {v.version_no : v \in VersionsOf(q)} = 1 .. n /\ q.version_no \in 1 .. n

=============================================================================
