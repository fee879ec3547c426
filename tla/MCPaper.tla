-------------------------------- MODULE MCPaper --------------------------------
(***************************************************************************)
(* A small instance of PaperGeneration for TLC: two questions of each of two   *)
(* types, blueprints of one to three sections that are met, missed, met only if  *)
(* no question is taken that a later slot needs, or met section by section with  *)
(* marks that are those of another section of the same label.                  *)
(***************************************************************************)
EXTENDS PaperGeneration

Q(type, id, chapter, topic, bloom, difficulty, marks, status) ==
  [type |-> type, id |-> id, chapter |-> chapter, topic |-> topic, bloom |-> bloom,
   difficulty |-> difficulty, marks |-> marks, status |-> status, version_no |-> 1]

MCBank ==
  <<Q("OBJECTIVE", 1, 1, 1, "REMEMBER", "EASY", 1, "ACTIVE"),
    Q("OBJECTIVE", 2, 2, 2, "UNDERSTAND", "EASY", 2, "ACTIVE"),
    Q("SUBJECTIVE", 1, 1, 1, "ANALYZE", "EASY", 2, "ACTIVE")>>

MCDrafts ==
  {[type |-> "OBJECTIVE", chapter |-> 1, topic |-> 1, bloom |-> "UNDERSTAND",
    difficulty |-> "MEDIUM", marks |-> 1]}

MCEdits == {("marks" :> 2)}

\* In the order JSONB keeps the keys.
Mix(easy, medium, hard) == << <<"EASY", easy>>, <<"HARD", hard>>, <<"MEDIUM", medium>> >>

Sec(label, type, marks, count, mix, bloom) ==
  [label |-> label, type |-> type, marks |-> marks, count |-> count,
   difficulty |-> mix, bloom |-> bloom]

\* Two sections of one type with different marks and one of another type; a
\* section whose marks one question can have, with a bloom level; three sections
\* that share a label, of which the last says 2 marks for each.
MCDesigns ==
  {[total |-> 5, sections |-> <<Sec("A", "OBJECTIVE", 1, 1, Mix(100, 0, 0), <<>>),
                                Sec("B", "OBJECTIVE", 2, 1, Mix(100, 0, 0), <<>>),
                                Sec("C", "SUBJECTIVE", 2, 1, Mix(100, 0, 0), <<>>)>>],
   [total |-> 2, sections |-> <<Sec("A", "OBJECTIVE", 2, 2, Mix(100, 0, 0),
                                    << <<"UNDERSTAND", 100>> >>)>>],
   [total |-> 6, sections |-> <<Sec("A", "OBJECTIVE", 1, 1, Mix(100, 0, 0), <<>>),
                                Sec("A", "OBJECTIVE", 3, 1, Mix(100, 0, 0), <<>>),
                                Sec("A", "SUBJECTIVE", 2, 1, Mix(100, 0, 0), <<>>)>>]}

\* Everything MEDIUM.
MCMedium == {[total |-> 1, sections |-> <<Sec("A", "OBJECTIVE", 1, 1, Mix(0, 100, 0), <<>>)>>]}

\* Three beginnings: no blueprint, and a bank at rest; a configuration of an active
\* blueprint, whose status no longer changes, while the bank does, a little (once for
\* the blueprint that repeats a label: one edit gives the marks); the bank alone, for
\* longer histories of its questions.
Begun(ops, designs, configurations, asked) ==
  /\ questions = Bank
  /\ versions = [i \in DOMAIN Bank |-> FirstVersion(Bank[i])]
  /\ clerk = [c \in Clerks |-> AtRest]
  /\ bankOps = ops
  /\ blueprints = designs /\ configs = configurations /\ turns = asked
  /\ papers = <<>>
  /\ desk = [d \in Desks |-> Free]

Changes(design) == IF design.total = 6 THEN 1 ELSE 2

Beginning ==
  \/ Begun(MaxBankOps, <<>>, <<>>, 0)
  \/ \E design \in Designs, chapters \in Chapters :
       Begun(MaxBankOps - Changes(design),
             <<[design |-> design, status |-> "ACTIVE"]>>,
             <<[blueprint |-> 1, chapters |-> chapters, status |-> "ACTIVE"]>>, MaxTurns)
  \/ Begun(0, <<>>, <<>>, MaxTurns)

BegunSpec == Beginning /\ [][Next]_vars

\* Requests are interchangeable.
Symmetry == Permutations(Clerks) \cup Permutations(Desks)

=============================================================================
