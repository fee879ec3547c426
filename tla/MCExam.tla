-------------------------------- MODULE MCExam --------------------------------
(***************************************************************************)
(* Small instances of ExamManagement for TLC.                               *)
(***************************************************************************)
EXTENDS ExamManagement, TLC

\* Workers are interchangeable; used by the runs without temporal properties.
Symmetry == Permutations(Workers)

\* The exam once it is published, reached by create, configure, generate,
\* approve and publish: the races of starts and submissions begin here.
Published(type) ==
  /\ exam = [status |-> "PUBLISHED", type |-> type,
             config |-> CHOOSE c \in Configs : TRUE, code |-> TRUE]
  /\ history = <<[from |-> Fresh, to |-> "DRAFT"],
                 [from |-> "DRAFT", to |-> "CONFIGURED"],
                 [from |-> "CONFIGURED", to |-> "PAPER_GENERATED"],
                 [from |-> "PAPER_GENERATED", to |-> "TEACHER_REVIEWING"],
                 [from |-> "TEACHER_REVIEWING", to |-> "APPROVED"],
                 [from |-> "APPROVED", to |-> "PUBLISHED"]>>
  /\ papers = <<[config |-> exam.config, owner |-> Shared]>>
  /\ seats = [s \in Students |-> NoSeat]
  /\ attempts = <<>>
  /\ submitted = <<>>
  /\ task = [w \in Workers |-> Idle]

PublishedSpec == (Published("REGULAR") \/ Published("MOCK")) /\ [][Next]_vars

=============================================================================
