------------------------------- MODULE MCErpSync -------------------------------
(***************************************************************************)
(* A small instance of ErpSync: pages of one record, a list of two that       *)
(* shrinks, a list that is empty, a parent that is deleted or not there yet,  *)
(* a date that cannot be parsed, a student the database refuses.             *)
(***************************************************************************)
EXTENDS ErpSync

SmallOrder == <<"school", "session", "student">>

NoParents == [p \in {} |-> "none"]

School(i, deleted) ==
  [id |-> i, parents |-> NoParents, user |-> "none", deleted |-> deleted, fault |-> "none"]

Session(i, school, fault) ==
  [id |-> i, parents |-> [p \in {"school"} |-> school], user |-> "none",
   deleted |-> FALSE, fault |-> fault]

Student(i, user, deleted, fault) ==
  [id |-> i, parents |-> NoParents, user |-> user, deleted |-> deleted, fault |-> fault]

Feed(schools, sessions, students) ==
  [e \in Entities |-> CASE e = "school" -> schools [] e = "session" -> sessions
                        [] e = "student" -> students]

SmallFeeds ==
  { Feed(<<School("a", TRUE), School("b", FALSE)>>,
         <<Session("a", "b", "none"), Session("b", "a", "date")>>,
         <<Student("a", "u", FALSE, "none")>>),
    Feed(<<School("a", FALSE)>>,
         <<>>,
         <<Student("a", "u", TRUE, "none"), Student("b", "none", FALSE, "none")>>) }

=============================================================================
