------------------------------- MODULE MCMastery -------------------------------
(***************************************************************************)
(* A small instance of Mastery for TLC: two topics in two chapters, and      *)
(* sheets that mark none of them, or both, in opposite orders, one twice.    *)
(***************************************************************************)
EXTENDS Mastery

SmallChapterOf ==
  [t \in Topics |-> IF t = "fractions" THEN "numbers" ELSE "algebra"]

\* The last two take the locks of two topics in opposite orders.
SmallSheets ==
  { <<>>,
    << <<"fractions", 10000>>, <<"equations", 5000>> >>,
    << <<"equations", 0>>, <<"fractions", 10000>>, <<"equations", 10000>> >> }

=============================================================================
