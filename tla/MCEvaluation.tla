----------------------------- MODULE MCEvaluation -----------------------------
(***************************************************************************)
(* Small instances of Evaluation for TLC: one OMR question, one question    *)
(* only a teacher marks.                                                    *)
(***************************************************************************)
EXTENDS Evaluation, TLC

\* Workers are interchangeable; used by the runs without temporal properties.
Symmetry == Permutations(Workers)

=============================================================================
