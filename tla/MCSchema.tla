------------------------------- MODULE MCSchema --------------------------------
(***************************************************************************)
(* Schema with two alembic commands at once.                                 *)
(***************************************************************************)
EXTENDS Schema, TLC

\* What SchemaProofs asks of the three migrations: each of the twelve commands, alone,
\* is refused nothing and ends at the revision it was asked for.
ASSUME ScriptsAssumption == AllRight

Symmetry == Permutations(Runners)

=============================================================================
