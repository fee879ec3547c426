------------------------------ MODULE MCReporting ------------------------------
(***************************************************************************)
(* A small instance of Reporting for TLC: a student with two attempts of an    *)
(* exam, the fewest failures that put one at risk, and a student with one.     *)
(***************************************************************************)
EXTENDS Reporting

CONSTANTS s1, s2, a1, a2, a3

MCAttempts == (s1 :> {a1, a2}) @@ (s2 :> {a3})

=============================================================================
