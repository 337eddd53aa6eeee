------------------------------ MODULE MCKjoring ------------------------------
(* Small instances of Kjoring: two kommuner, two to four versions of each, two faults. *)
EXTENDS Kjoring
=============================================================================
