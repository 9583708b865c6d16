------------------------------ MODULE MCNondet ------------------------------
(***************************************************************************)
(* Values of one, two, three and four bytes.                               *)
(***************************************************************************)
EXTENDS Nondet

MCTypes == {"bool", "short", "memory3", "int", "rand"}
=============================================================================
