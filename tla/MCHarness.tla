----------------------------- MODULE MCHarness -----------------------------
(***************************************************************************)
(* A small instance of FuzzHarness: three threads and every environment.   *)
(* 259 is a code whose low eight bits are 3; -1, the default of a failed   *)
(* assertion, has eight bits too.                                          *)
(***************************************************************************)
EXTENDS FuzzHarness

CONSTANTS main, t1, t2

MCThreads == {main, t1, t2}
=============================================================================
