----------------------------- MODULE MCSession -----------------------------
(***************************************************************************)
(* One session of run_svcomp_fuzz.py.                                      *)
(***************************************************************************)
EXTENDS SvcompSession

\* Bounds the instance: what a session writes over and does not read is no
\* archive, or a whole one, with any number of crashes.
OverwrittenIsPlain ==
    \A n \in Places : ~(Resuming /\ n = "given") =>
        stored[n] = NoArchive \/ (stored[n].form = "whole" /\ stored[n].program = "program")
=============================================================================
