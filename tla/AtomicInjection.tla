-------------------------- MODULE AtomicInjection --------------------------
(***************************************************************************)
(* What a run of witness_inject promises, without a word of how it works:  *)
(* what each file is asked to hold is settled before any file is written;  *)
(* a file changes at most once, from its original to all of what it was    *)
(* asked to hold; status 0 says that every file holds what it was asked.   *)
(* The run may stop for good at any point.                                 *)
(***************************************************************************)
CONSTANTS
    Files,
    Contents,     \* what a file may hold besides its original
    Original,
    NoStatus      \* the run has not exited by itself

VARIABLES
    asked,        \* per file: what the witness asks it to hold
    text,         \* per file: what it holds
    status

vars == <<asked, text, status>>

Untouched == [f \in Files |-> Original]

Init == asked = Untouched /\ text = Untouched /\ status = NoStatus

\* The witness is read.
Ask ==
    /\ asked = Untouched /\ text = Untouched /\ status = NoStatus
    /\ asked' \in [Files -> Contents]
    /\ UNCHANGED <<text, status>>

Write(f) ==
    /\ status = NoStatus /\ text[f] = Original
    /\ text' = [text EXCEPT ![f] = asked[f]]
    /\ UNCHANGED <<asked, status>>

Exit ==
    /\ status = NoStatus
    /\ \/ status' = 1
       \/ status' = 0 /\ text = asked
    /\ UNCHANGED <<asked, text>>

Next == Ask \/ (\E f \in Files : Write(f)) \/ Exit

Spec == Init /\ [][Next]_vars
=============================================================================
