------------------------------- MODULE MCTool -------------------------------
(***************************************************************************)
(* WitnessInject as a process: two source files, items that name either of *)
(* them, absolutely or relatively, flawed items, failures at every step,   *)
(* and the death of the process at any time.                               *)
(***************************************************************************)
EXTENDS WitnessInject, CSource

MCAbsoluteNames == {"/w/a.c", "/w/b.c"}
MCRelativeNames == {"b.c"}
MCJoined        == [n \in MCRelativeNames |-> "/w/b.c"]
MCSources       == <<"/w/a.c", "/w/b.c">>

\* if (x) while (x) { x; } return x; with witnesses that name the while
\* loop, and a position inside the token `return', from which the search goes
\* on to the token after it.
MCPrograms ==
    LET p == Unit(1, <<Block(<<If(While(Block(<<X>>))), Return>>)>>)
        at(text) == (CHOOSE i \in DOMAIN p.tok : p.tok[i].text = text)
    IN  {[p EXCEPT !.witnessed = {p.tok[at("while")].at, p.tok[at("return")].at + 1}]}
=============================================================================
