------------------------------ MODULE MCInject ------------------------------
(***************************************************************************)
(* WitnessInject on real C: one source file, one of a set of small C       *)
(* functions, and witnesses that name the starts of its statements.        *)
(***************************************************************************)
EXTENDS WitnessInject, CSource

MCAbsoluteNames == {"/w/a.c"}
MCRelativeNames == {}
MCJoined        == <<>>
MCSources       == <<"/w/a.c">>

\* Braced control flow, as CIL and most of examples/ write it: every kind of
\* statement a location invariant may stand before, nested loops, a switch,
\* labels, several functions.
Braced ==
    { <<Block(<<X, While(Block(<<X, X>>)), Return>>)>>,
      <<Block(<<Local, For(Block(<<X, If(Block(<<X>>))>>)), X>>)>>,
      <<Block(<<Do(Block(<<X, While(Block(<<>>))>>)), Return>>)>>,
      <<Block(<<IfElse(Block(<<X>>), Block(<<For(Block(<<X>>))>>)), X>>)>>,
      <<Block(<<Switch(Block(<<Case(X), Case(Case(X)), Default(Return)>>)), X>>)>>,
      <<Block(<<Label(While(Block(<<X, For(Block(<<Local>>))>>))), X>>)>>,
      <<Block(<<While(Block(<<X>>))>>), Block(<<Block(<<X>>), Return>>)>> }

\* Statements without braces of their own, which the injector braces.
Unbraced ==
    { <<Block(<<If(X), Null, X>>)>>,
      <<Block(<<If(While(Block(<<X>>))), Return>>)>>,
      <<Block(<<IfElse(Block(<<X>>), If(For(X))), X>>)>>,
      <<Block(<<For(If(Return)), If(Do(Block(<<X>>)))>>)>>,
      <<Block(<<IfElse(Block(<<X>>), While(Block(<<If(X)>>))), For(Null)>>)>> }

MCPrograms == {Unit(1, bodies) : bodies \in Braced \cup Unbraced}

\* The units are laid out the way the theorem on the search assumes.
ASSUME LaidOut == StatementsNamed

\* Code the injector does not serve, to be given to Programs in MCLoopBody.cfg:
\* an unbraced body of a loop (LoopChecked fails), an unbraced branch before an
\* else and a loop without increment (SyntaxPreserved), a macro call
\* (LocationChecked), and braced code without white space (LoopChecked).
LoopWithoutBraces == {Unit(1, <<Block(<<While(X), X>>)>>)}
BranchBeforeElse  == {Unit(1, <<Block(<<IfElse(X, X)>>)>>)}
EndlessFor        == {Unit(1, <<Block(<<ForEver(Block(<<X>>))>>)>>)}
MacroStatement    == {Unit(1, <<Block(<<Macro, X>>)>>)}
OneLine           == {Unit(0, <<Block(<<If(Block(<<X>>)), While(Block(<<X>>))>>)>>)}

\* The undisturbed runs: nothing fails, dies or is reported (MCTool has those).
Undisturbed == phase' \notin {"aborted", "killed"} /\ ~failed' /\ status' # 1 /\ ~yamlError'
UndisturbedSpec == Init /\ [][Next /\ Undisturbed]_vars

-----------------------------------------------------------------------------
\* The original and the rewritten text of the file, parsed.
Before(f) == Parse(prog[f], <<>>)
After(f)  == Parse(prog[f], disk[f])

Written(f) == disk[f] # Original

\* An invariant the tool may pass over: --skip-switch-cases was given.
Skipped(f, inv) ==
    /\ skipSwitchcases
    /\ prog[f].tok[TokenAt(prog[f], witness[inv].loc)].text \in {"case", "default"}

\* inject.cpp:112-124: wherever a statement stands, putting assertions and
\* braces around it leaves a text that still parses.
SyntaxPreserved == \A f \in Files : Written(f) => After(f).ok

\* The injected program is the original one: the same statements, nested under
\* the same conditions and loops, in the same order, with assertions added.
SkeletonPreserved ==
    \A f \in Files : Written(f) /\ After(f).ok =>
        Skeleton(After(f).out) = Before(f).out

\* A location invariant is asserted exactly where the witness states it: right
\* before the statement that starts at its position, whenever that is reached.
LocationChecked ==
    \A f \in Files : Written(f) /\ After(f).ok => \A k \in DOMAIN witness :
        witness[k].type = "location_invariant" /\ ~Skipped(f, k) =>
            CheckedBefore(After(f).out, k, TokenAt(prog[f], witness[k].loc))

\* A loop invariant is asserted at the end of each iteration of its loop, and
\* for while and do loops also right before the loop.
LoopChecked ==
    \A f \in Files : Written(f) /\ After(f).ok => \A k \in DOMAIN witness :
        LET id == TokenAt(prog[f], witness[k].loc)
        IN  witness[k].type = "loop_invariant" /\ prog[f].tok[id].text \in {"for", "while", "do"}
            => /\ CheckedAtEnd(After(f).out, k, id)
               /\ prog[f].tok[id].text = "for" \/ CheckedBefore(After(f).out, k, id)
=============================================================================
