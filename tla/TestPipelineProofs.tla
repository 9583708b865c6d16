------------------------- MODULE TestPipelineProofs -------------------------
(***************************************************************************)
(* The provenance of what is tested, for any number of edits, failures,    *)
(* kills and repeated stages.                                              *)
(***************************************************************************)
EXTENDS TestPipeline, TLAPS

\* While a stage writes a file, what the stages before have left of it is void.
Chain ==
    /\ pc = "goblint" => injected.at = "copy"
    /\ inOrder = "goblint" /\ pc \notin {"goblint", "format"} =>
          injected.at = "copy" /\ witness = injected
    /\ inOrder = "goblint" /\ pc = "format" => injected.at = "injected"
    /\ inOrder = "inject" /\ pc \notin {"goblint", "format"} => injected.at = "formatted"
    /\ inOrder = "cleanup" /\ pc # "erase" => clean.at = "formatted"
    /\ inOrder = "cleanup" /\ pc = "exe" => exe.text.at = "formatted"
    /\ inOrder = "run" /\ pc = "passed" => exe.text.at = "formatted" /\ exe.passed

\* A run of all stages has passed those before the one it is in.
AllInOrder ==
    stage = "all" =>
        /\ pc \in {"inject", "format"} => inOrder = "goblint"
        /\ pc \in {"open", "erase"} => inOrder = "inject"
        /\ pc \in {"compile", "exe"} => inOrder = "cleanup"
        /\ pc = "passed" => inOrder = "run"

\* The script runs for make, or has been started by hand.
MakeRunsAll ==
    /\ maker # "none" => stage = "all" /\ pc \in Commands \cup {"passed"} /\ ~UpToDate
    /\ maker = "none" /\ pc \in Commands \cup {"passed"} => byHand

\* Of an undisturbed run of make, each file comes from the one before.
Undisturbed == maker # "none" /\ ~raced
Derived ==
    Undisturbed =>
        /\ conf.listed = inputs["listed"]
        /\ pc # "copy" => injected.of = inputs["source"]
        /\ pc \in {"compile", "exe", "passed"} => clean.of = inputs["source"] /\ clean.at = "formatted"
        /\ pc \in {"exe", "passed"} => exe.text = clean /\ exe.conf = conf

\* The clean file outlives .done if nobody touches it.
CleanIsTested ==
    /\ pc = "passed" /\ maker # "none" => exe.text = clean
    /\ pc = "exe" /\ maker # "none" => exe.text = clean
    /\ UpToDate /\ ~byHand => clean = done.text

Running == Chain /\ AllInOrder /\ MakeRunsAll /\ Derived
Resting == CleanIsTested /\ UpToDateIsTested /\ FuzzedIsTested
IInv    == TypeOK /\ Running /\ Resting

-----------------------------------------------------------------------------
LEMMA ConstantTypes ==
    /\ Absent \in Texts /\ Broken \in Texts /\ Other \in Texts
    /\ NoConf \in Confs /\ NoTest \in Tests
  BY EditsAssumption DEF Versions, Texts, Confs, Tests, Absent, Broken, Other, NoConf, NoTest

LEMMA InitSafe == Init => IInv
<1> SUFFICES ASSUME Init PROVE IInv
  OBVIOUS
<1>1. 0 \in Versions
  BY EditsAssumption DEF Versions
<1>2. TypeOK
  BY <1>1, ConstantTypes DEF Init, TypeOK, Stages
<1>3. ~UpToDate /\ ~AflUpToDate
  BY DEF Init, UpToDate, AflUpToDate
<1>4. Running
  BY <1>3 DEF Init, Running, Chain, AllInOrder, MakeRunsAll, Derived, Undisturbed, Commands
<1>5. Resting
  BY <1>3 DEF Init, Resting, CleanIsTested, UpToDateIsTested, FuzzedIsTested
<1> QED
  BY <1>2, <1>4, <1>5 DEF IInv

-----------------------------------------------------------------------------
(* One lemma for each step of the script, of make, and of the user.        *)

LEMMA CopySafe == IInv /\ Copy => IInv'
<1> SUFFICES ASSUME IInv, Copy PROVE IInv'
  OBVIOUS
<1> USE DEF IInv, Copy, Then, past, Commands, files, rules, run
<1>1. TypeOK'
  BY ConstantTypes DEF TypeOK, Stages, Texts, Tests, Confs, Inputs
<1>2. Running'
  BY DEF TypeOK, Running, Chain, AllInOrder, MakeRunsAll, Derived, Undisturbed, UpToDate
<1>3. Resting'
  BY DEF TypeOK, Running, Chain, AllInOrder, MakeRunsAll, Derived, Undisturbed,
     Resting, CleanIsTested, UpToDateIsTested, FuzzedIsTested, UpToDate, AflUpToDate, Faithful
<1> QED
  BY <1>1, <1>2, <1>3

LEMMA GoblintSafe == IInv /\ Goblint => IInv'
<1> SUFFICES ASSUME IInv, Goblint PROVE IInv'
  OBVIOUS
<1> USE DEF IInv, Goblint, StageEnds, First, Follows, Commands, files, rules, run
<1>1. TypeOK'
  BY ConstantTypes DEF TypeOK, Stages, Texts, Tests, Confs, Inputs
<1>2. Running'
  <2> USE DEF TypeOK, Undisturbed, UpToDate
  <2>1. Chain'
    BY DEF Running, Chain
  <2>2. AllInOrder' /\ MakeRunsAll'
    BY DEF Running, AllInOrder, MakeRunsAll
  <2>3. Derived'
    BY DEF Running, Derived, MakeRunsAll
  <2> QED
    BY <2>1, <2>2, <2>3 DEF Running
<1>3. Resting'
  BY DEF TypeOK, Running, Chain, AllInOrder, MakeRunsAll, Derived, Undisturbed,
     Resting, CleanIsTested, UpToDateIsTested, FuzzedIsTested, UpToDate, AflUpToDate, Faithful
<1> QED
  BY <1>1, <1>2, <1>3

LEMMA InjectSafe == IInv /\ Inject => IInv'
<1> SUFFICES ASSUME IInv, Inject PROVE IInv'
  OBVIOUS
<1> USE DEF IInv, Inject, Then, Injection, past, Commands, files, rules, run
<1>1. TypeOK'
  BY ConstantTypes DEF TypeOK, Stages, Texts, Tests, Confs, Inputs
<1>2. Running'
  BY DEF TypeOK, Running, Chain, AllInOrder, MakeRunsAll, Derived, Undisturbed, UpToDate
<1>3. Resting'
  BY DEF TypeOK, Running, Chain, AllInOrder, MakeRunsAll, Derived, Undisturbed,
     Resting, CleanIsTested, UpToDateIsTested, FuzzedIsTested, UpToDate, AflUpToDate, Faithful
<1> QED
  BY <1>1, <1>2, <1>3

LEMMA FormatSafe == IInv /\ Format => IInv'
<1> SUFFICES ASSUME IInv, Format PROVE IInv'
  OBVIOUS
<1> USE DEF IInv, Format, StageEnds, First, Follows, Commands, files, rules, run
<1>1. TypeOK'
  BY ConstantTypes DEF TypeOK, Stages, Texts, Tests, Confs, Inputs
<1>2. Running'
  BY DEF TypeOK, Running, Chain, AllInOrder, MakeRunsAll, Derived, Undisturbed, UpToDate
<1>3. Resting'
  BY DEF TypeOK, Running, Chain, AllInOrder, MakeRunsAll, Derived, Undisturbed,
     Resting, CleanIsTested, UpToDateIsTested, FuzzedIsTested, UpToDate, AflUpToDate, Faithful
<1> QED
  BY <1>1, <1>2, <1>3

LEMMA OpenSafe == IInv /\ Open => IInv'
<1> SUFFICES ASSUME IInv, Open PROVE IInv'
  OBVIOUS
<1> USE DEF IInv, Open, Then, past, Commands, files, rules, run
<1>1. TypeOK'
  BY ConstantTypes DEF TypeOK, Stages, Texts, Tests, Confs, Inputs
<1>2. Running'
  BY DEF TypeOK, Running, Chain, AllInOrder, MakeRunsAll, Derived, Undisturbed, UpToDate
<1>3. Resting'
  BY DEF TypeOK, Running, Chain, AllInOrder, MakeRunsAll, Derived, Undisturbed,
     Resting, CleanIsTested, UpToDateIsTested, FuzzedIsTested, UpToDate, AflUpToDate, Faithful
<1> QED
  BY <1>1, <1>2, <1>3

LEMMA EraseSafe == IInv /\ Erase => IInv'
<1> SUFFICES ASSUME IInv, Erase PROVE IInv'
  OBVIOUS
<1> USE DEF IInv, Erase, StageEnds, First, Follows, Commands, files, rules, run
<1>1. TypeOK'
  BY ConstantTypes DEF TypeOK, Stages, Texts, Tests, Confs, Inputs
<1>2. Running'
  BY DEF TypeOK, Running, Chain, AllInOrder, MakeRunsAll, Derived, Undisturbed, UpToDate
<1>3. Resting'
  BY DEF TypeOK, Running, Chain, AllInOrder, MakeRunsAll, Derived, Undisturbed,
     Resting, CleanIsTested, UpToDateIsTested, FuzzedIsTested, UpToDate, AflUpToDate, Faithful
<1> QED
  BY <1>1, <1>2, <1>3

LEMMA CompileSafe == IInv /\ Compile => IInv'
<1> SUFFICES ASSUME IInv, Compile PROVE IInv'
  OBVIOUS
<1> USE DEF IInv, Compile, Then, past, Commands, files, rules, run
<1>1. TypeOK'
  BY ConstantTypes DEF TypeOK, Stages, Texts, Tests, Confs, Inputs
<1>2. Running'
  BY DEF TypeOK, Running, Chain, AllInOrder, MakeRunsAll, Derived, Undisturbed, UpToDate
<1>3. Resting'
  BY DEF TypeOK, Running, Chain, AllInOrder, MakeRunsAll, Derived, Undisturbed,
     Resting, CleanIsTested, UpToDateIsTested, FuzzedIsTested, UpToDate, AflUpToDate, Faithful
<1> QED
  BY <1>1, <1>2, <1>3

LEMMA RunExeSafe == IInv /\ RunExe => IInv'
<1> SUFFICES ASSUME IInv, RunExe PROVE IInv'
  OBVIOUS
<1> USE DEF IInv, RunExe, StageEnds, First, Follows, Commands, files, rules, run
<1>1. TypeOK'
  <2>1. exe \in Tests /\ TRUE \in BOOLEAN
    BY DEF TypeOK
  <2>2. exe' \in Tests
    BY <2>1 DEF Tests
  <2> QED
    BY <2>2 DEF TypeOK
<1>2. Running'
  BY DEF TypeOK, Running, Chain, AllInOrder, MakeRunsAll, Derived, Undisturbed, UpToDate
<1>3. Resting'
  BY DEF TypeOK, Running, Chain, AllInOrder, MakeRunsAll, Derived, Undisturbed,
     Resting, CleanIsTested, UpToDateIsTested, FuzzedIsTested, UpToDate, AflUpToDate, Faithful
<1> QED
  BY <1>1, <1>2, <1>3

LEMMA ExitSafe == IInv /\ Exit => IInv'
<1> SUFFICES ASSUME IInv, Exit PROVE IInv'
  OBVIOUS
<1> USE DEF IInv, Exit, Gone, past, Commands, files, rules, run
<1>1. TypeOK'
  BY ConstantTypes DEF TypeOK, Stages, Texts, Tests, Confs, Inputs
<1>2. Running'
  BY DEF TypeOK, Running, Chain, AllInOrder, MakeRunsAll, Derived, Undisturbed, UpToDate
<1>3. Resting'
  BY DEF TypeOK, Running, Chain, AllInOrder, MakeRunsAll, Derived, Undisturbed,
     Resting, CleanIsTested, UpToDateIsTested, FuzzedIsTested, UpToDate, AflUpToDate, Faithful
<1> QED
  BY <1>1, <1>2, <1>3

LEMMA ByHandSafe == IInv /\ ByHand => IInv'
<1> SUFFICES ASSUME IInv, ByHand PROVE IInv'
  OBVIOUS
<1> USE DEF IInv, ByHand, Start, First, Commands, files, rules, run
<1>1. TypeOK'
  BY ConstantTypes DEF TypeOK, Stages, Texts, Tests, Confs, Inputs
<1>2. Running'
  <2>1. pc' \in {"copy", "inject", "open", "compile"} /\ pc = "idle" /\ maker' = "none"
    <3>1. PICK t \in Stages \cup {"all"} : Start(t, "none")
      BY DEF ByHand
    <3>2. First[t] \in {"copy", "inject", "open", "compile"}
      BY <3>1 DEF Stages, First
    <3> QED
      BY <3>1, <3>2 DEF Start
  <2>2. UNCHANGED <<injected, witness, clean, exe, inOrder>> /\ pc' # "passed" /\ byHand'
    BY <2>1 DEF ByHand, Start
  <2>3. (stage' = "all" => pc' = "copy") /\ (Chain /\ AllInOrder)
    BY DEF ByHand, Start, First, Stages, Running
  <2>4. Chain' /\ AllInOrder'
    BY <2>1, <2>2, <2>3 DEF Chain, AllInOrder
  <2> QED
    BY <2>1, <2>2, <2>4 DEF Running, MakeRunsAll, Derived, Undisturbed
<1>3. Resting'
  BY DEF TypeOK, Running, Chain, AllInOrder, MakeRunsAll, Derived, Undisturbed,
     Resting, CleanIsTested, UpToDateIsTested, FuzzedIsTested, UpToDate, AflUpToDate, Faithful
<1> QED
  BY <1>1, <1>2, <1>3

LEMMA MakeSafe == IInv /\ Make => IInv'
<1> SUFFICES ASSUME IInv, Make PROVE IInv'
  OBVIOUS
<1> USE DEF IInv, Make, Start, First, Commands, files, rules, run
<1>1. TypeOK'
  <2>1. raced' \in BOOLEAN
    BY Zenon DEF TypeOK
  <2> QED
    BY <2>1, ConstantTypes DEF TypeOK, Stages, Texts, Tests, Confs, Inputs
<1>2. Running'
  BY DEF TypeOK, Running, Chain, AllInOrder, MakeRunsAll, Derived, Undisturbed, UpToDate
<1>3. Resting'
  BY DEF TypeOK, Running, Chain, AllInOrder, MakeRunsAll, Derived, Undisturbed,
     Resting, CleanIsTested, UpToDateIsTested, FuzzedIsTested, UpToDate, AflUpToDate, Faithful
<1> QED
  BY <1>1, <1>2, <1>3

LEMMA TouchSafe == IInv /\ Touch => IInv'
<1> SUFFICES ASSUME IInv, Touch PROVE IInv'
  OBVIOUS
<1> USE DEF IInv, Touch, Gone, Commands, files, rules, run
<1>1. TypeOK'
  <2>1. raced' \in BOOLEAN /\ aflNewer' \in BOOLEAN /\ byHand' \in BOOLEAN
    BY Zenon DEF TypeOK
  <2> QED
    BY <2>1, ConstantTypes DEF TypeOK, Stages, Texts, Tests, Confs, Inputs
<1>2. Running'
  BY DEF TypeOK, Running, Chain, AllInOrder, MakeRunsAll, Derived, Undisturbed, UpToDate
<1>3. Resting'
  BY DEF TypeOK, Running, Chain, AllInOrder, MakeRunsAll, Derived, Undisturbed,
     Resting, CleanIsTested, UpToDateIsTested, FuzzedIsTested, UpToDate, AflUpToDate, Faithful
<1> QED
  BY <1>1, <1>2, <1>3

LEMMA MakeAflSafe == IInv /\ MakeAfl => IInv'
<1> SUFFICES ASSUME IInv, MakeAfl PROVE IInv'
  OBVIOUS
<1> USE DEF IInv, MakeAfl, past, Commands, files, rules, run
<1>1. TypeOK'
  BY ConstantTypes DEF TypeOK, Stages, Texts, Tests, Confs, Inputs
<1>2. Running'
  BY DEF TypeOK, Running, Chain, AllInOrder, MakeRunsAll, Derived, Undisturbed, UpToDate
<1>3. Resting'
  BY DEF TypeOK, Running, Chain, AllInOrder, MakeRunsAll, Derived, Undisturbed,
     Resting, CleanIsTested, UpToDateIsTested, FuzzedIsTested, UpToDate, AflUpToDate, Faithful
<1> QED
  BY <1>1, <1>2, <1>3

LEMMA CompileAflSafe == IInv /\ CompileAfl => IInv'
<1> SUFFICES ASSUME IInv, CompileAfl PROVE IInv'
  OBVIOUS
<1> USE DEF IInv, CompileAfl, past, Commands, files, rules, run
<1>1. TypeOK'
  <2>1. aflNewer' \in BOOLEAN
    BY Zenon DEF TypeOK
  <2> QED
    BY <2>1, ConstantTypes DEF TypeOK, Stages, Texts, Tests, Confs, Inputs
<1>2. Running'
  BY DEF TypeOK, Running, Chain, AllInOrder, MakeRunsAll, Derived, Undisturbed, UpToDate
<1>3. Resting'
  BY DEF TypeOK, Running, Chain, AllInOrder, MakeRunsAll, Derived, Undisturbed,
     Resting, CleanIsTested, UpToDateIsTested, FuzzedIsTested, UpToDate, AflUpToDate, Faithful
<1> QED
  BY <1>1, <1>2, <1>3

LEMMA CleanSafe == IInv /\ Clean => IInv'
<1> SUFFICES ASSUME IInv, Clean PROVE IInv'
  OBVIOUS
<1> USE DEF IInv, Clean, Commands, files, rules, run
<1>1. TypeOK'
  <2>1. aflNewer' \in BOOLEAN
    BY Zenon DEF TypeOK
  <2> QED
    BY <2>1, ConstantTypes DEF TypeOK, Stages, Texts, Tests, Confs, Inputs
<1>2. Running'
  BY DEF TypeOK, Running, Chain, AllInOrder, MakeRunsAll, Derived, Undisturbed, UpToDate
<1>3. Resting'
  BY DEF TypeOK, Running, Chain, AllInOrder, MakeRunsAll, Derived, Undisturbed,
     Resting, CleanIsTested, UpToDateIsTested, FuzzedIsTested, UpToDate, AflUpToDate, Faithful
<1> QED
  BY <1>1, <1>2, <1>3

LEMMA CopyFailsSafe == IInv /\ CopyFails => IInv'
<1> SUFFICES ASSUME IInv, CopyFails PROVE IInv'
  OBVIOUS
<1> USE DEF IInv, CopyFails, Breaks, Gone, Commands, files, rules, run
<1>1. TypeOK'
  BY ConstantTypes DEF TypeOK, Stages, Texts, Tests, Confs, Inputs
<1>2. Running'
  BY DEF TypeOK, Running, Chain, AllInOrder, MakeRunsAll, Derived, Undisturbed, UpToDate
<1>3. Resting'
  BY DEF TypeOK, Running, Chain, AllInOrder, MakeRunsAll, Derived, Undisturbed,
     Resting, CleanIsTested, UpToDateIsTested, FuzzedIsTested, UpToDate, AflUpToDate, Faithful
<1> QED
  BY <1>1, <1>2, <1>3

LEMMA GoblintFailsSafe == IInv /\ GoblintFails => IInv'
<1> SUFFICES ASSUME IInv, GoblintFails PROVE IInv'
  OBVIOUS
<1> USE DEF IInv, GoblintFails, Breaks, Gone, Commands, files, rules, run
<1>1. TypeOK'
  BY ConstantTypes DEF TypeOK, Stages, Texts, Tests, Confs, Inputs
<1>2. Running'
  BY DEF TypeOK, Running, Chain, AllInOrder, MakeRunsAll, Derived, Undisturbed, UpToDate
<1>3. Resting'
  BY DEF TypeOK, Running, Chain, AllInOrder, MakeRunsAll, Derived, Undisturbed,
     Resting, CleanIsTested, UpToDateIsTested, FuzzedIsTested, UpToDate, AflUpToDate, Faithful
<1> QED
  BY <1>1, <1>2, <1>3

LEMMA InjectFailsSafe == IInv /\ InjectFails => IInv'
<1> SUFFICES ASSUME IInv, InjectFails PROVE IInv'
  OBVIOUS
<1> USE DEF IInv, InjectFails, Breaks, Gone, Injection, Commands, files, rules, run
<1>1. TypeOK'
  BY ConstantTypes DEF TypeOK, Stages, Texts, Tests, Confs, Inputs
<1>2. Running'
  BY DEF TypeOK, Running, Chain, AllInOrder, MakeRunsAll, Derived, Undisturbed, UpToDate
<1>3. Resting'
  BY DEF TypeOK, Running, Chain, AllInOrder, MakeRunsAll, Derived, Undisturbed,
     Resting, CleanIsTested, UpToDateIsTested, FuzzedIsTested, UpToDate, AflUpToDate, Faithful
<1> QED
  BY <1>1, <1>2, <1>3

LEMMA FormatFailsSafe == IInv /\ FormatFails => IInv'
<1> SUFFICES ASSUME IInv, FormatFails PROVE IInv'
  OBVIOUS
<1> USE DEF IInv, FormatFails, Breaks, Gone, Commands, files, rules, run
<1>1. TypeOK'
  BY ConstantTypes DEF TypeOK, Stages, Texts, Tests, Confs, Inputs
<1>2. Running'
  BY DEF TypeOK, Running, Chain, AllInOrder, MakeRunsAll, Derived, Undisturbed, UpToDate
<1>3. Resting'
  BY DEF TypeOK, Running, Chain, AllInOrder, MakeRunsAll, Derived, Undisturbed,
     Resting, CleanIsTested, UpToDateIsTested, FuzzedIsTested, UpToDate, AflUpToDate, Faithful
<1> QED
  BY <1>1, <1>2, <1>3

LEMMA OpenFailsSafe == IInv /\ OpenFails => IInv'
<1> SUFFICES ASSUME IInv, OpenFails PROVE IInv'
  OBVIOUS
<1> USE DEF IInv, OpenFails, Breaks, Gone, Commands, files, rules, run
<1>1. TypeOK'
  BY ConstantTypes DEF TypeOK, Stages, Texts, Tests, Confs, Inputs
<1>2. Running'
  BY DEF TypeOK, Running, Chain, AllInOrder, MakeRunsAll, Derived, Undisturbed, UpToDate
<1>3. Resting'
  BY DEF TypeOK, Running, Chain, AllInOrder, MakeRunsAll, Derived, Undisturbed,
     Resting, CleanIsTested, UpToDateIsTested, FuzzedIsTested, UpToDate, AflUpToDate, Faithful
<1> QED
  BY <1>1, <1>2, <1>3

LEMMA EraseFailsSafe == IInv /\ EraseFails => IInv'
<1> SUFFICES ASSUME IInv, EraseFails PROVE IInv'
  OBVIOUS
<1> USE DEF IInv, EraseFails, Breaks, Gone, Commands, files, rules, run
<1>1. TypeOK'
  BY ConstantTypes DEF TypeOK, Stages, Texts, Tests, Confs, Inputs
<1>2. Running'
  BY DEF TypeOK, Running, Chain, AllInOrder, MakeRunsAll, Derived, Undisturbed, UpToDate
<1>3. Resting'
  BY DEF TypeOK, Running, Chain, AllInOrder, MakeRunsAll, Derived, Undisturbed,
     Resting, CleanIsTested, UpToDateIsTested, FuzzedIsTested, UpToDate, AflUpToDate, Faithful
<1> QED
  BY <1>1, <1>2, <1>3

LEMMA CompileFailsSafe == IInv /\ CompileFails => IInv'
<1> SUFFICES ASSUME IInv, CompileFails PROVE IInv'
  OBVIOUS
<1> USE DEF IInv, CompileFails, Breaks, Gone, Commands, files, rules, run
<1>1. TypeOK'
  BY ConstantTypes DEF TypeOK, Stages, Texts, Tests, Confs, Inputs
<1>2. Running'
  BY DEF TypeOK, Running, Chain, AllInOrder, MakeRunsAll, Derived, Undisturbed, UpToDate
<1>3. Resting'
  BY DEF TypeOK, Running, Chain, AllInOrder, MakeRunsAll, Derived, Undisturbed,
     Resting, CleanIsTested, UpToDateIsTested, FuzzedIsTested, UpToDate, AflUpToDate, Faithful
<1> QED
  BY <1>1, <1>2, <1>3

LEMMA RunFailsSafe == IInv /\ RunFails => IInv'
<1> SUFFICES ASSUME IInv, RunFails PROVE IInv'
  OBVIOUS
<1> USE DEF IInv, RunFails, Breaks, Gone, Commands, files, rules, run
<1>1. TypeOK'
  BY ConstantTypes DEF TypeOK, Stages, Texts, Tests, Confs, Inputs
<1>2. Running'
  BY DEF TypeOK, Running, Chain, AllInOrder, MakeRunsAll, Derived, Undisturbed, UpToDate
<1>3. Resting'
  BY DEF TypeOK, Running, Chain, AllInOrder, MakeRunsAll, Derived, Undisturbed,
     Resting, CleanIsTested, UpToDateIsTested, FuzzedIsTested, UpToDate, AflUpToDate, Faithful
<1> QED
  BY <1>1, <1>2, <1>3

LEMMA EditSafe == ASSUME IInv, NEW i \in Inputs, Edit(i) PROVE IInv'
<1> USE DEF IInv, Edit, files, rules, run, Listed, Inputs
<1>1. TypeOK'
  BY EditsAssumption DEF TypeOK, Versions
<1>2. Running'
  BY ZenonT(30) DEF TypeOK, Running, Chain, AllInOrder, MakeRunsAll, Derived, Undisturbed, UpToDate
<1>3. Resting'
  BY DEF TypeOK, Running, Chain, AllInOrder, MakeRunsAll, Derived, Undisturbed,
     Resting, CleanIsTested, UpToDateIsTested, FuzzedIsTested, UpToDate, AflUpToDate, Faithful
<1> QED
  BY <1>1, <1>2, <1>3

LEMMA NextSafe == IInv /\ [Next]_vars => IInv'
<1>1. IInv /\ UNCHANGED vars => IInv'
  BY DEF vars, files, rules, run, past, IInv, TypeOK, Running, Chain, AllInOrder, MakeRunsAll, Derived, Undisturbed,
     Resting, CleanIsTested, UpToDateIsTested, FuzzedIsTested, UpToDate, AflUpToDate, Faithful
<1> QED
  BY <1>1, CopySafe, GoblintSafe, InjectSafe, FormatSafe, OpenSafe, EraseSafe,
     CompileSafe, RunExeSafe, ExitSafe, ByHandSafe, MakeSafe, TouchSafe,
     MakeAflSafe, CompileAflSafe, CleanSafe, CopyFailsSafe, GoblintFailsSafe, InjectFailsSafe,
     FormatFailsSafe, OpenFailsSafe, EraseFailsSafe, CompileFailsSafe, RunFailsSafe, EditSafe
  DEF Next, Script

\* Whatever the directory holds, fails, is killed, repeated or edited, a test
\* that passes is one of a text injected once with its own witness.
THEOREM PassesAreFaithful == Spec => []PassedIsFaithful
<1>1. IInv => PassedIsFaithful
  BY DEF IInv, Running, Chain, PassedIsFaithful, Faithful
<1> QED
  BY <1>1, InitSafe, NextSafe, PTL DEF Spec

\* What make takes for up to date has passed, with the example and what the
\* Makefile lists as they are, if nobody edited them during the test.
THEOREM DoneIsEarned == Spec => []UpToDateIsTested
<1>1. IInv => UpToDateIsTested
  BY DEF IInv, Resting
<1> QED
  BY <1>1, InitSafe, NextSafe, PTL DEF Spec

\* Without a hand in between, the program to fuzz is of the text that passed.
THEOREM FuzzesWhatPassed == Spec => []FuzzedIsTested
<1>1. IInv => FuzzedIsTested
  BY DEF IInv, Resting
<1> QED
  BY <1>1, InitSafe, NextSafe, PTL DEF Spec
=============================================================================
