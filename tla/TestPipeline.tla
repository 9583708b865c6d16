---------------------------- MODULE TestPipeline ----------------------------
(***************************************************************************)
(* src/run_test.py and the rules of src/Makefile that run it: one example  *)
(* whose files are made from one another, by make or stage by stage, while *)
(* commands fail, runs are killed, and what they read is edited.  Of a     *)
(* file the model keeps what it was made from.                             *)
(***************************************************************************)
EXTENDS Naturals

CONSTANT MaxEdits    \* bound: the edits of each input
ASSUME EditsAssumption == MaxEdits \in Nat

VARIABLES
    inputs,     \* the versions of what a test reads
    conf,       \* get_merged_conf: the versions of the configuration of this run
    injected,   \* .injected.c
    witness,    \* .witness.yml
    clean,      \* .injected.clean.c
    exe,        \* the program, and whether it has passed
    done,       \* .done: what the test that made it has passed with
    newer,      \* the prerequisites of .done that are newer than it
    afl,        \* .afl: what it was compiled from
    aflNewer,   \* .done is newer than .afl
    pc,         \* the next command of the script, or of make
    stage,      \* --stage
    maker,      \* make runs the script, for this target
    inOrder,    \* history: the stages of one test that have passed, one after the other
    raced,      \* history: an input has been edited between a run's start and its touch
    byHand      \* history: a stage has been run by hand since .done

files == <<injected, witness, clean, exe>>
rules == <<done, newer, afl, aflNewer>>
run   == <<stage, maker>>
past  == <<inOrder, raced, byHand>>
vars  == <<inputs, conf, files, rules, pc, run, past>>

\* The example; what the Makefile lists besides it (run_test.py, generic.json,
\* witness_inject); what it does not (the example's .json, the eraser).
Inputs   == {"source", "listed", "other"}
Listed   == {"source", "listed"}
Versions == 0..MaxEdits
Stages   == {"goblint", "inject", "cleanup", "run"}
Commands == {"copy", "goblint", "inject", "format", "open", "erase", "compile", "exe"}
First    == [goblint |-> "copy", inject |-> "inject", cleanup |-> "open", run |-> "compile",
             all |-> "copy"]

\* "other": something was inserted that belongs to another text.
Texts  == [at : {"absent", "broken", "copy", "injected", "formatted", "other"}, of : Versions]
Absent == [at |-> "absent", of |-> 0]
Broken == [at |-> "broken", of |-> 0]
Other  == [at |-> "other", of |-> 0]
NoConf == [listed |-> 0, other |-> 0]
NoTest == [text |-> Absent, conf |-> NoConf, passed |-> FALSE]
Confs  == [listed : Versions, other : Versions]
Tests  == [passed : BOOLEAN, text : Texts, conf : Confs]

TypeOK ==
    /\ inputs \in [Inputs -> Versions] /\ conf \in Confs
    /\ injected \in Texts /\ witness \in Texts /\ clean \in Texts
    /\ exe \in Tests /\ done \in Tests /\ afl \in Texts
    /\ newer \subseteq Listed /\ aflNewer \in BOOLEAN
    /\ pc \in Commands \cup {"idle", "passed", "afl"}
    /\ stage \in Stages \cup {"all"} /\ maker \in {"none", "done", "afl"}
    /\ inOrder \in {"none", "goblint", "inject", "cleanup", "run"}
    /\ raced \in BOOLEAN /\ byHand \in BOOLEAN

Init ==
    /\ inputs = [i \in Inputs |-> 0] /\ conf = NoConf
    /\ injected = Absent /\ witness = Absent /\ clean = Absent /\ exe = NoTest
    /\ done = NoTest /\ newer = {} /\ afl = Absent /\ aflNewer = FALSE
    /\ pc = "idle" /\ stage = "all" /\ maker = "none"
    /\ inOrder = "none" /\ raced = FALSE /\ byHand = FALSE

-----------------------------------------------------------------------------
(* The script.                                                             *)

\* The last command of a stage ends the script, or leads to the next stage;
\* inOrder is what a reader of the log knows.
Follows == [goblint |-> "inject", inject |-> "cleanup", cleanup |-> "run", run |-> "none"]
StageEnds(s) ==
    /\ pc' = IF stage # "all" \/ s = "run" THEN "passed" ELSE First[Follows[s]]
    /\ inOrder' = IF s = "goblint" \/ (inOrder # "none" /\ Follows[inOrder] = s) THEN s ELSE "none"
    /\ UNCHANGED <<raced, byHand>>

Then(cmd, next) == pc = cmd /\ pc' = next /\ UNCHANGED past

\* The script is no more.
Gone == stage' = "all" /\ maker' = "none" /\ conf' = NoConf

\* A command that fails raises, a killed script stops: the file it writes may
\* be old, new or in between.
Breaks(cmd) == /\ pc = cmd /\ pc' = "idle" /\ inOrder' = "none" /\ Gone
               /\ UNCHANGED <<inputs, rules, raced, byHand>>

Copy ==
    /\ Then("copy", "goblint") /\ injected' = [at |-> "copy", of |-> inputs["source"]]
    /\ UNCHANGED <<inputs, conf, witness, clean, exe, rules, run>>
CopyFails ==
    /\ Breaks("copy") /\ injected' \in {injected, Broken}
    /\ UNCHANGED <<witness, clean, exe>>

\* The analyser reads the copy; the witness is of that text.
Goblint ==
    /\ pc = "goblint" /\ StageEnds("goblint") /\ injected.at # "absent"
    /\ witness' = injected
    /\ UNCHANGED <<inputs, conf, injected, clean, exe, rules, run>>
\* Mutant: the analyser is run without check_call.
GoblintFails_Unchecked ==
    /\ pc = "goblint" /\ StageEnds("goblint")
    /\ UNCHANGED <<inputs, conf, files, rules, run>>

GoblintFails ==
    /\ Breaks("goblint") /\ witness' \in {witness, Broken}
    /\ UNCHANGED <<injected, clean, exe>>

\* The positions of the witness are those of the text it was made of.
Injection == CASE injected.at = "broken" -> injected
               [] injected.at = "copy" /\ witness = injected -> [injected EXCEPT !.at = "injected"]
               [] OTHER -> Other

Inject ==
    /\ Then("inject", "format") /\ injected.at \notin {"absent", "broken"}
    /\ witness.at # "absent" /\ injected' = Injection
    /\ UNCHANGED <<inputs, conf, witness, clean, exe, rules, run>>

\* A unit that does not parse is injected all the same, and the status is 1.
InjectFails ==
    /\ Breaks("inject")
    /\ injected' \in {injected, IF injected.at = "absent" \/ witness.at = "absent"
                                THEN injected ELSE Injection}
    /\ UNCHANGED <<witness, clean, exe>>

Format ==
    /\ pc = "format" /\ StageEnds("inject")
    /\ injected' = IF injected.at = "injected" THEN [injected EXCEPT !.at = "formatted"]
                   ELSE injected
    /\ UNCHANGED <<inputs, conf, witness, clean, exe, rules, run>>
FormatFails == Breaks("format") /\ UNCHANGED files

\* open(.., 'w') empties the file before the eraser runs.
Open ==
    /\ Then("open", "erase") /\ clean' = Broken
    /\ UNCHANGED <<inputs, conf, injected, witness, exe, rules, run>>
OpenFails == Breaks("open") /\ UNCHANGED files

Erase ==
    /\ pc = "erase" /\ StageEnds("cleanup") /\ injected.at # "absent"
    /\ clean' = injected
    /\ UNCHANGED <<inputs, conf, injected, witness, exe, rules, run>>

\* Also when only the report is not written, after the text.
EraseFails ==
    /\ Breaks("erase") /\ clean' \in {clean} \cup ({injected} \ {Absent})
    /\ UNCHANGED <<injected, witness, exe>>

\* A text that was broken off does not compile.
Compile ==
    /\ Then("compile", "exe") /\ clean.at \notin {"absent", "broken"}
    /\ exe' = [text |-> clean, conf |-> conf, passed |-> FALSE]
    /\ UNCHANGED <<inputs, conf, injected, witness, clean, rules, run>>
CompileFails ==
    /\ Breaks("compile") /\ exe' \in {exe, NoTest}
    /\ UNCHANGED <<injected, witness, clean>>

RunExe ==
    /\ pc = "exe" /\ StageEnds("run") /\ exe' = [exe EXCEPT !.passed = TRUE]
    /\ UNCHANGED <<inputs, conf, injected, witness, clean, rules, run>>
RunFails == Breaks("exe") /\ UNCHANGED files

\* The script starts: it reads the configurations of its stage.
Start(s, m) ==
    /\ pc' = First[s] /\ stage' = s /\ maker' = m
    /\ conf' = [listed |-> inputs["listed"], other |-> inputs["other"]]
    /\ UNCHANGED <<inputs, files, rules>>

\* By hand, for one stage or all of them.
ByHand ==
    /\ pc = "idle" /\ \E s \in Stages \cup {"all"} : Start(s, "none")
    /\ byHand' = TRUE /\ UNCHANGED <<inOrder, raced>>

Exit ==
    /\ pc = "passed" /\ maker = "none" /\ pc' = "idle" /\ Gone
    /\ UNCHANGED <<inputs, files, rules, past>>

-----------------------------------------------------------------------------
(* make.                                                                   *)

UpToDate    == done # NoTest /\ newer = {}
AflUpToDate == afl # Absent /\ ~aflNewer

\* make test, or the prerequisite of make all-afl.
Make ==
    /\ pc = "idle" /\ ~UpToDate
    /\ \E target \in {"done", "afl"} : Start("all", target)
    /\ raced' = FALSE /\ UNCHANGED <<inOrder, byHand>>

\* Mutant: `;' for `&&'.
Touch_Always ==
    /\ maker # "none" /\ pc \in {"passed", "exe"} /\ done' = exe /\ newer' = {}
    /\ pc' = IF maker = "afl" THEN "afl" ELSE "idle"
    /\ aflNewer' = TRUE /\ byHand' = FALSE /\ Gone
    /\ UNCHANGED <<inputs, files, afl, inOrder, raced>>

\* Mutant: .done is an order-only prerequisite of .afl.
Touch_OrderOnly ==
    /\ pc = "passed" /\ maker # "none" /\ done' = exe /\ newer' = {}
    /\ pc' = IF maker = "afl" THEN "afl" ELSE "idle"
    /\ byHand' = FALSE /\ Gone
    /\ UNCHANGED <<inputs, files, afl, aflNewer, inOrder, raced>>

\* After && : .done is newer than all there is.
Touch ==
    /\ pc = "passed" /\ maker # "none" /\ done' = exe /\ newer' = {}
    /\ pc' = IF maker = "afl" THEN "afl" ELSE "idle"
    /\ aflNewer' = TRUE /\ byHand' = FALSE /\ Gone
    /\ UNCHANGED <<inputs, files, afl, inOrder, raced>>

MakeAfl ==
    /\ pc = "idle" /\ UpToDate /\ ~AflUpToDate /\ pc' = "afl"
    /\ UNCHANGED <<inputs, conf, files, rules, run, past>>

\* The recipe compiles the clean file as it is now.
CompileAfl ==
    /\ pc = "afl" /\ pc' = "idle"
    /\ \/ clean.at \notin {"absent", "broken"} /\ afl' = clean /\ aflNewer' = FALSE
       \/ UNCHANGED <<afl, aflNewer>>
    /\ UNCHANGED <<inputs, conf, files, done, newer, run, past>>

Clean ==
    /\ pc = "idle"
    /\ injected' = Absent /\ witness' = Absent /\ clean' = Absent /\ exe' = NoTest
    /\ done' = NoTest /\ newer' = {} /\ afl' = Absent /\ aflNewer' = FALSE
    /\ inOrder' = "none"
    /\ UNCHANGED <<inputs, conf, pc, run, raced, byHand>>

\* Somebody edits an input, at any time.
Edit(i) ==
    /\ inputs[i] < MaxEdits /\ inputs' = [inputs EXCEPT ![i] = @ + 1]
    /\ newer' = IF i \in Listed /\ done # NoTest THEN newer \cup {i} ELSE newer
    /\ raced' = (raced \/ maker # "none")
    /\ UNCHANGED <<conf, files, done, afl, aflNewer, pc, run, inOrder, byHand>>

Script ==
    \/ Copy \/ Goblint \/ Inject \/ Format \/ Open \/ Erase \/ Compile \/ RunExe \/ Exit
    \/ CopyFails \/ GoblintFails \/ InjectFails \/ FormatFails \/ OpenFails \/ EraseFails
    \/ CompileFails \/ RunFails

Next ==
    \/ Script \/ ByHand
    \/ Make \/ Touch \/ MakeAfl \/ CompileAfl \/ Clean
    \/ \E i \in Inputs : Edit(i)

Spec == Init /\ [][Next]_vars

-----------------------------------------------------------------------------
\* What a test should be: a text injected once, with its own witness, formatted,
\* cleaned and compiled.
Faithful(t) == t.text.at = "formatted"

\* run_test.py:195-246: a test that has passed, in one run or stage by stage in
\* their order, was one of a faithful text, whatever an earlier run, a failure
\* or a repeated stage has left in the directory, and whatever was edited.
PassedIsFaithful == pc = "passed" /\ inOrder = "run" => Faithful(exe)

\* Makefile:45-56: if make finds .done up to date, a faithful text of the example
\* has passed, under the configuration the Makefile lists, as they are now,
\* unless they were edited while it ran.
UpToDateIsTested ==
    UpToDate => /\ Faithful(done) /\ done.passed
                /\ ~raced => /\ done.text.of = inputs["source"]
                             /\ done.conf.listed = inputs["listed"]

\* Makefile:58-69: and the program to fuzz is of the text that has passed, if no
\* stage was run by hand since.
FuzzedIsTested == UpToDate /\ AflUpToDate /\ ~byHand => afl = done.text
=============================================================================
