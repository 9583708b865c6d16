# A verification of witness_inject

`witness_inject` reads the invariants of an SV-COMP correctness witness and
writes them into C source files as assertions. Around it the repository has a
runtime that lets such a program be fuzzed (`fuzz_harness`), a script that
erases assertions that do not compile, the drivers that chain an analyser, the
injector, the eraser, a compiler and AFL++, and twenty small multi-threaded
programs, written by hand, that the analyser and the rest are tried on.

This directory holds TLA+ modules of the parts with the program's own logic,
TLC configurations that check them on small instances, and proofs that TLAPS
checks for instances of any size. Paths are relative to the repository; a
definition's lines of code are in `PROJECT.json` under `map`.

## 1. Inventory

| Component | Code | State | Operations | Model |
|---|---|---|---|---|
| Witness reader | `src/witness.cpp` | the vector of entries; the YAML reader's error | `ReadInto`: items, then file names made absolute | `WitnessInject` |
| Driver loop | `src/main.cpp` | current file, failure so far, exit status | open, run over the files, exit | `WitnessInject` |
| Frontend action | `src/action.cpp` | one `Rewriter` per file, the files on disk | `CreateASTConsumer`, `EndSourceFileAction` | `WitnessInject` |
| AST search | `src/util.cpp` | none | `tokenBegin`, `SmallestContainerAtPos`, `largestASTNodeStartingAt` | `AstSearch` |
| Injector | `src/inject.cpp` | the `Rewriter`'s insertions | location and loop invariants | `Injector` |
| Harness, ending | `fuzz_harness/fuzz_harness.c` | four exit codes, handlers, timer, atomic mutex | constructor, wrapper of `main`, handlers, assertion failure, `__VERIFIER_error`, `_assume`, `_atomic_*` | `FuzzHarness` |
| Harness, values | `fuzz_harness/fuzz_harness.c` | position in stdin | `rand`, `__VERIFIER_nondet_*` | `Nondet` |
| Eraser | `strip_malformed_asserts.py` | the compiler's process, segments to erase | run the compiler, locate its errors, find the end of a call, copy the rest | `MalformedAsserts` |
| AFL++ controller | `aflpp_ctrl/aflpp_ctrl.py` | the child process, last task | start, resume, stop, polls | `AflppCtrl` |
| Fuzzing session | `run_svcomp_fuzz.py` | work directory, archive, child | build or restore, fuzz, save | `SvcompSession` |
| Test pipeline | `run_test.py`, `Makefile` | the files of the work directory and their times | four stages; the rules `.done`, `.afl`, `clean` | `TestPipeline` |
| Examples by hand | twenty of `examples/*.c` | their shared variables, threads, locks | the programs themselves | `Subjects`, `Pthreads` |
| Not modelled | `run_fuzz.py`, `fuzz_harness.s`, `conf/`, third-party examples | | | see 7 |

**How they interact.** The Makefile calls `run_test.py` for each example. It
copies the source, runs the analyser, which writes a witness that names the
copy, runs `witness_inject` on the copy in place, formats it, runs the eraser
over the compiler's error report, compiles and runs. `run_svcomp_fuzz.py` does
the middle part with a witness it has edited, links the result with the
harness and runs it under AFL++ through the controller. The harness and the
program share the process: what the fuzzer learns of an execution is its exit
status or its signal.

**What makes each part right, and what is hard in it.**

- *Reader.* What is injected was stated by the document, for that file. Hard:
  one flawed item changes what is read of the others.
- *Driver and action.* Each file is as it was or has all of its insertions;
  success means written. Hard: several files, failing writes, death between two
  of them, one Rewriter per file.
- *Search.* The node found is the outermost one that starts at the position.
  Hard: inclusive ends, positions in tokens, macros.
- *Injector.* The injected text parses, runs the same statements under the same
  conditions, and asserts an invariant where the witness states it. Hard:
  several invariants share offsets, and what one insertion does depends on the
  ones before it.
- *Harness, ending.* The status reported is that of something that happened;
  the process ends; atomic sections exclude each other. Hard: a signal in any
  thread at any time, `exit` called from several threads and from a handler.
- *Harness, values.* Every unit of the input is used, once and in order. Hard:
  the end of the input inside a unit, threads that draw at the same time.
- *Eraser.* Only whole assertions go, and nothing else. Hard: parentheses and
  quotes that do not match, positions at the end of lines and of the file,
  segments that overlap.
- *Controller and session.* A crash that was found is reported and survives in
  the archive; no child outlives its handle. Hard: the child may die or find a
  crash between any two polls; an interrupt may come at any time.
- *Pipeline.* A result belongs to its inputs. Hard: stages run alone and
  twice, files modified in place, failures half way, edits during a run.
- *Examples.* They say of themselves that they have no races, and they end.
  Hard: indices and identifiers handed from thread to thread, joins by counters
  and conditions.

`PROJECT.json` lists each hazard at its line, with the properties that would break if
it went wrong. A hazard that the code does not guard against, and of which the repository
claims nothing, has no property but a note: the models have its effect, and the property
next to it names it as its exception (a second stop without a timeout, a stage run twice).

## 2. The modules and their order

Each module was to serve the next: the pure algorithms first, then the tool that
uses them, then what runs the tool.

1. `AstSearch`, `Injector`, `WitnessInject`: the core, each extending the one
   before. `AtomicInjection` is the abstract specification that `WitnessInject`
   implements. `CSource`, `MCInject` and `MCTool` are for TLC.
2. `FuzzHarness` (with `MCHarness`) and `Nondet` (with `MCNondet`): the runtime.
3. `AflppCtrl`, and `SvcompSession` (with `MCSession`), which extends it by the script.
4. `MalformedAsserts` (with `MCMalformed`): the eraser.
5. `TestPipeline`: what is made from what.
6. `Subjects`, the example programs, and `Pthreads`, the machine they run on.
7. The proofs: `WitnessInjectProofs`, `FuzzHarnessProofs`, `FlattenTheorems` and
   `NondetProofs`, `SvcompSessionProofs`, `MalformedAssertsProofs`,
   `TestPipelineProofs`, `PthreadsProofs`.

What would come next: the eraser over several files at once; the third-party examples'
statement forms as further units of `MCInject`.

## 3. The modules and the code

**AstSearch.** A translation unit, as Clang hands it over, is a record of
tokens, AST nodes in visiting order and the end of the file. What the tool asks
Clang about a node (its range in both of the ways the code computes it, parent,
loop body, parenthesis, brace) is a field. The search is pure: `tokenBegin`,
`SmallestContainerAtPos`, `StartingAt` and `Climb` are the four steps of
`util.cpp`, `largestASTNodeStartingAt` is their composition. `WellFormed` is
what pre-order numbering means.

**Injector.** For one invariant, the sequence of insertions that the calls of
`Rewriter::InsertText` add up to. The pieces of one assertion go to one offset
one after the other and are one insertion; every brace and comma is its own. An
insertion at a macro location does nothing, as in Clang.

**WitnessInject.** The process, with `phase` for where it is. `ReadItem`
is one item of the document (a flawed item names the first key that is missing
or ill-typed; the fields after it stay zero), `EndRead` resolves relative
names, `BeginSource`, `HandleInvariant` and `EndSourceFileAction` are one file's
action, `SkipSource` an unreadable file, `Exit` the status. `edits` is the
Rewriter of the current action, one entry per invariant handled; `disk` holds,
per file, what it was overwritten with. `OpenFails`, `SyntaxError`,
`RealPathFails` and `Kill` end a run early. `doc`, the document as it was
written, and `asked`, what the complete witness asks of each file, are history.

**AtomicInjection** is what a user may rely on without knowing any of that: what
the files are to hold is settled once, a file changes at most once, from its
original to all of what it is to hold, and status 0 vouches for every file. The
mapping hides the reading, the loops and the Rewriter: `text` is `disk`.

**CSource** turns statement trees into translation units (`Unit`) and renders and
parses a text with its insertions (`Render`, `Parse`): the parser is a
recursive descent over C's statement grammar, so a lost `else` or a lone brace
is found the way a compiler finds it. `Skeleton` is the program without
assertions, `CheckedBefore` and `CheckedAtEnd` are where an assertion stands in
the parsed text. Only TLC uses it.

**FuzzHarness.** The process with the benchmark's threads; the benchmark may do
anything that SV-COMP programs do (spawn, return, exit, abort, fail an assertion
or an assume, enter and leave atomic sections). `fuzz_harness_init` is the
constructor, `MainReturns` the wrapper of `main`; each handler is an action. A
call of `exit` is not atomic: the thread is in `"exit"` until `FinishExit`, and
other threads and the timer's signal go on meanwhile. A signal that interrupts
`exit` calls it again, which C leaves undefined: the model lets the inner call
finish or get stuck. `exits` is a history variable for the properties.

**Nondet.** A byte of the input is told by its offset, so that a value tells
where it is from. `Draw` is one call of `rand`: one `fread` of four bytes, of which
`__VERIFIER_nondet_memory` keeps the lowest; a byte the input does not have is
`Garbage`, what was on the stack. Between two bytes of a value other threads draw.

**MalformedAsserts.** First the compiler and `process.poll`, whose order decides
whether there is a report; then `LoadResult` for each error, `Scan` character by
character through the call, `Copy` character by character around the recorded
segments. An error is an offset; `Location` makes it the line and column that the
compiler reports, and `get_offset_by_loc` is the script's way back. `out` tells the
offsets written, `Skipped` for an erased segment.

**AflppCtrl** has the processes as the system knows them (`proc`, `sent`) and as
the controller does (`handle`). A poll is one look at `proc`, and the processes
act between any two looks. `stop` is one step up to its wait; the wait returns,
expires (kill, and the handle is dropped) or is interrupted. `start` and `resume`
differ in the command line only.

**SvcompSession** is the script with the controller and one fuzzer. `pc` is the
statement; `Prepare` is one command of the preparation, so that a failure leaves
the directory as far as it got; `Watch` is the three looks of the loop, one step
each. The two `finally` clauses and `__exit__` are `Stop`, `ExitStop` and `Save`, with
`pending` for the exception on its way through them. An archive is `broken` from
the moment it is opened until it is closed, and then `whole` or, since `with` closes it also
after an interrupt or a failed read, a `part`: a readable zip of some of the crashes, with a
`cut` program or without one. `SaveFails` has all three outcomes, and the untouched
archive when the file cannot be opened. A session that resumes cannot tell a part from a
whole; if there is no program it fails at `chmod` (`Restorable`), and a cut one it fuzzes.
`make_archive` takes its name without its last suffix and appends `.zip`, a resumed session
opens the name as given: the two places are one only if the name ends in `.zip`.

**TestPipeline.** A file is what it was made from: `at` is the step it has reached,
`of` the version of the source, and text into which positions of another text were
injected is `Other`. An action is a command of `run_test.py`, with an action for its
failure, which may leave the file it writes old, new or broken; `ByHand` runs a
stage alone. `newer` and `aflNewer` are the times make compares. `Edit` changes an input
at any time, also while a test runs.

**Subjects** and **Pthreads.** A program is a function from the thread and the number of
threads to its steps: locks, signals, accesses, creations. A step is one access
of shared memory. `NewMem` keeps the values that decide something (counters, flags,
the mask, a thread's index) and no others; `Pthreads` is what POSIX and C11 say the steps
do. A race is two threads about to access one location, one of them to write
it, not both atomically. The programs are translated line by line; the machine's steps
are those of the C and POSIX libraries, and external to the repository.

## 4. What the runs check

| Run | Instance | Shows |
|---|---|---|
| `inject_c` | twelve C units, witnesses of up to two invariants | the injected text parses (`SyntaxPreserved`), is the same program (`SkeletonPreserved`), asserts location invariants before their statement (`LocationChecked`) and loop invariants in each iteration (`LoopChecked`); the search finds the outermost node (`SearchFindsOutermost`) |
| `tool_files` | two files, relative names, five flaws, every failure | `WholeOrUntouched`, `ZeroMeansWritten`, `InjectedAsStated`, type correctness; the run implements the atomic injection (`InjectsAtomically`) |
| `harness` | three threads, all settings of the environment, fair | `AtomicExclusion`, `StatusHasCause`, type correctness; `TimerEndsProcess`, `FailureEndsProcess` |
| `nondet` | two threads, two values each, of one to four bytes, inputs of up to ten bytes | each unit of the input is used once (`UnitsUsedOnce`), in order, and nothing of it comes after what it does not have (`InOrder`) |
| `fuzz_ctrl` | three processes, any client | `NoOrphan`, `StopReturns` |
| `fuzz_session` | one fuzzer, two crashes, all options, interrupts, failures, fair | the status and the archive tell what was found (`ReportedIsArchived`, `SilentMeansNone`, `EndsForCause`), nothing earlier is lost but by a save over it that is under way or broken off (`CrashesKept`), what is written to the end can be resumed (`ArchiveResumable`), nobody writes into what is saved but a killed fuzzer or one left by an interrupted stop (`QuietArchive`), a limited session ends, or waits in a second stop for a fuzzer that ignores SIGINT (`SessionEnds`), type correctness |
| `eraser` | texts of three tokens, calls with two arguments, up to two errors anywhere | errors are found where the compiler saw them (`ErrorLocated`), exactly the calls in error go (`CallsErased`), all else stays (`RestCopied`), parentheses stay in balance (`ParensBalanced`), the script ends (`Ends`), type correctness |
| `pipeline` | one example, one edit of each of three inputs, every failure, stages by hand | a passed test is of a text injected once with its own witness (`PassedIsFaithful`), `.done` and `.afl` are of the inputs as they are (`UpToDateIsTested`, `FuzzedIsTested`) |
| `subjects` | the twenty examples, up to three threads, one failing creation, one spurious wakeup | if every creation succeeds: the comments "NORACE" are right (`NoRace`), no assertion fails and no join is undefined (`NeverFails`), nothing freed is used (`MemorySafe`), `main` returns (`MainReturns`) |

Three runs expect a violation: the code does not do what a document or a comment
of the repository says. Each is a finding in `PROJECT.json`.

| Run | What happens |
|---|---|
| `loop_body` | the invariant of `while (x) x;` is asserted after the loop |
| `dropped_items` | a flawed item drops the items after it; LLVM prints a message, the tool does not look at the error, and the status is 0 |
| `create_fails` | a `pthread_create` that "may fail but doesn't matter" leaves `main` waiting for ever |

**Forms the injector does not serve.** `inject_c` leaves out the forms on which its
properties fail, and they hold on everything else it runs on. Each such form is a
set of units in `MCInject`; given as `Programs` in `MCLoopBody.cfg`, with the
property named here, it gives a counterexample:

| Set | Form | Fails |
|---|---|---|
| `LoopWithoutBraces` | `while (x) x;`: the assertion comes after the loop (the run `loop_body`) | `LoopChecked` |
| `BranchBeforeElse` | a location invariant before an unbraced branch leaves `};` before `else` | `SyntaxPreserved` |
| `EndlessFor` | two loop invariants of `for (;;)` are not separated by a comma | `SyntaxPreserved` |
| `MacroStatement` | an invariant before a statement that is a macro call vanishes | `LocationChecked` |
| `OneLine` | `}while` without white space: the search picks the block before the loop, since the end of a range is inclusive | `LoopChecked` |

Without a set: an invariant at the position of a function body's own brace is put
between the declarator and the body; the assertion at the end of the unbraced body
of a `do` stands between the body and its `while`; behind a label that is the unbraced
branch of an `if` the assertion gets no braces, and takes the statement's place in the
branch.

**Also seen, without a run.** The repository's `README.md` says that a timeout exits with 0;
with `FUZZ_HARNESS_RC` set it exits with that code. The threads of `simple.c` increment a shared
variable without a lock: a race, of which the example says nothing, so that `NoRace`
leaves that program out.

**Bounds.** A document has at most `MaxItems` = 2 items: interference between
invariants is pairwise (shared offsets, separators, an error and the item after
it), and the code treats each pair alike. Two files are the fewest with a file
after another; the proofs are for any number. The units have at most four nested
statements, every statement kind the injector tells apart, and every parent it
tells apart. Layout is one blank between tokens (`gap` = 1). The harness has three
threads, one of which holds the mutex while another waits and a third exits; the code
259 is 3 in its low eight bits. The controller has three processes, so that one can be
dying and one running when a third is started. `MaxCrashes` is 2: the crash of an
earlier session and a new one; an archive the session writes over and
does not read is none or whole (`OverwrittenIsPlain`), since nothing depends on what was in it but
the crashes (without that bound TLC finds the same, in four times the time). `MaxInput` = 10 is two units and a half, `MaxCalls` = 2 a value
and one after it. The eraser's texts (`MaxTokens` = 3; `MaxArgs` = 2 between a name and its
parenthesis, and one token more) have a nested call, a literal with a parenthesis or an
escaped quote, a newline, a comment and a longer name at every place, and two errors (`MaxErrors`)
give nested, repeated and adjacent segments. `MaxEdits` = 1: what is stale is so after one edit.
The examples have N = 3 threads, the fewest with which an index comes back while one thread is
at work and another one starts (`thread-join-array-const.c` has four, all alike); one failing creation
(`MaxFailures`) and one spurious wakeup (`MaxSpurious`) at any place.

**Undisturbed runs.** `inject_c` uses `UndisturbedSpec`: its questions are about
the text a finished run writes, and `tool_files` has the failures.

**Fairness.** In `harness`: the constructor runs because the C
runtime calls it before `main`; the signal of an expired timer is delivered
because the kernel does; a thread in `exit` runs on because nothing in it
blocks, unless a signal struck inside of it, which the two properties exclude.
Nothing is assumed of the benchmark: its threads may spin or wait for ever. In
`fuzz_ctrl` and `fuzz_session`, time passes (a timeout expires, the limit is
reached) and the script, a sequential program, takes its next step. Nothing is
assumed of the fuzzer: it may ignore signals, and a killed one may take for ever
to die. In `eraser` the compiler ends and the script runs on. In `subjects` each thread
that can go on does (weak fairness per thread, as a preemptive scheduler gives it); a
mutex is promised to nobody, so that `thread-join-counter-inner.c`, whose threads take
and give up the mutex that `main` needs without pause, is not claimed to end. The
injector's runs and the pipeline's end by themselves; no liveness is claimed of them.

**Deadlock** is checked in all passing runs. A process that has ended, or one in which
every thread spins or waits and no timer is set, takes the stutter `Over` (`AllOver`
in `AflppCtrl`); in `Pthreads` an example that hangs while all of its threads were created is a
deadlock. `create_fails` does not check deadlock: the hang is what it shows.

**Type invariants** are in the runs of four modules (the session's has the controller's); `TypeOK` of `TestPipeline` is
part of its proved invariant, and those of `Nondet` and `Pthreads` hold on the same
instances when they are added to the configurations.

## 5. What is proved

Unless a hypothesis is named below, the proofs assume only the constants' assumptions in the modules: names are
absolute or relative, not both; the files of the command line are distinct;
each unit is well-formed; the codes of the environment are integers; the
constants that stand for "none" are none of the others; the assertion's name is not
empty; bounds are natural numbers. There is no bound in them: any number of files,
items, nodes, threads, processes, characters, edits.

`WitnessInjectProofs` begins with the pure part. Minima of sets of naturals, and maxima of
intervals' subsets, exist (by well-founded induction's least element). With
these each step of the search returns a node: the smallest container by
definition, an ancestor because parents have smaller numbers. Hence `SearchIsNode`,
and along the cases of the injector `InjectType`: whatever the position, every
insertion is at a valid offset.

`SearchIsOutermost` says what the search is for: at the start of a statement it
returns the outermost node that starts there. It has two hypotheses, both in `AstSearch`.
`SourceOrdered` is how a unit is laid out: a child's range is within its parent's, and what is
apart in the tree is apart in the text, with white space between two tokens (without it the
theorem is false: `OneLine` in section 4 is the counterexample; nor do the declarators of one
declaration satisfy it, whose ranges overlap). `StatementStart` is that the position is no token's inside,
that a node starts there, and that the outermost of them is no operand of an expression.
The argument: the nodes that start at the position are on one chain of parents
(`NodesAtNested`), what contains the position is around them
(`ContainersAreAround`), so that the smallest container is one of them
(`SmallestStartsThere`), and the climb stops at the top of the chain (`ClimbsToOutermost`).
`inject_c` evaluates both hypotheses on its units (`LaidOut`), and `OutermostIsFound`
carries the result to every state of a run.

Its second part proves `TypeOK`, `WholeOrUntouched` and `ZeroMeansWritten`.
None is inductive. `IInv` adds what is true on the way: while a file is
processed its Rewriter holds the insertions of the invariants handled so far
*into this file* (`LogOfThisFile`), a file at hand is one of the command line's
(`FileAtHand`), nothing is written while the witness is read (`NothingYet`, since the
vector still changes then), each file passed is written unless a failure is
on record (`PassedAreWritten`), and there is no status before the exit
(`StatusOnlyAtExit`). The two steps with content are `HandleExtendsLog` and
`EndSourceIsSafe`: a complete log is the file's insertions (`CompleteLog`), so
writing it is writing all of them. TLC agrees that `IInv` is invariant.

Its third part is about the refinement. `AInv` says that the k-th entry kept is the
document's k-th item, with none flawed before it (`WitnessIsDocument`), that what is asked
is what the complete witness inserts (`AskedOfWitness`), and that the files still to come
are untouched (`RestUntouched`). `WrittenAsStated` (`InjectedAsStated`) follows; and with it every
step of the tool is a step of `AtomicInjection` or a stutter (`StepIsAtomic`), which with
the initial states is `Refinement`: `Spec => InjectsAtomically`.

`FuzzHarnessProofs` proves `TypeOK`, `AtomicExclusion` and `StatusHasCause`. Exclusion
follows from `InsideHoldsLock`. For the status, `HandlersFollowEnv` says that what
the constructor set agrees with the environment, `NothingBeforeBoot` that nothing
runs before it, and `ExitHasCause` that a thread in `exit` has the code of some
recorded cause: any call of `exit` may win, all are accounted for.

`SvcompSessionProofs` begins with the controller: `NoOrphan` for any number of processes
and any client. It is inductive with types and `WaitsForHandle`; the lemmas are stated
per call, for the session to build on: the controller's part of each of its steps is one
of those lemmas, and `SInv` adds where the script makes which call. `Control` says that there is one fuzzer,
what the script has of it at each statement, and that from the first `finally` on a
process without a handle was sent SIGKILL. `Contents` relates the directory and the
archives: only one place is written, and only at the end (`ArchivesUntilSave`), with what was
restored or found (`RestoredAreThere`, `Filling`, `Filled`) and a program that is `Complete`:
prepared to the end, or as the archive had it. What a failing save leaves is never whole
(`FailureLeaves`), and the exception that broke it off is in the status. `Reports` says that a session that
found nothing has seen its fuzzer die after the last crash (`Silent`): the loop's last
look comes after the one at the process. All of the session's safety properties follow,
for any number of crashes and any archives. TLC agrees that `SInv` is invariant.

`NondetProofs` proves `TypeOK`, `UnitsUsedOnce` and `InOrder` for any input, any types of value
and any threads. `IInv` relates the position in the input to what the threads
have drawn: each unit before it is in one value, none after it in any. A value is a flattened
sequence of units; what `FlattenSeq` returns is proved from its definition by the least index at
which it could fail (`FlattenAppend` in `FlattenTheorems`), since the library's induction theorems cannot be
instantiated.

`MalformedAssertsProofs` proves `TypeOK` and `RestCopied` for any text, errors and name:
the scan never runs backwards and at most one character past the end (`ScanInv`), what is
written lies before the index (`Behind`), and a segment recorded again only grows.
`ErrorsAreFound` is `ErrorLocated`: the offset computed from lines and columns is the one
they were computed from, since a line is what lies between two newlines (`Located`).

Its second part proves `CallsErased` and `ParensBalanced` for texts of any number of the tokens
of `MCMalformed`, with any number of errors, located at any tokens or at the end; the hypothesis
is that the assertion's name is `Name`, as in the run. `Layout` says which characters are where; the depth of
the parentheses is counted token by token (`DepthStep`, `DepthSplit`), and calls are apart or one within
the other (`CallsNest`). The scan goes through the tokens of a call with the depth of those it has
passed, and stands inside a token only where a literal, an escape or a longer name is
(`ScanAt`, `ScanToken`); so what is recorded for a call ends with it, and what is recorded for
anything else closes as many parentheses as it opens (`SegmentsOfHeads`). For the copying, `CallsCopied`
says that it is at no place within a call and has written what no call covers, and `DepthKept`
that what is written of a text without comments is as deep, after each token left, as the text is there. In both theorems the
comments are the limit of the code itself: an apostrophe in one opens a literal. TLC agrees that
`ScanTokens`, `CallsCopied` and `DepthKept` are invariants, with the bounds of `eraser` on their quantifiers.

`TestPipelineProofs` proves the three properties of the pipeline for any number of edits,
failures, kills and stages. `Chain` says what each file is while a stage of a test in order
is at work, `AllInOrder` and `MakeRunsAll` that a run of make is such a test, `Derived` that
undisturbed it is one of the inputs as they are, and `CleanIsTested` that the clean file stays
that of the last passed test until someone runs a stage by hand.

`PthreadsProofs` proves `NoRace`, `NeverFails` and `MemorySafe` of all twenty examples, for any
number of threads and any interleaving; there is no hypothesis on the program. (`NoRace` itself leaves out
`simple.c`, which does not claim it.) The invariant `IInv` has two forms.

`PoolInv` is that of the twelve programs whose `main` creates its threads, joins them all in
order and frees the memory (`PoolPrograms`). `MainCode` and the lemmas
named after the threads' steps (`LockedWriteCode` to `KeyCondCode`) say what the programs' code
is, step by step. `PoolInv` has what `main` has created and joined (`Created`, `Joined`), that
a thread between its lock and its unlock has the mutex (`Owned`), that `next_j` counts the
threads past their increment, each with an index of its own below it (`Indexed`), what is in the
thread-local variables (`Valued`) and what is freed, and when (`FreedKnown`). There is one lemma per
kind of thread (`LockedWriteSafe` to `IndexSafe`) and one per kind of step of `main`.
`ThreadAccess` lists what entitles a thread to an access: the location is its own, or it has the mutex, or
the access is atomic, or it took the index; no two threads are entitled to the same.

`OtherInv` is that of the other eight, which hand out a bit mask, wait on a condition or a flag, join by a
counter or each other, or whose `main` does more between its creations and joins.
The machine's part of it is proved once for all eight. `WellPlaced` says of each step of
a program which mutex it takes, gives up or keeps and that what it joins or detaches was created
before, and is shown of each program from its text (`Placed`; `FlattenTheorems` has how the
pieces of the text lie in the whole). From that alone `Base` is inductive: threads are created in
turn, wait only at a wait, have the mutex of the section they are in, also
after a wait gave it up and took it back, and what is behind a join is at its end
(`CreatedInTurn`, `WaitsAtAwait`, `Exclusive`, `JoinsPassed`, `FreesPassed`). What is left is each
program's own:

- `ReadyLast`: in `value-barrier.c` the flag is set after the data is there, and no thread is
  past its wait before.
- `CountedOut`: in `thread-join-counter-outer.c` the counter is the number of threads `main` has counted and
  that have not counted themselves out, so that it is zero for `main` only once all have written.
- `CountedInOut`: in `thread-join-counter-inner.c` the threads count themselves in as well; `main`
  waits for all of them to be in before it lets them go, or else zero could be read too early.
- `BitsApart`: in `per-thread-index-bitmask.c` each bit is in the mask or held by one thread, or by
  `main` on behalf of the thread it creates next, and what is held is below the number of threads.

In `thread-join-binomial.c` nothing but the joins puts a thread's write before the last read of
`main`, and `main` joins only one thread. Thread number `i`, from 0, joins `i + 1`, `i + 2`, `i + 4` and so on, as long as
the next power of two divides `i` and there is such a thread; `WorkersOf` shows that the `CHOOSE` in the
program's text has this number to choose. Each thread but the first has one that joins it,
with a smaller number, by its lowest bit (`LowestBit`, `JoinedBy`); so, by induction over the
numbers, all are at their end when the first is (`TreeEnded`). The induction is that of a least
counterexample in a set of numbers, as in `FlattenTheorems`.

TLC agrees that `IInv` is invariant, of all twenty programs with three threads, when it is added to `subjects`.

## 6. What is only model-checked

- Liveness (`TimerEndsProcess`, `FailureEndsProcess`, `StopReturns`, `SessionEnds`, `Ends`,
  `MainReturns`), since the prover does not treat fairness.
- What is stated on parsed text (`SyntaxPreserved`, `SkeletonPreserved`, `LocationChecked`,
  `LoopChecked`), since the parser is recursive.
- What a recursive definition returns for every input: there is no induction over data, but where
  a fold is a function on an interval, as in `FlattenSeq`, a least counterexample does instead.

## 7. What is not modelled

- Real programs under `examples/` (`the_silver_searcher.c`, `ProcDump-for-Linux.c`, `fzy.c`, `EasyLogger.c`,
  `uthash.c`, `C-Thread-Pool.c`, `klib.c`, `libfaketime.c`): some 19 000 of the repository's 21 000 lines are
  third-party code as CIL prints it, input to the tools and no part of them. What matters of them
  here, their statement forms, is in the units of `MCInject`. `conf/` and the `.json` files
  are settings of the analyser.
- `run_fuzz.py` is unfinished: the function that fills the environment into a configuration returns the
  type `str`, so that any configuration ends in a `TypeError`; there is no state. `fuzz_harness.s` is
  sixteen instructions that hand `__fuzz_harness_main` to the C library.
- The grammar of YAML and of C expressions, the text of assertions, line and column
  arithmetic of the injector: an invariant names an offset.
- Included files: every node is one of the main file. Files given twice on the
  command line. Errors the compiler reports in other files than the one to erase in.
- The values that a `_Bool` or a `float` gets from arbitrary bytes, and `rand` of the C library.
- An apostrophe in a comment inside a call: the eraser takes it for a literal.
  `CallsErased` leaves such calls out, since the injected assertions have no comments.
- What AFL++ makes of an exit status.
