---------------------------- MODULE FuzzHarness ----------------------------
(***************************************************************************)
(* src/fuzz_harness/fuzz_harness.c: the runtime a benchmark is linked with *)
(* for fuzzing.  The benchmark is any multi-threaded program that uses the *)
(* SV-COMP primitives; the harness decides with which status the process   *)
(* ends, which is all that the fuzzer sees of it.                          *)
(***************************************************************************)
EXTENDS Integers, FiniteSets

CONSTANTS
    Threads, Main,   \* the benchmark's threads, and its first one
    Unset,           \* an environment variable that is not set, or is empty
    Codes,           \* the numbers the environment variables may hold
    Timeouts,        \* the numbers FUZZ_HARNESS_TIMEOUT may hold
    Returns,         \* what main returns, and what the benchmark exits with
    SanitizerCode    \* the exit status of a sanitizer's own death

ASSUME ConstantsAssumption ==
    /\ Main \in Threads
    /\ Codes \subseteq Int /\ Returns \subseteq Int /\ Timeouts \subseteq Nat
    /\ Unset \notin Int
    /\ SanitizerCode \in 0..255

\* FUZZ_HARNESS_RC, _TIMEOUT, _ABORT_RC, _SANITIZER_RC, _WITNESS_ASSERT_RC,
\* and whether the harness was compiled with FUZZ_HARNESS_SANITIZER_HOOK.
Environments ==
    [rc : Codes \cup {Unset}, timeout : Timeouts \cup {Unset},
     abort : Codes \cup {Unset}, sanitizer : Codes \cup {Unset},
     assert : Codes \cup {Unset}, hook : BOOLEAN]

VARIABLES
    env,
    handlerCode,     \* the four static ..._handler_exit_code variables
    abortHandler,    \* SIGABRT has the harness's handler
    deathCallback,   \* the sanitizer has the harness's callback
    timer,           \* ITIMER_REAL: "off", "armed" or "expired"
    pc,              \* where each thread is
    inside,          \* the thread is between atomic_begin and atomic_end
    global_lock,     \* the thread that holds the mutex
    exitCode,        \* what the thread's innermost call of exit was given
    exits,           \* history: every reason to end, and the benchmark's value
    status           \* the process's status once it has ended

harness == <<handlerCode, abortHandler, deathCallback>>
vars    == <<env, harness, timer, pc, inside, global_lock, exitCode, exits, status>>

NoThread == "none"       \* the mutex is free
Running  == -1           \* the process has not ended
SIGABRT  == 256 + 6      \* it was killed by that signal, no exit status

ASSUME NoThreadAssumption == NoThread \notin Threads

\* boot: before the constructors; new: not created; wait: in the mutex's lock;
\* spin: in the endless loop of a failed assume; exit: in exit(); stuck: a
\* handler's exit() waits for a lock of the exit() it interrupted.
Pcs    == {"boot", "new", "run", "wait", "spin", "exit", "stuck", "done"}
Causes == {"return", "program", "assert", "abort", "timeout", "sanitizer"}
Live   == {"run", "wait", "spin", "exit"}

TypeOK ==
    /\ env \in Environments
    /\ handlerCode \in [timeout : Int, abort : Int, assert : Int, sanitizer : Int]
    /\ abortHandler \in BOOLEAN /\ deathCallback \in BOOLEAN
    /\ timer \in {"off", "armed", "expired"}
    /\ pc \in [Threads -> Pcs]
    /\ inside \in [Threads -> BOOLEAN]
    /\ global_lock \in Threads \cup {NoThread}
    /\ exitCode \in [Threads -> Int]
    /\ exits \subseteq [cause : Causes, value : Int]
    /\ status \in 0..255 \cup {Running, SIGABRT}

Init ==
    /\ env \in Environments
    /\ handlerCode = [timeout |-> 0, abort |-> 0, assert |-> -1, sanitizer |-> -2]
    /\ abortHandler = FALSE /\ deathCallback = FALSE /\ timer = "off"
    /\ pc = [t \in Threads |-> IF t = Main THEN "boot" ELSE "new"]
    /\ inside = [t \in Threads |-> FALSE] /\ global_lock = NoThread
    /\ exitCode = [t \in Threads |-> 0]
    /\ exits = {} /\ status = Running

-----------------------------------------------------------------------------
\* Mutant: an unset or empty variable is read all the same.
Override_Unchecked(value, default) == value

\* The value of a variable of the environment, or else the default.
Override(value, default) == IF value = Unset THEN default ELSE value

\* The constructor, before main and before any other thread.  A timer of 0
\* microseconds is not armed.
fuzz_harness_init ==
    /\ status = Running /\ pc[Main] = "boot"
    /\ LET hooked == env.hook /\ env.sanitizer # Unset
           asked  == env.timeout # Unset
       IN  /\ handlerCode' =
                [timeout   |-> IF asked THEN Override(env.rc, 0) ELSE 0,
                 abort     |-> Override(env.abort, 0),
                 assert    |-> Override(env.assert, -1),
                 sanitizer |-> IF hooked THEN env.sanitizer ELSE -2]
           /\ abortHandler' = (env.abort # Unset)
           /\ deathCallback' = hooked
           /\ timer' = IF asked /\ env.timeout # 0 THEN "armed" ELSE "off"
    /\ pc' = [pc EXCEPT ![Main] = "run"]
    /\ UNCHANGED <<env, inside, global_lock, exitCode, exits, status>>

\* Thread t calls exit(code): the handlers of atexit run, stdio is flushed.
CallExit(t, cause, value, code) ==
    /\ pc' = [pc EXCEPT ![t] = "exit"]
    /\ exitCode' = [exitCode EXCEPT ![t] = code]
    /\ exits' = exits \cup {[cause |-> cause, value |-> value]}
    /\ UNCHANGED <<env, harness, inside, global_lock, status>>

\* Mutant: FUZZ_HARNESS_RC is not looked at.
MainReturns_NoOverride(ret) ==
    /\ status = Running /\ pc[Main] = "run"
    /\ CallExit(Main, "return", ret, ret)
    /\ UNCHANGED timer

\* __fuzz_harness_main: the benchmark's main returns, and the C library exits.
MainReturns(ret) ==
    /\ status = Running /\ pc[Main] = "run"
    /\ CallExit(Main, "return", ret, Override(env.rc, ret))
    /\ UNCHANGED timer

\* The benchmark calls exit itself.
ProgramExits(t, ret) ==
    /\ status = Running /\ pc[t] = "run"
    /\ CallExit(t, "program", ret, ret)
    /\ UNCHANGED timer

\* A witness assertion fails.
assert_fail(t) ==
    /\ status = Running /\ pc[t] = "run"
    /\ CallExit(t, "assert", 0, handlerCode.assert)
    /\ UNCHANGED timer

\* The process ends at once, no handler runs.
EndWith(s, cause) ==
    /\ status' = s
    /\ exits' = exits \cup {[cause |-> cause, value |-> 0]}
    /\ UNCHANGED <<env, harness, timer, pc, inside, global_lock, exitCode>>

\* __VERIFIER_error, or an abort of the benchmark: SIGABRT in this thread.
VERIFIER_error(t) ==
    /\ status = Running /\ pc[t] = "run"
    /\ \/ /\ abortHandler
          /\ CallExit(t, "abort", 0, handlerCode.abort)
          /\ UNCHANGED timer
       \/ ~abortHandler /\ EndWith(SIGABRT, "abort")

\* The sanitizer has found an error, in running code or (a leak) during exit.
SanitizerDies(t) ==
    /\ status = Running /\ pc[t] \in {"run", "exit"}
    /\ \/ /\ deathCallback
          /\ CallExit(t, "sanitizer", 0, handlerCode.sanitizer)
          /\ UNCHANGED timer
       \/ ~deathCallback /\ EndWith(SanitizerCode, "sanitizer")

\* Mutant: the handler only notes that the time is over.
timeout_handler_NoExit(t) ==
    /\ status = Running /\ timer = "armed" /\ pc[t] \in Live
    /\ timer' = "expired"
    /\ UNCHANGED <<env, harness, pc, inside, global_lock, exitCode, exits, status>>

\* Mutant: the handler takes the mutex of the atomic sections.
timeout_handler_Locks(t) ==
    /\ status = Running /\ timer = "armed" /\ pc[t] \in Live
    /\ timer' = "expired"
    /\ \/ global_lock = NoThread /\ CallExit(t, "timeout", 0, handlerCode.timeout)
       \/ /\ global_lock # NoThread
          /\ pc' = [pc EXCEPT ![t] = "wait"]
          /\ UNCHANGED <<env, harness, inside, global_lock, exitCode, exits, status>>

\* SIGALRM is delivered to any one of the threads, whatever it is doing.  In a
\* thread that is in exit(), calling it again is undefined: the inner call runs
\* to its end, or waits for a lock that the outer one holds.
timeout_handler(t) ==
    /\ status = Running /\ timer = "armed" /\ pc[t] \in Live
    /\ timer' = "expired"
    /\ \/ CallExit(t, "timeout", 0, handlerCode.timeout)
       \/ /\ pc[t] = "exit"
          /\ pc' = [pc EXCEPT ![t] = "stuck"]
          /\ UNCHANGED <<env, harness, inside, global_lock, exitCode, exits, status>>

\* A call of exit comes to its end; of several, any one may be the first.  The
\* parent sees eight bits of the code.
FinishExit(t) ==
    /\ status = Running /\ pc[t] = "exit"
    /\ \A s \in Threads : pc[s] # "stuck"
    /\ status' = exitCode[t] % 256
    /\ UNCHANGED <<env, harness, timer, pc, inside, global_lock, exitCode, exits>>

-----------------------------------------------------------------------------
\* A step that only moves one thread.
Move(t, from, to) ==
    /\ status = Running /\ pc[t] = from
    /\ pc' = [pc EXCEPT ![t] = to]
    /\ UNCHANGED <<env, harness, timer, exitCode, exits, status>>

\* The benchmark creates a thread; a thread other than the first returns.
Spawn(t) ==
    /\ Move(t, "new", "run") /\ pc[Main] # "boot"
    /\ UNCHANGED <<inside, global_lock>>
ThreadReturns(t) ==
    /\ t # Main /\ ~inside[t] /\ Move(t, "run", "done")
    /\ UNCHANGED <<inside, global_lock>>

\* Mutant: the mutex is only tried, and the result not looked at.
atomic_begin_Try(t) ==
    /\ ~inside[t] /\ Move(t, "run", "run")
    /\ global_lock' = IF global_lock = NoThread THEN t ELSE global_lock
    /\ inside' = [inside EXCEPT ![t] = TRUE]

\* The benchmark does not nest its atomic sections, and ends only its own.
atomic_begin(t) ==
    /\ ~inside[t] /\ Move(t, "run", "wait")
    /\ UNCHANGED <<inside, global_lock>>
Acquire(t) ==
    /\ global_lock = NoThread /\ Move(t, "wait", "run")
    /\ global_lock' = t /\ inside' = [inside EXCEPT ![t] = TRUE]
atomic_end(t) ==
    /\ inside[t] /\ Move(t, "run", "run")
    /\ global_lock' = NoThread /\ inside' = [inside EXCEPT ![t] = FALSE]

\* __VERIFIER_assume(0) never returns.
assume_fails(t) ==
    /\ Move(t, "run", "spin")
    /\ UNCHANGED <<inside, global_lock>>

\* The process has ended, or every thread is stuck, waits, spins or is gone.
Over ==
    /\ \/ status # Running
       \/ timer # "armed" /\ \A t \in Threads :
            /\ pc[t] \notin {"boot", "run"}
            /\ pc[t] = "wait" => global_lock # NoThread
            /\ pc[t] = "exit" => \E s \in Threads : pc[s] = "stuck"
    /\ UNCHANGED vars

ThreadStep(t) ==
    \/ \E ret \in Returns : ProgramExits(t, ret)
    \/ assert_fail(t) \/ VERIFIER_error(t) \/ SanitizerDies(t)
    \/ Spawn(t) \/ ThreadReturns(t)
    \/ atomic_begin(t) \/ Acquire(t) \/ atomic_end(t) \/ assume_fails(t)

Next ==
    \/ fuzz_harness_init
    \/ \E ret \in Returns : MainReturns(ret)
    \/ \E t \in Threads :
          ThreadStep(t) \/ timeout_handler(t) \/ FinishExit(t)
    \/ Over

Spec == Init /\ [][Next]_vars

\* The kernel delivers the signal of an expired timer and lets a thread in
\* exit() run on, and the C runtime calls the constructors.  Nothing is assumed
\* of the benchmark.
Fairness ==
    /\ WF_vars(fuzz_harness_init)
    /\ WF_vars(\E t \in Threads : timeout_handler(t))
    /\ WF_vars(\E t \in Threads : FinishExit(t))
FairSpec == Spec /\ Fairness

-----------------------------------------------------------------------------
\* fuzz_harness.c:168-174: atomic sections of different threads never overlap,
\* whatever spins, asserts, times out or exits inside of them.
AtomicExclusion == \A s, t \in Threads : inside[s] /\ inside[t] => s = t

\* The status that each reason to end is given by the environment alone.
StatusOf(e) ==
    CASE e.cause = "return"    -> Override(env.rc, e.value) % 256
      [] e.cause = "program"   -> e.value % 256
      [] e.cause = "assert"    -> Override(env.assert, -1) % 256
      [] e.cause = "timeout"   -> Override(env.rc, 0) % 256
      [] e.cause = "abort"     -> IF env.abort = Unset THEN SIGABRT ELSE env.abort % 256
      [] e.cause = "sanitizer" -> IF env.hook /\ env.sanitizer # Unset
                                  THEN env.sanitizer % 256 ELSE SanitizerCode

\* Whatever races with what (a timer with a failing assertion, two threads that
\* exit), the status of the process is that of something that did happen: no
\* verdict is made up, and no code of one cause is reported for another.
StatusHasCause == status # Running => \E e \in exits : status = StatusOf(e)

\* fuzz_harness.c:88-101: with a timer armed the process ends, even when every
\* thread spins in an assume or waits for the mutex of one that does; unless the
\* signal strikes a thread in the midst of exit().
TimerEndsProcess ==
    timer = "armed" ~> (status # Running \/ \E t \in Threads : pc[t] = "stuck")

\* A failed witness assertion does end the process, if no timer interferes.
FailureEndsProcess ==
    (\E t \in Threads : pc[t] = "exit") ~>
        (status # Running \/ \E t \in Threads : pc[t] = "stuck")
=============================================================================
