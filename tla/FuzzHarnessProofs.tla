------------------------- MODULE FuzzHarnessProofs -------------------------
(***************************************************************************)
(* The safety of the fuzzing runtime, for any number of threads and any    *)
(* values in the environment.                                              *)
(***************************************************************************)
EXTENDS FuzzHarness, TLAPS

\* The mutex is held by the thread inside an atomic section.
InsideHoldsLock == \A t \in Threads : inside[t] => global_lock = t

\* Before the constructor has run nothing else has.
NothingBeforeBoot ==
    pc[Main] = "boot" =>
        /\ timer = "off" /\ status = Running
        /\ \A t \in Threads \ {Main} : pc[t] = "new"

OnlyMainBoots == \A t \in Threads : pc[t] = "boot" => t = Main

\* What the constructor has set agrees with the environment.
HandlersFollowEnv ==
    pc[Main] # "boot" =>
        /\ handlerCode.assert = Override(env.assert, -1)
        /\ abortHandler <=> env.abort # Unset
        /\ handlerCode.abort = Override(env.abort, 0)
        /\ deathCallback <=> env.hook /\ env.sanitizer # Unset
        /\ deathCallback => handlerCode.sanitizer = env.sanitizer
        /\ timer = "armed" => handlerCode.timeout = Override(env.rc, 0)

\* A thread in exit() is there for a reason that gives it its code.
ExitHasCause ==
    \A t \in Threads : pc[t] = "exit" => \E e \in exits : exitCode[t] % 256 = StatusOf(e)

IInv ==
    /\ TypeOK /\ InsideHoldsLock
    /\ OnlyMainBoots /\ NothingBeforeBoot /\ HandlersFollowEnv
    /\ ExitHasCause /\ StatusHasCause

-----------------------------------------------------------------------------
LEMMA OverrideType ==
    ASSUME NEW v \in Codes \cup {Unset}, NEW d \in Int
    PROVE  Override(v, d) \in Int
BY ConstantsAssumption DEF Override

LEMMA CallExitType ==
    ASSUME TypeOK, NEW t \in Threads, NEW cause \in Causes, NEW value \in Int,
           NEW code \in Int, CallExit(t, cause, value, code),
           timer' \in {"off", "armed", "expired"}
    PROVE  TypeOK'
<1>1. pc' \in [Threads -> Pcs] /\ exitCode' \in [Threads -> Int]
  BY DEF CallExit, TypeOK, Pcs
<1>2. exits' \subseteq [cause : Causes, value : Int]
  BY DEF CallExit, TypeOK
<1> QED
  BY <1>1, <1>2 DEF CallExit, TypeOK, harness

LEMMA EndWithType ==
    ASSUME TypeOK, NEW s \in 0..255 \cup {SIGABRT}, NEW cause \in Causes, EndWith(s, cause)
    PROVE  TypeOK'
<1>1. exits' \subseteq [cause : Causes, value : Int]
  BY DEF EndWith, TypeOK
<1> QED
  BY <1>1 DEF EndWith, TypeOK, harness

LEMMA MoveType ==
    ASSUME TypeOK, NEW t \in Threads, NEW from, NEW to \in Pcs, Move(t, from, to),
           inside' \in [Threads -> BOOLEAN], global_lock' \in Threads \cup {NoThread}
    PROVE  TypeOK'
BY DEF Move, TypeOK, harness

LEMMA TypeInit == Init => TypeOK
<1> SUFFICES ASSUME Init PROVE TypeOK
  OBVIOUS
<1>1. pc \in [Threads -> Pcs]
  BY DEF Init, Pcs
<1>2. handlerCode \in [timeout : Int, abort : Int, assert : Int, sanitizer : Int]
  BY DEF Init
<1> QED
  BY <1>1, <1>2 DEF Init, TypeOK

LEMMA TypeNext == TypeOK /\ [Next]_vars => TypeOK'
<1> SUFFICES ASSUME TypeOK, [Next]_vars PROVE TypeOK'
  OBVIOUS
<1> USE ConstantsAssumption
<1>1. CASE fuzz_harness_init
  <2>1. /\ env.rc \in Codes \cup {Unset} /\ env.abort \in Codes \cup {Unset}
        /\ env.assert \in Codes \cup {Unset} /\ env.sanitizer \in Codes \cup {Unset}
    BY DEF TypeOK, Environments
  <2>2. /\ Override(env.rc, 0) \in Int /\ Override(env.abort, 0) \in Int
        /\ Override(env.assert, -1) \in Int
        /\ env.sanitizer # Unset => env.sanitizer \in Int
    <3>1. 0 \in Int /\ -1 \in Int
      OBVIOUS
    <3>2. /\ Override(env.rc, 0) \in Int /\ Override(env.abort, 0) \in Int
          /\ Override(env.assert, -1) \in Int
      BY <2>1, <3>1, OverrideType
    <3>3. env.sanitizer # Unset => env.sanitizer \in Int
      BY <2>1
    <3> QED
      BY <3>2, <3>3
  <2>3. handlerCode' \in [timeout : Int, abort : Int, assert : Int, sanitizer : Int]
    BY <1>1, <2>2 DEF fuzz_harness_init
  <2>4. /\ abortHandler' \in BOOLEAN /\ deathCallback' \in BOOLEAN
        /\ timer' \in {"off", "armed", "expired"}
    BY <1>1 DEF fuzz_harness_init, TypeOK, Environments
  <2>5. pc' \in [Threads -> Pcs]
    BY <1>1 DEF fuzz_harness_init, TypeOK, Pcs
  <2> QED
    BY <1>1, <2>3, <2>4, <2>5 DEF fuzz_harness_init, TypeOK
<1>2. ASSUME NEW ret \in Returns, MainReturns(ret) PROVE TypeOK'
  <2>1. Override(env.rc, ret) \in Int /\ ret \in Int
    BY OverrideType DEF TypeOK, Environments
  <2> QED
    BY <1>2, <2>1, CallExitType DEF MainReturns, Causes, TypeOK
<1>3. ASSUME NEW t \in Threads, ThreadStep(t) PROVE TypeOK'
  <2>1. ASSUME NEW ret \in Returns, ProgramExits(t, ret) PROVE TypeOK'
    BY <2>1, CallExitType DEF ProgramExits, Causes, TypeOK
  <2>2. CASE assert_fail(t)
    BY <2>2, CallExitType DEF assert_fail, Causes, TypeOK
  <2>3. CASE VERIFIER_error(t)
    <3>1. CASE CallExit(t, "abort", 0, handlerCode.abort) /\ UNCHANGED timer
      BY <3>1, CallExitType DEF Causes, TypeOK
    <3>2. CASE EndWith(SIGABRT, "abort")
      BY <3>2, EndWithType DEF Causes
    <3> QED
      BY <2>3, <3>1, <3>2 DEF VERIFIER_error
  <2>4. CASE SanitizerDies(t)
    <3>1. CASE CallExit(t, "sanitizer", 0, handlerCode.sanitizer) /\ UNCHANGED timer
      BY <3>1, CallExitType DEF Causes, TypeOK
    <3>2. CASE EndWith(SanitizerCode, "sanitizer")
      BY <3>2, EndWithType DEF Causes
    <3> QED
      BY <2>4, <3>1, <3>2 DEF SanitizerDies
  <2>5. CASE Spawn(t) \/ ThreadReturns(t) \/ atomic_begin(t) \/ assume_fails(t)
    BY <2>5, MoveType DEF Spawn, ThreadReturns, atomic_begin, assume_fails, TypeOK, Pcs
  <2>6. CASE Acquire(t)
    BY <2>6, MoveType DEF Acquire, TypeOK, Pcs
  <2>7. CASE atomic_end(t)
    BY <2>7, MoveType DEF atomic_end, TypeOK, Pcs
  <2> QED
    BY <1>3, <2>1, <2>2, <2>3, <2>4, <2>5, <2>6, <2>7 DEF ThreadStep
<1>4. ASSUME NEW t \in Threads, timeout_handler(t) PROVE TypeOK'
  <2>1. CASE CallExit(t, "timeout", 0, handlerCode.timeout)
    BY <1>4, <2>1, CallExitType DEF timeout_handler, Causes, TypeOK
  <2>2. CASE pc' = [pc EXCEPT ![t] = "stuck"] /\
             UNCHANGED <<env, harness, inside, global_lock, exitCode, exits, status>>
    <3>1. pc' \in [Threads -> Pcs]
      BY <2>2 DEF TypeOK, Pcs
    <3> QED
      BY <1>4, <2>2, <3>1 DEF timeout_handler, TypeOK, harness
  <2> QED
    BY <1>4, <2>1, <2>2 DEF timeout_handler
<1>5. ASSUME NEW t \in Threads, FinishExit(t) PROVE TypeOK'
  <2>1. status' \in 0..255
    BY <1>5 DEF FinishExit, TypeOK
  <2> QED
    BY <1>5, <2>1 DEF FinishExit, TypeOK, harness
<1>6. CASE UNCHANGED vars
  BY <1>6 DEF vars, harness, TypeOK
<1> QED
  BY <1>1, <1>2, <1>3, <1>4, <1>5, <1>6 DEF Next, Over

-----------------------------------------------------------------------------
LEMMA StatusStable ==
    ASSUME UNCHANGED env
    PROVE  \A e : StatusOf(e)' = StatusOf(e)
BY DEF StatusOf, Override

\* The status of each cause, case by case.
LEMMA StatusCases ==
    ASSUME NEW v
    PROVE  /\ StatusOf([cause |-> "return", value |-> v]) = Override(env.rc, v) % 256
           /\ StatusOf([cause |-> "program", value |-> v]) = v % 256
           /\ StatusOf([cause |-> "assert", value |-> v]) = Override(env.assert, -1) % 256
           /\ StatusOf([cause |-> "timeout", value |-> v]) = Override(env.rc, 0) % 256
           /\ StatusOf([cause |-> "abort", value |-> v]) =
                  IF env.abort = Unset THEN SIGABRT ELSE env.abort % 256
           /\ StatusOf([cause |-> "sanitizer", value |-> v]) =
                  IF env.hook /\ env.sanitizer # Unset
                  THEN env.sanitizer % 256 ELSE SanitizerCode
BY DEF StatusOf

\* A thread that calls exit with the code of a cause.
LEMMA CausedExit ==
    ASSUME IInv, status = Running,
           NEW t \in Threads, NEW cause, NEW value, NEW code \in Int,
           CallExit(t, cause, value, code),
           code % 256 = StatusOf([cause |-> cause, value |-> value])
    PROVE  ExitHasCause' /\ StatusHasCause'
<1> DEFINE e == [cause |-> cause, value |-> value]
<1>1. /\ pc' = [pc EXCEPT ![t] = "exit"] /\ exitCode' = [exitCode EXCEPT ![t] = code]
      /\ exits' = exits \cup {e} /\ UNCHANGED <<env, status>>
  BY DEF CallExit
<1>2. \A x : StatusOf(x)' = StatusOf(x)
  BY <1>1, StatusStable
<1>3. code % 256 = StatusOf(e)
  OBVIOUS
<1> HIDE DEF e
<1>4. ASSUME NEW s \in Threads, pc'[s] = "exit"
      PROVE  \E x \in exits' : exitCode'[s] % 256 = StatusOf(x)'
  <2>1. CASE s = t
    BY <1>1, <1>2, <1>3, <2>1 DEF IInv, TypeOK
  <2>2. CASE s # t
    BY <1>1, <1>2, <1>4, <2>2 DEF IInv, TypeOK, ExitHasCause
  <2> QED
    BY <2>1, <2>2
<1> QED
  BY <1>1, <1>4 DEF ExitHasCause, StatusHasCause

\* The process ends with the status of a cause.
LEMMA CausedEnd ==
    ASSUME IInv, NEW s, NEW cause, EndWith(s, cause),
           s = StatusOf([cause |-> cause, value |-> 0])
    PROVE  ExitHasCause' /\ StatusHasCause'
<1> DEFINE e == [cause |-> cause, value |-> 0]
<1>1. exits' = exits \cup {e} /\ UNCHANGED <<env, pc, exitCode>> /\ status' = s
  BY DEF EndWith
<1>2. \A x : StatusOf(x)' = StatusOf(x)
  BY <1>1, StatusStable
<1>3. s = StatusOf(e)
  OBVIOUS
<1> HIDE DEF e
<1> QED
  BY <1>1, <1>2, <1>3 DEF IInv, ExitHasCause, StatusHasCause

\* A step that makes no thread exit and does not end the process.
LEMMA NoExit ==
    ASSUME IInv, UNCHANGED <<env, exitCode, exits, status>>,
           \A t \in Threads : pc'[t] = "exit" => pc[t] = "exit"
    PROVE  ExitHasCause' /\ StatusHasCause'
BY StatusStable DEF IInv, ExitHasCause, StatusHasCause

\* A step of a thread that runs leaves what holds of the constructor alone.
LEMMA BootIsOver ==
    ASSUME IInv, UNCHANGED <<env, harness>>, timer' \in {timer, "expired"},
           NEW t \in Threads, pc[Main] # "boot",
           pc[t] # "boot", NEW to, to # "boot",
           pc' = [pc EXCEPT ![t] = to] \/ UNCHANGED pc
    PROVE  OnlyMainBoots' /\ NothingBeforeBoot' /\ HandlersFollowEnv'
<1>1. Main \in Threads /\ pc \in [Threads -> Pcs]
  BY ConstantsAssumption DEF IInv, TypeOK
<1>2. \A s \in Threads : pc'[s] = "boot" => pc[s] = "boot"
  BY <1>1
<1>3. OnlyMainBoots' /\ NothingBeforeBoot'
  BY <1>1, <1>2 DEF IInv, OnlyMainBoots, NothingBeforeBoot
<1>4. handlerCode' = handlerCode /\ abortHandler' = abortHandler /\ deathCallback' = deathCallback
  BY DEF harness
<1>5. timer' = "armed" => timer = "armed"
  OBVIOUS
<1>6. HandlersFollowEnv'
  <2>1. HandlersFollowEnv /\ pc[Main] # "boot" /\ UNCHANGED env
    BY DEF IInv
  <2> QED
    BY <1>4, <1>5, <2>1 DEF HandlersFollowEnv, Override
<1> QED
  BY <1>3, <1>6

\* A thread that does anything does it after the constructor.
LEMMA RunsAfterBoot ==
    ASSUME IInv, NEW t \in Threads, pc[t] \notin {"boot", "new"}
    PROVE  pc[Main] # "boot"
BY DEF IInv, NothingBeforeBoot

-----------------------------------------------------------------------------
LEMMA SafeInit == Init => IInv
<1> SUFFICES ASSUME Init PROVE IInv
  OBVIOUS
<1>1. pc[Main] = "boot" /\ \A t \in Threads : pc[t] # "exit" /\ (pc[t] = "boot" => t = Main)
  BY ConstantsAssumption DEF Init
<1>2. InsideHoldsLock
  BY DEF Init, InsideHoldsLock
<1>3. NothingBeforeBoot
  BY DEF Init, NothingBeforeBoot
<1> QED
  BY <1>1, <1>2, <1>3, TypeInit
  DEF Init, IInv, OnlyMainBoots, HandlersFollowEnv, ExitHasCause, StatusHasCause

\* The mutex: only the one who holds it leaves the section and frees it.
LEMMA LockNext == TypeOK /\ InsideHoldsLock /\ [Next]_vars => InsideHoldsLock'
<1> SUFFICES ASSUME TypeOK, InsideHoldsLock, [Next]_vars PROVE InsideHoldsLock'
  OBVIOUS
<1>1. ASSUME NEW t \in Threads, Acquire(t) PROVE InsideHoldsLock'
  BY <1>1, NoThreadAssumption DEF Acquire, InsideHoldsLock, TypeOK
<1>2. ASSUME NEW t \in Threads, atomic_end(t) PROVE InsideHoldsLock'
  <2>1. \A s \in Threads \ {t} : ~inside[s]
    BY <1>2 DEF atomic_end, InsideHoldsLock
  <2> QED
    BY <1>2, <2>1 DEF atomic_end, InsideHoldsLock, TypeOK
<1>3. ASSUME UNCHANGED <<inside, global_lock>> PROVE InsideHoldsLock'
  BY <1>3 DEF InsideHoldsLock
<1>4. CASE fuzz_harness_init
  BY <1>3, <1>4 DEF fuzz_harness_init
<1>5. ASSUME NEW ret \in Returns, MainReturns(ret) PROVE InsideHoldsLock'
  BY <1>3, <1>5 DEF MainReturns, CallExit
<1>6. ASSUME NEW t \in Threads, ThreadStep(t) PROVE InsideHoldsLock'
  BY <1>1, <1>2, <1>3, <1>6
  DEF ThreadStep, ProgramExits, assert_fail, VERIFIER_error, SanitizerDies, Spawn,
      ThreadReturns, atomic_begin, assume_fails, CallExit, EndWith
<1>7. ASSUME NEW t \in Threads, timeout_handler(t) \/ FinishExit(t) PROVE InsideHoldsLock'
  BY <1>3, <1>7 DEF timeout_handler, FinishExit, CallExit
<1>8. CASE UNCHANGED vars
  BY <1>3, <1>8 DEF vars
<1> QED
  BY <1>4, <1>5, <1>6, <1>7, <1>8 DEF Next, Over

LEMMA SafeNext == IInv /\ [Next]_vars => IInv'
<1> SUFFICES ASSUME IInv, [Next]_vars PROVE IInv'
  OBVIOUS
<1> DEFINE Boot == OnlyMainBoots /\ NothingBeforeBoot /\ HandlersFollowEnv
           Exit == ExitHasCause /\ StatusHasCause
<1>1. TypeOK' /\ InsideHoldsLock'
  BY TypeNext, LockNext DEF IInv
<1>2. SUFFICES Boot' /\ Exit'
  BY <1>1 DEF IInv
<1>3. CASE fuzz_harness_init
  <2>1. /\ Main \in Threads /\ pc \in [Threads -> Pcs] /\ pc[Main] = "boot"
        /\ pc' = [pc EXCEPT ![Main] = "run"]
        /\ UNCHANGED <<env, exitCode, exits, status>>
    BY <1>3, ConstantsAssumption DEF fuzz_harness_init, IInv, TypeOK
  <2>2. Exit'
    BY <2>1, NoExit
  <2>3. OnlyMainBoots' /\ NothingBeforeBoot'
    BY <2>1 DEF IInv, OnlyMainBoots, NothingBeforeBoot
  <2>4. HandlersFollowEnv'
    BY <1>3, <2>1 DEF fuzz_harness_init, HandlersFollowEnv, Override
  <2> QED
    BY <2>2, <2>3, <2>4
<1>4. ASSUME NEW t \in Threads, NEW cause \in Causes, NEW value, NEW code \in Int,
             pc[t] \in {"run", "exit", "wait", "spin"}, status = Running,
             CallExit(t, cause, value, code), timer' \in {timer, "expired"},
             code % 256 = StatusOf([cause |-> cause, value |-> value])
      PROVE  Boot' /\ Exit'
  <2>1. Exit'
    BY <1>4, CausedExit
  <2>2. pc[Main] # "boot"
    BY <1>4, RunsAfterBoot
  <2>3. Boot'
    BY <1>4, <2>2, BootIsOver DEF CallExit
  <2> QED
    BY <2>1, <2>3
<1>5. ASSUME NEW t \in Threads, NEW s, NEW cause, pc[t] \in {"run", "exit"},
             EndWith(s, cause), s = StatusOf([cause |-> cause, value |-> 0])
      PROVE  Boot' /\ Exit'
  <2>1. Exit'
    BY <1>5, CausedEnd
  <2>2. pc[Main] # "boot"
    BY <1>5, RunsAfterBoot
  <2>3. Boot'
    BY <1>5, <2>2, BootIsOver DEF EndWith
  <2> QED
    BY <2>1, <2>3
<1>6. ASSUME NEW t \in Threads, NEW from \in Pcs \ {"boot"}, NEW to \in {"run", "wait", "spin", "done"},
             Move(t, from, to), pc[Main] # "boot"
      PROVE  Boot' /\ Exit'
  <2>1. /\ pc \in [Threads -> Pcs] /\ pc[t] # "boot"
        /\ pc' = [pc EXCEPT ![t] = to]
        /\ UNCHANGED <<env, harness, timer, exitCode, exits, status>>
    BY <1>6 DEF Move, IInv, TypeOK
  <2>2. Exit'
    BY <2>1, NoExit
  <2>3. Boot'
    BY <1>6, <2>1, BootIsOver
  <2> QED
    BY <2>2, <2>3
<1>7. ASSUME NEW ret \in Returns, MainReturns(ret) PROVE Boot' /\ Exit'
  <2>1. /\ Main \in Threads /\ pc[Main] = "run" /\ status = Running
        /\ CallExit(Main, "return", ret, Override(env.rc, ret)) /\ UNCHANGED timer
    BY <1>7, ConstantsAssumption DEF MainReturns
  <2>2. Override(env.rc, ret) \in Int
    BY OverrideType, ConstantsAssumption DEF IInv, TypeOK, Environments
  <2>3. Override(env.rc, ret) % 256 = StatusOf([cause |-> "return", value |-> ret])
    BY StatusCases
  <2> QED
    BY <1>4, <2>1, <2>2, <2>3 DEF Causes
<1>8. ASSUME NEW t \in Threads, ThreadStep(t) PROVE Boot' /\ Exit'
  <2>1. pc[t] \notin {"boot", "new"} => pc[Main] # "boot"
    BY RunsAfterBoot
  <2>2. ASSUME pc[Main] # "boot" PROVE HandlersFollowEnv
    BY <2>2 DEF IInv
  <2>3. ASSUME NEW ret \in Returns, ProgramExits(t, ret) PROVE Boot' /\ Exit'
    <3>1. ret \in Int /\ ret % 256 = StatusOf([cause |-> "program", value |-> ret])
      BY StatusCases, ConstantsAssumption
    <3> QED
      BY <1>4, <2>3, <3>1 DEF ProgramExits, Causes
  <2>4. CASE assert_fail(t)
    <3>1. handlerCode.assert \in Int /\ handlerCode.assert = Override(env.assert, -1)
      BY <2>1, <2>2, <2>4 DEF assert_fail, HandlersFollowEnv, IInv, TypeOK
    <3>2. handlerCode.assert % 256 = StatusOf([cause |-> "assert", value |-> 0])
      BY ZenonT(30), <3>1, StatusCases
    <3> QED
      BY <1>4, <2>4, <3>1, <3>2 DEF assert_fail, Causes
  <2>5. CASE VERIFIER_error(t)
    <3>1. /\ pc[t] = "run" /\ status = Running
          /\ abortHandler <=> env.abort # Unset
          /\ handlerCode.abort = Override(env.abort, 0) /\ handlerCode.abort \in Int
      BY <2>1, <2>2, <2>5 DEF VERIFIER_error, HandlersFollowEnv, IInv, TypeOK
    <3>2. CASE abortHandler /\ CallExit(t, "abort", 0, handlerCode.abort) /\ UNCHANGED timer
      <4>1. handlerCode.abort % 256 = StatusOf([cause |-> "abort", value |-> 0])
        BY ZenonT(30), <3>1, <3>2, StatusCases DEF Override
      <4> QED
        BY <1>4, <3>1, <3>2, <4>1 DEF Causes
    <3>3. CASE ~abortHandler /\ EndWith(SIGABRT, "abort")
      <4>1. SIGABRT = StatusOf([cause |-> "abort", value |-> 0])
        BY <3>1, <3>3, StatusCases
      <4> QED
        BY <1>5, <3>1, <3>3, <4>1
    <3> QED
      BY <2>5, <3>2, <3>3 DEF VERIFIER_error
  <2>6. CASE SanitizerDies(t)
    <3>1. /\ pc[t] \in {"run", "exit"} /\ status = Running
          /\ deathCallback <=> env.hook /\ env.sanitizer # Unset
          /\ deathCallback => handlerCode.sanitizer = env.sanitizer
          /\ handlerCode.sanitizer \in Int
      BY <2>1, <2>2, <2>6 DEF SanitizerDies, HandlersFollowEnv, IInv, TypeOK
    <3>2. CASE deathCallback /\ CallExit(t, "sanitizer", 0, handlerCode.sanitizer)
               /\ UNCHANGED timer
      <4> DEFINE asked == env.hook /\ env.sanitizer # Unset
      <4>1. handlerCode.sanitizer % 256 = StatusOf([cause |-> "sanitizer", value |-> 0])
        <5>1. asked /\ handlerCode.sanitizer = env.sanitizer
          BY <3>1, <3>2
        <5>2. StatusOf([cause |-> "sanitizer", value |-> 0]) =
                  IF asked THEN env.sanitizer % 256 ELSE SanitizerCode
          BY StatusCases
        <5> HIDE DEF asked
        <5> QED
          BY <5>1, <5>2
      <4> QED
        BY <1>4, <3>1, <3>2, <4>1 DEF Causes
    <3>3. CASE ~deathCallback /\ EndWith(SanitizerCode, "sanitizer")
      <4>1. SanitizerCode = StatusOf([cause |-> "sanitizer", value |-> 0])
        BY <3>1, <3>3, StatusCases
      <4> QED
        BY <1>5, <3>1, <3>3, <4>1
    <3> QED
      BY <2>6, <3>2, <3>3 DEF SanitizerDies
  <2>7. CASE Spawn(t)
    BY <1>6, <2>7 DEF Spawn, Pcs
  <2>8. CASE \/ ThreadReturns(t) \/ atomic_begin(t) \/ Acquire(t) \/ atomic_end(t)
             \/ assume_fails(t)
    <3>1. PICK from \in {"run", "wait"}, to \in {"run", "wait", "spin", "done"} :
              Move(t, from, to)
      BY <2>8 DEF ThreadReturns, atomic_begin, Acquire, atomic_end, assume_fails
    <3>2. pc[Main] # "boot"
      BY <2>1, <3>1 DEF Move
    <3> QED
      BY <1>6, <3>1, <3>2 DEF Pcs
  <2> QED
    BY <1>8, <2>3, <2>4, <2>5, <2>6, <2>7, <2>8 DEF ThreadStep
<1>9. ASSUME NEW t \in Threads, timeout_handler(t) PROVE Boot' /\ Exit'
  <2>1. /\ pc[t] \in {"run", "exit", "wait", "spin"} /\ status = Running
        /\ timer = "armed" /\ timer' = "expired" /\ pc[Main] # "boot"
    BY <1>9, RunsAfterBoot DEF timeout_handler, Live
  <2>2. CASE CallExit(t, "timeout", 0, handlerCode.timeout)
    <3>1. handlerCode.timeout = Override(env.rc, 0) /\ handlerCode.timeout \in Int
      BY <2>1 DEF IInv, HandlersFollowEnv, TypeOK
    <3>2. handlerCode.timeout % 256 = StatusOf([cause |-> "timeout", value |-> 0])
      BY ZenonT(30), <3>1, StatusCases
    <3> QED
      BY <1>4, <2>1, <2>2, <3>1, <3>2 DEF Causes
  <2>3. CASE pc' = [pc EXCEPT ![t] = "stuck"] /\
             UNCHANGED <<env, harness, inside, global_lock, exitCode, exits, status>>
    <3>1. Exit'
      BY <2>3, NoExit DEF IInv, TypeOK
    <3>2. Boot'
      BY <2>1, <2>3, BootIsOver
    <3> QED
      BY <3>1, <3>2
  <2> QED
    BY <1>9, <2>2, <2>3 DEF timeout_handler
<1>10. ASSUME NEW t \in Threads, FinishExit(t) PROVE Boot' /\ Exit'
  <2>1. /\ pc[t] = "exit" /\ status' = exitCode[t] % 256
        /\ UNCHANGED <<env, harness, timer, pc, exitCode, exits>>
    BY <1>10 DEF FinishExit
  <2>2. \A e : StatusOf(e)' = StatusOf(e)
    BY <2>1, StatusStable
  <2>3. Exit'
    BY <2>1, <2>2 DEF IInv, ExitHasCause, StatusHasCause
  <2>4. pc[Main] # "boot"
    BY <2>1, RunsAfterBoot
  <2>5. Boot'
    BY <2>1, <2>4, BootIsOver
  <2> QED
    BY <2>3, <2>5
<1>11. CASE UNCHANGED vars
  <2>1. UNCHANGED <<env, harness, timer, pc, exitCode, exits, status>>
    BY <1>11 DEF vars
  <2>2. Exit'
    BY <2>1, NoExit
  <2>3. Boot'
    BY <2>1 DEF IInv, OnlyMainBoots, NothingBeforeBoot, HandlersFollowEnv, harness, Override
  <2> QED
    BY <2>2, <2>3
<1> QED
  BY <1>3, <1>7, <1>8, <1>9, <1>10, <1>11 DEF Next, Over

LEMMA Safe == Spec => []IInv
BY SafeInit, SafeNext, PTL DEF Spec

\* The variables stay in their domains: the statuses in particular, which the
\* parent sees eight bits of, whatever number the environment holds.
THEOREM HarnessTypeCorrect == Spec => []TypeOK
<1>1. IInv => TypeOK
  BY DEF IInv
<1> QED
  BY <1>1, Safe, PTL

\* Atomic sections never overlap (__VERIFIER_atomic_begin and _end), whatever
\* the threads do to each other and to the process.
THEOREM AtomicSectionsExclude == Spec => []AtomicExclusion
<1>1. IInv => AtomicExclusion
  BY DEF IInv, InsideHoldsLock, AtomicExclusion
<1> QED
  BY <1>1, Safe, PTL

\* The process ends with the status that the environment gives one of the
\* things that happened (the handlers' exit codes and the racing calls of exit).
THEOREM NoMadeUpStatus == Spec => []StatusHasCause
<1>1. IInv => StatusHasCause
  BY DEF IInv
<1> QED
  BY <1>1, Safe, PTL
=============================================================================
