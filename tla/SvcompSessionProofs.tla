------------------------ MODULE SvcompSessionProofs ------------------------
(***************************************************************************)
(* The safety of the controller, for any number of processes and any       *)
(* client, and of a session, for any number of crashes and any archives:   *)
(* what the controller's lemmas say of each call, and where the script     *)
(* makes which one.                                                        *)
(***************************************************************************)
EXTENDS SvcompSession, TLAPS

-----------------------------------------------------------------------------
(* The controller, for any number of processes and any client.             *)

\* stop waits for the process it has the handle of.
WaitsForHandle == call = "wait" => handle # NoProc

IInv == CtrlTypeOK /\ WaitsForHandle /\ NoOrphan

LEMMA CtrlSafeInit == CtrlInit => IInv
<1> SUFFICES ASSUME CtrlInit PROVE IInv
  OBVIOUS
<1>1. proc \in [Procs -> {"none", "alive", "dead"}] /\ sent \in [Procs -> {"no", "int", "kill"}]
  BY DEF CtrlInit
<1>2. crashes \in 0..MaxCrashes
  BY ProcsAssumption DEF CtrlInit
<1>3. \A p \in Procs : proc[p] # "alive"
  BY DEF CtrlInit
<1> QED
  BY <1>1, <1>2, <1>3 DEF CtrlInit, IInv, CtrlTypeOK, WaitsForHandle, NoOrphan

\* One step of the controller or of the world: stated for each, since a session
\* composes them with steps of its own.
LEMMA WorldSafe == IInv /\ World => IInv'
<1> SUFFICES ASSUME IInv, NEW p \in Procs, FindsCrash(p) \/ Dies(p) PROVE IInv'
  BY DEF World
<1> USE ProcsAssumption DEF IInv, CtrlTypeOK, WaitsForHandle, NoOrphan
<1>1. CASE FindsCrash(p)
  BY <1>1 DEF FindsCrash
<1>2. CASE Dies(p)
  BY <1>2 DEF Dies
<1> QED
  BY <1>1, <1>2

LEMMA RunSafe ==
    ASSUME IInv, NEW p \in Procs, _run_aflpp_fuzz(p)
    PROVE  IInv'
<1>1. CtrlTypeOK' /\ WaitsForHandle'
  BY ProcsAssumption DEF _run_aflpp_fuzz, IInv, CtrlTypeOK, WaitsForHandle
<1>2. ASSUME NEW q \in Procs, proc'[q] = "alive", q # handle' PROVE sent'[q] = "kill"
  <2>1. q # p /\ proc[q] = "alive" /\ sent' = sent
    BY <1>2 DEF _run_aflpp_fuzz, IInv, CtrlTypeOK
  <2>2. q # handle
    BY <2>1, ProcsAssumption DEF _run_aflpp_fuzz, is_running
  <2> QED
    BY <2>1, <2>2 DEF IInv, NoOrphan
<1> QED
  BY <1>1, <1>2 DEF IInv, NoOrphan

LEMMA StopSafe ==
    ASSUME IInv, NEW timeout \in BOOLEAN,
           stop(timeout) \/ WaitReturns \/ WaitExpires \/ WaitInterrupted
    PROVE  IInv'
<1> USE ProcsAssumption DEF IInv, CtrlTypeOK, WaitsForHandle, NoOrphan
<1>1. CASE stop(timeout) /\ is_running
  BY <1>1 DEF stop, is_running
<1>2. CASE stop(timeout) /\ ~is_running
  BY <1>2 DEF stop, is_running
<1>3. CASE WaitReturns
  BY <1>3 DEF WaitReturns
<1>4. CASE WaitExpires
  BY <1>4 DEF WaitExpires
<1>5. CASE WaitInterrupted
  BY <1>5 DEF WaitInterrupted
<1> QED
  BY <1>1, <1>2, <1>3, <1>4, <1>5

LEMMA CtrlSafeNext == IInv /\ [ClientNext]_ctrl => IInv'
<1>1. IInv /\ UNCHANGED ctrl => IInv'
  BY DEF ctrl, IInv, CtrlTypeOK, WaitsForHandle, NoOrphan
<1> QED
  BY <1>1, WorldSafe, RunSafe, StopSafe DEF ClientNext, AllOver

\* Whatever a client of the controller does (start, resume, stop with or without
\* a timeout, an interrupt in the wait), a process without a handle is dead or
\* was sent SIGKILL.
THEOREM NoProcessIsLost == ClientSpec => []NoOrphan
<1>1. IInv => NoOrphan
  BY DEF IInv
<1> QED
  BY <1>1, CtrlSafeInit, CtrlSafeNext, PTL DEF ClientSpec

-----------------------------------------------------------------------------
(* A session: what it keeps at each place of the script.                   *)

\* The script starts no process but its own.
OneFuzzer ==
    /\ handle \in {Fuzzer, NoProc}
    /\ \A p \in Procs \ {Fuzzer} : proc[p] = "none"

\* Where the script is tells what it has of the fuzzer.
HandleAtPc ==
    /\ pc \in {"start", "run"} => proc[Fuzzer] = "none" /\ ~found_crash
    /\ pc \in Watching => handle = Fuzzer /\ proc[Fuzzer] # "none"
    /\ pc \in {"stopping", "exiting"} /\ call = "none" => handle = NoProc

StatusAtEnd == status # NoStatus <=> pc = "ended"

\* Nothing is saved before the program is there, cut only if the archive's was.
PreparedBeforeRun ==
    pc \notin {"start", "ended"} => Complete(text)

\* A found crash does not go away.
FoundIsThere == found_crash => crashes > 0

\* From the first finally on, a fuzzer without a handle has been killed.
QuietFromStop ==
    pc \in {"archive", "saving"} /\ proc[Fuzzer] = "alive" =>
        sent[Fuzzer] = "kill" \/ pending = "interrupt"

\* Only one place is written, and only at the end.
ArchivesUntilSave ==
    /\ pc \notin {"saving", "cleanup", "ended"} => archives = stored
    /\ \A n \in Places : n # SavedTo \/ ~opts.state => archives[n] = stored[n]

\* The crashes that were there are in the directory.
RestoredAreThere ==
    Resuming /\ pc \notin {"start", "ended"} => crashes >= stored["given"].crashes

\* The archive that is being filled.
Filling ==
    pc = "saving" =>
        /\ opts.state /\ Complete(archives[SavedTo].program)
        /\ archives[SavedTo].form = "broken"
        /\ archives[SavedTo].crashes <= crashes
        /\ found_crash => archives[SavedTo].crashes > 0
        /\ Resuming => archives[SavedTo].crashes >= stored["given"].crashes

\* The archive that is filled, and what is reported after it.
Filled ==
    /\ pc = "cleanup" /\ pending = "none" /\ opts.state =>
        /\ archives[SavedTo].form = "whole" /\ Complete(archives[SavedTo].program)
        /\ found_crash => archives[SavedTo].crashes > 0
    /\ pc \in {"start", "run"} \cup Watching => pending = "none"

\* After the loop: an unhurried session without a crash has seen its fuzzer die.
Silent ==
    /\ pc \in {"stop", "stopping", "exit", "exiting", "archive", "saving", "cleanup"}
         /\ ~interrupted /\ ~timeUp =>
       \/ found_crash \/ pending # "none"
       \/ proc[Fuzzer] = "dead" /\ crashes = 0
    /\ status = 0 /\ ~interrupted /\ ~timeUp => proc[Fuzzer] = "dead" /\ crashes = 0

\* The same in three parts: what the script has of the fuzzer, what is where, and
\* what is said of it in the end.
Control  == OneFuzzer /\ HandleAtPc /\ StatusAtEnd /\ PreparedBeforeRun /\ FoundIsThere
  /\ QuietFromStop
Contents == ArchivesUntilSave /\ RestoredAreThere /\ Filling /\ Filled /\ ArchiveResumable
  /\ CrashesKept
Reports  == Silent /\ EndsForCause /\ ReportedIsArchived

\* The inductive invariant.
SInv == TypeOK /\ IInv /\ Control /\ Contents /\ Reports

-----------------------------------------------------------------------------
\* Before the first statement there is no fuzzer, and the archives are as they were.
LEMMA SafeInit == Init => SInv
<1> SUFFICES ASSUME Init PROVE SInv
  OBVIOUS
<1>1. IInv /\ CtrlTypeOK
  BY CtrlSafeInit DEF Init, IInv
<1>2. archives \in [Places -> Archives] /\ stored \in [Places -> Archives] /\ archives = stored
  BY DEF Init
<1>3. TypeOK
  BY <1>1 DEF Init, TypeOK, Texts
<1>4. \A p \in Procs : proc[p] = "none"
  BY DEF Init, CtrlInit
<1>6. OneFuzzer /\ HandleAtPc /\ StatusAtEnd /\ PreparedBeforeRun /\ FoundIsThere
  BY FuzzerAssumption DEF Init, CtrlInit, OneFuzzer, HandleAtPc, StatusAtEnd,
     PreparedBeforeRun, Complete, Resuming, FoundIsThere, Watching
<1>7. ArchivesUntilSave /\ ArchiveResumable
  BY <1>2 DEF ArchivesUntilSave, ArchiveResumable, Complete
<1>8. QuietFromStop /\ RestoredAreThere /\ Filling /\ Filled /\ Silent /\ EndsForCause
      /\ ReportedIsArchived
  BY DEF Init, QuietFromStop, RestoredAreThere, Filling, Filled, Silent, EndsForCause,
     ReportedIsArchived, Restorable, NoStatus
<1>9. CrashesKept
  <2>1. stored["given"].crashes \in Nat
    BY <1>2 DEF Places, Archives
  <2> QED
    BY <1>2, <2>1 DEF CrashesKept, Restorable, Places
<1> QED
  BY <1>1, <1>3, <1>6, <1>7, <1>8, <1>9 DEF SInv, Control, Contents, Reports

\* A session that ends before its outer try has touched no archive.
LEMMA EndsEarlySafe == SInv /\ EndsEarly => SInv'
<1> SUFFICES ASSUME SInv, EndsEarly PROVE SInv'
  OBVIOUS
<1> USE DEF SInv, Goto, ctrl, session, flags, Watching, NoStatus
<1>1. IInv'
  BY DEF EndsEarly, IInv, CtrlTypeOK, WaitsForHandle, NoOrphan
<1>2. TypeOK'
  BY <1>1 DEF EndsEarly, IInv, TypeOK
<1>3. Control'
  BY DEF EndsEarly, Control, OneFuzzer, HandleAtPc, StatusAtEnd, PreparedBeforeRun,
     Complete, Resuming, FoundIsThere, QuietFromStop
<1>4. Contents'
  BY DEF EndsEarly, Contents, ArchivesUntilSave, RestoredAreThere, Filling, Filled,
     ArchiveResumable, Complete, CrashesKept, Restorable, Resuming
<1>5. Reports'
  BY DEF EndsEarly, Reports, Silent, EndsForCause, ReportedIsArchived, Restorable
<1> QED
  BY <1>1, <1>2, <1>3, <1>4, <1>5

\* Neither has one without a program; it reports 255, but has started nothing.
LEMMA NoProgramSafe == SInv /\ NoProgram => SInv'
<1> SUFFICES ASSUME SInv, NoProgram PROVE SInv'
  OBVIOUS
<1> USE DEF SInv, Goto, ctrl, session, flags, Watching, NoStatus
<1>1. IInv'
  BY DEF NoProgram, IInv, CtrlTypeOK, WaitsForHandle, NoOrphan
<1>2. TypeOK'
  BY <1>1 DEF NoProgram, IInv, TypeOK
<1>3. Control'
  BY DEF NoProgram, Control, OneFuzzer, HandleAtPc, StatusAtEnd, PreparedBeforeRun,
     Complete, Resuming, FoundIsThere, QuietFromStop
<1>4. Contents'
  BY DEF NoProgram, Contents, ArchivesUntilSave, RestoredAreThere, Filling, Filled,
     ArchiveResumable, Complete, CrashesKept, Restorable, Resuming
<1>5. Reports'
  BY DEF NoProgram, Reports, Silent, EndsForCause, ReportedIsArchived, Restorable, Control,
     HandleAtPc
<1> QED
  BY <1>1, <1>2, <1>3, <1>4, <1>5

\* The preparation changes the directory alone; the last step leaves a program.
LEMMA PrepareSafe == SInv /\ Prepare => SInv'
<1> SUFFICES ASSUME SInv, Prepare PROVE SInv'
  OBVIOUS
<1> USE DEF SInv, Goto, ctrl, session, flags, Watching, NoStatus
<1>1. IInv'
  BY DEF Prepare, IInv, CtrlTypeOK, WaitsForHandle, NoOrphan
<1>2. TypeOK'
  BY <1>1 DEF Prepare, IInv, TypeOK
<1>3. Control'
  BY DEF Prepare, Control, OneFuzzer, HandleAtPc, StatusAtEnd, PreparedBeforeRun,
     Complete, Resuming, FoundIsThere, QuietFromStop
<1>4. Contents'
  BY DEF Prepare, Contents, ArchivesUntilSave, RestoredAreThere, Filling, Filled,
     ArchiveResumable, Complete, CrashesKept, Restorable, Resuming
<1>5. Reports'
  BY DEF Prepare, Reports, Silent, EndsForCause, ReportedIsArchived, Restorable, SavedTo
<1> QED
  BY <1>1, <1>2, <1>3, <1>4, <1>5

\* The outer finally saves what there is, though nothing was fuzzed.
LEMMA StartFailsSafe == SInv /\ StartFails => SInv'
<1> SUFFICES ASSUME SInv, StartFails PROVE SInv'
  OBVIOUS
<1> USE DEF SInv, Goto, ctrl, session, flags, Watching, NoStatus
<1>1. IInv'
  BY DEF StartFails, IInv, CtrlTypeOK, WaitsForHandle, NoOrphan
<1>2. TypeOK'
  BY <1>1 DEF StartFails, IInv, TypeOK
<1>3. Control'
  BY DEF StartFails, Control, OneFuzzer, HandleAtPc, StatusAtEnd, PreparedBeforeRun,
     Complete, Resuming, FoundIsThere, QuietFromStop
<1>4. Contents'
  BY DEF StartFails, Contents, ArchivesUntilSave, RestoredAreThere, Filling, Filled,
     ArchiveResumable, Complete, CrashesKept, Restorable, Resuming
<1>5. Reports'
  BY DEF StartFails, Reports, Silent, EndsForCause, ReportedIsArchived, Restorable, SavedTo
<1> QED
  BY <1>1, <1>2, <1>3, <1>4, <1>5

\* Time excuses what Silent and EndsForCause would ask for.
LEMMA TickSafe == SInv /\ Tick => SInv'
<1> SUFFICES ASSUME SInv, Tick PROVE SInv'
  OBVIOUS
<1> USE DEF SInv, Goto, ctrl, session, flags, Watching, NoStatus
<1>1. IInv'
  BY DEF Tick, IInv, CtrlTypeOK, WaitsForHandle, NoOrphan
<1>2. TypeOK'
  BY <1>1 DEF Tick, IInv, TypeOK
<1>3. Control'
  BY DEF Tick, Control, OneFuzzer, HandleAtPc, StatusAtEnd, PreparedBeforeRun, Complete, Resuming,
     FoundIsThere, QuietFromStop
<1>4. Contents'
  BY DEF Tick, Contents, ArchivesUntilSave, RestoredAreThere, Filling, Filled,
     ArchiveResumable, Complete, CrashesKept, Restorable, Resuming
<1>5. Reports'
  BY DEF Tick, Reports, Silent, EndsForCause, ReportedIsArchived, Restorable, SavedTo
<1> QED
  BY <1>1, <1>2, <1>3, <1>4, <1>5

\* The loop ends for one of its three reasons; the process is looked at before the
\* crashes.
LEMMA WatchSafe == SInv /\ Watch => SInv'
<1> SUFFICES ASSUME SInv, Watch PROVE SInv'
  OBVIOUS
<1> USE DEF SInv, Goto, ctrl, session, flags, Watching, NoStatus
<1>1. IInv'
  BY DEF Watch, IInv, CtrlTypeOK, WaitsForHandle, NoOrphan
<1>2. TypeOK'
  BY <1>1 DEF Watch, IInv, TypeOK
<1>3. Control'
  BY DEF Watch, Control, OneFuzzer, HandleAtPc, StatusAtEnd, PreparedBeforeRun, Complete, Resuming,
     FoundIsThere, QuietFromStop
<1>4. Contents'
  BY DEF Watch, Contents, ArchivesUntilSave, RestoredAreThere, Filling, Filled,
     ArchiveResumable, Complete, CrashesKept, Restorable, Resuming
<1>5. Reports'
  <2>1. is_running \/ proc[Fuzzer] = "dead" \/ pc = "sleep" \/ pc = "time" \/ pc = "crashes"
    BY FuzzerAssumption, ProcsAssumption DEF Watch, is_running, TypeOK, CtrlTypeOK,
       Control, HandleAtPc
  <2>2. EndsForCause'
    BY <2>1 DEF Watch, has_crashes, EndsForCause
  <2>3. Silent' /\ ReportedIsArchived'
    BY DEF Watch, Control, StatusAtEnd, Silent, ReportedIsArchived, Restorable
  <2> QED
    BY <2>2, <2>3 DEF Reports
<1> QED
  BY <1>1, <1>2, <1>3, <1>4, <1>5

\* The look after the loop: a fuzzer that was seen dead finds nothing any more.
LEMMA LookSafe == SInv /\ Look => SInv'
<1> SUFFICES ASSUME SInv, Look PROVE SInv'
  OBVIOUS
<1> USE DEF SInv, Goto, ctrl, session, flags, Watching, NoStatus
<1>1. IInv'
  BY DEF Look, IInv, CtrlTypeOK, WaitsForHandle, NoOrphan
<1>2. TypeOK'
  BY <1>1 DEF Look, IInv, TypeOK, has_crashes
<1>3. Control'
  BY DEF Look, has_crashes, Control, OneFuzzer, HandleAtPc, StatusAtEnd,
     PreparedBeforeRun, Complete, Resuming, FoundIsThere, QuietFromStop
<1>4. Contents'
  BY DEF Look, Contents, ArchivesUntilSave, RestoredAreThere, Filling, Filled,
     ArchiveResumable, Complete, CrashesKept, Restorable, Resuming
<1>5. Reports'
  <2>1. ReportedIsArchived' /\ EndsForCause'
    BY DEF Look, Control, StatusAtEnd, ReportedIsArchived, Restorable, EndsForCause
  <2>2. crashes > 0 => found_crash'
    BY DEF Look, has_crashes
  <2>3. ~(crashes > 0) => crashes = 0
    BY DEF TypeOK, CtrlTypeOK
  <2>4. Silent'
    BY <2>2, <2>3 DEF Look, Reports, Silent, EndsForCause
  <2> QED
    BY <2>1, <2>4 DEF Reports
<1> QED
  BY <1>1, <1>2, <1>3, <1>4, <1>5

\* An interrupt in the loop is on record.
LEMMA InterruptSafe == SInv /\ Interrupt => SInv'
<1> SUFFICES ASSUME SInv, Interrupt PROVE SInv'
  OBVIOUS
<1> USE DEF SInv, Goto, ctrl, session, flags, Watching, NoStatus
<1>1. IInv'
  BY DEF Interrupt, IInv, CtrlTypeOK, WaitsForHandle, NoOrphan
<1>2. TypeOK'
  BY <1>1 DEF Interrupt, IInv, TypeOK
<1>3. Control'
  BY DEF Interrupt, Control, OneFuzzer, HandleAtPc, StatusAtEnd, PreparedBeforeRun,
     Complete, Resuming, FoundIsThere, QuietFromStop
<1>4. Contents'
  BY DEF Interrupt, Contents, ArchivesUntilSave, RestoredAreThere, Filling, Filled,
     ArchiveResumable, Complete, CrashesKept, Restorable, Resuming
<1>5. Reports'
  BY DEF Interrupt, Reports, Silent, EndsForCause, ReportedIsArchived, Restorable, SavedTo
<1> QED
  BY <1>1, <1>2, <1>3, <1>4, <1>5

\* What a save that fails leaves at its place is what was there, if it has not
\* begun, and no whole archive.
LEMMA FailureLeaves ==
    ASSUME TypeOK, SaveFails
    PROVE  \/ pc = "archive" /\ opts.state /\ archives' = archives
           \/ /\ pc = "saving"
              /\ \E a \in Archives :
                    a.form # "whole" /\ archives' = [archives EXCEPT ![SavedTo] = a]
<1>1. crashes \in 0..MaxCrashes /\ MaxCrashes \in Nat
  BY ProcsAssumption DEF TypeOK, CtrlTypeOK
<1>2. SavedTo \in Places /\ archives[SavedTo] \in Archives
  BY DEF TypeOK, SavedTo, Places
<1>3. CASE pc = "archive"
  BY <1>3 DEF SaveFails, Goto
<1>4. CASE pc = "saving" /\ Closed
  <2>1. PICK c \in 0..crashes, p \in {"none", "cut", archives[SavedTo].program} :
           archives' = [archives EXCEPT
               ![SavedTo] = [crashes |-> c, program |-> p, form |-> "part"]]
    BY <1>4 DEF Closed
  <2> DEFINE a == [crashes |-> c, program |-> p, form |-> "part"]
  <2>2. c \in 0..MaxCrashes /\ p \in {"none", "cut", "program"}
    BY <1>1, <1>2 DEF Archives
  <2>3. a \in Archives /\ a.form # "whole"
    BY <2>2 DEF Archives
  <2>4. archives' = [archives EXCEPT ![SavedTo] = a]
    BY <2>1
  <2> HIDE DEF a
  <2> QED
    BY <1>4, <2>3, <2>4
<1>5. CASE pc = "saving" /\ LeftBroken
  <2>1. NoArchive \in Archives /\ NoArchive.form # "whole"
    BY <1>1 DEF NoArchive, Archives
  <2> QED
    BY <1>5, <2>1 DEF LeftBroken
<1> QED
  BY <1>3, <1>4, <1>5 DEF SaveFails, Goto

\* An archive that was not written has an exception on its way.
LEMMA SaveFailsSafe == SInv /\ SaveFails => SInv'
<1> SUFFICES ASSUME SInv, SaveFails PROVE SInv'
  OBVIOUS
<1> USE DEF SInv, Goto, ctrl, session, flags, Watching, NoStatus
<1>1. IInv'
  BY DEF SaveFails, IInv, CtrlTypeOK, WaitsForHandle, NoOrphan
<1>2. TypeOK'
  <2>1. archives' \in [Places -> Archives]
    BY FailureLeaves DEF TypeOK
  <2> QED
    BY <1>1, <2>1 DEF SaveFails, IInv, TypeOK
<1>3. Control'
  BY DEF SaveFails, Control, OneFuzzer, HandleAtPc, StatusAtEnd, PreparedBeforeRun,
     Complete, Resuming, FoundIsThere, QuietFromStop
<1>4. Contents'
  <2>1. /\ pc' = "cleanup" /\ pending' # "none" /\ stored' = stored /\ opts' = opts
        /\ crashes' = crashes /\ SavedTo \in Places
    BY DEF SaveFails, SavedTo, Places
  <2>2. SavedTo' = SavedTo /\ (Resuming' <=> Resuming)
    BY <2>1 DEF SavedTo, Resuming
  <2>3. RestoredAreThere' /\ Filling' /\ Filled'
    BY <2>1, <2>2 DEF SaveFails, Contents, RestoredAreThere, Filling, Filled
  <2>4. CASE archives' = archives /\ pc = "archive"
    BY <2>1, <2>2, <2>3, <2>4 DEF Contents, ArchivesUntilSave, ArchiveResumable, Complete,
       CrashesKept, Restorable
  <2>5. CASE pc = "saving" /\ archives' # archives
    <3>1. PICK a \in Archives :
             a.form # "whole" /\ archives' = [archives EXCEPT ![SavedTo] = a]
      BY <2>5, FailureLeaves
    <3>2. archives'[SavedTo] = a /\ \A n \in Places : n # SavedTo => archives'[n] = archives[n]
      BY <2>1, <3>1 DEF TypeOK
    <3>3. opts.state
      BY <2>5 DEF Contents, Filling
    <3>4. ArchivesUntilSave' /\ ArchiveResumable'
      BY <2>1, <2>2, <3>1, <3>2, <3>3 DEF Contents, ArchivesUntilSave, ArchiveResumable, Complete
    <3>5. CrashesKept'
      <4>1. opts.zip => archives'["given"].form # "whole"
        BY <3>1, <3>2 DEF SavedTo
      <4>2. ~opts.zip => archives'["given"] = stored["given"] /\ "given" \in Places
        BY <3>2 DEF Contents, ArchivesUntilSave, SavedTo, Places
      <4>3. stored["given"].crashes \in Nat
        BY DEF TypeOK, Places, Archives
      <4> QED
        BY <2>1, <2>2, <4>1, <4>2, <4>3 DEF CrashesKept, Restorable
    <3> QED
      BY <2>3, <3>4, <3>5 DEF Contents
  <2>6. CASE pc = "saving" /\ archives' = archives
    BY <2>1, <2>2, <2>3, <2>6 DEF Contents, ArchivesUntilSave, ArchiveResumable, Complete,
       CrashesKept, Restorable
  <2> QED
    BY <2>4, <2>5, <2>6, FailureLeaves
<1>5. Reports'
  BY DEF SaveFails, Control, StatusAtEnd, Reports, Silent, EndsForCause, ReportedIsArchived
<1> QED
  BY <1>1, <1>2, <1>3, <1>4, <1>5

\* The status is told from what was found and saved.
LEMMA FinishSafe == SInv /\ Finish => SInv'
<1> SUFFICES ASSUME SInv, Finish PROVE SInv'
  OBVIOUS
<1> USE DEF SInv, Goto, ctrl, session, flags, Watching, NoStatus
<1>1. IInv'
  BY DEF Finish, IInv, CtrlTypeOK, WaitsForHandle, NoOrphan
<1>2. TypeOK'
  BY <1>1 DEF Finish, IInv, TypeOK
<1>3. Control'
  BY DEF Finish, Control, OneFuzzer, HandleAtPc, StatusAtEnd, PreparedBeforeRun, Complete, Resuming,
     FoundIsThere, QuietFromStop
<1>4. Contents'
  BY DEF Finish, Contents, ArchivesUntilSave, RestoredAreThere, Filling, Filled,
     ArchiveResumable, Complete, CrashesKept, Restorable, SavedTo, Resuming
<1>5. Reports'
  <2>1. status' = 0 => pending = "none" /\ ~found_crash
    BY DEF Finish, TypeOK
  <2>2. status' = 255 => pending = "none" /\ found_crash
    BY DEF Finish, TypeOK
  <2>3. Silent'
    BY <2>1 DEF Finish, Reports, Silent
  <2>4. EndsForCause'
    BY DEF Finish, EndsForCause
  <2>5. ReportedIsArchived'
    <3>1. pending = "none" /\ opts.state =>
             /\ archives[SavedTo].form = "whole" /\ archives[SavedTo].program # "none"
             /\ found_crash => archives[SavedTo].crashes > 0
      BY DEF Finish, Contents, Filled, Complete
    <3>2. opts.zip => SavedTo = "given"
      BY DEF SavedTo
    <3> QED
      BY <2>1, <2>2, <3>1, <3>2 DEF Finish, ReportedIsArchived, Restorable, SavedTo
  <2> QED
    BY <2>3, <2>4, <2>5 DEF Reports
<1> QED
  BY <1>1, <1>2, <1>3, <1>4, <1>5

\* The crashes of the archive are the first ones of the session.
LEMMA RestoreSafe == SInv /\ Restore => SInv'
<1> SUFFICES ASSUME SInv, Restore PROVE SInv'
  OBVIOUS
<1> USE DEF SInv, Goto, ctrl, session, flags, Watching, NoStatus
<1>1. IInv'
  <2>1. archives["given"].crashes \in 0..MaxCrashes
    BY DEF TypeOK, Places, Archives
  <2> QED
    BY <2>1 DEF Restore, IInv, CtrlTypeOK, WaitsForHandle, NoOrphan
<1>2. TypeOK'
  <2>1. archives["given"].program \in Texts
    BY DEF TypeOK, Places, Archives, Texts
  <2> QED
    BY <1>1, <2>1 DEF Restore, IInv, TypeOK
<1>3. Control'
  <2>1. stored["given"].program \in {"none", "cut", "program"}
    BY DEF TypeOK, Places, Archives
  <2>2. PreparedBeforeRun'
    BY <2>1 DEF Restore, Contents, ArchivesUntilSave, PreparedBeforeRun, Complete,
       Restorable, Resuming
  <2> QED
    BY <2>2 DEF Restore, Control, OneFuzzer, HandleAtPc, StatusAtEnd, FoundIsThere, QuietFromStop
<1>4. Contents'
  <2>1. crashes' = stored["given"].crashes
    BY DEF Restore, Contents, ArchivesUntilSave
  <2>2. stored["given"].crashes \in Nat
    BY DEF TypeOK, Places, Archives
  <2> QED
    BY <2>2 DEF Restore, Contents, ArchivesUntilSave, RestoredAreThere, Filling,
       Filled, ArchiveResumable, Complete, CrashesKept, Restorable
<1>5. Reports'
  BY DEF Restore, Reports, Silent, EndsForCause, ReportedIsArchived, Restorable, Control,
     HandleAtPc
<1> QED
  BY <1>1, <1>2, <1>3, <1>4, <1>5

\* The controller gets the handle of the only process.
LEMMA StartFuzzerSafe == SInv /\ StartFuzzer => SInv'
<1> SUFFICES ASSUME SInv, StartFuzzer PROVE SInv'
  OBVIOUS
<1> USE DEF SInv, Goto, ctrl, session, flags, Watching, NoStatus
<1>1. IInv'
  BY RunSafe, FuzzerAssumption DEF StartFuzzer
<1>2. TypeOK'
  BY <1>1 DEF StartFuzzer, IInv, TypeOK
<1>3. Control'
  BY <1>2 DEF StartFuzzer, _run_aflpp_fuzz, TypeOK, CtrlTypeOK, Control, OneFuzzer,
     HandleAtPc, StatusAtEnd, PreparedBeforeRun, Complete, Resuming, FoundIsThere, QuietFromStop
<1>4. Contents'
  BY DEF StartFuzzer, _run_aflpp_fuzz, Contents, ArchivesUntilSave, RestoredAreThere,
     Filling, Filled, ArchiveResumable, Complete, CrashesKept, Restorable, Resuming
<1>5. Reports'
  BY DEF StartFuzzer, Reports, Silent, EndsForCause, ReportedIsArchived, Restorable, Control,
     StatusAtEnd
<1> QED
  BY <1>1, <1>2, <1>3, <1>4, <1>5

\* The inner finally: the controller waits, or has dropped the handle of a dead
\* process.
LEMMA SessionStopSafe == SInv /\ Stop => SInv'
<1> SUFFICES ASSUME SInv, Stop PROVE SInv'
  OBVIOUS
<1> USE DEF SInv, Goto, ctrl, session, flags, Watching, NoStatus
<1>1. IInv'
  BY StopSafe DEF Stop
<1>2. TypeOK'
  BY <1>1 DEF Stop, IInv, TypeOK
<1>3. Control'
  BY DEF Stop, stop, Control, OneFuzzer, HandleAtPc, StatusAtEnd, PreparedBeforeRun,
     Complete, Resuming, FoundIsThere, QuietFromStop
<1>4. Contents'
  BY DEF Stop, stop, Contents, ArchivesUntilSave, RestoredAreThere, Filling, Filled,
     ArchiveResumable, Complete, CrashesKept, Restorable, Resuming
<1>5. Reports'
  BY DEF Stop, stop, Reports, Silent, EndsForCause, ReportedIsArchived, Restorable, SavedTo
<1> QED
  BY <1>1, <1>2, <1>3, <1>4, <1>5

\* The same in __exit__, where an interrupt is on its way.
LEMMA ExitStopSafe == SInv /\ ExitStop => SInv'
<1> SUFFICES ASSUME SInv, ExitStop PROVE SInv'
  OBVIOUS
<1> USE DEF SInv, Goto, ctrl, session, flags, Watching, NoStatus
<1>1. IInv'
  BY StopSafe DEF ExitStop
<1>2. TypeOK'
  BY <1>1 DEF ExitStop, IInv, TypeOK
<1>3. Control'
  BY DEF ExitStop, stop, Control, OneFuzzer, HandleAtPc, StatusAtEnd,
     PreparedBeforeRun, Complete, Resuming, FoundIsThere, QuietFromStop
<1>4. Contents'
  BY DEF ExitStop, stop, Contents, ArchivesUntilSave, RestoredAreThere, Filling,
     Filled, ArchiveResumable, Complete, CrashesKept, Restorable, Resuming
<1>5. Reports'
  BY DEF ExitStop, stop, Reports, Silent, EndsForCause, ReportedIsArchived, Restorable, SavedTo
<1> QED
  BY <1>1, <1>2, <1>3, <1>4, <1>5

\* stop returns without a handle, hence with the process dead or killed (NoOrphan).
LEMMA StoppingSafe == SInv /\ Stopping => SInv'
<1> SUFFICES ASSUME SInv, Stopping PROVE SInv'
  OBVIOUS
<1> USE DEF SInv, Goto, ctrl, session, flags, Watching, NoStatus
<1>1. IInv'
  BY StopSafe DEF Stopping, IInv, CtrlTypeOK, WaitsForHandle, NoOrphan
<1>2. TypeOK'
  BY <1>1 DEF Stopping, IInv, TypeOK
<1>3. Control'
  BY FuzzerAssumption, ProcsAssumption DEF Stopping, WaitReturns, WaitExpires, Control,
     OneFuzzer, HandleAtPc, StatusAtEnd, PreparedBeforeRun, Complete, Resuming, FoundIsThere,
     QuietFromStop, IInv, NoOrphan
<1>4. Contents'
  BY DEF Stopping, WaitReturns, WaitExpires, Contents, ArchivesUntilSave,
     RestoredAreThere, Filling, Filled, ArchiveResumable, Complete, CrashesKept, Restorable,
     Resuming
<1>5. Reports'
  BY DEF Stopping, WaitReturns, WaitExpires, Reports, Silent, EndsForCause,
     ReportedIsArchived, Restorable, SavedTo
<1> QED
  BY <1>1, <1>2, <1>3, <1>4, <1>5

\* A stop that is interrupted may leave the process behind, and pending says so.
LEMMA InterruptStopSafe == SInv /\ InterruptStop => SInv'
<1> SUFFICES ASSUME SInv, InterruptStop PROVE SInv'
  OBVIOUS
<1> USE DEF SInv, Goto, ctrl, session, flags, Watching, NoStatus
<1>1. IInv'
  BY StopSafe DEF InterruptStop, IInv, CtrlTypeOK, WaitsForHandle, NoOrphan
<1>2. TypeOK'
  BY <1>1 DEF InterruptStop, IInv, TypeOK
<1>3. Control'
  BY DEF InterruptStop, WaitInterrupted, Control, OneFuzzer, HandleAtPc, StatusAtEnd,
     PreparedBeforeRun, Complete, Resuming, FoundIsThere, QuietFromStop
<1>4. Contents'
  BY DEF InterruptStop, WaitInterrupted, Contents, ArchivesUntilSave, RestoredAreThere,
     Filling, Filled, ArchiveResumable, Complete, CrashesKept, Restorable, Resuming
<1>5. Reports'
  BY DEF InterruptStop, WaitInterrupted, Reports, Silent, EndsForCause,
     ReportedIsArchived, Restorable, SavedTo
<1> QED
  BY <1>1, <1>2, <1>3, <1>4, <1>5

\* The place that is written is no whole archive while it is.
LEMMA SaveSafe == SInv /\ Save => SInv'
<1> SUFFICES ASSUME SInv, Save PROVE SInv'
  OBVIOUS
<1> USE DEF SInv, Goto, ctrl, session, flags, Watching, NoStatus
<1>1. IInv'
  BY DEF Save, IInv, CtrlTypeOK, WaitsForHandle, NoOrphan
<1>2. TypeOK'
  <2>1. SavedTo \in Places
    BY DEF SavedTo, Places
  <2> DEFINE saved == [crashes |-> crashes, program |-> ProgramOf, form |-> "broken"]
  <2>2. saved \in Archives
    BY DEF TypeOK, CtrlTypeOK, Archives, ProgramOf
  <2>3. archives' = archives \/ archives' = [archives EXCEPT ![SavedTo] = saved]
    BY DEF Save
  <2> HIDE DEF saved
  <2>4. archives' \in [Places -> Archives]
    BY <2>2, <2>3 DEF TypeOK
  <2> QED
    BY <1>1, <2>4 DEF Save, IInv, TypeOK
<1>3. Control'
  BY DEF Save, Control, OneFuzzer, HandleAtPc, StatusAtEnd, PreparedBeforeRun, Complete, Resuming,
     FoundIsThere, QuietFromStop
<1>4. Contents'
  <2>1. SavedTo \in Places /\ SavedTo' = SavedTo /\ (Resuming' <=> Resuming)
    BY DEF Save, SavedTo, Places, Resuming
  <2>2. CASE ~opts.state
    BY <2>1, <2>2 DEF Save, Contents, ArchivesUntilSave, RestoredAreThere, Filling,
       Filled, ArchiveResumable, Complete, CrashesKept, Restorable
  <2>3. CASE opts.state
    <3> DEFINE saved == [crashes |-> crashes, program |-> ProgramOf, form |-> "broken"]
    <3>a. archives' = [archives EXCEPT ![SavedTo] = saved]
      BY <2>3 DEF Save
    <3>b. saved.crashes = crashes /\ Complete(saved.program) /\ saved.form = "broken"
      BY DEF Save, Control, PreparedBeforeRun, Complete, ProgramOf
    <3> HIDE DEF saved
    <3>1. /\ archives'[SavedTo].crashes = crashes /\ Complete(archives'[SavedTo].program)
          /\ archives'[SavedTo].form = "broken"
      BY <2>1, <3>a, <3>b DEF TypeOK
    <3>2. \A n \in Places : n # SavedTo => archives'[n] = archives[n]
      BY DEF Save, TypeOK
    <3>3. ArchivesUntilSave' /\ RestoredAreThere' /\ Filled' /\ ArchiveResumable'
      BY <2>1, <3>1, <3>2 DEF Save, Contents, ArchivesUntilSave, RestoredAreThere,
         Filled, ArchiveResumable, Complete
    <3>4. Filling'
      BY <2>1, <3>1 DEF Save, TypeOK, CtrlTypeOK, Control, FoundIsThere, Contents,
         RestoredAreThere, Filling, Complete
    <3>5. CrashesKept'
      BY DEF Save, TypeOK, Contents, ArchivesUntilSave, CrashesKept, Restorable, Places, SavedTo,
         Archives
    <3> QED
      BY <3>3, <3>4, <3>5 DEF Contents
  <2> QED
    BY <2>2, <2>3
<1>5. Reports'
  BY DEF Save, Control, StatusAtEnd, Reports, Silent, EndsForCause, ReportedIsArchived, Restorable
<1> QED
  BY <1>1, <1>2, <1>3, <1>4, <1>5

\* It holds at least the crashes that were there when it was begun.
LEMMA SaveDoneSafe == SInv /\ SaveDone => SInv'
<1> SUFFICES ASSUME SInv, SaveDone PROVE SInv'
  OBVIOUS
<1> USE DEF SInv, Goto, ctrl, session, flags, Watching, NoStatus
<1>1. IInv'
  BY DEF SaveDone, IInv, CtrlTypeOK, WaitsForHandle, NoOrphan
<1>2. TypeOK'
  <2>1. SavedTo \in Places
    BY DEF SavedTo, Places
  <2>2. PICK c \in archives[SavedTo].crashes..crashes :
           archives' = [archives EXCEPT ![SavedTo].crashes = c, ![SavedTo].form = "whole"]
    BY DEF SaveDone
  <2>3. archives[SavedTo] \in Archives
    BY <2>1 DEF TypeOK
  <2>4. c \in 0..MaxCrashes
    BY <2>3, ProcsAssumption DEF Archives, TypeOK, CtrlTypeOK
  <2>5. [archives[SavedTo] EXCEPT !.crashes = c, !.form = "whole"] \in Archives
    BY <2>3, <2>4 DEF Archives
  <2>6. archives'[SavedTo] = [archives[SavedTo] EXCEPT !.crashes = c, !.form = "whole"]
    BY <2>1, <2>2 DEF TypeOK
  <2>7. archives' \in [Places -> Archives]
    BY <2>1, <2>2, <2>5 DEF TypeOK
  <2> QED
    BY <1>1, <2>7 DEF SaveDone, IInv, TypeOK
<1>3. Control'
  BY DEF SaveDone, Control, OneFuzzer, HandleAtPc, StatusAtEnd, PreparedBeforeRun,
     Complete, Resuming, FoundIsThere, QuietFromStop
<1>4. Contents'
  <2>1. SavedTo \in Places /\ SavedTo' = SavedTo /\ (Resuming' <=> Resuming)
    BY DEF SaveDone, SavedTo, Places, Resuming
  <2>2. PICK c \in archives[SavedTo].crashes..crashes :
           archives' = [archives EXCEPT ![SavedTo].crashes = c, ![SavedTo].form = "whole"]
    BY DEF SaveDone
  <2>3. archives[SavedTo] \in Archives
    BY <2>1 DEF TypeOK
  <2>4. /\ archives'[SavedTo].crashes = c /\ archives'[SavedTo].form = "whole"
        /\ archives'[SavedTo].program = archives[SavedTo].program
    BY <2>1, <2>2 DEF TypeOK
  <2>5. \A n \in Places : n # SavedTo => archives'[n] = archives[n]
    BY <2>2 DEF TypeOK
  <2>6. archives[SavedTo].crashes \in Nat /\ c \in Nat /\ archives[SavedTo].crashes <= c
    BY <2>3 DEF Archives
  <2>7. ArchivesUntilSave' /\ RestoredAreThere' /\ Filling' /\ ArchiveResumable'
    BY <2>1, <2>4, <2>5 DEF SaveDone, Contents, ArchivesUntilSave, RestoredAreThere,
       Filling, ArchiveResumable, Complete
  <2>8. Filled'
    BY <2>1, <2>4, <2>6 DEF SaveDone, Contents, Filling, Filled, Complete
  <2>9. CrashesKept'
    <3>1. Resuming => archives'[SavedTo].crashes >= stored["given"].crashes
      <4>1. stored["given"].crashes \in Nat
        BY DEF TypeOK, Places, Archives
      <4> QED
        BY <2>4, <2>6, <4>1 DEF SaveDone, Contents, Filling
    <3> QED
      BY <2>1, <2>4, <3>1 DEF SaveDone, CrashesKept, Restorable
  <2> QED
    BY <2>7, <2>8, <2>9 DEF Contents
<1>5. Reports'
  BY DEF SaveDone, Control, StatusAtEnd, Reports, Silent, EndsForCause,
     ReportedIsArchived, Restorable
<1> QED
  BY <1>1, <1>2, <1>3, <1>4, <1>5

\* The fuzzer finds a crash or dies, and the script has not looked yet.
LEMMA WorldStepSafe == SInv /\ WorldStep => SInv'
<1> SUFFICES ASSUME SInv, WorldStep PROVE SInv'
  OBVIOUS
<1> USE DEF SInv, Goto, ctrl, session, flags, Watching, NoStatus
<1>1. IInv'
  BY WorldSafe DEF WorldStep
<1>2. TypeOK'
  BY <1>1 DEF WorldStep, IInv, TypeOK
<1>3. Control'
  <2>1. PICK p \in Procs : FindsCrash(p) \/ Dies(p)
    BY DEF WorldStep, World
  <2>2. p = Fuzzer /\ proc[Fuzzer] = "alive"
    BY <2>1 DEF FindsCrash, Dies, Control, OneFuzzer
  <2>3. CASE FindsCrash(p)
    BY <2>3 DEF WorldStep, FindsCrash, TypeOK, CtrlTypeOK, Control, OneFuzzer,
       HandleAtPc, StatusAtEnd, PreparedBeforeRun, Complete, Resuming, FoundIsThere, QuietFromStop
  <2>4. CASE Dies(p)
    BY <2>4 DEF WorldStep, Dies, Control, OneFuzzer, HandleAtPc, StatusAtEnd,
       PreparedBeforeRun, Complete, Resuming, FoundIsThere, QuietFromStop
  <2> QED
    BY <2>1, <2>3, <2>4
<1>4. Contents'
  <2>1. crashes' >= crashes
    BY DEF WorldStep, World, FindsCrash, Dies, TypeOK, CtrlTypeOK
  <2>2. archives \in [Places -> Archives] /\ stored \in [Places -> Archives]
    BY DEF TypeOK
  <2>3. \A n \in Places : archives[n].crashes \in Nat /\ stored[n].crashes \in Nat
    BY <2>2 DEF Archives
  <2>4. crashes \in Nat /\ crashes' \in Nat
    BY <1>2 DEF TypeOK, CtrlTypeOK
  <2>5. SavedTo \in Places /\ "given" \in Places
    BY DEF SavedTo, Places
  <2>6. RestoredAreThere' /\ Filling'
    BY <2>1, <2>3, <2>4, <2>5 DEF WorldStep, Contents, RestoredAreThere, Filling,
       Complete, Resuming, SavedTo
  <2>7. ArchivesUntilSave' /\ Filled' /\ ArchiveResumable' /\ CrashesKept'
    BY DEF WorldStep, Contents, ArchivesUntilSave, Filled, ArchiveResumable, Complete,
       CrashesKept, Restorable, Resuming, SavedTo
  <2> QED
    BY <2>6, <2>7 DEF Contents
<1>5. Reports'
  <2>1. /\ crashes' >= crashes /\ (crashes' > crashes => proc[Fuzzer] = "alive")
        /\ (proc[Fuzzer] = "dead" => proc'[Fuzzer] = "dead")
        /\ (proc[Fuzzer] = "none" => proc'[Fuzzer] = "none")
    <3>1. PICK p \in Procs : FindsCrash(p) \/ Dies(p)
      BY DEF WorldStep, World
    <3>2. p = Fuzzer
      BY <3>1 DEF FindsCrash, Dies, Control, OneFuzzer
    <3> QED
      BY <3>1, <3>2 DEF FindsCrash, Dies, TypeOK, CtrlTypeOK
  <2>2. crashes \in Nat /\ crashes' \in Nat
    BY <1>2 DEF TypeOK, CtrlTypeOK
  <2>3. Silent' /\ EndsForCause'
    BY <2>1, <2>2 DEF WorldStep, Reports, Silent, EndsForCause
  <2>4. ReportedIsArchived'
    BY <2>1 DEF WorldStep, Reports, ReportedIsArchived, Restorable, SavedTo
  <2> QED
    BY <2>3, <2>4 DEF Reports
<1> QED
  BY <1>1, <1>2, <1>3, <1>4, <1>5

\* Together: every step of a session keeps SInv.
LEMMA SafeNext == SInv /\ [Next]_vars => SInv'
<1> SUFFICES ASSUME SInv, [Next]_vars PROVE SInv'
  OBVIOUS
<1>1. CASE Script
  BY <1>1, EndsEarlySafe, NoProgramSafe, RestoreSafe, PrepareSafe, StartFuzzerSafe,
     StartFailsSafe, WatchSafe, LookSafe, SessionStopSafe, ExitStopSafe, StoppingSafe,
     SaveSafe, SaveDoneSafe, SaveFailsSafe, FinishSafe DEF Script
<1>2. CASE Tick \/ Interrupt \/ InterruptStop \/ WorldStep
  BY <1>2, TickSafe, InterruptSafe, InterruptStopSafe, WorldStepSafe
<1>3. CASE UNCHANGED vars
  <2> USE <1>3 DEF SInv, vars, ctrl, session, flags
  <2>1. IInv' /\ TypeOK'
    BY DEF IInv, TypeOK, CtrlTypeOK, WaitsForHandle, NoOrphan
  <2>2. Control'
    BY DEF Control, OneFuzzer, HandleAtPc, StatusAtEnd, PreparedBeforeRun, Complete, Resuming,
       FoundIsThere, QuietFromStop
  <2>3. Contents'
    BY DEF Contents, ArchivesUntilSave, RestoredAreThere, Filling, Filled,
       ArchiveResumable, Complete, CrashesKept, Restorable, SavedTo, Resuming
  <2>4. Reports'
    BY DEF Reports, Silent, EndsForCause, ReportedIsArchived, Restorable, SavedTo
  <2> QED
    BY <2>1, <2>2, <2>3, <2>4
<1> QED
  BY <1>1, <1>2, <1>3 DEF Next, Over

\* The script's variables keep their types, in particular 0..MaxCrashes, whatever
\* fails or is interrupted.
THEOREM SessionTypeCorrect == Spec => []TypeOK
<1>1. SInv => TypeOK
  BY DEF SInv
<1> QED
  BY <1>1, SafeInit, SafeNext, PTL DEF Spec

\* A session with the status of a crash or of none has written its archive to the
\* end, with a program, and a crash it reports is in it.
THEOREM ReportsAreArchived == Spec => []ReportedIsArchived
<1>1. SInv => ReportedIsArchived
  BY DEF SInv, Reports
<1> QED
  BY <1>1, SafeInit, SafeNext, PTL DEF Spec

\* Exit status 0 of an unhurried, uninterrupted session means that no crash has
\* been found: the last look comes after the process was seen dead.
THEOREM SilenceMeansNone == Spec => []SilentMeansNone
<1>1. SInv => SilentMeansNone
  BY DEF SInv, Reports, Silent, SilentMeansNone
<1> QED
  BY <1>1, SafeInit, SafeNext, PTL DEF Spec

\* A session leaves its loop before the time is up only for a crash or a dead fuzzer.
THEOREM SessionsEndForCause == Spec => []EndsForCause
<1>1. SInv => EndsForCause
  BY DEF SInv, Reports
<1> QED
  BY <1>1, SafeInit, SafeNext, PTL DEF Spec

\* A resumed session loses no crash of the sessions before it but by writing its
\* archive over the one it resumed from, and not to the end.
THEOREM EarlierCrashesKept == Spec => []CrashesKept
<1>1. SInv => CrashesKept
  BY DEF SInv, Contents
<1> QED
  BY <1>1, SafeInit, SafeNext, PTL DEF Spec

\* An archive that was written to the end has the program as it was prepared or
\* restored; of one that was broken off, a part may be left, or nothing.
THEOREM ArchivesStayResumable == Spec => []ArchiveResumable
<1>1. SInv => ArchiveResumable
  BY DEF SInv, Contents
<1> QED
  BY <1>1, SafeInit, SafeNext, PTL DEF Spec

\* Nothing writes into the directory while it is archived, but for a process that
\* was sent SIGKILL or that an interrupted stop has left behind.
THEOREM ArchivedQuietly == Spec => []QuietArchive
<1>1. SInv => QuietArchive
  BY DEF SInv, Control, QuietFromStop, QuietArchive
<1> QED
  BY <1>1, SafeInit, SafeNext, PTL DEF Spec
=============================================================================
