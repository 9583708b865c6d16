--------------------------- MODULE SvcompSession ---------------------------
(***************************************************************************)
(* src/run_svcomp_fuzz.py: one fuzzing session, from the archive of an     *)
(* earlier one or from a program, to an archive and an exit status.        *)
(* KeyboardInterrupt strikes where the session sleeps, waits, looks or     *)
(* saves; the statements in between take no time.                          *)
(***************************************************************************)
EXTENDS AflppCtrl

CONSTANT Fuzzer      \* the process the session starts
ASSUME FuzzerAssumption == Fuzzer \in Procs

VARIABLES
    opts,         \* the command line
    stored,       \* history: the archives before the session
    archives,     \* the archive --state names, and the one with the suffix .zip
    text,         \* how far the program to fuzz is prepared in the working directory
    pc,           \* where the script is
    timeUp,       \* --timeout seconds have passed
    found_crash,
    interrupted,  \* the inner try has caught a KeyboardInterrupt
    pending,      \* the exception on its way out
    status        \* the exit status

session == <<opts, stored>>
flags   == <<found_crash, interrupted, pending>>
vars    == <<ctrl, session, archives, text, pc, timeUp, flags, status>>

NoStatus == 256   \* still running; 130 is what a shell sees of an interrupt

\* --resume; --state, and whether its name ends in .zip; a --timeout; a program,
\* --compile and --witness-yaml.  An option that is not looked at is not given.
Options == {o \in [resume : BOOLEAN, state : BOOLEAN, zip : BOOLEAN, bounded : BOOLEAN,
                   program : BOOLEAN, compile : BOOLEAN, witness : BOOLEAN] :
              /\ o.zip => o.state
              /\ o.program => ~(o.resume /\ o.state)
              /\ o.compile => o.program
              /\ o.witness => o.compile}

\* An archive: the crashes in it; its program, which may be cut off; and whether
\* it is a zip with all there was, a zip that was closed before, or no zip (it
\* is broken, or does not exist).  Only the last can be told by reading it.
Archives == [crashes : 0..MaxCrashes, program : {"none", "cut", "program"},
             form : {"whole", "part", "broken"}]
NoArchive == [crashes |-> 0, program |-> "none", form |-> "broken"]
Places   == {"given", "zip"}

\* A session can resume from it: a zip, whose program is there for chmod.
Restorable(a) == a.form # "broken" /\ a.program # "none"

Resuming == opts.resume /\ opts.state

\* shutil.make_archive appends .zip to the name without its last suffix.
SavedTo == IF opts.zip THEN "given" ELSE "zip"

\* Where the session looks for an archive, and where it leaves one.
Used == {n \in Places : (Resuming /\ n = "given") \/ (opts.state /\ n = SavedTo)}

\* misc/: nothing; witness.yaml with the name of the copy; the copy, injected,
\* formatted, and without malformed assertions; the program; or the cut one that
\* an archive had.
Texts == {"none", "dirs", "named", "copied", "injected", "formatted", "clean", "program", "cut"}
Watching == {"sleep", "time", "running", "crashes", "look"}

TypeOK ==
    /\ CtrlTypeOK
    /\ opts \in Options
    /\ stored \in [Places -> Archives] /\ archives \in [Places -> Archives]
    /\ text \in Texts
    /\ pc \in Watching \cup {"start", "run", "stop", "stopping", "exit", "exiting",
                             "archive", "saving", "cleanup", "ended"}
    /\ timeUp \in BOOLEAN /\ found_crash \in BOOLEAN /\ interrupted \in BOOLEAN
    /\ pending \in {"none", "error", "interrupt"}
    /\ status \in {0, 1, 130, 255, NoStatus}

Init ==
    /\ CtrlInit
    /\ opts \in Options
    \* What earlier sessions, with these options or others, have left, at the
    \* places where this one reads or writes; a whole archive has a program.
    /\ stored \in {a \in [Places -> Archives] : \A n \in Places :
                     /\ a[n].form = "whole" => a[n].program # "none"
                     /\ a[n].form = "broken" \/ n \notin Used => a[n] = NoArchive}
    /\ archives = stored /\ text = "none"
    /\ pc = "start" /\ timeUp = FALSE /\ found_crash = FALSE
    /\ interrupted = FALSE /\ pending = "none" /\ status = NoStatus

-----------------------------------------------------------------------------
Goto(from, to) == pc = from /\ pc' = to

\* Mutant: the preparation stands in the try whose finally saves.
EndsEarly_InTry ==
    /\ Goto("start", "archive") /\ pending' \in {"error", "interrupt"}
    /\ UNCHANGED <<ctrl, session, archives, text, timeUp, found_crash, interrupted, status>>

\* Before the outer try, at any step: an exception (a file or a command fails,
\* the archive is no zip) or an interrupt; nothing is saved.
EndsEarly ==
    /\ Goto("start", "ended") /\ status' \in {1, 130}
    /\ UNCHANGED <<ctrl, session, archives, text, timeUp, flags>>

NoProgram ==
    /\ Goto("start", "ended") /\ ~Resuming /\ ~opts.program /\ status' = 255
    /\ UNCHANGED <<ctrl, session, archives, text, timeUp, flags>>

\* Mutant: the archive is unpacked into another directory.
Restore_Elsewhere ==
    /\ Goto("start", "run") /\ Resuming
    /\ Restorable(archives["given"])
    /\ text' = archives["given"].program
    /\ UNCHANGED <<ctrl, session, archives, timeUp, flags, status>>

\* The archive is unpacked from the name as it was given; its program is made
\* executable.
Restore ==
    /\ Goto("start", "run") /\ Resuming
    /\ Restorable(archives["given"])
    /\ crashes' = archives["given"].crashes /\ text' = archives["given"].program
    /\ UNCHANGED <<proc, sent, handle, call, limited>>
    /\ UNCHANGED <<session, archives, timeUp, flags, status>>

\* The steps of preparing a program, each of them the whole of a command.
Prepared(from, to) ==
    CASE from = "none" -> to = "dirs"
      [] from = "dirs" -> to = CASE ~opts.compile -> "program"
                                 [] opts.witness  -> "named"
                                 [] OTHER         -> "program"
      [] from = "named"     -> to = "copied"
      [] from = "copied"    -> to = "injected"
      [] from = "injected"  -> to = "formatted"
      [] from = "formatted" -> to = "clean"
      [] from = "clean"     -> to = "program"
      [] OTHER -> FALSE

\* New directories; the witness rewritten to name the copy, the copy injected,
\* formatted and cleaned, as they are asked for; the program compiled or copied.
Prepare ==
    /\ ~Resuming /\ opts.program
    /\ \E to \in Texts : Prepared(text, to) /\ text' = to
    /\ Goto("start", IF text' = "program" THEN "run" ELSE "start")
    /\ UNCHANGED <<ctrl, session, archives, timeUp, flags, status>>

StartFuzzer ==
    /\ Goto("run", "sleep") /\ _run_aflpp_fuzz(Fuzzer)
    /\ UNCHANGED <<session, archives, text, timeUp, flags, status>>

\* The seed cannot be written, or afl-fuzz not be started.
StartFails ==
    /\ Goto("run", "archive") /\ pending' = "error"
    /\ UNCHANGED <<ctrl, session, archives, text, timeUp, found_crash, interrupted, status>>

\* time.time() - begin reaches the limit.
Tick ==
    /\ opts.bounded /\ ~timeUp /\ pc \in Watching
    /\ timeUp' = TRUE
    /\ UNCHANGED <<ctrl, session, archives, text, pc, flags, status>>

\* Mutant: the time is not looked at.
Watch_Forever ==
    /\ \/ Goto("sleep", "time")
       \/ Goto("time", "running")
       \/ Goto("running", IF is_running THEN "crashes" ELSE "look")
       \/ Goto("crashes", IF has_crashes THEN "look" ELSE "sleep")
    /\ UNCHANGED <<ctrl, session, archives, text, timeUp, flags, status>>

\* Mutant: the last condition of the loop is inverted.
Watch_Inverted ==
    /\ \/ Goto("sleep", "time")
       \/ Goto("time", IF timeUp THEN "look" ELSE "running")
       \/ Goto("running", IF is_running THEN "crashes" ELSE "look")
       \/ Goto("crashes", IF has_crashes THEN "sleep" ELSE "look")
    /\ UNCHANGED <<ctrl, session, archives, text, timeUp, flags, status>>

\* The loop: time, process and crashes are looked at one after the other.
Watch ==
    /\ \/ Goto("sleep", "time")
       \/ Goto("time", IF timeUp THEN "look" ELSE "running")
       \/ Goto("running", IF is_running THEN "crashes" ELSE "look")
       \/ Goto("crashes", IF has_crashes THEN "look" ELSE "sleep")
    /\ UNCHANGED <<ctrl, session, archives, text, timeUp, flags, status>>

\* Mutant: the crashes of a fuzzer that has died do not count.
Look_WhileRunning ==
    /\ Goto("look", "stop") /\ found_crash' = (is_running /\ has_crashes)
    /\ UNCHANGED <<ctrl, session, archives, text, timeUp, interrupted, pending, status>>

\* After the loop the crashes are looked for once more (fuzz.failed and the
\* count are only logged).
Look ==
    /\ Goto("look", "stop") /\ found_crash' = has_crashes
    /\ UNCHANGED <<ctrl, session, archives, text, timeUp, interrupted, pending, status>>

Interrupt ==
    /\ pc \in Watching /\ pc' = "stop" /\ interrupted' = TRUE
    /\ UNCHANGED <<ctrl, session, archives, text, timeUp, found_crash, pending, status>>

\* The inner finally, with a timeout of one second.
Stop ==
    /\ Goto("stop", "stopping") /\ stop(TRUE)
    /\ UNCHANGED <<session, archives, text, timeUp, flags, status>>

\* __exit__ after an exception in the finally: stop again, without a timeout.
ExitStop ==
    /\ Goto("exit", "exiting") /\ stop(FALSE)
    /\ UNCHANGED <<session, archives, text, timeUp, flags, status>>

\* stop goes on, and has returned.
Stopping ==
    /\ pc \in {"stopping", "exiting"}
    /\ \/ (WaitReturns \/ WaitExpires) /\ UNCHANGED pc
       \/ call = "none" /\ pc' = "archive" /\ UNCHANGED ctrl
    /\ UNCHANGED <<session, archives, text, timeUp, flags, status>>

InterruptStop ==
    /\ \/ Goto("stop", "exit") /\ UNCHANGED ctrl
       \/ Goto("stopping", "exit") /\ WaitInterrupted
       \/ Goto("exit", "archive") /\ UNCHANGED ctrl
       \/ Goto("exiting", "archive") /\ WaitInterrupted
    /\ pending' = "interrupt"
    /\ UNCHANGED <<session, archives, text, timeUp, found_crash, interrupted, status>>

\* misc/program: there, cut, or not (yet) there.
ProgramOf == IF text \in {"program", "cut"} THEN text ELSE "none"

\* The outer finally: make_archive truncates the file and fills it with what is
\* in the working directory.
Save ==
    /\ pc = "archive"
    /\ \/ /\ opts.state /\ pc' = "saving"
          /\ archives' = [archives EXCEPT ![SavedTo] =
                [crashes |-> crashes, program |-> ProgramOf, form |-> "broken"]]
       \/ ~opts.state /\ pc' = "cleanup" /\ UNCHANGED archives
    /\ UNCHANGED <<ctrl, session, text, timeUp, flags, status>>

\* A crash found meanwhile may be in the archive or not.
SaveDone ==
    /\ Goto("saving", "cleanup")
    /\ \E c \in archives[SavedTo].crashes..crashes :
          archives' = [archives EXCEPT ![SavedTo].crashes = c, ![SavedTo].form = "whole"]
    /\ UNCHANGED <<ctrl, session, text, timeUp, flags, status>>

\* Mutant: the failure to write the archive is passed over.
SaveFails_Silent ==
    /\ Goto("saving", "cleanup")
    /\ UNCHANGED <<ctrl, session, archives, text, timeUp, flags, status>>

\* What an interrupt, or a file that cannot be read, leaves of an archive: its
\* `with' closes it all the same, and it is a zip of the files that were
\* reached, the last one as far as it was copied.
Closed ==
    \E c \in 0..crashes, p \in {"none", "cut", archives[SavedTo].program} :
        archives' = [archives EXCEPT
            ![SavedTo] = [crashes |-> c, program |-> p, form |-> "part"]]

\* What a broken archive holds, nobody reads.
LeftBroken == archives' = [archives EXCEPT ![SavedTo] = NoArchive]

\* The archive cannot be opened, and is not touched; it is closed before all is
\* in it; or it cannot be closed either.
SaveFails ==
    /\ \/ Goto("archive", "cleanup") /\ opts.state /\ UNCHANGED archives
       \/ Goto("saving", "cleanup") /\ (Closed \/ LeftBroken)
    /\ pending' \in {"error", "interrupt"}
    /\ UNCHANGED <<ctrl, session, text, timeUp, found_crash, interrupted, status>>

\* Mutant: what sys.exit is given, and not what the parent sees of it.
Finish_Wide ==
    /\ Goto("cleanup", "ended")
    /\ status' = CASE pending = "error" -> 1 [] pending = "interrupt" -> 130
                   [] OTHER -> IF found_crash THEN 511 ELSE 0
    /\ UNCHANGED <<ctrl, session, archives, text, timeUp, flags>>

\* The directory is removed (which fails if a fuzzer that is not yet dead puts
\* a file there), and the exception or the result becomes the status.
Finish ==
    /\ Goto("cleanup", "ended")
    /\ \/ status' = CASE pending = "error" -> 1 [] pending = "interrupt" -> 130
                      [] OTHER -> IF found_crash THEN 255 ELSE 0
       \/ proc[Fuzzer] = "alive" /\ status' = 1
    /\ UNCHANGED <<ctrl, session, archives, text, timeUp, flags>>

WorldStep == World /\ UNCHANGED <<session, archives, text, pc, timeUp, flags, status>>

Over == pc = "ended" /\ UNCHANGED vars

\* The script's own steps, and the ones it does not choose.
Script ==
    \/ EndsEarly \/ NoProgram \/ Restore \/ Prepare \/ StartFuzzer \/ StartFails
    \/ Watch \/ Look \/ Stop \/ ExitStop \/ Stopping
    \/ Save \/ SaveDone \/ SaveFails \/ Finish

Next == Script \/ Tick \/ Interrupt \/ InterruptStop \/ WorldStep \/ Over

\* The script runs on, and time passes.  Nothing is assumed of the fuzzer.
Spec == Init /\ [][Next]_vars /\ WF_vars(Script) /\ WF_vars(Tick)

-----------------------------------------------------------------------------
\* A session whose status is that of a crash or of none has written its archive
\* to the end, program and all: one that was cut short is told by the status.  A
\* reported crash is in it, and if the archive's name is a zip's, a session that
\* resumes from that name finds it.
ReportedIsArchived ==
    status \in {0, 255} /\ opts.state /\ proc[Fuzzer] # "none" =>
        /\ archives[SavedTo].form = "whole" /\ archives[SavedTo].program # "none"
        /\ status = 255 => archives[SavedTo].crashes > 0
        /\ status = 255 /\ opts.zip => Restorable(archives["given"])

\* Status 0 of a session that was neither interrupted nor out of time: no crash,
\* in whatever order the fuzzer found crashes, died, and was looked at.
SilentMeansNone == status = 0 /\ ~interrupted /\ ~timeUp => crashes = 0

\* run_svcomp_fuzz.py:185: a session ends by itself because of a crash (an earlier
\* one of the archive it resumes will do) or because the fuzzer is dead.
EndsForCause ==
    pc = "look" /\ ~timeUp => crashes > 0 \/ proc[Fuzzer] = "dead"

\* The crashes of the sessions before a resumed one are in some archive at any
\* time, unless the archive it resumed from is the one it writes, which is not
\* yet or never was written to the end.
CrashesKept ==
    Resuming /\ Restorable(stored["given"]) =>
        \/ \E n \in Places :
              archives[n].form # "broken" /\ archives[n].crashes >= stored["given"].crashes
        \/ opts.zip /\ archives["given"].form # "whole"

\* p is what there is of a program once it is prepared or restored to the end.
Complete(p) == p = "program" \/ (p = "cut" /\ Resuming /\ stored["given"].program = "cut")

\* Whatever fails in the preparation, an archive gives way only to one of a program
\* that was prepared to the end, or restored: what is written whole can be resumed,
\* and its program is cut only if the one that the session resumed from was.
ArchiveResumable ==
    \A n \in Places : archives[n] # stored[n] /\ archives[n].form = "whole" =>
        Complete(archives[n].program)

\* While the archive is written no fuzzer writes into the directory, but for one
\* that has been sent SIGKILL, or that an interrupted stop has left behind.
QuietArchive ==
    pc = "saving" /\ proc[Fuzzer] = "alive" => sent[Fuzzer] = "kill" \/ pending = "interrupt"

\* A session with a time limit ends, or waits in __exit__ for a fuzzer that does
\* not answer SIGINT.
SessionEnds == opts.bounded /\ pc = "time" ~> pc = "ended" \/ pc = "exiting"
=============================================================================
