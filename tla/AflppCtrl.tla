----------------------------- MODULE AflppCtrl -----------------------------
(***************************************************************************)
(* src/aflpp_ctrl/aflpp_ctrl.py: the controller of one afl-fuzz process at *)
(* a time.  Its client is a single thread; the processes it has started    *)
(* run, find crashes and die at any time between two of its steps.         *)
(***************************************************************************)
EXTENDS Naturals

CONSTANTS
    Procs,        \* the processes that may be started
    NoProc,
    MaxCrashes    \* bound: the crashes found

ASSUME ProcsAssumption == NoProc \notin Procs /\ MaxCrashes \in Nat

VARIABLES
    proc,         \* what the system knows of each: "none", "alive" or "dead"
    sent,         \* the signal it was sent: "no", "int" or "kill"
    handle,       \* self._aflpp_fuzz_proc
    crashes,      \* how many files match out_dir/default/crashes*/id*
    call,         \* the client is in no call that blocks, or in stop's "wait"
    limited       \* the call of stop has a timeout

ctrl == <<proc, sent, handle, crashes, call, limited>>

CtrlTypeOK ==
    /\ proc \in [Procs -> {"none", "alive", "dead"}]
    /\ sent \in [Procs -> {"no", "int", "kill"}]
    /\ handle \in Procs \cup {NoProc}
    /\ crashes \in 0..MaxCrashes
    /\ call \in {"none", "wait"} /\ limited \in BOOLEAN

CtrlInit ==
    /\ proc = [p \in Procs |-> "none"] /\ sent = [p \in Procs |-> "no"]
    /\ handle = NoProc /\ crashes = 0 /\ call = "none" /\ limited = FALSE

-----------------------------------------------------------------------------
(* AFL++ and the system.                                                   *)

FindsCrash(p) ==
    /\ proc[p] = "alive" /\ crashes < MaxCrashes
    /\ crashes' = crashes + 1
    /\ UNCHANGED <<proc, sent, handle, call, limited>>

\* By itself, by the signal it was sent, or by another's.
Dies(p) ==
    /\ proc[p] = "alive"
    /\ proc' = [proc EXCEPT ![p] = "dead"]
    /\ UNCHANGED <<sent, handle, crashes, call, limited>>

World == \E p \in Procs : FindsCrash(p) \/ Dies(p)

-----------------------------------------------------------------------------
(* The controller.                                                         *)

is_running  == handle # NoProc /\ proc[handle] = "alive"
has_crashes == crashes > 0

\* Mutant: a process that runs is not looked for.
_run_aflpp_fuzz_Always(p) ==
    /\ call = "none" /\ proc[p] = "none"
    /\ proc' = [proc EXCEPT ![p] = "alive"] /\ handle' = p
    /\ UNCHANGED <<sent, crashes, call, limited>>

\* start and resume, when Popen succeeds (otherwise they raise and change
\* nothing).  What was found before a resume stays in the directory.
_run_aflpp_fuzz(p) ==
    /\ call = "none" /\ ~is_running /\ proc[p] = "none"
    /\ proc' = [proc EXCEPT ![p] = "alive"] /\ handle' = p
    /\ UNCHANGED <<sent, crashes, call, limited>>

\* stop: a process that still runs gets SIGINT and is waited for.
stop(timeout) ==
    /\ call = "none" /\ handle # NoProc
    /\ \/ /\ is_running
          /\ sent' = [sent EXCEPT ![handle] = "int"]
          /\ call' = "wait" /\ limited' = timeout
          /\ UNCHANGED handle
       \/ /\ ~is_running
          /\ handle' = NoProc
          /\ UNCHANGED <<sent, call, limited>>
    /\ UNCHANGED <<proc, crashes>>

WaitReturns ==
    /\ call = "wait" /\ proc[handle] = "dead"
    /\ handle' = NoProc /\ call' = "none"
    /\ UNCHANGED <<proc, sent, crashes, limited>>

\* Mutants: the process is left alone; it is killed and waited for again.
WaitExpires_NoKill ==
    /\ call = "wait" /\ limited
    /\ handle' = NoProc /\ call' = "none"
    /\ UNCHANGED <<proc, sent, crashes, limited>>
WaitExpires_Again ==
    /\ call = "wait" /\ limited /\ sent[handle] # "kill"
    /\ sent' = [sent EXCEPT ![handle] = "kill"]
    /\ UNCHANGED <<proc, handle, crashes, call, limited>>

\* The timeout: SIGKILL, and the handle is dropped without another wait.
WaitExpires ==
    /\ call = "wait" /\ limited
    /\ sent' = [sent EXCEPT ![handle] = "kill"]
    /\ handle' = NoProc /\ call' = "none"
    /\ UNCHANGED <<proc, crashes, limited>>

\* KeyboardInterrupt leaves the wait, and the handle as it is.
WaitInterrupted ==
    /\ call = "wait" /\ call' = "none"
    /\ UNCHANGED <<proc, sent, handle, crashes, limited>>

-----------------------------------------------------------------------------
AllOver == (\A p \in Procs : proc[p] = "dead") /\ handle = NoProc /\ UNCHANGED ctrl

\* Any client: calls in any order, interrupted at any time.
ClientNext ==
    \/ World
    \/ \E p \in Procs : _run_aflpp_fuzz(p)
    \/ \E timeout \in BOOLEAN : stop(timeout)
    \/ WaitReturns \/ WaitExpires \/ WaitInterrupted
    \/ AllOver

\* Time passes.
ClientSpec == CtrlInit /\ [][ClientNext]_ctrl /\ WF_ctrl(WaitExpires)

\* Whatever its client does, the controller does not lose a process: the one
\* that has no handle any more is dead, or at least has been sent SIGKILL.  So
\* no two processes fuzz into one directory for longer than it takes to die.
NoOrphan == \A p \in Procs : proc[p] = "alive" /\ p # handle => sent[p] = "kill"

\* stop with a timeout returns, though the process ignores both signals.
StopReturns == call = "wait" /\ limited ~> call = "none"
=============================================================================
