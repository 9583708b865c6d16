------------------------------ MODULE Pthreads ------------------------------
(***************************************************************************)
(* A machine for the programs of Subjects: threads that take their steps   *)
(* in any order, with the mutexes, semaphores and condition variables of   *)
(* POSIX.  A data race is two threads about to access the same location,   *)
(* one of them to write it, and not both atomically.                       *)
(***************************************************************************)
EXTENDS Subjects, FiniteSetsExt

CONSTANTS
    Programs,       \* those that run
    MaxFailures,    \* bound: the calls of pthread_create that fail
    MaxSpurious     \* bound: the spurious wakeups

ASSUME ProgramsAssumption ==
    Programs \subseteq Names /\ MaxFailures \in Nat /\ MaxSpurious \in Nat

All0  == {Main} \cup Threads
Codes == [p \in Names |-> [t \in All0 |-> [n \in 0..N |-> Code(p, t, n)]]]

VARIABLES
    prog, total,    \* the program, and how many threads it was told to create
    status,         \* of a thread: "new", "running", "ended" or "failed"
    pc,             \* the step a thread is at
    local,          \* its local variable
    mem,            \* the values that decide something
    owner,          \* the thread that holds a mutex or a semaphore of one, or Free
    waits,          \* the condition a thread waits on, "relock" when it is woken, or "no"
    freed,          \* the locations that are freed
    spurious,       \* how many wakeups were spurious
    outcome         \* "running", "returned" from main, "aborted" or "undefined"

world == <<mem, owner, waits, freed, spurious>>
vars  == <<prog, total, status, pc, local, world, outcome>>

NoOwner == N + 1
Mutexes == {"data_mutex", "data_sem", "next_j_mutex", "threads_mask_mutex", "shared_mutex",
            "ready_mutex", "threads_alive_mutex", "keep_alive_mutex"}
Globals == {Global(x) : x \in {"data", "next_j", "shared", "ready", "threads_alive", "flag", "value"}}
Vars    == Globals \cup {Global("threads_mask"), Global("keep_alive")}
           \cup {"data", "key"} \X Threads

TypeOK ==
    /\ prog \in Programs /\ total \in 0..N
    /\ status \in [All0 -> {"new", "running", "ended", "failed"}]
    /\ \A t \in All0 : pc[t] \in 1..Len(Codes[prog][t][total]) + 1
    /\ local \in [All0 -> 0..N] /\ DOMAIN mem = Vars
    /\ owner \in [Mutexes -> All0 \cup {NoOwner}]
    /\ spurious \in 0..MaxSpurious
    /\ outcome \in {"running", "returned", "aborted", "undefined"}

Init ==
    /\ prog \in Programs /\ total \in Totals(prog)
    /\ status = [t \in All0 |-> IF t = Main THEN "running" ELSE "new"]
    /\ pc = [t \in All0 |-> 1] /\ local = [t \in All0 |-> 0]
    /\ mem = [x \in Vars |-> CASE x = Global("threads_mask") -> 0..N
                               [] x = Global("keep_alive") -> 1
                               [] OTHER -> 0]
    /\ owner = [m \in Mutexes |-> NoOwner] /\ waits = [t \in All0 |-> "no"]
    /\ freed = {} /\ spurious = 0 /\ outcome = "running"

-----------------------------------------------------------------------------
Ready(t) == outcome = "running" /\ status[t] = "running" /\ waits[t] = "no"
Here(t)  == Codes[prog][t][total][pc[t]]
AtEnd(t) == pc[t] > Len(Codes[prog][t][total])

\* Thread t is about to do op; and goes on, n steps further.
At(t, op) == Ready(t) /\ ~AtEnd(t) /\ Here(t).op = op
Go(t, n)  == pc' = [pc EXCEPT ![t] = @ + n] /\ UNCHANGED <<prog, total>>
Goes(t)   == Go(t, 1) /\ UNCHANGED <<status, outcome>>

LockStep(t) ==
    /\ At(t, "lock") /\ owner[Here(t).m] = NoOwner /\ Goes(t)
    /\ owner' = [owner EXCEPT ![Here(t).m] = t]
    /\ UNCHANGED <<local, mem, waits, freed, spurious>>

UnlockStep(t) ==
    /\ At(t, "unlock") /\ Goes(t)
    /\ owner' = [owner EXCEPT ![Here(t).m] = NoOwner]
    /\ UNCHANGED <<local, mem, waits, freed, spurious>>

\* The wait gives the mutex up in the same step; a woken thread must have it
\* before it looks again.
AwaitStep(t) ==
    /\ At(t, "await")
    /\ IF mem[Here(t).x] = Here(t).v THEN Goes(t) /\ UNCHANGED <<owner, waits>>
       ELSE /\ waits' = [waits EXCEPT ![t] = Here(t).c]
            /\ owner' = [owner EXCEPT ![Here(t).m] = NoOwner]
            /\ UNCHANGED <<prog, total, status, pc, outcome>>
    /\ UNCHANGED <<local, mem, freed, spurious>>

Relock(t) ==
    /\ outcome = "running" /\ waits[t] = "relock" /\ owner[Here(t).m] = NoOwner
    /\ owner' = [owner EXCEPT ![Here(t).m] = t] /\ waits' = [waits EXCEPT ![t] = "no"]
    /\ UNCHANGED <<prog, total, status, pc, local, mem, freed, spurious, outcome>>

Waiting(c) == {u \in All0 : waits[u] = c}
SignalStep(t) ==
    /\ At(t, "signal") /\ Goes(t)
    /\ \/ Waiting(Here(t).c) = {} /\ UNCHANGED waits
       \/ \E u \in Waiting(Here(t).c) : waits' = [waits EXCEPT ![u] = "relock"]
    /\ UNCHANGED <<local, mem, owner, freed, spurious>>

BroadcastStep(t) ==
    /\ At(t, "broadcast") /\ Goes(t)
    /\ waits' = [u \in All0 |-> IF u \in Waiting(Here(t).c) THEN "relock" ELSE waits[u]]
    /\ UNCHANGED <<local, mem, owner, freed, spurious>>

SpuriousWakeup(t) ==
    /\ outcome = "running" /\ waits[t] \notin {"no", "relock"} /\ spurious < MaxSpurious
    /\ waits' = [waits EXCEPT ![t] = "relock"] /\ spurious' = spurious + 1
    /\ UNCHANGED <<prog, total, status, pc, local, mem, owner, freed, outcome>>

\* What the accesses do to the values that are kept.
NewMem(t) ==
    LET i == Here(t) IN
    CASE i.op \in {"set", "atomic_set"} -> [mem EXCEPT ![i.x] = i.v]
      [] i.op \in {"inc", "atomic_inc"} -> [mem EXCEPT ![i.x] = @ + 1]
      [] i.op = "dec"      -> [mem EXCEPT ![i.x] = @ - 1]
      [] i.op = "take_bit" -> [mem EXCEPT ![i.x] = @ \ {Min(@)}]
      [] i.op = "give_bit" -> [mem EXCEPT ![i.x] = @ \cup {local[t]}]
      [] OTHER -> mem

AccessStep(t) ==
    /\ \E op \in {"read", "write", "set", "atomic_set", "inc", "dec", "atomic_inc", "fetch",
                  "write_at", "take_bit", "give_bit"} : At(t, op)
    /\ Goes(t) /\ mem' = NewMem(t)
    /\ local' = [local EXCEPT ![t] = CASE Here(t).op = "fetch" -> mem[Here(t).x]
                                       [] Here(t).op = "take_bit" -> Min(mem[Here(t).x])
                                       [] OTHER -> @]
    /\ UNCHANGED <<owner, waits, freed, spurious>>

FreeStep(t) ==
    /\ At(t, "free") /\ Goes(t) /\ freed' = freed \cup Here(t).xs
    /\ UNCHANGED <<local, mem, owner, waits, spurious>>

BranchStep(t) ==
    /\ \/ At(t, "unless") /\ Go(t, IF mem[Here(t).x] = Here(t).v THEN 1 ELSE Here(t).n + 1)
       \/ At(t, "spin") /\ mem[Here(t).x] = Here(t).v /\ Go(t, 1)
       \/ At(t, "repeat") /\ mem[Here(t).x] # Here(t).v /\ Go(t, 1)
       \/ /\ At(t, "repeat") /\ mem[Here(t).x] = Here(t).v
          /\ pc' = [pc EXCEPT ![t] = @ - Here(t).n] /\ UNCHANGED <<prog, total>>
    /\ UNCHANGED <<status, local, world, outcome>>

\* abort() if it does not hold.
CheckStep(t) ==
    /\ At(t, "check") /\ Go(t, 1)
    /\ outcome' = IF mem[Here(t).x] = Here(t).v THEN outcome ELSE "aborted"
    /\ UNCHANGED <<status, local, world>>

Uncreated == {u \in Threads : status[u] = "failed"}

\* A failing pthread_create writes no identifier.
CreateStep(t) ==
    /\ At(t, "create") /\ Go(t, 1)
    /\ \/ /\ status' = [status EXCEPT ![Here(t).t] = "running"]
          /\ local' = [local EXCEPT ![Here(t).t] = local[t]]
       \/ /\ Cardinality(Uncreated) < MaxFailures
          /\ status' = [status EXCEPT ![Here(t).t] = "failed"]
          /\ UNCHANGED local
    /\ UNCHANGED <<world, outcome>>

\* To join or detach an identifier that was never written is undefined: an
\* error that nobody looks at, or the end of the program.
NamesNobody(t) == status[Here(t).t] \in {"new", "failed"}
JoinStep(t) ==
    /\ At(t, "join") \/ At(t, "detach")
    /\ Here(t).op = "join" => status[Here(t).t] # "running"
    /\ Go(t, 1)
    /\ outcome' \in IF NamesNobody(t) THEN {outcome, "undefined"} ELSE {outcome}
    /\ UNCHANGED <<status, local, world>>

\* The end of a thread; that of main is the end of the process.
EndStep(t) ==
    /\ Ready(t) /\ AtEnd(t) /\ status' = [status EXCEPT ![t] = "ended"]
    /\ outcome' = IF t = Main THEN "returned" ELSE outcome
    /\ UNCHANGED <<prog, total, pc, local, world>>

Step(t) ==
    \/ LockStep(t) \/ UnlockStep(t) \/ AwaitStep(t) \/ Relock(t) \/ SignalStep(t)
    \/ BroadcastStep(t) \/ AccessStep(t) \/ FreeStep(t) \/ BranchStep(t) \/ CheckStep(t)
    \/ CreateStep(t) \/ JoinStep(t) \/ EndStep(t)

\* The process has ended, or may hang for want of a thread.
Over == (outcome # "running" \/ Uncreated # {}) /\ UNCHANGED vars
Next == (\E t \in All0 : Step(t) \/ SpuriousWakeup(t)) \/ Over

\* Every thread that can go on does.
Spec == Init /\ [][Next]_vars /\ \A t \in All0 : WF_vars(Step(t))

-----------------------------------------------------------------------------
\* The locations thread t is about to access: what it writes, what it reads,
\* and whether it does so atomically.
Atomic(t) == Here(t).op \in {"atomic_set", "atomic_inc", "spin"}
Writes(t) ==
    IF ~Ready(t) \/ AtEnd(t) THEN {}
    ELSE LET i == Here(t) IN
         CASE i.op \in {"write", "set", "inc", "dec", "atomic_set", "atomic_inc", "take_bit", "give_bit"}
                -> {i.x}
           [] i.op = "write_at" -> {<<i.x, local[t]>>}
           [] i.op = "free" -> i.xs
           [] i.op = "create" -> {<<"tids", i.t>>}
           [] OTHER -> {}
Reads(t) ==
    IF ~Ready(t) \/ AtEnd(t) THEN {}
    ELSE LET i == Here(t) IN
         CASE i.op \in {"read", "fetch", "await", "check", "unless", "repeat", "spin"} -> {i.x}
           [] i.op \in {"join", "detach"} -> {<<"tids", i.t>>}
           [] OTHER -> {}

\* The comments "NORACE" of src/examples: no access so marked can race with
\* another, in any interleaving of the threads, if every one is created;
\* simple.c has no such comment.
NoRace ==
    prog # "simple" /\ Uncreated = {} => \A t, u \in All0 :
        t # u /\ ~(Ready(t) /\ ~AtEnd(t) /\ Atomic(t) /\ Ready(u) /\ ~AtEnd(u) /\ Atomic(u))
            => Writes(t) \cap (Reads(u) \cup Writes(u)) = {}

\* The assertions of thread-local-value.c and thread-local-pthread-value.c hold,
\* and no thread is joined before it is created (thread-join-binomial.c:58).
NeverFails == Uncreated = {} => outcome \notin {"aborted", "undefined"}

\* Nothing is used after it is freed, or freed twice, in whatever order threads
\* end, if every one is created; and an index handed from thread to thread
\* stays in its array.
MemorySafe == Uncreated = {} =>
    /\ \A t \in All0 : (Writes(t) \cup Reads(t)) \cap freed = {}
    /\ \A t \in Threads : \A x \in Writes(t) : Here(t).op = "write_at" => x[2] < total

\* main waits for no thread for ever, if every pthread_create succeeds.  The
\* threads of thread-join-counter-inner.c take the mutex that main needs again
\* and again, and POSIX promises it to nobody.
MainReturns ==
    prog # "thread_join_counter_inner" => <>(outcome = "returned" \/ Uncreated # {})

\* thread-join-counter-outer.c:41: pthread_create "may fail but doesn't matter".
FailureDoesNotMatter == <>(outcome # "running")
=============================================================================
