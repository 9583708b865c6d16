------------------------------ MODULE Subjects ------------------------------
(***************************************************************************)
(* The hand-written programs of src/examples, which the tools are tried on *)
(* and whose comments say what is free of races: each is the sequence of   *)
(* the steps of main and that of thread t.  A location is a name and an    *)
(* index; rand()'s values do not matter, and are left out.                 *)
(***************************************************************************)
EXTENDS Naturals, Sequences, SequencesExt

CONSTANT N    \* bound: the threads
ASSUME NAssumption == N \in Nat \ {0}

Main    == 0
Threads == 1..N

-----------------------------------------------------------------------------
(* The instructions: what pthread, the compiler and the C library offer.   *)

Global(x) == <<x, 0>>

Lock(m)         == [op |-> "lock", m |-> m]
Unlock(m)       == [op |-> "unlock", m |-> m]
Signal(c)       == [op |-> "signal", c |-> c]
Broadcast(c)    == [op |-> "broadcast", c |-> c]
Read(x)         == [op |-> "read", x |-> x]
Write(x)        == [op |-> "write", x |-> x]
Set(x, v)       == [op |-> "set", x |-> x, v |-> v]
Inc(x)          == [op |-> "inc", x |-> x]
Dec(x)          == [op |-> "dec", x |-> x]
AtomicSet(x, v) == [op |-> "atomic_set", x |-> x, v |-> v]
AtomicInc(x)    == [op |-> "atomic_inc", x |-> x]
Check(x, v)     == [op |-> "check", x |-> x, v |-> v]        \* __VERIFIER_assert
Unless(x, v, n) == [op |-> "unless", x |-> x, v |-> v, n |-> n]   \* skips n steps
Spin(x, v)      == [op |-> "spin", x |-> x, v |-> v]         \* until the atomic x is v
Repeat(x, v, n) == [op |-> "repeat", x |-> x, v |-> v, n |-> n]   \* back n steps while x is v
Fetch(x)        == [op |-> "fetch", x |-> x]                 \* into the thread's local
WriteAt(x)      == [op |-> "write_at", x |-> x]              \* at the local's index
TakeBit(x)      == [op |-> "take_bit", x |-> x]              \* the lowest, into the local
GiveBit(x)      == [op |-> "give_bit", x |-> x]
Free(xs)        == [op |-> "free", xs |-> xs]
Create(t)       == [op |-> "create", t |-> t]                \* hands on the local
Join(t)         == [op |-> "join", t |-> t]
Detach(t)       == [op |-> "detach", t |-> t]

\* while (x != v) pthread_cond_wait(c, m)
Await(x, v, c, m) == [op |-> "await", x |-> x, v |-> v, c |-> c, m |-> m]

Locked(m, body) == <<Lock(m)>> \o body \o <<Unlock(m)>>

\* for (int i = 0; i < threads_total; i++) body
ForAll(total, Body(_)) == FlattenSeq([i \in 1..total |-> Body(i)])
CreateAll(total) == [i \in 1..total |-> Create(i)]
JoinAll(total)   == [i \in 1..total |-> Join(i)]
All(x, total)    == {<<x, i>> : i \in 0..total}

\* main of the programs that create threads, join them and free the memory.
Pool(total, xs) == CreateAll(total) \o JoinAll(total) \o <<Free(xs)>>

-----------------------------------------------------------------------------
(* The programs.                                                           *)

data == Global("data")
SetData == Locked("data_mutex", <<Write(data)>>)

\* "return 0; // NORACE (all threads joined)": a read of data would be no race.
thread_join_array_const(t, total) ==
    IF t = Main THEN CreateAll(total) \o JoinAll(total) \o <<Read(data)>> ELSE SetData

thread_join_array_dynamic(t, total) ==
    IF t = Main THEN Pool(total, All("tids", total)) \o <<Read(data)>> ELSE SetData

atomic_gcc(t, total) ==
    IF t = Main THEN Pool(total, All("tids", total)) ELSE <<AtomicInc(data)>>

semaphore_posix(t, total) ==
    IF t = Main THEN Pool(total, All("tids", total))
    ELSE Locked("data_sem", <<Write(data)>>)

per_thread_array_ptr(t, total) ==
    IF t = Main THEN Pool(total, All("tids", total) \cup All("datas", total))
    ELSE <<Write(<<"datas", t>>)>>

\* The argument is the index itself.
per_thread_array_index(t, total) ==
    IF t = Main THEN Pool(total, All("tids", total) \cup All("datas", total))
    ELSE <<Write(<<"datas", t>>)>>

per_thread_array_init(t, total) ==
    IF t = Main
    THEN ForAll(total, LAMBDA i : <<Write(<<"is", i>>), Create(i)>>) \o JoinAll(total)
         \o <<Free(All("tids", total) \cup All("is", total))>>
    ELSE <<Read(<<"is", t>>)>>

per_thread_struct_in_array(t, total) ==
    IF t = Main THEN Pool(total, All("tids", total) \cup All("ts", total))
    ELSE <<Write(<<"ts", t>>)>>

\* The thread frees its own.
per_thread_struct(t, total) ==
    IF t = Main THEN Pool(total, All("tids", total))
    ELSE <<Write(<<"t", t>>), Free({<<"t", t>>})>>

\* main frees what holds the thread's identifier and its data.
per_thread_struct_tid(t, total) ==
    IF t = Main
    THEN CreateAll(total)
         \o ForAll(total, LAMBDA i : <<Join(i), Free({<<"tids", i>>, <<"t", i>>})>>)
         \o <<Free(All("ts", total))>>
    ELSE <<Write(<<"t", t>>)>>

\* Mutant: ++next_j for next_j++.
per_thread_index_inc_First(t, total) ==
    IF t = Main THEN Pool(total, All("tids", total) \cup All("datas", total))
    ELSE Locked("next_j_mutex", <<Inc(Global("next_j")), Fetch(Global("next_j"))>>)
         \o <<WriteAt("datas")>>

per_thread_index_inc(t, total) ==
    IF t = Main THEN Pool(total, All("tids", total) \cup All("datas", total))
    ELSE Locked("next_j_mutex", <<Fetch(Global("next_j")), Inc(Global("next_j"))>>)
         \o <<WriteAt("datas")>>

\* Mutant: the bit is given back before the data is written.
per_thread_index_bitmask_Early(t, total) ==
    IF t = Main
    THEN ForAll(total, LAMBDA i : Locked("threads_mask_mutex", <<TakeBit(Global("threads_mask"))>>)
                                  \o <<Create(i)>>)
         \o JoinAll(total) \o <<Free(All("tids", total) \cup All("datas", total))>>
    ELSE Locked("threads_mask_mutex", <<GiveBit(Global("threads_mask"))>>) \o <<WriteAt("datas")>>

per_thread_index_bitmask(t, total) ==
    IF t = Main
    THEN ForAll(total, LAMBDA i : Locked("threads_mask_mutex", <<TakeBit(Global("threads_mask"))>>)
                                  \o <<Create(i)>>)
         \o JoinAll(total) \o <<Free(All("tids", total) \cup All("datas", total))>>
    ELSE <<WriteAt("datas")>> \o Locked("threads_mask_mutex", <<GiveBit(Global("threads_mask"))>>)

thread_local_value(t, total) ==
    IF t = Main THEN Pool(total, All("tids", total))
    ELSE <<Check(<<"data", t>>, 0), Set(<<"data", t>>, 1), Check(<<"data", t>>, 1)>>

\* Of the addresses of two locals.
thread_local_pthread_value(t, total) ==
    IF t = Main THEN Pool(total, All("tids", total))
    ELSE <<Set(<<"key", t>>, 1), Check(<<"key", t>>, 1),
           Set(<<"key", t>>, 2), Check(<<"key", t>>, 2)>>

thread_local_pthread_value_cond(t, total) ==
    IF t = Main THEN Pool(total, All("tids", total))
    ELSE <<Set(<<"key", t>>, 1), Set(<<"key", t>>, 2),
           Unless(<<"key", t>>, 2, 1), Lock("shared_mutex"),
           Inc(Global("shared")),
           Unless(<<"key", t>>, 2, 1), Unlock("shared_mutex")>>

value_barrier(t, total) ==
    IF t = Main
    THEN CreateAll(total) \o <<Write(data)>>
         \o Locked("ready_mutex", <<Set(Global("ready"), 1), Broadcast("ready_cond")>>)
         \o JoinAll(total) \o <<Free(All("tids", total))>>
    ELSE Locked("ready_mutex", <<Await(Global("ready"), 1, "ready_cond", "ready_mutex")>>)
         \o <<Read(data)>>

alive == Global("threads_alive")
AwaitAlive(n) ==
    Locked("threads_alive_mutex", <<Await(alive, n, "threads_alive_cond", "threads_alive_mutex")>>)
SignalAlive(step) ==
    Locked("threads_alive_mutex", <<step, Signal("threads_alive_cond")>>)

\* Mutant: the thread decrements without a signal.
thread_join_counter_outer_Silent(t, total) ==
    IF t = Main
    THEN ForAll(total, LAMBDA i : Locked("threads_alive_mutex", <<Inc(alive)>>)
                                  \o <<Create(i), Detach(i)>>)
         \o AwaitAlive(0) \o <<Read(data)>>
    ELSE SetData \o Locked("threads_alive_mutex", <<Dec(alive)>>)

thread_join_counter_outer(t, total) ==
    IF t = Main
    THEN ForAll(total, LAMBDA i : Locked("threads_alive_mutex", <<Inc(alive)>>)
                                  \o <<Create(i), Detach(i)>>)
         \o AwaitAlive(0) \o <<Read(data)>>
    ELSE SetData \o SignalAlive(Dec(alive))

\* The loop of the thread: its condition, unlocked in between.
KeepAlive(body) ==
    <<Lock("keep_alive_mutex"), Unless(Global("keep_alive"), 1, Len(body) + 3),
      Unlock("keep_alive_mutex")>> \o body
    \o <<Lock("keep_alive_mutex"), Repeat(Global("keep_alive"), 1, Len(body) + 2),
         Unlock("keep_alive_mutex")>>

thread_join_counter_inner(t, total) ==
    IF t = Main
    THEN ForAll(total, LAMBDA i : <<Create(i), Detach(i)>>)
         \o AwaitAlive(total)
         \o Locked("keep_alive_mutex", <<Set(Global("keep_alive"), 0)>>)
         \o AwaitAlive(0) \o <<Read(data)>>
    ELSE SignalAlive(Inc(alive)) \o KeepAlive(SetData) \o SignalAlive(Dec(alive))

\* The threads that thread i joins; they are numbered from 0 in the code.
Workers(i, total) ==
    LET joins(step) == i % (2 * 2^step) = 0 /\ i + 2^step < total
        last == CHOOSE s \in 0..total : ~joins(s) /\ \A r \in 0..s - 1 : joins(r)
    IN  [s \in 1..last |-> Join(i + 2^(s - 1) + 1)]

\* Mutant: the threads are created first to last.
thread_join_binomial_Upwards(t, total) ==
    IF t = Main
    THEN CreateAll(total) \o <<Join(1), Free(All("tids", total)), Read(data)>>
    ELSE SetData \o Workers(t - 1, total)

\* Created last to first, "to avoid a race condition when fanning in".
thread_join_binomial(t, total) ==
    IF t = Main
    THEN Reverse(CreateAll(total)) \o <<Join(1), Free(All("tids", total)), Read(data)>>
    ELSE SetData \o Workers(t - 1, total)

\* fn1, fn2 and fn3, which differ in the form of their loops; main joins them all.
simple(t, total) ==
    CASE t = Main -> CreateAll(total) \o JoinAll(total)
      [] t = 1    -> <<Inc(Global("value")), AtomicSet(Global("flag"), 1)>>
      [] OTHER    -> <<Spin(Global("flag"), 1), Inc(Global("value"))>>

Names == {"thread_join_array_const", "thread_join_array_dynamic", "atomic_gcc", "semaphore_posix",
    "per_thread_array_ptr", "per_thread_array_index", "per_thread_array_init",
    "per_thread_struct_in_array", "per_thread_struct", "per_thread_struct_tid",
    "per_thread_index_inc", "per_thread_index_bitmask", "thread_local_value",
    "thread_local_pthread_value", "thread_local_pthread_value_cond", "value_barrier",
    "thread_join_counter_outer", "thread_join_counter_inner", "thread_join_binomial", "simple"}

\* How many threads the program may be told to create; simple.c and
\* thread-join-array-const.c create a fixed number, thread-join-binomial.c one
\* at least.
Totals(p) ==
    CASE p \in {"simple", "thread_join_array_const"} -> {N}
      [] p = "thread_join_binomial" -> 1..N
      [] OTHER -> 0..N

Code(p, t, total) ==
    CASE p = "thread_join_array_const" -> thread_join_array_const(t, total)
      [] p = "thread_join_array_dynamic" -> thread_join_array_dynamic(t, total)
      [] p = "atomic_gcc" -> atomic_gcc(t, total)
      [] p = "semaphore_posix" -> semaphore_posix(t, total)
      [] p = "per_thread_array_ptr" -> per_thread_array_ptr(t, total)
      [] p = "per_thread_array_index" -> per_thread_array_index(t, total)
      [] p = "per_thread_array_init" -> per_thread_array_init(t, total)
      [] p = "per_thread_struct_in_array" -> per_thread_struct_in_array(t, total)
      [] p = "per_thread_struct" -> per_thread_struct(t, total)
      [] p = "per_thread_struct_tid" -> per_thread_struct_tid(t, total)
      [] p = "per_thread_index_inc" -> per_thread_index_inc(t, total)
      [] p = "per_thread_index_bitmask" -> per_thread_index_bitmask(t, total)
      [] p = "thread_local_value" -> thread_local_value(t, total)
      [] p = "thread_local_pthread_value" -> thread_local_pthread_value(t, total)
      [] p = "thread_local_pthread_value_cond" -> thread_local_pthread_value_cond(t, total)
      [] p = "value_barrier" -> value_barrier(t, total)
      [] p = "thread_join_counter_outer" -> thread_join_counter_outer(t, total)
      [] p = "thread_join_counter_inner" -> thread_join_counter_inner(t, total)
      [] p = "thread_join_binomial" -> thread_join_binomial(t, total)
      [] p = "simple" -> simple(t, total)
=============================================================================
