--------------------------- MODULE PthreadsProofs ---------------------------
(***************************************************************************)
(* The examples are free of races, failed assertions and accesses to freed *)
(* memory, for any number of threads and any interleaving of their steps.  *)
(* First those whose main creates its threads, joins them all and frees    *)
(* the memory, then the others, and both together at the end.              *)
(***************************************************************************)
EXTENDS Pthreads, FlattenTheorems, FiniteSetTheorems, SequenceTheorems, TLAPS

\* The programs whose main creates, joins and frees.
WritesLocked == {"thread_join_array_const", "thread_join_array_dynamic", "semaphore_posix"}
WritesOwn    == {"per_thread_array_ptr", "per_thread_array_index", "per_thread_struct_in_array"}
PoolPrograms ==
    WritesLocked \cup WritesOwn \cup
    {"atomic_gcc", "per_thread_struct", "per_thread_index_inc", "thread_local_value",
     "thread_local_pthread_value", "thread_local_pthread_value_cond"}

\* The mutex (or semaphore) of a program, and the steps its threads hold it at.
MutexOf(p) ==
    CASE p = "semaphore_posix" -> "data_sem"
      [] p = "per_thread_index_inc" -> "next_j_mutex"
      [] p = "thread_local_pthread_value_cond" -> "shared_mutex"
      [] OTHER -> "data_mutex"
HeldSteps(p) ==
    CASE p \in WritesLocked -> {2, 3}
      [] p = "per_thread_index_inc" -> {2, 3, 4}
      [] p = "thread_local_pthread_value_cond" -> {5, 6, 7}
      [] OTHER -> {}

-----------------------------------------------------------------------------
(* The code, step by step.                                                 *)

\* One element in front of two sequences, and behind one.
LEMMA Framed ==
    ASSUME NEW S, NEW body \in Seq(S), NEW a \in S, NEW b \in S
    PROVE  LET s == <<a>> \o body \o <<b>> IN
           /\ s \in Seq(S) /\ Len(s) = Len(body) + 2
           /\ s[1] = a /\ s[Len(body) + 2] = b
           /\ \A i \in 1..Len(body) : s[i + 1] = body[i]
<1>1. <<a>> \in Seq(S) /\ Len(<<a>>) = 1 /\ <<a>>[1] = a /\ Len(body) \in Nat
      /\ <<b>> \in Seq(S) /\ Len(<<b>>) = 1 /\ <<b>>[1] = b
  BY LenProperties
<1> DEFINE u == <<a>> \o body
<1>2. /\ u \in Seq(S) /\ Len(u) = Len(body) + 1 /\ u[1] = a
      /\ \A i \in 1..Len(body) : u[i + 1] = body[i]
  <2>1. \A i \in 1..Len(body) + 1 : u[i] = IF i <= 1 THEN <<a>>[i] ELSE body[i - 1]
    BY <1>1, ConcatProperties
  <2>2. u \in Seq(S) /\ Len(u) = Len(body) + 1
    BY <1>1, ConcatProperties
  <2> HIDE DEF u
  <2>3. u[1] = a
    BY <1>1, <2>1
  <2>4. ASSUME NEW i \in 1..Len(body) PROVE u[i + 1] = body[i]
    <3>1. i + 1 \in 1..Len(body) + 1 /\ ~(i + 1 <= 1) /\ (i + 1) - 1 = i
      BY <1>1
    <3> QED
      BY <2>1, <3>1
  <2> QED
    BY <2>2, <2>3, <2>4
<1> HIDE DEF u
<1> DEFINE s == u \o <<b>>
<1>3. /\ s \in Seq(S) /\ Len(s) = Len(body) + 2
      /\ \A i \in 1..Len(u) + 1 : s[i] = IF i <= Len(u) THEN u[i] ELSE <<b>>[i - Len(u)]
  BY <1>1, <1>2, ConcatProperties
<1> HIDE DEF s
<1>4. s[1] = a /\ s[Len(body) + 2] = b
  <2>1. (Len(body) + 2) - Len(u) = 1
    BY <1>1, <1>2
  <2> QED
    BY <1>1, <1>2, <1>3, <2>1
<1>5. ASSUME NEW i \in 1..Len(body) PROVE s[i + 1] = body[i]
  BY <1>1, <1>2, <1>3
<1> QED
  BY <1>3, <1>4, <1>5 DEF s, u

\* One step with the mutex.
LEMMA LockedOne ==
    ASSUME NEW m, NEW a
    PROVE  Locked(m, <<a>>) = <<Lock(m), a, Unlock(m)>>
<1> DEFINE S == {Lock(m), a, Unlock(m)}
           s == Locked(m, <<a>>)
           r == <<Lock(m), a, Unlock(m)>>
<1>1. <<a>> \in Seq(S) /\ Len(<<a>>) = 1 /\ <<a>>[1] = a /\ Lock(m) \in S /\ Unlock(m) \in S
  OBVIOUS
<1>2. s \in Seq(S) /\ Len(s) = 3 /\ s[1] = Lock(m) /\ s[2] = a /\ s[3] = Unlock(m)
  <2> HIDE DEF S
  <2> QED
    BY <1>1, Framed DEF Locked
<1>3. r \in Seq(S) /\ Len(r) = 3 /\ r[1] = Lock(m) /\ r[2] = a /\ r[3] = Unlock(m)
  OBVIOUS
<1>4. \A i \in 1..3 : s[i] = r[i]
  <2> HIDE DEF s, r, S
  <2> QED
    BY <1>2, <1>3
<1> HIDE DEF s, r, S
<1> QED
  BY <1>2, <1>3, <1>4, SeqEqual DEF s, r

\* Two steps with the mutex, and one without.
LEMMA LockedTwo ==
    ASSUME NEW m, NEW a, NEW b, NEW c
    PROVE  Locked(m, <<a, b>>) \o <<c>> = <<Lock(m), a, b, Unlock(m), c>>
<1> DEFINE S == {Lock(m), a, b, Unlock(m), c}
           u == Locked(m, <<a, b>>)
           s == u \o <<c>>
           r == <<Lock(m), a, b, Unlock(m), c>>
<1>1. /\ <<a, b>> \in Seq(S) /\ Len(<<a, b>>) = 2 /\ <<a, b>>[1] = a /\ <<a, b>>[2] = b
      /\ Lock(m) \in S /\ Unlock(m) \in S /\ <<c>> \in Seq(S) /\ Len(<<c>>) = 1 /\ <<c>>[1] = c
  OBVIOUS
<1>2. u \in Seq(S) /\ Len(u) = 4 /\ u[1] = Lock(m) /\ u[2] = a /\ u[3] = b /\ u[4] = Unlock(m)
  <2> HIDE DEF S
  <2> QED
    BY <1>1, Framed DEF Locked
<1>3. /\ s \in Seq(S) /\ Len(s) = 5
      /\ \A i \in 1..5 : s[i] = IF i <= 4 THEN u[i] ELSE <<c>>[i - 4]
  <2>1. /\ u \o <<c>> \in Seq(S) /\ Len(u \o <<c>>) = Len(u) + Len(<<c>>)
        /\ \A i \in 1..Len(u) + Len(<<c>>) :
              (u \o <<c>>)[i] = IF i <= Len(u) THEN u[i] ELSE <<c>>[i - Len(u)]
    <3> HIDE DEF S, u
    <3> QED
      BY ZenonT(30), <1>1, <1>2, ConcatProperties
  <2>2. Len(u) = 4 /\ Len(<<c>>) = 1 /\ 4 + 1 = 5
    BY <1>1, <1>2
  <2> QED
    BY <2>1, <2>2
<1>4. r \in Seq(S) /\ Len(r) = 5 /\ r[1] = Lock(m) /\ r[2] = a /\ r[3] = b /\ r[4] = Unlock(m)
      /\ r[5] = c
  OBVIOUS
<1>5. \A i \in 1..5 : s[i] = r[i]
  <2> HIDE DEF s, r, S, u
  <2>1. 5 - 4 = 1
    OBVIOUS
  <2> QED
    BY <1>1, <1>2, <1>3, <1>4, <2>1
<1> HIDE DEF s, r, S
<1> QED
  BY <1>3, <1>4, <1>5, SeqEqual DEF s, r

\* The threads' code is that of their program.
LEMMA CodeOf ==
    ASSUME prog \in PoolPrograms, total \in 0..N, NEW t \in Threads
    PROVE  t # Main /\ Codes[prog][t][total] = Code(prog, t, total)
<1>1. t # Main /\ t \in All0 /\ prog \in Names
  BY NAssumption DEF Threads, Main, All0, PoolPrograms, WritesLocked, WritesOwn, Names
<1> QED
  BY <1>1 DEF Codes

\* A write with the mutex.
LEMMA LockedWriteCode ==
    ASSUME prog \in WritesLocked, total \in 0..N, NEW t \in Threads
    PROVE  /\ Len(Codes[prog][t][total]) = 3
           /\ Codes[prog][t][total][1] = Lock(MutexOf(prog))
           /\ Codes[prog][t][total][2] = Write(data)
           /\ Codes[prog][t][total][3] = Unlock(MutexOf(prog))
BY CodeOf, LockedOne DEF PoolPrograms, WritesLocked, Code, MutexOf,
   thread_join_array_const, thread_join_array_dynamic, semaphore_posix, SetData

\* A write of the thread's own element.
LEMMA OwnWriteCode ==
    ASSUME prog \in WritesOwn, total \in 0..N, NEW t \in Threads
    PROVE  /\ Len(Codes[prog][t][total]) = 1
           /\ \E x \in {"datas", "ts"} : Codes[prog][t][total][1] = Write(<<x, t>>)
<1>1. \E x \in {"datas", "ts"} : Codes[prog][t][total] = <<Write(<<x, t>>)>>
  BY CodeOf DEF PoolPrograms, WritesOwn, Code, per_thread_array_ptr, per_thread_array_index,
     per_thread_struct_in_array
<1> QED
  BY <1>1

\* An atomic increment.
LEMMA AtomicCode ==
    ASSUME prog = "atomic_gcc", total \in 0..N, NEW t \in Threads
    PROVE  /\ Len(Codes[prog][t][total]) = 1
           /\ Codes[prog][t][total][1] = AtomicInc(data)
BY CodeOf DEF PoolPrograms, Code, atomic_gcc

\* A write of the thread's own structure, which it frees.
LEMMA StructCode ==
    ASSUME prog = "per_thread_struct", total \in 0..N, NEW t \in Threads
    PROVE  /\ Len(Codes[prog][t][total]) = 2
           /\ Codes[prog][t][total][1] = Write(<<"t", t>>)
           /\ Codes[prog][t][total][2] = Free({<<"t", t>>})
<1>1. Codes[prog][t][total] = <<Write(<<"t", t>>), Free({<<"t", t>>})>>
  BY CodeOf DEF PoolPrograms, Code, per_thread_struct
<1> QED
  BY <1>1

\* The thread takes an index of its own, and writes there.
LEMMA IndexCode ==
    ASSUME prog = "per_thread_index_inc", total \in 0..N, NEW t \in Threads
    PROVE  /\ Len(Codes[prog][t][total]) = 5
           /\ Codes[prog][t][total][1] = Lock("next_j_mutex")
           /\ Codes[prog][t][total][2] = Fetch(Global("next_j"))
           /\ Codes[prog][t][total][3] = Inc(Global("next_j"))
           /\ Codes[prog][t][total][4] = Unlock("next_j_mutex")
           /\ Codes[prog][t][total][5] = WriteAt("datas")
<1>1. Codes[prog][t][total] = <<Lock("next_j_mutex"), Fetch(Global("next_j")),
                                Inc(Global("next_j")),
                              Unlock("next_j_mutex"), WriteAt("datas")>>
  BY CodeOf, LockedTwo DEF PoolPrograms, Code, per_thread_index_inc
<1> QED
  BY <1>1

\* A thread-local variable.
LEMMA LocalCode ==
    ASSUME prog = "thread_local_value", total \in 0..N, NEW t \in Threads
    PROVE  /\ Len(Codes[prog][t][total]) = 3
           /\ Codes[prog][t][total][1] = Check(<<"data", t>>, 0)
           /\ Codes[prog][t][total][2] = Set(<<"data", t>>, 1)
           /\ Codes[prog][t][total][3] = Check(<<"data", t>>, 1)
<1>1. Codes[prog][t][total] = <<Check(<<"data", t>>, 0), Set(<<"data", t>>, 1),
                                Check(<<"data", t>>, 1)>>
  BY CodeOf DEF PoolPrograms, Code, thread_local_value
<1> QED
  BY <1>1

\* A thread-specific key.
LEMMA KeyCode ==
    ASSUME prog = "thread_local_pthread_value", total \in 0..N, NEW t \in Threads
    PROVE  /\ Len(Codes[prog][t][total]) = 4
           /\ Codes[prog][t][total][1] = Set(<<"key", t>>, 1)
           /\ Codes[prog][t][total][2] = Check(<<"key", t>>, 1)
           /\ Codes[prog][t][total][3] = Set(<<"key", t>>, 2)
           /\ Codes[prog][t][total][4] = Check(<<"key", t>>, 2)
<1>1. Codes[prog][t][total] = <<Set(<<"key", t>>, 1), Check(<<"key", t>>, 1),
                              Set(<<"key", t>>, 2), Check(<<"key", t>>, 2)>>
  BY CodeOf DEF PoolPrograms, Code, thread_local_pthread_value
<1> QED
  BY <1>1

\* A thread-specific key that says whether to take the mutex.
LEMMA KeyCondCode ==
    ASSUME prog = "thread_local_pthread_value_cond", total \in 0..N, NEW t \in Threads
    PROVE  /\ Len(Codes[prog][t][total]) = 7
           /\ Codes[prog][t][total][1] = Set(<<"key", t>>, 1)
           /\ Codes[prog][t][total][2] = Set(<<"key", t>>, 2)
           /\ Codes[prog][t][total][3] = Unless(<<"key", t>>, 2, 1)
           /\ Codes[prog][t][total][4] = Lock("shared_mutex")
           /\ Codes[prog][t][total][5] = Inc(Global("shared"))
           /\ Codes[prog][t][total][6] = Unless(<<"key", t>>, 2, 1)
           /\ Codes[prog][t][total][7] = Unlock("shared_mutex")
<1>1. Codes[prog][t][total] = <<Set(<<"key", t>>, 1), Set(<<"key", t>>, 2),
                                Unless(<<"key", t>>, 2, 1),
                              Lock("shared_mutex"), Inc(Global("shared")),
                              Unless(<<"key", t>>, 2, 1), Unlock("shared_mutex")>>
  BY CodeOf DEF PoolPrograms, Code, thread_local_pthread_value_cond
<1> QED
  BY <1>1

\* Every step of the threads' code is there.
LEMMA ThreadCodeLength ==
    ASSUME prog \in PoolPrograms, total \in 0..N, NEW t \in Threads
    PROVE  Len(Codes[prog][t][total]) \in Nat
BY LockedWriteCode, OwnWriteCode, AtomicCode, StructCode, IndexCode, LocalCode, KeyCode, KeyCondCode
DEF PoolPrograms

\* The steps of main that create the threads and join them.
LEMMA CreatesAndJoins ==
    ASSUME NEW n \in 0..N, NEW S, \A i \in 1..n : Create(i) \in S /\ Join(i) \in S
    PROVE  LET c == CreateAll(n) \o JoinAll(n) IN
           /\ c \in Seq(S) /\ Len(c) = 2 * n
           /\ \A i \in 1..n : c[i] = Create(i) /\ c[n + i] = Join(i)
<1> DEFINE c == CreateAll(n) \o JoinAll(n)
<1>1. /\ CreateAll(n) \in Seq(S) /\ Len(CreateAll(n)) = n
      /\ JoinAll(n) \in Seq(S) /\ Len(JoinAll(n)) = n
      /\ \A i \in 1..n : CreateAll(n)[i] = Create(i) /\ JoinAll(n)[i] = Join(i)
  BY NAssumption DEF CreateAll, JoinAll
<1> DEFINE u == CreateAll(n)
           v == JoinAll(n)
<1>2. /\ c \in Seq(S) /\ Len(c) = n + n
      /\ \A i \in 1..n + n : c[i] = IF i <= n THEN CreateAll(n)[i] ELSE JoinAll(n)[i - n]
  <2>1. u \in Seq(S) /\ Len(u) = n /\ v \in Seq(S) /\ Len(v) = n /\ c = u \o v
    BY <1>1
  <2> HIDE DEF u, v, c
  <2>2. /\ c \in Seq(S) /\ Len(c) = n + n
        /\ \A i \in 1..n + n : c[i] = IF i <= n THEN u[i] ELSE v[i - n]
    <3>1. /\ u \o v \in Seq(S) /\ Len(u \o v) = Len(u) + Len(v)
          /\ \A i \in 1..Len(u) + Len(v) :
                (u \o v)[i] = IF i <= Len(u) THEN u[i] ELSE v[i - Len(u)]
      BY <2>1, ConcatProperties
    <3> QED
      BY <2>1, <3>1
  <2> QED
    BY <2>2 DEF u, v
<1> HIDE DEF c
<1>3. \A i \in 1..n : c[i] = Create(i)
  BY <1>1, <1>2, NAssumption
<1>4. ASSUME NEW i \in 1..n PROVE c[n + i] = Join(i)
  <2>1. n + i \in 1..n + n /\ ~(n + i <= n) /\ (n + i) - n = i
    BY NAssumption
  <2>2. c[n + i] = JoinAll(n)[(n + i) - n]
    BY <1>2, <2>1
  <2> QED
    BY <1>1, <2>1, <2>2
<1>5. n + n = 2 * n
  BY NAssumption
<1> QED
  BY <1>2, <1>3, <1>4, <1>5 DEF c

\* What main frees: the identifiers, and what holds the threads' data.
FreedByMain == {"tids", "datas", "ts"} \X Nat

\* main's code: it creates the threads, joins them, frees, and reads the data.
LEMMA MainCode ==
    ASSUME prog \in PoolPrograms, total \in 0..N
    PROVE  LET c == Codes[prog][Main][total] IN
           /\ Len(c) \in Nat /\ Len(c) >= 2 * total
           /\ \A i \in 1..total : c[i] = Create(i) /\ c[total + i] = Join(i)
           /\ \A i \in 2 * total + 1..Len(c) :
                 \/ c[i] = Read(data)
                 \/ i = 2 * total + 1 /\ \E xs \in SUBSET FreedByMain : c[i] = Free(xs)
<1> DEFINE two == CreateAll(total) \o JoinAll(total)
<1>1. total \in Nat /\ Main \in All0 /\ total \in 0..N /\ prog \in Names
  BY NAssumption DEF Threads, Main, All0, PoolPrograms, WritesLocked, WritesOwn, Names
<1>2. Codes[prog][Main][total] = Code(prog, Main, total)
  BY <1>1 DEF Codes
<1>3. /\ All("tids", total) \in SUBSET FreedByMain
      /\ All("tids", total) \cup All("datas", total) \in SUBSET FreedByMain
      /\ All("tids", total) \cup All("ts", total) \in SUBSET FreedByMain
  BY <1>1 DEF All, FreedByMain
<1>4. ASSUME NEW a PROVE
        LET c == two \o <<a>> IN
        /\ Len(c) = 2 * total + 1
        /\ \A i \in 1..total : c[i] = Create(i) /\ c[total + i] = Join(i)
        /\ c[2 * total + 1] = a
  <2> DEFINE S == {a} \cup {Create(i) : i \in 1..total} \cup {Join(i) : i \in 1..total}
             c == two \o <<a>>
  <2>1. \A i \in 1..total : Create(i) \in S /\ Join(i) \in S
    OBVIOUS
  <2>2. <<a>> \in Seq(S) /\ Len(<<a>>) = 1 /\ <<a>>[1] = a
    OBVIOUS
  <2>3. /\ two \in Seq(S) /\ Len(two) = 2 * total
        /\ \A i \in 1..total : two[i] = Create(i) /\ two[total + i] = Join(i)
    BY <2>1, CreatesAndJoins
  <2>4. /\ Len(c) = Len(two) + Len(<<a>>)
        /\ \A i \in 1..Len(two) + Len(<<a>>) :
              c[i] = IF i <= Len(two) THEN two[i] ELSE <<a>>[i - Len(two)]
    BY <2>2, <2>3, ConcatProperties
  <2> HIDE DEF c, two, S
  <2>5. c[2 * total + 1] = a
    <3>1. 2 * total + 1 \in 1..2 * total + 1 /\ (2 * total + 1) - 2 * total = 1
      BY <1>1
    <3> QED
      BY <1>1, <2>2, <2>3, <2>4, <3>1
  <2>6. ASSUME NEW i \in 1..total PROVE c[i] = Create(i) /\ c[total + i] = Join(i)
    <3>1. i <= 2 * total /\ total + i <= 2 * total
      BY <1>1
    <3> QED
      BY <1>1, <2>2, <2>3, <2>4, <3>1
  <2> QED
    BY <1>1, <2>2, <2>3, <2>4, <2>5, <2>6 DEF c
<1>5. CASE prog = "thread_join_array_const"
  <2>1. Code(prog, Main, total) = two \o <<Read(data)>>
    BY <1>5 DEF Code, thread_join_array_const
  <2> HIDE DEF two
  <2> QED
    BY <1>1, <1>2, <1>4, <2>1
<1>6. ASSUME NEW xs \in SUBSET FreedByMain, Code(prog, Main, total) = Pool(total, xs)
      PROVE  LET c == Codes[prog][Main][total] IN
             /\ Len(c) = 2 * total + 1
             /\ \A i \in 1..total : c[i] = Create(i) /\ c[total + i] = Join(i)
             /\ c[2 * total + 1] = Free(xs)
  <2>1. Codes[prog][Main][total] = two \o <<Free(xs)>>
    BY <1>2, <1>6 DEF Pool
  <2> HIDE DEF two
  <2> QED
    BY <1>4, <2>1
<1>7. CASE prog = "thread_join_array_dynamic"
  <2> DEFINE xs == All("tids", total)
             d  == Pool(total, xs)
             c  == d \o <<Read(data)>>
             S  == {Free(xs), Read(data)} \cup {Create(i) : i \in 1..total}
                      \cup {Join(i) : i \in 1..total}
  <2>1. Codes[prog][Main][total] = c
    BY <1>2, <1>7 DEF Code, thread_join_array_dynamic
  <2>2. \A i \in 1..total : Create(i) \in S /\ Join(i) \in S
    OBVIOUS
  <2>3. two \in Seq(S)
    BY <2>2, CreatesAndJoins
  <2>4. /\ <<Free(xs)>> \in Seq(S) /\ <<Read(data)>> \in Seq(S) /\ Len(<<Read(data)>>) = 1
        /\ <<Read(data)>>[1] = Read(data)
    OBVIOUS
  <2>5. d = two \o <<Free(xs)>>
    BY DEF Pool
  <2>6. /\ d \in Seq(S) /\ Len(d) = 2 * total + 1
        /\ \A i \in 1..total : d[i] = Create(i) /\ d[total + i] = Join(i)
        /\ d[2 * total + 1] = Free(xs)
    <3> HIDE DEF d, two, S
    <3> QED
      BY <1>4, <2>3, <2>4, <2>5, ConcatProperties
  <2>7. /\ Len(c) = Len(d) + Len(<<Read(data)>>)
        /\ \A i \in 1..Len(d) + Len(<<Read(data)>>) :
              c[i] = IF i <= Len(d) THEN d[i] ELSE <<Read(data)>>[i - Len(d)]
    <3> HIDE DEF d, S
    <3> QED
      BY <2>4, <2>6, ConcatProperties
  <2> HIDE DEF c, d, S, two
  <2>8. c[2 * total + 2] = Read(data) /\ c[2 * total + 1] = Free(xs)
    <3>1. 2 * total + 2 \in 1..2 * total + 2 /\ (2 * total + 2) - (2 * total + 1) = 1
          /\ 2 * total + 1 \in 1..2 * total + 2
      BY <1>1
    <3> QED
      BY <1>1, <2>4, <2>6, <2>7, <3>1
  <2>9. ASSUME NEW i \in 1..total PROVE c[i] = Create(i) /\ c[total + i] = Join(i)
    <3>1. i <= 2 * total + 1 /\ total + i <= 2 * total + 1
      BY <1>1
    <3> QED
      BY <1>1, <2>4, <2>6, <2>7, <3>1
  <2>10. Len(c) = 2 * total + 2
    BY <2>4, <2>6, <2>7, <1>1
  <2>11. \A i \in 2 * total + 1..Len(c) : i = 2 * total + 1 \/ i = 2 * total + 2
    BY <2>10, <1>1
  <2> HIDE DEF xs
  <2>12. xs \in SUBSET FreedByMain
    BY <1>3 DEF xs
  <2> QED
    BY <1>1, <2>1, <2>8, <2>9, <2>10, <2>11, <2>12
<1>8. ASSUME NEW xs \in SUBSET FreedByMain, Code(prog, Main, total) = Pool(total, xs)
      PROVE  LET c == Codes[prog][Main][total] IN
             /\ Len(c) \in Nat /\ Len(c) >= 2 * total
             /\ \A i \in 1..total : c[i] = Create(i) /\ c[total + i] = Join(i)
             /\ \A i \in 2 * total + 1..Len(c) :
                   i = 2 * total + 1 /\ \E ys \in SUBSET FreedByMain : c[i] = Free(ys)
  BY <1>1, <1>6, <1>8
<1>9. CASE prog \in PoolPrograms \ {"thread_join_array_const", "thread_join_array_dynamic"}
  <2>1. \E xs \in SUBSET FreedByMain : Code(prog, Main, total) = Pool(total, xs)
    <3>1. CASE prog \in {"semaphore_posix", "atomic_gcc", "per_thread_struct",
                         "thread_local_value", "thread_local_pthread_value",
                         "thread_local_pthread_value_cond"}
      <4>1. Code(prog, Main, total) = Pool(total, All("tids", total))
        BY <3>1 DEF Code, semaphore_posix, atomic_gcc, per_thread_struct, thread_local_value,
           thread_local_pthread_value, thread_local_pthread_value_cond
      <4> QED
        BY <1>3, <4>1
    <3>2. CASE prog \in {"per_thread_array_ptr", "per_thread_array_index",
                         "per_thread_index_inc"}
      <4>1. Code(prog, Main, total) = Pool(total, All("tids", total) \cup All("datas", total))
        BY <3>2 DEF Code, per_thread_array_ptr, per_thread_array_index, per_thread_index_inc
      <4> QED
        BY <1>3, <4>1
    <3>3. CASE prog = "per_thread_struct_in_array"
      <4>1. Code(prog, Main, total) = Pool(total, All("tids", total) \cup All("ts", total))
        BY <3>3 DEF Code, per_thread_struct_in_array
      <4> QED
        BY <1>3, <4>1
    <3> QED
      BY <1>9, <3>1, <3>2, <3>3 DEF PoolPrograms, WritesLocked, WritesOwn
  <2> QED
    BY <1>8, <2>1
<1> QED
  BY <1>5, <1>7, <1>9

-----------------------------------------------------------------------------
(* The inductive invariant.                                                *)

PoolTypes ==
    /\ prog \in PoolPrograms /\ total \in 0..N
    /\ status \in [All0 -> {"new", "running", "ended", "failed"}]
    /\ pc \in [All0 -> Nat]
    /\ \A t \in All0 : pc[t] \in 1..Len(Codes[prog][t][total]) + 1
    /\ local \in [All0 -> Nat]
    /\ mem = [x \in Vars |-> mem[x]]
    /\ owner \in [Mutexes -> All0 \cup {NoOwner}]
    /\ waits = [t \in All0 |-> "no"]

\* A thread is new until main gets to its creation, and has not begun.
Created ==
    \A t \in Threads : /\ status[t] = "new" <=> t >= pc[Main] \/ t > total
                       /\ status[t] = "new" => pc[t] = 1

\* A thread that main has joined is over.
Joined ==
    \A t \in 1..total : pc[Main] > total + t => status[t] \in {"ended", "failed"}

\* A thread between its lock and its unlock has the mutex.
Owned == \A t \in Threads : pc[t] \in HeldSteps(prog) => owner[MutexOf(prog)] = t

\* What is freed: its own by a thread that is past all its accesses, and the
\* rest when main has joined all.
FreedKnown ==
    \A x \in freed :
        \/ prog = "per_thread_struct" /\ (\E t \in Threads : x = <<"t", t>> /\ pc[t] = 3)
        \/ pc[Main] > 2 * total + 1 /\ x \in FreedByMain

\* per-thread-index-inc.c: next_j counts the threads that have incremented it,
\* each has a value of its own below it, and one that has read it and not yet
\* incremented it, its value.
Counted == {t \in Threads : pc[t] > 3}
Indexed ==
    prog = "per_thread_index_inc" =>
        /\ mem[Global("next_j")] = Cardinality(Counted)
        /\ \A t \in Threads : pc[t] = 3 => local[t] = mem[Global("next_j")]
        /\ \A t \in Counted : local[t] < mem[Global("next_j")]
        /\ \A t, u \in Counted : t # u => local[t] # local[u]

\* The values of the thread-local variables.
Valued ==
    \A t \in Threads :
        /\ prog = "thread_local_value" =>
              mem[<<"data", t>>] = IF pc[t] <= 2 THEN 0 ELSE 1
        /\ prog = "thread_local_pthread_value" =>
              (pc[t] = 2 => mem[<<"key", t>>] = 1) /\ (pc[t] = 4 => mem[<<"key", t>>] = 2)
        /\ prog = "thread_local_pthread_value_cond" =>
              (pc[t] >= 3 => mem[<<"key", t>>] = 2)

Unfailed ==
    \/ outcome \in {"running", "returned"}
    \/ outcome = "undefined" /\ Uncreated # {}

PoolInv ==
    /\ PoolTypes /\ Created /\ Joined /\ Owned /\ FreedKnown /\ Indexed /\ Valued /\ Unfailed

-----------------------------------------------------------------------------
(* The steps.                                                              *)

\* The instruction a thread is at is the step it takes.
LEMMA StepOfOp ==
    ASSUME NEW t \in All0, waits[t] = "no", Step(t)
    PROVE  /\ Ready(t)
           /\ AtEnd(t) => EndStep(t)
           /\ ~AtEnd(t) =>
                /\ Here(t).op = "lock"   => LockStep(t)
                /\ Here(t).op = "unlock" => UnlockStep(t)
                /\ Here(t).op \in {"read", "write", "set", "inc", "atomic_inc", "fetch", "write_at"}
                                         => AccessStep(t)
                /\ Here(t).op = "free"   => FreeStep(t)
                /\ Here(t).op = "unless" => BranchStep(t)
                /\ Here(t).op = "check"  => CheckStep(t)
                /\ Here(t).op = "create" => CreateStep(t)
                /\ Here(t).op = "join"   => JoinStep(t)
<1>1. ~Relock(t)
  BY DEF Relock
<1>2. Ready(t) /\ (AtEnd(t) => EndStep(t))
  BY <1>1 DEF Step, LockStep, UnlockStep, AwaitStep, SignalStep, BroadcastStep, AccessStep,
     FreeStep, BranchStep, CheckStep, CreateStep, JoinStep, EndStep, At
<1> DEFINE op == Here(t).op
<1>3. /\ LockStep(t) => op = "lock"
      /\ UnlockStep(t) => op = "unlock"
      /\ AwaitStep(t) => op = "await"
      /\ SignalStep(t) => op = "signal"
      /\ BroadcastStep(t) => op = "broadcast"
      /\ AccessStep(t) => op \in {"read", "write", "set", "atomic_set", "inc", "dec",
                            "atomic_inc", "fetch", "write_at", "take_bit", "give_bit"}
      /\ FreeStep(t) => op = "free"
      /\ BranchStep(t) => op \in {"unless", "spin", "repeat"}
      /\ CheckStep(t) => op = "check"
      /\ CreateStep(t) => op = "create"
      /\ JoinStep(t) => op \in {"join", "detach"}
      /\ EndStep(t) => AtEnd(t)
  BY DEF LockStep, UnlockStep, AwaitStep, SignalStep, BroadcastStep, AccessStep,
     FreeStep, BranchStep, CheckStep, CreateStep, JoinStep, EndStep, At
<1> HIDE DEF op
<1>4. ~AtEnd(t) =>
        \/ LockStep(t) \/ UnlockStep(t) \/ AwaitStep(t) \/ SignalStep(t)
        \/ BroadcastStep(t) \/ AccessStep(t) \/ FreeStep(t) \/ BranchStep(t) \/ CheckStep(t)
        \/ CreateStep(t) \/ JoinStep(t)
  BY <1>1, <1>3 DEF Step
<1> QED
  BY <1>2, <1>3, <1>4 DEF op

\* Thread t goes on to its next step, and creates and ends no thread.
Takes(t) ==
    /\ status[t] = "running" /\ outcome = "running"
    /\ pc' = [pc EXCEPT ![t] = @ + 1]
    /\ UNCHANGED <<prog, total, waits, status, outcome>>

\* The effects of the steps on what is kept.
LEMMA Effects ==
    ASSUME PoolTypes, NEW t \in All0
    PROVE  /\ LockStep(t) =>
                /\ Takes(t) /\ UNCHANGED <<local, mem, freed>>
                /\ owner[Here(t).m] = NoOwner /\ owner' = [owner EXCEPT ![Here(t).m] = t]
           /\ UnlockStep(t) =>
                /\ Takes(t) /\ UNCHANGED <<local, mem, freed>>
                /\ owner' = [owner EXCEPT ![Here(t).m] = NoOwner]
           /\ FreeStep(t) =>
                /\ Takes(t) /\ UNCHANGED <<local, mem, owner>>
                /\ freed' = freed \cup Here(t).xs
           /\ CheckStep(t) /\ mem[Here(t).x] = Here(t).v =>
                Takes(t) /\ UNCHANGED <<local, mem, owner, freed>>
           /\ BranchStep(t) /\ Here(t).op = "unless" /\ mem[Here(t).x] = Here(t).v =>
                Takes(t) /\ UNCHANGED <<local, mem, owner, freed>>
BY DEF LockStep, UnlockStep, FreeStep, CheckStep, BranchStep, At, Goes, Go, Ready, Takes, world

\* The effects of an access.
LEMMA AccessEffects ==
    ASSUME PoolTypes, NEW t \in All0, AccessStep(t)
    PROVE  /\ Takes(t) /\ UNCHANGED <<owner, freed>>
           /\ Here(t).op \in {"read", "write", "write_at"} => UNCHANGED <<mem, local>>
           /\ Here(t).op = "set" =>
                local' = local /\ mem' = [mem EXCEPT ![Here(t).x] = Here(t).v]
           /\ Here(t).op \in {"inc", "atomic_inc"} =>
                local' = local /\ mem' = [mem EXCEPT ![Here(t).x] = @ + 1]
           /\ Here(t).op = "fetch" =>
                mem' = mem /\ local' = [local EXCEPT ![t] = mem[Here(t).x]]
<1>1. Takes(t) /\ UNCHANGED <<owner, freed>>
  BY DEF AccessStep, At, Goes, Go, Ready, Takes
<1> DEFINE i == Here(t)
<1>2. /\ mem' = NewMem(t)
      /\ local' = [local EXCEPT ![t] = CASE i.op = "fetch" -> mem[i.x]
                                         [] i.op = "take_bit" -> Min(mem[i.x])
                                         [] OTHER -> @]
  BY DEF AccessStep
<1>3. i.op \notin {"fetch", "take_bit"} => local' = local
  BY <1>2 DEF PoolTypes
<1>4. i.op = "fetch" => local' = [local EXCEPT ![t] = mem[i.x]]
  BY <1>2
<1>5. i.op \in {"read", "write", "write_at", "fetch"} => mem' = mem
  BY <1>2 DEF NewMem
<1>6. i.op = "set" => mem' = [mem EXCEPT ![i.x] = i.v]
  BY <1>2 DEF NewMem
<1>7. i.op \in {"inc", "atomic_inc"} => mem' = [mem EXCEPT ![i.x] = @ + 1]
  BY <1>2 DEF NewMem
<1> QED
  BY <1>1, <1>3, <1>4, <1>5, <1>6, <1>7

\* The last step of a thread.
LEMMA EndEffect ==
    ASSUME NEW t \in Threads, EndStep(t)
    PROVE  /\ status[t] = "running" /\ outcome = "running"
           /\ status' = [status EXCEPT ![t] = "ended"]
           /\ UNCHANGED <<prog, total, waits, pc, local, mem, owner, freed, outcome>>
BY NAssumption DEF EndStep, Ready, world, Threads, Main

-----------------------------------------------------------------------------
(* A thread's step.                                                        *)

\* The types, and what is known of creation and join.
LEMMA TakesKeeps ==
    ASSUME PoolTypes, Created, Joined, Unfailed, NEW t \in Threads, Takes(t), ~AtEnd(t),
           local' \in [All0 -> Nat], mem' = [x \in Vars |-> mem'[x]],
           owner' \in [Mutexes -> All0 \cup {NoOwner}]
    PROVE  PoolTypes' /\ Created' /\ Joined' /\ Unfailed'
<1>1. t \in All0 /\ Main \in All0 /\ t # Main /\ Threads \subseteq All0
  BY NAssumption DEF All0, Threads, Main
<1>2. /\ pc' = [pc EXCEPT ![t] = @ + 1] /\ status[t] = "running"
      /\ UNCHANGED <<prog, total, waits, status, outcome>>
  BY DEF Takes
<1>3. PoolTypes'
  <2>1. pc[t] + 1 \in 1..Len(Codes[prog][t][total]) + 1
    BY SMTT(30), <1>1, ThreadCodeLength DEF PoolTypes, AtEnd
  <2>2. \A u \in All0 : pc'[u] \in 1..Len(Codes[prog][u][total]) + 1
    BY <1>1, <1>2, <2>1 DEF PoolTypes
  <2>3. pc' \in [All0 -> Nat]
    BY <1>1, <1>2 DEF PoolTypes
  <2> QED
    BY <1>2, <2>2, <2>3 DEF PoolTypes
<1>4. Created'
  BY <1>1, <1>2 DEF Created, PoolTypes
<1>5. Joined'
  BY <1>1, <1>2 DEF Joined, PoolTypes
<1>6. Unfailed'
  BY <1>2 DEF Unfailed, Uncreated
<1> QED
  BY <1>3, <1>4, <1>5, <1>6

\* The mutex: taken when it is free, given up by the thread that has it.
LEMMA OwnedKept ==
    ASSUME PoolTypes, Owned, NEW t \in Threads, Takes(t),
           \/ /\ owner[MutexOf(prog)] = NoOwner
              /\ owner' = [owner EXCEPT ![MutexOf(prog)] = t]
           \/ /\ owner' = owner
              /\ pc[t] + 1 \in HeldSteps(prog) => pc[t] \in HeldSteps(prog)
           \/ /\ owner' = [owner EXCEPT ![MutexOf(prog)] = NoOwner]
              /\ pc[t] \in HeldSteps(prog) /\ pc[t] + 1 \notin HeldSteps(prog)
    PROVE  Owned'
<1>1. t \in All0 /\ Threads \subseteq All0 /\ NoOwner \notin Threads
  BY NAssumption DEF All0, Threads, NoOwner
<1>2. MutexOf(prog) \in Mutexes
  BY DEF MutexOf, Mutexes
<1>3. /\ pc' = [pc EXCEPT ![t] = @ + 1] /\ prog' = prog
  BY DEF Takes
<1> DEFINE m == MutexOf(prog)
           H == HeldSteps(prog)
<1>4. Owned' <=> \A u \in Threads : pc'[u] \in H => owner'[m] = u
  BY <1>3 DEF Owned
<1> HIDE DEF m, H
<1>5. \A u \in Threads : pc[u] \in H => owner[m] = u
  BY DEF Owned, m, H
<1>6. ASSUME NEW u \in Threads, pc'[u] \in H PROVE owner'[m] = u
  <2>1. pc'[u] = IF u = t THEN pc[t] + 1 ELSE pc[u]
    BY <1>1, <1>3 DEF PoolTypes
  <2>2. m \in Mutexes /\ owner \in [Mutexes -> All0 \cup {NoOwner}]
    BY <1>2 DEF m, PoolTypes
  <2>3. CASE owner[m] = NoOwner /\ owner' = [owner EXCEPT ![m] = t]
    BY <1>1, <1>5, <1>6, <2>1, <2>2, <2>3
  <2>4. CASE owner' = owner /\ (pc[t] + 1 \in H => pc[t] \in H)
    BY <1>5, <1>6, <2>1, <2>4
  <2>5. CASE owner' = [owner EXCEPT ![m] = NoOwner] /\ pc[t] \in H /\ pc[t] + 1 \notin H
    BY <1>5, <1>6, <2>1, <2>5
  <2> QED
    BY <2>3, <2>4, <2>5 DEF m, H
<1> QED
  BY <1>4, <1>6

\* A thread that goes on frees nothing by it.
LEMMA FreedKept ==
    ASSUME PoolTypes, FreedKnown, NEW t \in Threads, Takes(t), ~AtEnd(t), freed' = freed
    PROVE  FreedKnown'
<1>1. t \in All0 /\ Main \in All0 /\ t # Main /\ Threads \subseteq All0
  BY NAssumption DEF All0, Threads, Main
<1>2. pc' = [pc EXCEPT ![t] = @ + 1] /\ UNCHANGED <<prog, total>>
  BY DEF Takes
<1>3. pc'[Main] = pc[Main]
  BY <1>1, <1>2 DEF PoolTypes
<1>4. prog = "per_thread_struct" => pc[t] # 3
  <2> SUFFICES ASSUME prog = "per_thread_struct" PROVE pc[t] # 3
    OBVIOUS
  <2> DEFINE l == Len(Codes[prog][t][total])
  <2>1. l = 2
    BY StructCode DEF PoolTypes
  <2>2. pc[t] \in Nat
    BY <1>1 DEF PoolTypes
  <2>3. ~(pc[t] > l)
    BY DEF AtEnd
  <2> HIDE DEF l
  <2> QED
    BY <2>1, <2>2, <2>3
<1>5. \A u \in Threads : prog = "per_thread_struct" /\ pc[u] = 3 => pc'[u] = 3
  BY <1>1, <1>2, <1>4 DEF PoolTypes
<1> QED
  BY <1>2, <1>3, <1>5 DEF FreedKnown

\* What is known of the values of one program is not about the others.
LEMMA OtherPrograms ==
    ASSUME prog' = prog
    PROVE  /\ prog # "per_thread_index_inc" => Indexed'
           /\ prog \notin {"thread_local_value", "thread_local_pthread_value",
                           "thread_local_pthread_value_cond"} => Valued'
BY DEF Indexed, Valued

\* The types, without what is said of the code.
LEMMA TypesOf ==
    ASSUME PoolTypes
    PROVE  /\ total \in 0..N /\ pc \in [All0 -> Nat] /\ local \in [All0 -> Nat]
           /\ mem = [x \in Vars |-> mem[x]]
           /\ owner \in [Mutexes -> All0 \cup {NoOwner}]
BY DEF PoolTypes

\* One value written.
LEMMA MemUpdated ==
    ASSUME PoolTypes, NEW x \in Vars, NEW v, mem' = [mem EXCEPT ![x] = v]
    PROVE  /\ mem' = [y \in Vars |-> mem'[y]] /\ mem'[x] = v
           /\ \A y \in Vars : y # x => mem'[y] = mem[y]
BY TypesOf

\* The variables of the machine that a program's data are.
LEMMA VarsOf ==
    ASSUME NEW t \in Threads
    PROVE  /\ {data, Global("next_j"), Global("shared")} \subseteq Vars
           /\ <<"data", t>> \in Vars /\ <<"key", t>> \in Vars
BY DEF Vars, Globals, data, Global

\* Where thread t is: at one of its program's steps, and not at its end.
LEMMA AtStep ==
    ASSUME PoolTypes, NEW t \in Threads, ~AtEnd(t)
    PROVE  /\ t \in All0 /\ waits[t] = "no"
           /\ pc[t] \in 1..Len(Codes[prog][t][total])
           /\ Here(t) = Codes[prog][t][total][pc[t]]
<1>1. t \in All0
  BY NAssumption DEF All0, Threads
<1>2. Len(Codes[prog][t][total]) \in Nat
  BY ThreadCodeLength DEF PoolTypes
<1> QED
  BY <1>1, <1>2 DEF AtEnd, PoolTypes, Here

\* A write of the data that all threads share, with the mutex.
LEMMA LockedWriteSafe ==
    ASSUME PoolInv, NEW t \in Threads, Step(t), ~AtEnd(t), prog \in WritesLocked
    PROVE  PoolInv'
<1> DEFINE m == MutexOf(prog)
<1> USE DEF PoolInv
<1>1. /\ pc[t] \in 1..3 /\ t \in All0 /\ waits[t] = "no"
      /\ pc[t] = 1 => Here(t) = Lock(m)
      /\ pc[t] = 2 => Here(t) = Write(data)
      /\ pc[t] = 3 => Here(t) = Unlock(m)
  <2>1. total \in 0..N
    BY DEF PoolTypes
  <2> QED
    BY <2>1, AtStep, LockedWriteCode
<1>2. m \in Mutexes
  BY DEF MutexOf, Mutexes
<1>3. HeldSteps(prog) = {2, 3}
  BY DEF HeldSteps, WritesLocked
<1>4. /\ Takes(t) /\ UNCHANGED <<local, mem, freed>> /\ Owned'
      /\ owner' \in [Mutexes -> All0 \cup {NoOwner}]
  <2>1. CASE pc[t] = 1
    <3>1. LockStep(t)
      BY <1>1, <2>1, StepOfOp DEF Lock
    <3>2. /\ Takes(t) /\ UNCHANGED <<local, mem, freed>>
          /\ owner[m] = NoOwner /\ owner' = [owner EXCEPT ![m] = t]
      BY <1>1, <2>1, <3>1, Effects DEF Lock
    <3> QED
      BY <1>1, <1>2, <3>2, OwnedKept DEF PoolTypes
  <2>2. CASE pc[t] = 2
    <3>1. AccessStep(t)
      BY <1>1, <2>2, StepOfOp DEF Write
    <3>2. Takes(t) /\ UNCHANGED <<local, mem, freed, owner>>
      BY <1>1, <2>2, <3>1, AccessEffects DEF Write
    <3> QED
      BY <1>3, <2>2, <3>2, OwnedKept DEF PoolTypes
  <2>3. CASE pc[t] = 3
    <3>1. UnlockStep(t)
      BY <1>1, <2>3, StepOfOp DEF Unlock
    <3>2. /\ Takes(t) /\ UNCHANGED <<local, mem, freed>>
          /\ owner' = [owner EXCEPT ![m] = NoOwner]
      BY <1>1, <2>3, <3>1, Effects DEF Unlock
    <3>3. pc[t] \in HeldSteps(prog) /\ pc[t] + 1 \notin HeldSteps(prog)
      BY <1>3, <2>3
    <3> QED
      BY <1>1, <1>2, <3>2, <3>3, OwnedKept DEF PoolTypes
  <2> QED
    BY <1>1, <2>1, <2>2, <2>3
<1>5. PoolTypes' /\ Created' /\ Joined' /\ Unfailed'
  <2>1. local' \in [All0 -> Nat] /\ mem' = [x \in Vars |-> mem'[x]]
    BY <1>4 DEF PoolTypes
  <2> QED
    BY <1>4, <2>1, TakesKeeps
<1>6. FreedKnown' /\ Indexed' /\ Valued'
  BY <1>4, FreedKept, OtherPrograms DEF Takes, WritesLocked
<1> QED
  BY <1>4, <1>5, <1>6

\* The programs that take no mutex.
LEMMA NoMutexKept ==
    ASSUME PoolTypes, Owned, NEW t \in Threads, Takes(t), UNCHANGED owner,
           HeldSteps(prog) = {}
    PROVE  Owned'
BY OwnedKept

\* A write of the thread's own element of an array that main frees.
LEMMA OwnWriteSafe ==
    ASSUME PoolInv, NEW t \in Threads, Step(t), ~AtEnd(t), prog \in WritesOwn
    PROVE  PoolInv'
<1> USE DEF PoolInv
<1>1. /\ t \in All0 /\ waits[t] = "no"
      /\ \E x \in {"datas", "ts"} : Here(t) = Write(<<x, t>>)
  <2>1. total \in 0..N
    BY DEF PoolTypes
  <2> DEFINE c == Codes[prog][t][total]
  <2>2. Len(c) = 1 /\ \E x \in {"datas", "ts"} : c[1] = Write(<<x, t>>)
    BY <2>1, OwnWriteCode
  <2>3. t \in All0 /\ waits[t] = "no" /\ pc[t] \in 1..Len(c) /\ Here(t) = c[pc[t]]
    BY AtStep
  <2> HIDE DEF c
  <2>4. pc[t] = 1
    BY <2>2, <2>3
  <2> QED
    BY <2>2, <2>3, <2>4
<1>2. Takes(t) /\ UNCHANGED <<local, mem, freed, owner>>
  <2>1. AccessStep(t)
    BY <1>1, StepOfOp DEF Write
  <2> QED
    BY <1>1, <2>1, AccessEffects DEF Write
<1>3. PoolTypes' /\ Created' /\ Joined' /\ Unfailed'
  <2>1. /\ local' \in [All0 -> Nat] /\ mem' = [x \in Vars |-> mem'[x]]
        /\ owner' \in [Mutexes -> All0 \cup {NoOwner}]
    BY <1>2 DEF PoolTypes
  <2> QED
    BY <1>2, <2>1, TakesKeeps
<1>4. FreedKnown' /\ Indexed' /\ Valued'
  BY <1>2, FreedKept, OtherPrograms DEF Takes, WritesOwn
<1>5. Owned'
  <2>1. HeldSteps(prog) = {}
    BY DEF HeldSteps, WritesOwn, WritesLocked
  <2> QED
    BY <1>2, <2>1, NoMutexKept
<1> QED
  BY <1>3, <1>4, <1>5

\* An atomic increment.
LEMMA AtomicSafe ==
    ASSUME PoolInv, NEW t \in Threads, Step(t), ~AtEnd(t), prog = "atomic_gcc"
    PROVE  PoolInv'
<1> USE DEF PoolInv
<1>1. t \in All0 /\ waits[t] = "no" /\ Here(t) = AtomicInc(data)
  <2>1. total \in 0..N
    BY DEF PoolTypes
  <2>2. pc[t] = 1
    BY <2>1, AtStep, AtomicCode
  <2> QED
    BY <2>1, <2>2, AtStep, AtomicCode
<1>2. /\ Takes(t) /\ UNCHANGED <<local, freed, owner>>
      /\ mem' = [mem EXCEPT ![data] = @ + 1]
  <2>1. AccessStep(t)
    BY <1>1, StepOfOp DEF AtomicInc
  <2> QED
    BY <1>1, <2>1, AccessEffects DEF AtomicInc
<1>3. PoolTypes' /\ Created' /\ Joined' /\ Unfailed'
  <2>1. /\ local' \in [All0 -> Nat] /\ mem' = [x \in Vars |-> mem'[x]]
        /\ owner' \in [Mutexes -> All0 \cup {NoOwner}]
    BY <1>2 DEF PoolTypes
  <2> QED
    BY <1>2, <2>1, TakesKeeps
<1>4. FreedKnown' /\ Indexed' /\ Valued'
  BY <1>2, FreedKept, OtherPrograms DEF Takes
<1>5. Owned'
  <2>1. HeldSteps(prog) = {}
    BY DEF HeldSteps, WritesLocked
  <2> QED
    BY <1>2, <2>1, NoMutexKept
<1> QED
  BY <1>3, <1>4, <1>5

\* A write of the thread's own structure, and its free.
LEMMA StructSafe ==
    ASSUME PoolInv, NEW t \in Threads, Step(t), ~AtEnd(t), prog = "per_thread_struct"
    PROVE  PoolInv'
<1> USE DEF PoolInv
<1>1. /\ pc[t] \in 1..2 /\ t \in All0 /\ waits[t] = "no"
      /\ pc[t] = 1 => Here(t) = Write(<<"t", t>>)
      /\ pc[t] = 2 => Here(t) = Free({<<"t", t>>})
  <2>1. total \in 0..N
    BY DEF PoolTypes
  <2> QED
    BY <2>1, AtStep, StructCode
<1>2. /\ Takes(t) /\ UNCHANGED <<local, mem, owner>>
      /\ pc[t] = 1 => freed' = freed
      /\ pc[t] = 2 => freed' = freed \cup {<<"t", t>>}
  <2>1. CASE pc[t] = 1
    <3>1. AccessStep(t)
      BY <1>1, <2>1, StepOfOp DEF Write
    <3> QED
      BY <1>1, <2>1, <3>1, AccessEffects DEF Write
  <2>2. CASE pc[t] = 2
    <3>1. FreeStep(t)
      BY <1>1, <2>2, StepOfOp DEF Free
    <3> QED
      BY <1>1, <2>2, <3>1, Effects DEF Free
  <2> QED
    BY <1>1, <2>1, <2>2
<1>3. PoolTypes' /\ Created' /\ Joined' /\ Unfailed'
  <2>1. /\ local' \in [All0 -> Nat] /\ mem' = [x \in Vars |-> mem'[x]]
        /\ owner' \in [Mutexes -> All0 \cup {NoOwner}]
    BY <1>2 DEF PoolTypes
  <2> QED
    BY <1>2, <2>1, TakesKeeps
<1>4. FreedKnown'
  <2>1. CASE pc[t] = 1
    BY <1>2, <2>1, FreedKept
  <2>2. CASE pc[t] = 2
    <3>1. Threads \subseteq All0 /\ Main \in All0 /\ t # Main
      BY NAssumption DEF All0, Threads, Main
    <3>2. /\ \A u \in All0 : pc'[u] = IF u = t THEN 3 ELSE pc[u]
          /\ UNCHANGED <<prog, total>>
      BY <1>1, <1>2, <2>2 DEF Takes, PoolTypes
    <3>3. \A u \in Threads : pc[u] = 3 => pc'[u] = 3
      BY <3>1, <3>2
    <3>4. pc'[t] = 3 /\ pc'[Main] = pc[Main]
      BY <3>1, <3>2
    <3> QED
      BY <1>2, <2>2, <3>2, <3>3, <3>4 DEF FreedKnown
  <2> QED
    BY <1>1, <2>1, <2>2
<1>5. Indexed' /\ Valued'
  BY <1>2, OtherPrograms DEF Takes
<1>6. Owned'
  <2>1. HeldSteps(prog) = {}
    BY DEF HeldSteps, WritesLocked
  <2> QED
    BY <1>2, <2>1, NoMutexKept
<1> QED
  BY <1>3, <1>4, <1>5, <1>6

\* The thread-local variable has the value the thread gave it last.
LEMMA LocalSafe ==
    ASSUME PoolInv, NEW t \in Threads, Step(t), ~AtEnd(t), prog = "thread_local_value"
    PROVE  PoolInv'
<1> DEFINE x == <<"data", t>>
<1> USE DEF PoolInv
<1>1. /\ pc[t] \in 1..3 /\ t \in All0 /\ waits[t] = "no"
      /\ pc[t] = 1 => Here(t) = Check(x, 0)
      /\ pc[t] = 2 => Here(t) = Set(x, 1)
      /\ pc[t] = 3 => Here(t) = Check(x, 1)
  <2>1. total \in 0..N
    BY DEF PoolTypes
  <2> QED
    BY <2>1, AtStep, LocalCode
<1>2. mem[x] = IF pc[t] <= 2 THEN 0 ELSE 1
  BY DEF Valued
<1>3. /\ Takes(t) /\ UNCHANGED <<local, freed, owner>>
      /\ pc[t] = 2 => mem' = [mem EXCEPT ![x] = 1]
      /\ pc[t] # 2 => mem' = mem
  <2>1. CASE pc[t] = 1
    <3>1. CheckStep(t)
      BY <1>1, <2>1, StepOfOp DEF Check
    <3> QED
      BY <1>1, <1>2, <2>1, <3>1, Effects DEF Check
  <2>2. CASE pc[t] = 2
    <3>1. AccessStep(t)
      BY <1>1, <2>2, StepOfOp DEF Set
    <3> QED
      BY <1>1, <2>2, <3>1, AccessEffects DEF Set
  <2>3. CASE pc[t] = 3
    <3>1. CheckStep(t)
      BY <1>1, <2>3, StepOfOp DEF Check
    <3> QED
      BY <1>1, <1>2, <2>3, <3>1, Effects DEF Check
  <2> QED
    BY <1>1, <2>1, <2>2, <2>3
<1>4. PoolTypes' /\ Created' /\ Joined' /\ Unfailed'
  <2>1. /\ local' \in [All0 -> Nat] /\ mem' = [y \in Vars |-> mem'[y]]
        /\ owner' \in [Mutexes -> All0 \cup {NoOwner}]
    BY <1>3 DEF PoolTypes
  <2> QED
    BY <1>3, <2>1, TakesKeeps
<1>5. FreedKnown' /\ Indexed'
  BY <1>3, FreedKept, OtherPrograms DEF Takes
<1>6. Owned'
  <2>1. HeldSteps(prog) = {}
    BY DEF HeldSteps, WritesLocked
  <2> QED
    BY <1>3, <2>1, NoMutexKept
<1>7. Valued'
  <2>1. ASSUME NEW u \in Threads
        PROVE  mem'[<<"data", u>>] = IF pc'[u] <= 2 THEN 0 ELSE 1
    <3>1. u \in All0 /\ pc'[u] = IF u = t THEN pc[t] + 1 ELSE pc[u]
      BY <1>1, <1>3, NAssumption DEF Takes, PoolTypes, All0, Threads
    <3>2. mem[<<"data", u>>] = IF pc[u] <= 2 THEN 0 ELSE 1
      BY DEF Valued
    <3>3. CASE u = t
      <4>1. pc[t] = 2 => mem'[x] = 1
        BY <1>3, VarsOf DEF PoolTypes
      <4> QED
        BY <1>1, <1>2, <1>3, <3>1, <3>3, <4>1
    <3>4. CASE u # t
      <4>1. <<"data", u>> # x
        BY <3>4
      <4>2. mem'[<<"data", u>>] = mem[<<"data", u>>]
        BY <1>3, <4>1, VarsOf DEF PoolTypes
      <4> QED
        BY <3>1, <3>2, <3>4, <4>2
    <3> QED
      BY <3>3, <3>4
  <2> QED
    BY <1>3, <2>1 DEF Valued, Takes
<1> QED
  BY <1>4, <1>5, <1>6, <1>7

\* The thread's key has the value the thread gave it last.
LEMMA KeySafe ==
    ASSUME PoolInv, NEW t \in Threads, Step(t), ~AtEnd(t), prog = "thread_local_pthread_value"
    PROVE  PoolInv'
<1> DEFINE x == <<"key", t>>
<1> USE DEF PoolInv
<1>1. /\ pc[t] \in 1..4 /\ t \in All0 /\ waits[t] = "no"
      /\ pc[t] = 1 => Here(t) = Set(x, 1)
      /\ pc[t] = 2 => Here(t) = Check(x, 1)
      /\ pc[t] = 3 => Here(t) = Set(x, 2)
      /\ pc[t] = 4 => Here(t) = Check(x, 2)
  <2> DEFINE c == Codes[prog][t][total]
  <2>1. /\ Len(c) = 4 /\ c[1] = Set(x, 1) /\ c[2] = Check(x, 1) /\ c[3] = Set(x, 2)
        /\ c[4] = Check(x, 2)
    BY TypesOf, KeyCode
  <2>2. t \in All0 /\ waits[t] = "no" /\ pc[t] \in 1..Len(c) /\ Here(t) = c[pc[t]]
    BY AtStep
  <2> HIDE DEF c, x
  <2> QED
    BY <2>1, <2>2
<1>2. (pc[t] = 2 => mem[x] = 1) /\ (pc[t] = 4 => mem[x] = 2)
  BY DEF Valued
<1>3. /\ Takes(t) /\ UNCHANGED <<local, freed, owner>>
      /\ pc[t] = 1 => mem' = [mem EXCEPT ![x] = 1]
      /\ pc[t] = 3 => mem' = [mem EXCEPT ![x] = 2]
      /\ pc[t] \in {2, 4} => mem' = mem
  <2>1. CASE pc[t] = 1
    <3>1. AccessStep(t)
      BY <1>1, <2>1, StepOfOp DEF Set
    <3> QED
      BY <1>1, <2>1, <3>1, AccessEffects DEF Set
  <2>2. CASE pc[t] = 2
    <3>1. CheckStep(t)
      BY <1>1, <2>2, StepOfOp DEF Check
    <3> QED
      BY <1>1, <1>2, <2>2, <3>1, Effects DEF Check
  <2>3. CASE pc[t] = 3
    <3>1. AccessStep(t)
      BY <1>1, <2>3, StepOfOp DEF Set
    <3> QED
      BY <1>1, <2>3, <3>1, AccessEffects DEF Set
  <2>4. CASE pc[t] = 4
    <3>1. CheckStep(t)
      BY <1>1, <2>4, StepOfOp DEF Check
    <3> QED
      BY <1>1, <1>2, <2>4, <3>1, Effects DEF Check
  <2> QED
    BY <1>1, <2>1, <2>2, <2>3, <2>4
<1>4. PoolTypes' /\ Created' /\ Joined' /\ Unfailed'
  <2>1. /\ local' \in [All0 -> Nat] /\ owner' \in [Mutexes -> All0 \cup {NoOwner}]
    BY <1>3 DEF PoolTypes
  <2>2. mem' = [y \in Vars |-> mem'[y]]
    <3>1. x \in Vars
      BY VarsOf
    <3> HIDE DEF x
    <3> QED
      BY <1>1, <1>3, <3>1, TypesOf, MemUpdated
  <2> QED
    BY <1>3, <2>1, <2>2, TakesKeeps
<1>5. FreedKnown' /\ Indexed'
  BY <1>3, FreedKept, OtherPrograms DEF Takes
<1>6. Owned'
  <2>1. HeldSteps(prog) = {}
    BY DEF HeldSteps, WritesLocked
  <2> QED
    BY <1>3, <2>1, NoMutexKept
<1>7. Valued'
  <2>1. ASSUME NEW u \in Threads
        PROVE  /\ pc'[u] = 2 => mem'[<<"key", u>>] = 1
               /\ pc'[u] = 4 => mem'[<<"key", u>>] = 2
    <3>1. u \in All0 /\ pc'[u] = IF u = t THEN pc[t] + 1 ELSE pc[u]
      BY <1>1, <1>3, NAssumption DEF Takes, PoolTypes, All0, Threads
    <3>2. (pc[u] = 2 => mem[<<"key", u>>] = 1) /\ (pc[u] = 4 => mem[<<"key", u>>] = 2)
      BY DEF Valued
    <3>3. CASE u = t
      <4>1. (pc[t] = 1 => mem'[x] = 1) /\ (pc[t] = 3 => mem'[x] = 2)
        BY <1>3, VarsOf, MemUpdated
      <4> QED
        BY <1>1, <3>1, <3>3, <4>1
    <3>4. CASE u # t
      <4>1. <<"key", u>> # x
        BY <3>4
      <4>2. mem'[<<"key", u>>] = mem[<<"key", u>>]
        <5>1. x \in Vars /\ <<"key", u>> \in Vars
          BY VarsOf
        <5> HIDE DEF x
        <5> QED
          BY <1>1, <1>3, <4>1, <5>1, MemUpdated
      <4> QED
        BY <3>1, <3>2, <3>4, <4>2
    <3> QED
      BY <3>3, <3>4
  <2> QED
    BY <1>3, <2>1 DEF Valued, Takes
<1> QED
  BY <1>4, <1>5, <1>6, <1>7

\* The condition on the key holds whenever it is looked at, so that the mutex is
\* taken and given up.
LEMMA KeyCondSafe ==
    ASSUME PoolInv, NEW t \in Threads, Step(t), ~AtEnd(t),
           prog = "thread_local_pthread_value_cond"
    PROVE  PoolInv'
<1> DEFINE x == <<"key", t>>
           m == MutexOf(prog)
           s == Global("shared")
<1> USE DEF PoolInv
<1>1. /\ pc[t] \in 1..7 /\ t \in All0 /\ waits[t] = "no"
      /\ pc[t] = 1 => Here(t) = Set(x, 1)
      /\ pc[t] = 2 => Here(t) = Set(x, 2)
      /\ pc[t] \in {3, 6} => Here(t) = Unless(x, 2, 1)
      /\ pc[t] = 4 => Here(t) = Lock(m)
      /\ pc[t] = 5 => Here(t) = Inc(s)
      /\ pc[t] = 7 => Here(t) = Unlock(m)
  <2> DEFINE c == Codes[prog][t][total]
  <2>1. total \in 0..N /\ m = "shared_mutex"
    BY TypesOf DEF MutexOf
  <2> HIDE DEF m
  <2>2. /\ Len(c) = 7 /\ c[1] = Set(x, 1) /\ c[2] = Set(x, 2) /\ c[3] = Unless(x, 2, 1)
        /\ c[4] = Lock(m) /\ c[5] = Inc(s) /\ c[6] = Unless(x, 2, 1) /\ c[7] = Unlock(m)
    BY <2>1, KeyCondCode
  <2>3. t \in All0 /\ waits[t] = "no" /\ pc[t] \in 1..Len(c) /\ Here(t) = c[pc[t]]
    BY AtStep
  <2> HIDE DEF c, s, x
  <2> QED
    BY <2>2, <2>3
<1>2. pc[t] >= 3 => mem[x] = 2
  BY DEF Valued
<1>3. m \in Mutexes /\ HeldSteps(prog) = {5, 6, 7}
  BY DEF MutexOf, Mutexes, HeldSteps, WritesLocked
<1> HIDE DEF m
<1>4. /\ Takes(t) /\ UNCHANGED <<local, freed>>
      /\ pc[t] = 1 => mem' = [mem EXCEPT ![x] = 1]
      /\ pc[t] = 2 => mem' = [mem EXCEPT ![x] = 2]
      /\ pc[t] = 5 => mem' = [mem EXCEPT ![s] = @ + 1]
      /\ pc[t] \in {3, 4, 6, 7} => mem' = mem
      /\ pc[t] \notin {4, 7} => owner' = owner
      /\ pc[t] = 4 => owner[m] = NoOwner /\ owner' = [owner EXCEPT ![m] = t]
      /\ pc[t] = 7 => owner' = [owner EXCEPT ![m] = NoOwner]
  <2>1. CASE pc[t] \in {1, 2}
    <3>1. AccessStep(t)
      BY <1>1, <2>1, StepOfOp DEF Set
    <3> QED
      BY <1>1, <2>1, <3>1, AccessEffects DEF Set
  <2>2. CASE pc[t] \in {3, 6}
    <3>1. BranchStep(t) /\ Here(t).op = "unless" /\ mem[Here(t).x] = Here(t).v
      BY <1>1, <1>2, <2>2, StepOfOp DEF Unless
    <3> QED
      BY <1>1, <2>2, <3>1, Effects
  <2>3. CASE pc[t] = 4
    <3>1. LockStep(t)
      BY <1>1, <2>3, StepOfOp DEF Lock
    <3> QED
      BY <1>1, <2>3, <3>1, Effects DEF Lock
  <2>4. CASE pc[t] = 5
    <3>1. AccessStep(t)
      BY <1>1, <2>4, StepOfOp DEF Inc
    <3> QED
      BY <1>1, <2>4, <3>1, AccessEffects DEF Inc
  <2>5. CASE pc[t] = 7
    <3>1. UnlockStep(t)
      BY <1>1, <2>5, StepOfOp DEF Unlock
    <3> QED
      BY <1>1, <2>5, <3>1, Effects DEF Unlock
  <2> QED
    BY <1>1, <2>1, <2>2, <2>3, <2>4, <2>5
<1>5. PoolTypes' /\ Created' /\ Joined' /\ Unfailed'
  <2>1. /\ local' \in [All0 -> Nat] /\ owner' \in [Mutexes -> All0 \cup {NoOwner}]
    BY <1>1, <1>3, <1>4, TypesOf
  <2>2. mem' = [y \in Vars |-> mem'[y]]
    <3>1. x \in Vars /\ s \in Vars
      BY VarsOf
    <3> HIDE DEF x, s
    <3> QED
      BY <1>1, <1>4, <3>1, TypesOf, MemUpdated
  <2> QED
    BY <1>4, <2>1, <2>2, TakesKeeps
<1>6. FreedKnown' /\ Indexed'
  BY <1>4, FreedKept, OtherPrograms DEF Takes
<1>7. Owned'
  <2>1. CASE pc[t] = 4
    BY <1>4, <2>1, OwnedKept DEF m
  <2>2. CASE pc[t] = 7
    <3>1. pc[t] \in HeldSteps(prog) /\ pc[t] + 1 \notin HeldSteps(prog)
      BY <1>3, <2>2
    <3> QED
      BY <1>4, <2>2, <3>1, OwnedKept DEF m
  <2>3. CASE pc[t] \notin {4, 7}
    <3>1. pc[t] + 1 \in HeldSteps(prog) => pc[t] \in HeldSteps(prog)
      BY <1>1, <1>3, <2>3
    <3> QED
      BY <1>4, <2>3, <3>1, OwnedKept
  <2> QED
    BY <2>1, <2>2, <2>3
<1>8. Valued'
  <2>1. ASSUME NEW u \in Threads, pc'[u] >= 3 PROVE mem'[<<"key", u>>] = 2
    <3>1. u \in All0 /\ pc'[u] = IF u = t THEN pc[t] + 1 ELSE pc[u]
      BY <1>1, <1>4, NAssumption DEF Takes, PoolTypes, All0, Threads
    <3>2. pc[u] >= 3 => mem[<<"key", u>>] = 2
      BY DEF Valued
    <3>3. <<"key", u>> # s
      BY DEF Global
    <3>4. CASE u = t
      <4>1. pc[t] = 2 => mem'[x] = 2
        BY <1>4, VarsOf, MemUpdated
      <4>2. pc[t] >= 3 => mem'[x] = mem[x]
        <5>1. x \in Vars /\ s \in Vars /\ x # s
          BY <3>3, <3>4, VarsOf
        <5> HIDE DEF x, s
        <5> QED
          BY <1>1, <1>4, <5>1, MemUpdated
      <4> QED
        BY <1>1, <2>1, <3>1, <3>2, <3>4, <4>1, <4>2
    <3>5. CASE u # t
      <4>1. <<"key", u>> # x
        BY <3>5
      <4>2. mem'[<<"key", u>>] = mem[<<"key", u>>]
        <5>1. x \in Vars /\ s \in Vars /\ <<"key", u>> \in Vars
          BY VarsOf
        <5> HIDE DEF x, s
        <5> QED
          BY <1>1, <1>4, <3>3, <4>1, <5>1, MemUpdated
      <4> QED
        BY <2>1, <3>1, <3>2, <3>5, <4>2
    <3> QED
      BY <3>4, <3>5
  <2> QED
    BY <1>4, <2>1 DEF Valued, Takes
<1> QED
  BY <1>5, <1>6, <1>7, <1>8

\* The threads that have taken an index are finitely many, and counted.
LEMMA CountedFinite ==
    /\ IsFiniteSet(Counted) /\ Cardinality(Counted) \in Nat
    /\ \A t \in Threads : Cardinality(Counted \cup {t}) =
          IF t \in Counted THEN Cardinality(Counted) ELSE Cardinality(Counted) + 1
<1>1. IsFiniteSet(Threads)
  BY FS_Interval, NAssumption DEF Threads
<1>2. Counted \subseteq Threads
  BY DEF Counted
<1>3. IsFiniteSet(Counted)
  BY <1>1, <1>2, FS_Subset
<1> QED
  BY <1>3, FS_CardinalityType, FS_AddElement

\* A thread takes the next index while it has the mutex, so that no other has it.
LEMMA IndexSafe ==
    ASSUME PoolInv, NEW t \in Threads, Step(t), ~AtEnd(t), prog = "per_thread_index_inc"
    PROVE  PoolInv'
<1> DEFINE m == MutexOf(prog)
           s == Global("next_j")
<1> USE DEF PoolInv
<1>1. /\ pc[t] \in 1..5 /\ t \in All0 /\ waits[t] = "no"
      /\ pc[t] = 1 => Here(t) = Lock(m)
      /\ pc[t] = 2 => Here(t) = Fetch(s)
      /\ pc[t] = 3 => Here(t) = Inc(s)
      /\ pc[t] = 4 => Here(t) = Unlock(m)
      /\ pc[t] = 5 => Here(t) = WriteAt("datas")
  <2> DEFINE c == Codes[prog][t][total]
  <2>1. total \in 0..N /\ m = "next_j_mutex"
    BY TypesOf DEF MutexOf
  <2> HIDE DEF m
  <2>2. /\ Len(c) = 5 /\ c[1] = Lock(m) /\ c[2] = Fetch(s) /\ c[3] = Inc(s)
        /\ c[4] = Unlock(m) /\ c[5] = WriteAt("datas")
    BY <2>1, IndexCode
  <2>3. t \in All0 /\ waits[t] = "no" /\ pc[t] \in 1..Len(c) /\ Here(t) = c[pc[t]]
    BY AtStep
  <2> HIDE DEF c, s
  <2> QED
    BY <2>2, <2>3
<1>2. m \in Mutexes /\ HeldSteps(prog) = {2, 3, 4} /\ s \in Vars
  BY VarsOf DEF MutexOf, Mutexes, HeldSteps, WritesLocked
<1> HIDE DEF m, s
<1>3. /\ Takes(t) /\ UNCHANGED freed
      /\ pc[t] = 2 => local' = [local EXCEPT ![t] = mem[s]]
      /\ pc[t] # 2 => local' = local
      /\ pc[t] = 3 => mem' = [mem EXCEPT ![s] = @ + 1]
      /\ pc[t] # 3 => mem' = mem
      /\ pc[t] \notin {1, 4} => owner' = owner
      /\ pc[t] = 1 => owner[m] = NoOwner /\ owner' = [owner EXCEPT ![m] = t]
      /\ pc[t] = 4 => owner' = [owner EXCEPT ![m] = NoOwner]
  <2>1. CASE pc[t] = 1
    <3>1. LockStep(t)
      BY <1>1, <2>1, StepOfOp DEF Lock
    <3> QED
      BY <1>1, <2>1, <3>1, Effects DEF Lock
  <2>2. CASE pc[t] = 2
    <3>1. AccessStep(t)
      BY <1>1, <2>2, StepOfOp DEF Fetch
    <3> QED
      BY <1>1, <2>2, <3>1, AccessEffects DEF Fetch
  <2>3. CASE pc[t] = 3
    <3>1. AccessStep(t)
      BY <1>1, <2>3, StepOfOp DEF Inc
    <3> QED
      BY <1>1, <2>3, <3>1, AccessEffects DEF Inc
  <2>4. CASE pc[t] = 4
    <3>1. UnlockStep(t)
      BY <1>1, <2>4, StepOfOp DEF Unlock
    <3> QED
      BY <1>1, <2>4, <3>1, Effects DEF Unlock
  <2>5. CASE pc[t] = 5
    <3>1. AccessStep(t)
      BY <1>1, <2>5, StepOfOp DEF WriteAt
    <3> QED
      BY <1>1, <2>5, <3>1, AccessEffects DEF WriteAt
  <2> QED
    BY <1>1, <2>1, <2>2, <2>3, <2>4, <2>5
<1>4. /\ mem[s] = Cardinality(Counted) /\ mem[s] \in Nat
      /\ \A u \in Threads : pc[u] = 3 => local[u] = mem[s]
      /\ \A u \in Counted : local[u] < mem[s]
      /\ \A u, v \in Counted : u # v => local[u] # local[v]
  BY CountedFinite DEF Indexed, s
<1>5. PoolTypes' /\ Created' /\ Joined' /\ Unfailed'
  <2>1. local' \in [All0 -> Nat] /\ owner' \in [Mutexes -> All0 \cup {NoOwner}]
    BY <1>1, <1>2, <1>3, <1>4, TypesOf
  <2>2. mem' = [y \in Vars |-> mem'[y]]
    BY <1>1, <1>2, <1>3, TypesOf, MemUpdated
  <2> QED
    BY <1>3, <2>1, <2>2, TakesKeeps
<1>6. FreedKnown' /\ Valued'
  BY <1>3, FreedKept, OtherPrograms DEF Takes
<1>7. Owned'
  <2>1. CASE pc[t] = 1
    BY <1>3, <2>1, OwnedKept DEF m
  <2>2. CASE pc[t] = 4
    <3>1. pc[t] \in HeldSteps(prog) /\ pc[t] + 1 \notin HeldSteps(prog)
      BY <1>2, <2>2
    <3> QED
      BY <1>3, <2>2, <3>1, OwnedKept DEF m
  <2>3. CASE pc[t] \notin {1, 4}
    <3>1. pc[t] + 1 \in HeldSteps(prog) => pc[t] \in HeldSteps(prog)
      BY <1>1, <1>2, <2>3
    <3> QED
      BY <1>3, <2>3, <3>1, OwnedKept
  <2> QED
    BY <2>1, <2>2, <2>3
<1>8. Indexed'
  <2>1. \A u \in Threads : u \in All0 /\ pc'[u] = IF u = t THEN pc[t] + 1 ELSE pc[u]
    BY <1>1, <1>3, TypesOf, NAssumption DEF Takes, All0, Threads
  <2>2. \A u \in Threads : pc[u] \in Nat /\ local[u] \in Nat
    BY <2>1, TypesOf
  <2>3. CASE pc[t] = 3
    <3>1. Counted' = Counted \cup {t} /\ t \notin Counted
      BY <2>1, <2>2, <2>3 DEF Counted
    <3>2. mem'[s] = mem[s] + 1 /\ local' = local
      BY <1>2, <1>3, <2>3, MemUpdated
    <3>3. Cardinality(Counted') = mem'[s]
      BY <1>4, <3>1, <3>2, CountedFinite
    <3>4. \A u \in Threads : pc'[u] # 3
      <4>1. \A u \in Threads : pc[u] = 3 => u = t
        BY <1>2, <2>3 DEF Owned
      <4> QED
        BY <2>1, <2>3, <4>1
    <3>5. local[t] = mem[s]
      BY <1>4, <2>3
    <3>6. Counted \subseteq Threads
      BY DEF Counted
    <3>7. \A u \in Counted' : local'[u] < mem'[s]
      BY <1>4, <2>2, <3>1, <3>2, <3>5, <3>6
    <3>8. \A u, v \in Counted' : u # v => local'[u] # local'[v]
      BY <1>4, <2>2, <3>1, <3>2, <3>5, <3>6
    <3> QED
      BY <3>3, <3>4, <3>7, <3>8 DEF Indexed, s
  <2>4. CASE pc[t] # 3
    <3>1. Counted' = Counted
      BY <1>1, <2>1, <2>4 DEF Counted
    <3>2. mem' = mem
      BY <1>3, <2>4
    <3>3. \A u \in Threads : local'[u] = IF u = t /\ pc[t] = 2 THEN mem[s] ELSE local[u]
      BY <1>3, <2>1, TypesOf
    <3>4. \A u \in Counted : local'[u] = local[u]
      BY <3>3 DEF Counted
    <3>5. \A u \in Threads : pc'[u] = 3 => local'[u] = mem[s]
      BY <1>1, <1>4, <2>1, <2>2, <2>4, <3>3
    <3> QED
      BY <1>4, <3>1, <3>2, <3>4, <3>5 DEF Indexed, s
  <2> QED
    BY <2>3, <2>4
<1> QED
  BY <1>5, <1>6, <1>7, <1>8

\* The end of a thread.
LEMMA EndSafe ==
    ASSUME PoolInv, NEW t \in Threads, Step(t), AtEnd(t)
    PROVE  PoolInv'
<1> USE DEF PoolInv
<1>1. t \in All0 /\ Threads \subseteq All0 /\ waits[t] = "no"
  BY NAssumption DEF All0, Threads, PoolTypes
<1>2. /\ status[t] = "running" /\ outcome = "running"
      /\ status' = [status EXCEPT ![t] = "ended"]
      /\ UNCHANGED <<prog, total, waits, pc, local, mem, owner, freed, outcome>>
  BY <1>1, StepOfOp, EndEffect
<1>3. \A u \in All0 : status'[u] = IF u = t THEN "ended" ELSE status[u]
  BY <1>1, <1>2 DEF PoolTypes
<1>4. PoolTypes'
  <2>1. status' \in [All0 -> {"new", "running", "ended", "failed"}]
    BY <1>1, <1>2 DEF PoolTypes
  <2> QED
    BY <1>2, <2>1 DEF PoolTypes
<1>5. Created'
  BY <1>1, <1>2, <1>3 DEF Created
<1>6. Joined'
  <2>1. 1..total \subseteq Threads
    BY TypesOf, NAssumption DEF Threads
  <2> QED
    BY <1>1, <1>2, <1>3, <2>1 DEF Joined
<1>7. Owned' /\ FreedKnown' /\ Indexed' /\ Valued' /\ Unfailed'
  BY <1>2 DEF Owned, FreedKnown, Indexed, Counted, Valued, Unfailed
<1> QED
  BY <1>4, <1>5, <1>6, <1>7

-----------------------------------------------------------------------------
(* main's step.                                                            *)

\* Where main is: it creates a thread, joins one, frees the memory or reads the
\* data.
LEMMA MainAt ==
    ASSUME PoolTypes, ~AtEnd(Main)
    PROVE  /\ pc[Main] \in Nat /\ pc[Main] >= 1
           /\ pc[Main] + 1 \in 1..Len(Codes[prog][Main][total]) + 1
           /\ pc[Main] <= total => Here(Main) = Create(pc[Main])
           /\ pc[Main] > total /\ pc[Main] <= 2 * total => Here(Main) = Join(pc[Main] - total)
           /\ pc[Main] > 2 * total =>
                \/ Here(Main) = Read(data)
                \/ /\ pc[Main] = 2 * total + 1
                   /\ \E xs \in SUBSET FreedByMain : Here(Main) = Free(xs)
<1> DEFINE c == Codes[prog][Main][total]
           k == pc[Main]
<1>1. Main \in All0 /\ total \in Nat
  BY TypesOf, NAssumption DEF All0, Main
<1>2. k \in 1..Len(c) + 1 /\ k \in Nat /\ ~(k > Len(c)) /\ Here(Main) = c[k]
  BY <1>1 DEF PoolTypes, AtEnd, Here
<1>3. /\ Len(c) \in Nat /\ Len(c) >= 2 * total
      /\ \A i \in 1..total : c[i] = Create(i) /\ c[total + i] = Join(i)
      /\ \A i \in 2 * total + 1..Len(c) :
            \/ c[i] = Read(data)
            \/ i = 2 * total + 1 /\ \E xs \in SUBSET FreedByMain : c[i] = Free(xs)
  BY MainCode DEF PoolTypes
<1> HIDE DEF c, k
<1>4. k \in 1..Len(c)
  BY <1>2, <1>3
<1>5. k <= total => Here(Main) = Create(k)
  BY <1>1, <1>2, <1>3, <1>4
<1>6. ASSUME k > total, k <= 2 * total PROVE Here(Main) = Join(k - total)
  <2>1. k - total \in 1..total /\ total + (k - total) = k
    BY <1>1, <1>4, <1>6
  <2> QED
    BY <1>2, <1>3, <2>1
<1>7. k > 2 * total =>
        \/ Here(Main) = Read(data)
        \/ k = 2 * total + 1 /\ \E xs \in SUBSET FreedByMain : Here(Main) = Free(xs)
  BY <1>1, <1>2, <1>3, <1>4
<1>8. k \in Nat /\ k >= 1 /\ k + 1 \in 1..Len(c) + 1
  BY <1>2, <1>3, <1>4
<1> QED
  BY <1>5, <1>6, <1>7, <1>8 DEF c, k

\* What main's going on leaves as it is.
LEMMA MainKeeps ==
    ASSUME PoolTypes, Owned, FreedKnown, Valued, ~AtEnd(Main),
           pc' = [pc EXCEPT ![Main] = @ + 1],
           UNCHANGED <<prog, total, mem, owner, waits>>,
           freed' \ freed # {} => pc[Main] > 2 * total /\ freed' \ freed \subseteq FreedByMain,
           status' \in [All0 -> {"new", "running", "ended", "failed"}],
           local' \in [All0 -> Nat]
    PROVE  /\ PoolTypes' /\ Owned' /\ FreedKnown' /\ Valued'
           /\ \A t \in Threads : pc'[t] = pc[t]
           /\ pc'[Main] = pc[Main] + 1
<1>1. Main \in All0 /\ Threads \subseteq All0 /\ Main \notin Threads /\ total \in Nat
  BY TypesOf, NAssumption DEF All0, Threads, Main
<1>2. /\ \A t \in Threads : pc'[t] = pc[t]
      /\ pc'[Main] = pc[Main] + 1
      /\ pc' \in [All0 -> Nat] /\ pc[Main] \in Nat
  BY <1>1, TypesOf
<1>3. PoolTypes'
  <2>1. \A u \in All0 : pc'[u] \in 1..Len(Codes[prog][u][total]) + 1
    <3>1. pc[Main] + 1 \in 1..Len(Codes[prog][Main][total]) + 1
      BY MainAt
    <3>2. \A u \in All0 : u = Main \/ u \in Threads
      BY DEF All0
    <3> QED
      BY <1>1, <1>2, <3>1, <3>2 DEF PoolTypes
  <2> QED
    BY <1>2, <2>1 DEF PoolTypes
<1>4. Owned' /\ Valued'
  BY <1>2 DEF Owned, Valued
<1>5. FreedKnown'
  <2> SUFFICES ASSUME NEW x \in freed'
               PROVE  \/ prog = "per_thread_struct"
                           /\ (\E t \in Threads : x = <<"t", t>> /\ pc'[t] = 3)
                      \/ pc'[Main] > 2 * total + 1 /\ x \in FreedByMain
    BY DEF FreedKnown
  <2>1. CASE x \in freed
    <3>1. \/ prog = "per_thread_struct" /\ (\E t \in Threads : x = <<"t", t>> /\ pc[t] = 3)
          \/ pc[Main] > 2 * total + 1 /\ x \in FreedByMain
      BY <2>1 DEF FreedKnown
    <3> QED
      BY <1>1, <1>2, <3>1
  <2>2. CASE x \notin freed
    <3>1. pc[Main] > 2 * total /\ x \in FreedByMain
      BY <2>2
    <3> QED
      BY <1>1, <1>2, <3>1
  <2> QED
    BY <2>1, <2>2
<1> QED
  BY <1>2, <1>3, <1>4, <1>5

\* main creates a thread, which has not begun; or fails to.
LEMMA CreateSafe ==
    ASSUME PoolInv, Step(Main), ~AtEnd(Main), pc[Main] <= total
    PROVE  PoolInv'
<1> DEFINE k == pc[Main]
<1> USE DEF PoolInv
<1>1. /\ Main \in All0 /\ Threads \subseteq All0 /\ Main \notin Threads /\ total \in 0..N
      /\ waits[Main] = "no"
  BY TypesOf, NAssumption DEF All0, Threads, Main, PoolTypes
<1>2. Here(Main) = Create(k) /\ k \in Nat /\ k >= 1
  BY MainAt
<1>3. k \in Threads
  BY <1>1, <1>2, NAssumption DEF Threads
<1>4. CreateStep(Main)
  BY <1>1, <1>2, StepOfOp DEF Create
<1>5. /\ pc' = [pc EXCEPT ![Main] = @ + 1] /\ outcome = "running"
      /\ UNCHANGED <<prog, total, mem, owner, waits, freed, outcome>>
      /\ \/ /\ status' = [status EXCEPT ![k] = "running"]
            /\ local' = [local EXCEPT ![k] = local[Main]]
         \/ status' = [status EXCEPT ![k] = "failed"] /\ local' = local
  BY <1>2, <1>4 DEF CreateStep, Go, At, Ready, world, Create
<1> HIDE DEF k
<1>6. /\ status' \in [All0 -> {"new", "running", "ended", "failed"}]
      /\ status'[k] \in {"running", "failed"}
      /\ \A u \in All0 : u # k => status'[u] = status[u]
  BY <1>1, <1>3, <1>5 DEF PoolTypes
<1>7. local' \in [All0 -> Nat] /\ \A u \in All0 : u # k => local'[u] = local[u]
  BY <1>1, <1>3, <1>5, TypesOf
<1>8. /\ PoolTypes' /\ Owned' /\ FreedKnown' /\ Valued'
      /\ \A t \in Threads : pc'[t] = pc[t]
      /\ pc'[Main] = k + 1
  BY <1>5, <1>6, <1>7, MainKeeps DEF k
<1>9. status[k] = "new" /\ pc[k] = 1
  BY <1>2, <1>3 DEF Created, k
<1>10. Created'
  <2>1. ASSUME NEW u \in Threads
        PROVE  /\ status'[u] = "new" <=> u >= k + 1 \/ u > total
               /\ status'[u] = "new" => pc'[u] = 1
    <3>1. u \in Nat
      BY DEF Threads
    <3>2. CASE u = k
      BY <1>1, <1>2, <1>6, <3>1, <3>2 DEF k
    <3>3. CASE u # k
      <4>1. /\ status[u] = "new" <=> u >= k \/ u > total
            /\ status[u] = "new" => pc[u] = 1
        BY DEF Created, k
      <4>2. u >= k <=> u >= k + 1
        BY <1>2, <3>1, <3>3
      <4> QED
        BY <1>1, <1>6, <1>8, <3>3, <4>1, <4>2
    <3> QED
      BY <3>2, <3>3
  <2> QED
    BY <1>5, <1>8, <2>1 DEF Created
<1>11. Joined'
  <2>1. \A u \in 1..total : ~(k + 1 > total + u)
    BY <1>1, <1>2 DEF k
  <2> QED
    BY <1>5, <1>8, <2>1 DEF Joined
<1>12. Indexed'
  <2>1. Counted' = Counted /\ \A u \in Counted : u # k
    BY <1>8, <1>9 DEF Counted
  <2>2. \A u \in Counted : local'[u] = local[u]
    BY <1>1, <1>7, <2>1 DEF Counted
  <2>3. \A u \in Threads : pc'[u] = 3 => u # k /\ local'[u] = local[u]
    BY <1>1, <1>7, <1>8, <1>9
  <2> QED
    BY <1>5, <1>8, <2>1, <2>2, <2>3 DEF Indexed
<1>13. Unfailed'
  BY <1>5 DEF Unfailed
<1> QED
  BY <1>8, <1>10, <1>11, <1>12, <1>13

\* main joins a thread, which it has created, or failed to create.
LEMMA JoinSafe ==
    ASSUME PoolInv, Step(Main), ~AtEnd(Main), pc[Main] > total, pc[Main] <= 2 * total
    PROVE  PoolInv'
<1> DEFINE k == pc[Main]
           i == k - total
<1> USE DEF PoolInv
<1>1. /\ Main \in All0 /\ Threads \subseteq All0 /\ Main \notin Threads /\ total \in 0..N
      /\ waits[Main] = "no"
  BY TypesOf, NAssumption DEF All0, Threads, Main, PoolTypes
<1>2. Here(Main) = Join(i) /\ k \in Nat /\ k >= 1
  BY MainAt
<1>3. i \in Threads /\ i \in 1..total /\ k = total + i
  BY <1>1, <1>2, NAssumption DEF Threads
<1>4. JoinStep(Main)
  BY <1>1, <1>2, StepOfOp DEF Join
<1>5. /\ pc' = [pc EXCEPT ![Main] = @ + 1] /\ outcome = "running"
      /\ UNCHANGED <<prog, total, mem, owner, waits, freed, status, local>>
      /\ status[i] # "running"
      /\ outcome' \in IF status[i] \in {"new", "failed"} THEN {outcome, "undefined"} ELSE {outcome}
  BY <1>2, <1>4 DEF JoinStep, Go, At, Ready, world, Join, NamesNobody
<1> HIDE DEF k, i
<1>6. /\ PoolTypes' /\ Owned' /\ FreedKnown' /\ Valued'
      /\ \A t \in Threads : pc'[t] = pc[t]
      /\ pc'[Main] = k + 1
  BY <1>5, TypesOf, MainKeeps DEF k, PoolTypes
<1>7. status[i] # "new"
  BY <1>1, <1>2, <1>3 DEF Created, k
<1>8. status[i] \in {"ended", "failed"}
  BY <1>1, <1>3, <1>5, <1>7 DEF PoolTypes
<1>9. Created'
  <2>1. \A u \in Threads : (u >= k + 1 \/ u > total) <=> (u >= k \/ u > total)
    BY <1>1, <1>2, <1>3 DEF Threads
  <2> QED
    BY <1>5, <1>6, <2>1 DEF Created, k
<1>10. Joined'
  <2>1. \A u \in 1..total : k + 1 > total + u => k > total + u \/ u = i
    BY <1>1, <1>2, <1>3
  <2> QED
    BY <1>5, <1>6, <1>8, <2>1 DEF Joined, k
<1>11. Indexed'
  <2>1. Counted' = Counted /\ \A u \in Counted : u \in Threads
    BY <1>6 DEF Counted
  <2> QED
    BY <1>5, <1>6, <2>1 DEF Indexed
<1>12. Unfailed'
  <2>1. status[i] = "failed" => Uncreated' # {}
    BY <1>3, <1>5 DEF Uncreated
  <2> QED
    BY <1>5, <1>8, <2>1 DEF Unfailed
<1> QED
  BY <1>6, <1>9, <1>10, <1>11, <1>12

\* main frees the memory, or reads the data.
LEMMA RestSafe ==
    ASSUME PoolInv, Step(Main), ~AtEnd(Main), pc[Main] > 2 * total
    PROVE  PoolInv'
<1> DEFINE k == pc[Main]
<1> USE DEF PoolInv
<1>1. /\ Main \in All0 /\ Threads \subseteq All0 /\ Main \notin Threads /\ total \in 0..N
      /\ waits[Main] = "no"
  BY TypesOf, NAssumption DEF All0, Threads, Main, PoolTypes
<1>2. k \in Nat
  BY MainAt
<1>3. /\ Takes(Main) /\ UNCHANGED <<local, mem, owner>>
      /\ freed' \ freed \subseteq FreedByMain
  <2>1. CASE Here(Main) = Read(data)
    <3>1. AccessStep(Main)
      BY <1>1, <2>1, StepOfOp DEF Read
    <3> QED
      BY <1>1, <2>1, <3>1, AccessEffects DEF Read
  <2>2. ASSUME NEW xs \in SUBSET FreedByMain, Here(Main) = Free(xs)
        PROVE  Takes(Main) /\ UNCHANGED <<local, mem, owner>>
                 /\ freed' \ freed \subseteq FreedByMain
    <3>1. FreeStep(Main)
      BY <1>1, <2>2, StepOfOp DEF Free
    <3>2. Takes(Main) /\ UNCHANGED <<local, mem, owner>> /\ freed' = freed \cup xs
      BY <1>1, <2>2, <3>1, Effects DEF Free
    <3> QED
      BY <3>2
  <2> QED
    BY <2>1, <2>2, MainAt
<1>4. /\ pc' = [pc EXCEPT ![Main] = @ + 1]
      /\ UNCHANGED <<prog, total, waits, status, outcome>>
  BY <1>3 DEF Takes
<1> HIDE DEF k
<1>5. /\ PoolTypes' /\ Owned' /\ FreedKnown' /\ Valued'
      /\ \A t \in Threads : pc'[t] = pc[t]
      /\ pc'[Main] = k + 1
  BY <1>3, <1>4, TypesOf, MainKeeps DEF k, PoolTypes
<1>6. Created'
  <2>1. \A u \in Threads : (u >= k + 1 \/ u > total) <=> (u >= k \/ u > total)
    BY <1>1, <1>2 DEF Threads, k
  <2> QED
    BY <1>4, <1>5, <2>1 DEF Created, k
<1>7. Joined'
  <2>1. \A u \in 1..total : k + 1 > total + u => k > total + u
    BY <1>1, <1>2 DEF k
  <2> QED
    BY <1>4, <1>5, <2>1 DEF Joined, k
<1>8. Indexed'
  <2>1. Counted' = Counted /\ \A u \in Counted : u \in Threads
    BY <1>5 DEF Counted
  <2> QED
    BY <1>3, <1>4, <1>5, <2>1 DEF Indexed
<1>9. Unfailed'
  BY <1>4 DEF Unfailed, Uncreated
<1> QED
  BY <1>5, <1>6, <1>7, <1>8, <1>9

\* main returns.
LEMMA ReturnSafe ==
    ASSUME PoolInv, Step(Main), AtEnd(Main)
    PROVE  PoolInv'
<1> USE DEF PoolInv
<1>1. Main \in All0 /\ Main \notin Threads /\ waits[Main] = "no" /\ 1..total \subseteq Threads
  BY TypesOf, NAssumption DEF All0, Threads, Main, PoolTypes
<1>2. /\ status' = [status EXCEPT ![Main] = "ended"] /\ outcome' = "returned"
      /\ UNCHANGED <<prog, total, waits, pc, local, mem, owner, freed>>
  <2>1. EndStep(Main)
    BY <1>1, StepOfOp
  <2> QED
    BY <1>1, <2>1 DEF EndStep, world, PoolTypes
<1>3. /\ status' \in [All0 -> {"new", "running", "ended", "failed"}]
      /\ \A u \in Threads : status'[u] = status[u]
  BY <1>1, <1>2 DEF PoolTypes
<1>4. PoolTypes'
  BY <1>2, <1>3 DEF PoolTypes
<1>5. Created' /\ Joined'
  BY <1>1, <1>2, <1>3 DEF Created, Joined
<1>6. Owned' /\ FreedKnown' /\ Indexed' /\ Valued' /\ Unfailed'
  BY <1>2 DEF Owned, FreedKnown, Indexed, Counted, Valued, Unfailed
<1> QED
  BY <1>4, <1>5, <1>6

-----------------------------------------------------------------------------
(* The invariant of these programs.                                        *)

\* It holds at first.
LEMMA PoolInit ==
    ASSUME Init, prog \in PoolPrograms
    PROVE  PoolInv
<1>1. prog \in PoolPrograms /\ total \in 0..N
  BY NAssumption DEF Init, Totals
<1>2. /\ Main \in All0 /\ Threads \subseteq All0 /\ Main \notin Threads
      /\ \A t \in Threads : t \in Nat /\ t >= 1
      /\ \A t \in All0 : t = Main \/ t \in Threads
  BY NAssumption DEF All0, Threads, Main
<1>3. /\ status = [t \in All0 |-> IF t = Main THEN "running" ELSE "new"]
      /\ pc = [t \in All0 |-> 1] /\ local = [t \in All0 |-> 0]
      /\ mem = [x \in Vars |-> CASE x = Global("threads_mask") -> 0..N
                                 [] x = Global("keep_alive") -> 1
                                 [] OTHER -> 0]
      /\ owner = [m \in Mutexes |-> NoOwner] /\ waits = [t \in All0 |-> "no"]
      /\ freed = {} /\ outcome = "running"
  BY DEF Init
<1>4. PoolTypes
  <2>1. ASSUME NEW t \in All0 PROVE Len(Codes[prog][t][total]) \in Nat
    BY <1>1, <1>2, MainCode, ThreadCodeLength
  <2>2. ASSUME NEW t \in All0 PROVE pc[t] \in 1..Len(Codes[prog][t][total]) + 1
    <3> DEFINE l == Len(Codes[prog][t][total])
    <3>1. l \in Nat /\ pc[t] = 1
      BY <1>3, <2>1
    <3> HIDE DEF l
    <3>2. pc[t] \in 1..l + 1
      BY <3>1
    <3> QED
      BY <3>2 DEF l
  <2>3. /\ status \in [All0 -> {"new", "running", "ended", "failed"}]
        /\ pc \in [All0 -> Nat] /\ local \in [All0 -> Nat]
        /\ mem = [x \in Vars |-> mem[x]]
        /\ owner \in [Mutexes -> All0 \cup {NoOwner}]
        /\ waits = [t \in All0 |-> "no"]
    BY <1>3
  <2> QED
    BY <1>1, <2>2, <2>3 DEF PoolTypes
<1>5. Created
  BY <1>1, <1>2, <1>3 DEF Created
<1>6. Joined
  BY <1>1, <1>2, <1>3 DEF Joined
<1>7. Owned
  BY <1>2, <1>3 DEF Owned, HeldSteps
<1>8. FreedKnown /\ Unfailed
  BY <1>3 DEF FreedKnown, Unfailed
<1>9. Indexed
  <2>1. Counted = {}
    BY <1>2, <1>3 DEF Counted
  <2>2. mem[Global("next_j")] = 0
    BY <1>3, VarsOf, NAssumption DEF Global, Threads, Vars, Globals
  <2>3. \A t \in Threads : pc[t] = 1
    BY <1>2, <1>3
  <2> QED
    BY <2>1, <2>2, <2>3, FS_EmptySet DEF Indexed
<1>10. Valued
  <2>1. ASSUME NEW t \in Threads PROVE mem[<<"data", t>>] = 0 /\ pc[t] = 1
    <3>1. <<"data", t>> \in Vars
      BY VarsOf
    <3>2. <<"data", t>> # Global("threads_mask") /\ <<"data", t>> # Global("keep_alive")
      BY DEF Global
    <3> QED
      BY <1>2, <1>3, <3>1, <3>2
  <2>2. ASSUME NEW t \in Threads
        PROVE  /\ mem[<<"data", t>>] = IF pc[t] <= 2 THEN 0 ELSE 1
               /\ pc[t] # 2 /\ pc[t] # 4 /\ ~(pc[t] >= 3)
    BY <2>1
  <2> QED
    BY <2>2 DEF Valued
<1> QED
  BY <1>4, <1>5, <1>6, <1>7, <1>8, <1>9, <1>10 DEF PoolInv

\* Every step keeps it.
LEMMA PoolNext ==
    ASSUME PoolInv, [Next]_vars
    PROVE  PoolInv'
<1>1. CASE UNCHANGED vars
  BY <1>1 DEF PoolInv, PoolTypes, Created, Joined, Owned, FreedKnown, Indexed, Counted, Valued,
     Unfailed, Uncreated, vars, world
<1>2. ASSUME NEW t \in All0, SpuriousWakeup(t) PROVE FALSE
  BY <1>2 DEF SpuriousWakeup, PoolInv, PoolTypes
<1>3. ASSUME NEW t \in Threads, Step(t) PROVE PoolInv'
  <2>1. prog \in PoolPrograms
    BY DEF PoolInv, PoolTypes
  <2> QED
    BY <1>3, <2>1, LockedWriteSafe, OwnWriteSafe, AtomicSafe, StructSafe, IndexSafe, LocalSafe,
       KeySafe, KeyCondSafe, EndSafe DEF PoolPrograms
<1>4. ASSUME Step(Main) PROVE PoolInv'
  <2>1. pc[Main] \in Nat /\ total \in Nat
    BY TypesOf, NAssumption DEF PoolInv, All0
  <2> QED
    BY <1>4, <2>1, CreateSafe, JoinSafe, RestSafe, ReturnSafe
<1> QED
  BY <1>1, <1>2, <1>3, <1>4 DEF Next, Over, All0

-----------------------------------------------------------------------------
(* What the invariant says of the accesses.                                *)

Accesses(t) == Writes(t) \cup Reads(t)

\* An instruction accesses what it names.
LEMMA AccessesOf ==
    ASSUME NEW t
    PROVE  /\ Accesses(t) # {} => Ready(t) /\ ~AtEnd(t)
           /\ Here(t).op \in {"lock", "unlock"} => Accesses(t) = {}
           /\ Here(t).op \in {"write", "set", "inc", "atomic_inc", "read", "fetch", "check",
                              "unless"}
                => Accesses(t) \subseteq {Here(t).x}
           /\ Here(t).op = "write_at" => Accesses(t) \subseteq {<<Here(t).x, local[t]>>}
           /\ Here(t).op = "free" => Accesses(t) \subseteq Here(t).xs
           /\ Here(t).op \in {"create", "join"} => Accesses(t) \subseteq {<<"tids", Here(t).t>>}
<1> DEFINE op == Here(t).op
<1>1. Accesses(t) # {} => Ready(t) /\ ~AtEnd(t)
  BY DEF Accesses, Writes, Reads
<1>2. op \in {"lock", "unlock"} => Writes(t) = {} /\ Reads(t) = {}
  BY DEF Writes, Reads
<1>3. op \in {"write", "set", "inc", "atomic_inc"} => Writes(t) \subseteq {Here(t).x}
        /\ Reads(t) = {}
  BY DEF Writes, Reads
<1>4. op \in {"read", "fetch", "check", "unless"} => Writes(t) = {}
        /\ Reads(t) \subseteq {Here(t).x}
  BY DEF Writes, Reads
<1>5. op = "write_at" => Writes(t) \subseteq {<<Here(t).x, local[t]>>} /\ Reads(t) = {}
  BY DEF Writes, Reads
<1>6. op = "free" => Writes(t) \subseteq Here(t).xs /\ Reads(t) = {}
  BY DEF Writes, Reads
<1>7. op = "create" => Writes(t) \subseteq {<<"tids", Here(t).t>>} /\ Reads(t) = {}
  BY DEF Writes, Reads
<1>8. op = "join" => Writes(t) = {} /\ Reads(t) \subseteq {<<"tids", Here(t).t>>}
  BY DEF Writes, Reads
<1> HIDE DEF op
<1> QED
  BY <1>1, <1>2, <1>3, <1>4, <1>5, <1>6, <1>7, <1>8 DEF Accesses, op

\* Thread t's own data.
OwnData == {"datas", "ts", "t", "data", "key"}

\* What entitles thread t to access x: that x is its own, that it has the mutex,
\* that the access is atomic, or that it has taken the index.
Own(t, x)     == prog # "per_thread_index_inc" /\ \E n \in OwnData : x = <<n, t>>
Guarded(t, x) == pc[t] \in HeldSteps(prog) /\ x \in {data, Global("next_j"), Global("shared")}
Shared(t, x)  == prog = "atomic_gcc" /\ Atomic(t) /\ x = data
Taken(t, x)   == prog = "per_thread_index_inc" /\ pc[t] = 5 /\ x = <<"datas", local[t]>>

\* A thread accesses nothing else.
LEMMA ThreadAccess ==
    ASSUME PoolInv, NEW t \in Threads, NEW x \in Accesses(t)
    PROVE  /\ Own(t, x) \/ Guarded(t, x) \/ Shared(t, x) \/ Taken(t, x)
           /\ x[1] = "t" => prog = "per_thread_struct" /\ pc[t] # 3
           /\ Here(t).op = "write_at" => Taken(t, x)
<1> DEFINE c == Codes[prog][t][total]
           Goal == /\ Own(t, x) \/ Guarded(t, x) \/ Shared(t, x) \/ Taken(t, x)
                   /\ x[1] = "t" => prog = "per_thread_struct" /\ pc[t] # 3
                   /\ Here(t).op = "write_at" => Taken(t, x)
<1>1. /\ t \in All0 /\ pc[t] \in 1..Len(c) /\ Here(t) = c[pc[t]]
      /\ total \in 0..N /\ prog \in PoolPrograms
  BY AccessesOf, AtStep, TypesOf DEF PoolInv, PoolTypes
<1>2. CASE prog \in WritesLocked
  <2>1. Len(c) = 3 /\ c[1] = Lock(MutexOf(prog)) /\ c[2] = Write(data)
          /\ c[3] = Unlock(MutexOf(prog))
    BY <1>1, <1>2, LockedWriteCode
  <2> HIDE DEF c
  <2>2. pc[t] = 2 /\ Here(t) = Write(data)
    <3>1. pc[t] \in 1..3
      BY <1>1, <2>1
    <3>2. Here(t).op \notin {"lock", "unlock"}
      BY AccessesOf
    <3> QED
      BY <1>1, <2>1, <3>1, <3>2 DEF Lock, Unlock
  <2>3. x = data
    BY <2>2, AccessesOf DEF Write
  <2>4. Guarded(t, x)
    BY <1>2, <2>2, <2>3 DEF Guarded, HeldSteps, WritesLocked
  <2> QED
    BY <2>2, <2>3, <2>4 DEF Write, data, Global
<1>3. CASE prog \in WritesOwn
  <2>1. Len(c) = 1 /\ \E n \in {"datas", "ts"} : c[1] = Write(<<n, t>>)
    BY <1>1, <1>3, OwnWriteCode
  <2> HIDE DEF c
  <2>2. PICK n \in {"datas", "ts"} : Here(t) = Write(<<n, t>>)
    BY <1>1, <2>1
  <2>3. x = <<n, t>>
    BY <2>2, AccessesOf DEF Write
  <2> QED
    BY <1>3, <2>2, <2>3 DEF Write, Own, OwnData, WritesOwn
<1>4. CASE prog = "atomic_gcc"
  <2>1. Len(c) = 1 /\ c[1] = AtomicInc(data)
    BY <1>1, <1>4, AtomicCode
  <2> HIDE DEF c
  <2>2. Here(t) = AtomicInc(data)
    BY <1>1, <2>1
  <2>3. x = data
    BY <2>2, AccessesOf DEF AtomicInc
  <2> QED
    BY <1>4, <2>2, <2>3 DEF AtomicInc, Shared, Atomic, data, Global
<1>5. CASE prog = "per_thread_struct"
  <2>1. Len(c) = 2 /\ c[1] = Write(<<"t", t>>) /\ c[2] = Free({<<"t", t>>})
    BY <1>1, <1>5, StructCode
  <2> HIDE DEF c
  <2>2. pc[t] \in 1..2 /\ (Here(t) = Write(<<"t", t>>) \/ Here(t) = Free({<<"t", t>>}))
    BY <1>1, <2>1
  <2>3. x = <<"t", t>>
    BY <2>2, AccessesOf DEF Write, Free
  <2> QED
    BY <1>5, <2>2, <2>3 DEF Write, Free, Own, OwnData
<1>6. CASE prog = "per_thread_index_inc"
  <2> DEFINE s == Global("next_j")
  <2>1. /\ Len(c) = 5 /\ c[1] = Lock("next_j_mutex") /\ c[2] = Fetch(s) /\ c[3] = Inc(s)
        /\ c[4] = Unlock("next_j_mutex") /\ c[5] = WriteAt("datas")
    BY <1>1, <1>6, IndexCode
  <2> HIDE DEF c, s
  <2>2. Here(t).op \notin {"lock", "unlock"} /\ pc[t] \in 1..5
    BY <1>1, <2>1, AccessesOf
  <2>3. CASE pc[t] \in {2, 3}
    <3>1. Here(t) = Fetch(s) \/ Here(t) = Inc(s)
      BY <1>1, <2>1, <2>3
    <3>2. x = s
      BY <3>1, AccessesOf DEF Fetch, Inc
    <3>3. Guarded(t, x)
      BY <1>6, <2>3, <3>2 DEF s, Guarded, HeldSteps, WritesLocked
    <3> QED
      BY <3>1, <3>2, <3>3 DEF s, Fetch, Inc, Global
  <2>4. CASE pc[t] = 5
    <3>1. Here(t) = WriteAt("datas")
      BY <1>1, <2>1, <2>4
    <3>2. x = <<"datas", local[t]>>
      BY <3>1, AccessesOf DEF WriteAt
    <3> QED
      BY <1>6, <2>4, <3>2 DEF Taken
  <2>5. pc[t] \notin {1, 4}
    BY <1>1, <2>1, <2>2 DEF Lock, Unlock
  <2> QED
    BY <2>2, <2>3, <2>4, <2>5
<1>7. CASE prog = "thread_local_value"
  <2> DEFINE d == <<"data", t>>
  <2>1. Len(c) = 3 /\ c[1] = Check(d, 0) /\ c[2] = Set(d, 1) /\ c[3] = Check(d, 1)
    BY <1>1, <1>7, LocalCode
  <2> HIDE DEF c, d
  <2>2. Here(t).op \in {"check", "set"} /\ Here(t).x = d
    BY <1>1, <2>1 DEF Check, Set
  <2>3. x = d
    BY <2>2, AccessesOf
  <2> QED
    BY <1>7, <2>2, <2>3 DEF d, Own, OwnData
<1>8. CASE prog = "thread_local_pthread_value"
  <2> DEFINE d == <<"key", t>>
  <2>1. /\ Len(c) = 4 /\ c[1] = Set(d, 1) /\ c[2] = Check(d, 1) /\ c[3] = Set(d, 2)
        /\ c[4] = Check(d, 2)
    BY <1>1, <1>8, KeyCode
  <2> HIDE DEF c, d
  <2>2. Here(t).op \in {"check", "set"} /\ Here(t).x = d
    BY <1>1, <2>1 DEF Check, Set
  <2>3. x = d
    BY <2>2, AccessesOf
  <2> QED
    BY <1>8, <2>2, <2>3 DEF d, Own, OwnData
<1>9. CASE prog = "thread_local_pthread_value_cond"
  <2> DEFINE d == <<"key", t>>
             s == Global("shared")
  <2>1. /\ Len(c) = 7 /\ c[1] = Set(d, 1) /\ c[2] = Set(d, 2) /\ c[3] = Unless(d, 2, 1)
        /\ c[4] = Lock("shared_mutex") /\ c[5] = Inc(s) /\ c[6] = Unless(d, 2, 1)
        /\ c[7] = Unlock("shared_mutex")
    BY <1>1, <1>9, KeyCondCode
  <2> HIDE DEF c, d, s
  <2>2. Here(t).op \notin {"lock", "unlock"} /\ pc[t] \in 1..7
    BY <1>1, <2>1, AccessesOf
  <2>3. CASE pc[t] \in {1, 2, 3, 6}
    <3>1. Here(t).op \in {"set", "unless"} /\ Here(t).x = d
      BY <1>1, <2>1, <2>3 DEF Set, Unless
    <3>2. x = d
      BY <3>1, AccessesOf
    <3> QED
      BY <1>9, <3>1, <3>2 DEF d, Own, OwnData
  <2>4. CASE pc[t] = 5
    <3>1. Here(t) = Inc(s)
      BY <1>1, <2>1, <2>4
    <3>2. x = s
      BY <3>1, AccessesOf DEF Inc
    <3>3. Guarded(t, x)
      BY <1>9, <2>4, <3>2 DEF s, Guarded, HeldSteps, WritesLocked
    <3> QED
      BY <3>1, <3>2, <3>3 DEF s, Inc, Global
  <2>5. pc[t] \notin {4, 7}
    BY <1>1, <2>1, <2>2 DEF Lock, Unlock
  <2> QED
    BY <2>2, <2>3, <2>4, <2>5
<1> HIDE DEF Goal
<1> QED
  BY <1>1, <1>2, <1>3, <1>4, <1>5, <1>6, <1>7, <1>8, <1>9 DEF PoolPrograms, Goal

\* While main creates and joins, it accesses only the identifiers; and after that
\* no thread is left.
LEMMA MainAccess ==
    ASSUME PoolInv, NEW x \in Accesses(Main)
    PROVE  \/ x[1] = "tids" /\ pc[Main] <= 2 * total
           \/ /\ \A t \in Threads : ~Ready(t)
              /\ x = data \/ (pc[Main] = 2 * total + 1 /\ x \in FreedByMain)
<1>1. ~AtEnd(Main) /\ PoolTypes /\ total \in 0..N
  BY AccessesOf, TypesOf DEF PoolInv
<1>2. pc[Main] \in Nat
  BY <1>1, MainAt
<1>3. CASE pc[Main] <= 2 * total
  <2>1. Here(Main).op \in {"create", "join"}
    BY <1>1, <1>2, <1>3, MainAt DEF Create, Join
  <2> QED
    BY <1>3, <2>1, AccessesOf
<1>4. CASE pc[Main] > 2 * total
  <2>1. ASSUME NEW t \in Threads PROVE ~Ready(t)
    <3>1. t \in Nat
      BY DEF Threads
    <3>2. CASE t <= total
      <4>1. t \in 1..total /\ pc[Main] > total + t
        BY <1>1, <1>2, <1>4, <3>1, <3>2 DEF Threads
      <4> QED
        BY <4>1 DEF PoolInv, Joined, Ready
    <3>3. CASE t > total
      BY <3>3 DEF PoolInv, Created, Ready
    <3> QED
      BY <1>1, <3>1, <3>2, <3>3
  <2>2. x = data \/ (pc[Main] = 2 * total + 1 /\ x \in FreedByMain)
    <3>1. CASE Here(Main) = Read(data)
      BY <3>1, AccessesOf DEF Read
    <3>2. ASSUME NEW xs \in SUBSET FreedByMain, Here(Main) = Free(xs) PROVE x \in FreedByMain
      BY <3>2, AccessesOf DEF Free
    <3> QED
      BY <1>1, <1>4, <3>1, <3>2, MainAt
  <2> QED
    BY <2>1, <2>2
<1> QED
  BY <1>1, <1>2, <1>3, <1>4

\* Two threads that main created access the same location only atomically.
LEMMA ThreadsApart ==
    ASSUME PoolInv, NEW t \in Threads, NEW u \in Threads, t # u, ~(Atomic(t) /\ Atomic(u))
    PROVE  Accesses(t) \cap Accesses(u) = {}
<1> SUFFICES ASSUME NEW x \in Accesses(t), x \in Accesses(u) PROVE FALSE
  OBVIOUS
<1>1. /\ Own(t, x) \/ Guarded(t, x) \/ Shared(t, x) \/ Taken(t, x)
      /\ Own(u, x) \/ Guarded(u, x) \/ Shared(u, x) \/ Taken(u, x)
  BY ThreadAccess
<1>2. t \in Nat /\ u \in Nat /\ t >= 1 /\ u >= 1
  BY DEF Threads
<1>3. /\ Own(t, x) => x[2] = t /\ prog # "per_thread_index_inc"
      /\ Own(u, x) => x[2] = u /\ prog # "per_thread_index_inc"
  BY DEF Own
<1>4. /\ Guarded(t, x) \/ Shared(t, x) => x[2] = 0 /\ x[1] # "datas"
      /\ Guarded(u, x) \/ Shared(u, x) => x[2] = 0 /\ x[1] # "datas"
  BY DEF Guarded, Shared, data, Global
<1>5. /\ Taken(t, x) => prog = "per_thread_index_inc" /\ x[1] = "datas"
      /\ Taken(u, x) => prog = "per_thread_index_inc" /\ x[1] = "datas"
  BY DEF Taken
<1>6. ~(Guarded(t, x) /\ Guarded(u, x))
  BY DEF Guarded, PoolInv, Owned
<1>7. ~(Shared(t, x) /\ Shared(u, x))
  BY DEF Shared
<1>8. ~(Shared(t, x) /\ Guarded(u, x)) /\ ~(Guarded(t, x) /\ Shared(u, x))
  BY DEF Shared, Guarded, HeldSteps, WritesLocked
<1>9. ~(Taken(t, x) /\ Taken(u, x))
  <2> SUFFICES ASSUME Taken(t, x), Taken(u, x) PROVE FALSE
    OBVIOUS
  <2>1. t \in Counted /\ u \in Counted /\ prog = "per_thread_index_inc"
    BY DEF Taken, Counted
  <2>2. local[t] # local[u]
    BY <2>1 DEF PoolInv, Indexed
  <2> QED
    BY <2>2 DEF Taken
<1> QED
  BY <1>1, <1>2, <1>3, <1>4, <1>5, <1>6, <1>7, <1>8, <1>9

\* main and a thread that it created access no common location.
LEMMA MainApart ==
    ASSUME PoolInv, NEW t \in Threads
    PROVE  Accesses(Main) \cap Accesses(t) = {}
<1> SUFFICES ASSUME NEW x \in Accesses(Main), x \in Accesses(t) PROVE FALSE
  OBVIOUS
<1>1. x[1] # "tids"
  BY ThreadAccess DEF Own, OwnData, Guarded, Shared, Taken, data, Global
<1>2. Ready(t)
  BY AccessesOf
<1> QED
  BY <1>1, <1>2, MainAccess

\* So there is no race in these programs.
LEMMA PoolNoRace ==
    ASSUME PoolInv
    PROVE  NoRace
<1> SUFFICES ASSUME NEW t \in All0, NEW u \in All0, t # u,
                    ~(Ready(t) /\ ~AtEnd(t) /\ Atomic(t) /\ Ready(u) /\ ~AtEnd(u) /\ Atomic(u))
             PROVE  Writes(t) \cap (Reads(u) \cup Writes(u)) = {}
  BY DEF NoRace
<1>1. Accesses(t) \cap Accesses(u) = {}
  <2>1. CASE Accesses(t) = {} \/ Accesses(u) = {}
    BY <2>1
  <2>2. CASE Accesses(t) # {} /\ Accesses(u) # {}
    <3>1. ~(Atomic(t) /\ Atomic(u))
      BY <2>2, AccessesOf
    <3> QED
      BY <3>1, ThreadsApart, MainApart DEF All0
  <2> QED
    BY <2>1, <2>2
<1> QED
  BY <1>1 DEF Accesses

\* And no use of what is freed.
LEMMA PoolMemorySafe ==
    ASSUME PoolInv
    PROVE  MemorySafe
<1>1. ASSUME PoolInv, NEW t \in All0, NEW x \in Accesses(t), x \in freed PROVE FALSE
  <2>1. \/ prog = "per_thread_struct" /\ (\E u \in Threads : x = <<"t", u>> /\ pc[u] = 3)
        \/ pc[Main] > 2 * total + 1 /\ x \in FreedByMain
    BY <1>1 DEF PoolInv, FreedKnown
  <2>2. pc[Main] \in Nat /\ total \in Nat
    BY <1>1, TypesOf, NAssumption DEF PoolInv, All0
  <2>3. CASE t \in Threads
    <3>1. Ready(t)
      BY <1>1, AccessesOf
    <3>2. CASE \E u \in Threads : x = <<"t", u>> /\ pc[u] = 3
      <4>1. PICK u \in Threads : x = <<"t", u>> /\ pc[u] = 3
        BY <3>2
      <4>2. pc[t] # 3 /\ prog = "per_thread_struct"
        BY <1>1, <2>3, <4>1, ThreadAccess
      <4>3. Own(t, x)
        BY <1>1, <2>3, <4>1, <4>2, ThreadAccess DEF Guarded, Shared, Taken, data, Global
      <4> QED
        BY <4>1, <4>2, <4>3 DEF Own
    <3>3. CASE pc[Main] > 2 * total + 1
      <4>1. t <= total => pc[Main] > total + t
        BY <2>2, <2>3, <3>3 DEF Threads
      <4>2. t \in Nat /\ t >= 1
        BY <2>3 DEF Threads
      <4>3. CASE t <= total
        BY <1>1, <2>2, <3>1, <4>1, <4>2, <4>3 DEF PoolInv, Joined, Ready
      <4>4. CASE t > total
        BY <1>1, <2>3, <3>1, <4>4 DEF PoolInv, Created, Ready
      <4> QED
        BY <2>2, <4>2, <4>3, <4>4
    <3> QED
      BY <2>1, <3>2, <3>3
  <2>4. CASE t = Main
    <3>1. \/ x[1] = "tids" /\ pc[Main] <= 2 * total
          \/ x = data \/ (pc[Main] = 2 * total + 1 /\ x \in FreedByMain)
      BY <1>1, <2>4, MainAccess
    <3> QED
      BY <2>1, <2>2, <3>1 DEF FreedByMain, data, Global
  <2> QED
    BY <2>3, <2>4 DEF All0
<1>2. ASSUME PoolInv, NEW t \in Threads, NEW x \in Writes(t), Here(t).op = "write_at"
      PROVE  x[2] < total
  <2>1. prog = "per_thread_index_inc" /\ pc[t] = 5 /\ x = <<"datas", local[t]>>
    BY <1>2, ThreadAccess DEF Accesses, Taken
  <2>2. local[t] < Cardinality(Counted)
    BY <1>2, <2>1 DEF PoolInv, Indexed, Counted
  <2>3. Counted \subseteq 1..total
    BY <1>2, TypesOf, NAssumption DEF PoolInv, Created, Counted, Threads
  <2>4. Cardinality(Counted) <= total
    <3>1. total \in Nat /\ IsFiniteSet(1..total) /\ Cardinality(1..total) = total
      <4>1. total \in Nat
        BY <1>2, TypesOf, NAssumption DEF PoolInv
      <4> QED
        BY <4>1, FS_Interval
    <3> QED
      BY <2>3, <3>1, FS_Subset
  <2>5. local[t] \in Nat /\ total \in Nat /\ Cardinality(Counted) \in Nat
    BY <1>2, TypesOf, NAssumption, CountedFinite DEF PoolInv, All0
  <2> QED
    BY <2>1, <2>2, <2>4, <2>5
<1> QED
  BY <1>1, <1>2 DEF MemorySafe, Accesses

-----------------------------------------------------------------------------
(* The other examples: those that hand out a bit mask, wait for a flag or  *)
(* on a condition, join by a counter or each other, or whose main does     *)
(* more between its creations and joins.                                   *)

Others ==
    {"per_thread_struct_tid", "per_thread_array_init", "per_thread_index_bitmask", "value_barrier",
     "simple", "thread_join_counter_outer", "thread_join_counter_inner", "thread_join_binomial"}

Conditions == {"ready_cond", "threads_alive_cond"}

\* The step of main that creates thread t of program p, which creates n threads.
CreationOf(p, n, t) ==
    CASE p = "per_thread_array_init"     -> 2 * t
      [] p = "per_thread_index_bitmask"  -> 4 * t
      [] p = "thread_join_counter_outer" -> 5 * t - 1
      [] p = "thread_join_counter_inner" -> 2 * t - 1
      [] p = "thread_join_binomial"      -> n + 1 - t
      [] OTHER -> t
Creation(t) == CreationOf(prog, total, t)

\* The mutex that thread t has when it is about to take step q.
SectionOf(p, n, t, q) ==
    CASE /\ p = "per_thread_index_bitmask"
         /\ IF t = Main THEN q <= 4 * n /\ q % 4 \in {2, 3} ELSE q \in {3, 4}
           -> "threads_mask_mutex"
      [] /\ p = "value_barrier"
         /\ IF t = Main THEN q - n \in {3, 4, 5} ELSE q \in {2, 3}
           -> "ready_mutex"
      [] \/ /\ p = "thread_join_counter_outer"
            /\ IF t = Main THEN q % 5 \in {2, 3} ELSE q \in {5, 6, 7}
         \/ /\ p = "thread_join_counter_inner"
            /\ IF t = Main THEN q - 2 * n \in {2, 3, 8, 9} ELSE q \in {2, 3, 4, 15, 16, 17}
           -> "threads_alive_mutex"
      [] /\ p = "thread_join_counter_inner"
         /\ IF t = Main THEN q - 2 * n \in {5, 6} ELSE q \in {6, 7, 12, 13}
           -> "keep_alive_mutex"
      [] /\ t # Main
         /\ \/ p \in {"thread_join_counter_outer", "thread_join_binomial"} /\ q \in {2, 3}
            \/ p = "thread_join_counter_inner" /\ q \in {9, 10}
           -> "data_mutex"
      [] OTHER -> "none"
Section(t, q) == SectionOf(prog, total, t, q)

C(t) == Codes[prog][t][total]

\* What is so of every step p of the code of thread t: which mutex it takes,
\* gives up or keeps, and that threads are created before they are joined.
WellPlaced(t, p) ==
    LET a == C(t)[p] IN
    /\ a.op = "lock" => a.m \in Mutexes /\ Section(t, p) = "none" /\ Section(t, p + 1) = a.m
    /\ a.op = "unlock" => a.m \in Mutexes /\ Section(t, p) = a.m /\ Section(t, p + 1) = "none"
    /\ a.op = "await" => a.m \in Mutexes /\ Section(t, p) = a.m /\ a.c \in Conditions
    /\ a.op \notin {"lock", "unlock"} => Section(t, p + 1) = Section(t, p)
    /\ a.op \in {"unless", "repeat"} => t # Main /\ prog = "thread_join_counter_inner"
    /\ a.op = "unless" => p = 6 /\ a.n = 6
    /\ a.op = "repeat" => p = 12 /\ a.n = 5
    /\ a.op = "spin" => t # Main
    /\ a.op \notin {"check", "fetch"}
    /\ a.op \in {"signal", "broadcast"} => a.c \in Conditions
    /\ a.op = "create" => t = Main /\ a.t \in 1..total /\ p = Creation(a.t)
    /\ t = Main /\ a.op # "create" => \A u \in 1..total : p # Creation(u)
    /\ a.op \in {"join", "detach"} =>
          /\ a.t \in 1..total
          /\ Creation(a.t) < IF t = Main THEN p ELSE Creation(t)
    /\ a.op = "join" => prog # "thread_join_counter_inner"
    /\ a.op = "free" => t = Main

-----------------------------------------------------------------------------
(* Their inductive invariant.                                              *)

OtherTypes ==
    /\ prog \in Others /\ total \in Totals(prog)
    /\ status \in [All0 -> {"new", "running", "ended", "failed"}]
    /\ pc \in [All0 -> Nat \ {0}]
    /\ local = [t \in All0 |-> local[t]] /\ mem = [x \in Vars |-> mem[x]]
    /\ owner \in [Mutexes -> All0 \cup {NoOwner}]
    /\ waits \in [All0 -> Conditions \cup {"no", "relock"}]

\* A thread is new until main is past its creation, and has not begun.
CreatedInTurn ==
    \A t \in Threads :
        /\ status[t] = "new" <=> t > total \/ pc[Main] <= Creation(t)
        /\ status[t] \in {"new", "failed"} => pc[t] = 1

\* A thread waits at a wait, and ends at its end.
WaitsAtAwait == \A t \in All0 : waits[t] # "no" => ~AtEnd(t) /\ Here(t).op = "await"
EndedAtEnd   == \A t \in All0 : status[t] = "ended" => AtEnd(t)

\* A thread within a section, and not waiting, has the mutex.
Exclusive ==
    \A t \in All0 :
        waits[t] = "no" /\ Section(t, pc[t]) # "none" => owner[Section(t, pc[t])] = t

\* A thread that is joined is over, and what is freed is what main has freed.
JoinsPassed ==
    \A t \in All0 : \A q \in 1..Len(C(t)) :
        q < pc[t] /\ C(t)[q].op = "join" => status[C(t)[q].t] \in {"ended", "failed"}
FreesPassed ==
    \A x \in freed : \E q \in 1..Len(C(Main)) :
        q < pc[Main] /\ C(Main)[q].op = "free" /\ x \in C(Main)[q].xs

Base ==
    /\ OtherTypes /\ CreatedInTurn /\ WaitsAtAwait /\ EndedAtEnd /\ Exclusive
    /\ JoinsPassed /\ FreesPassed /\ Unfailed

\* value-barrier.c: ready is set once the data is there, and no thread is past
\* its wait before.
ReadyLast ==
    prog = "value_barrier" =>
        /\ mem[Global("ready")] = 1 => pc[Main] > total + 3
        /\ \A t \in Threads : pc[t] >= 3 => mem[Global("ready")] = 1

\* thread-join-counter-outer.c: main counts the threads it creates, and each
\* counts itself out after its write.
AliveOuter == {t \in 1..total : pc[Main] > 5 * t - 3 /\ pc[t] <= 5}
CountedOut ==
    prog = "thread_join_counter_outer" =>
        /\ mem[alive] = Cardinality(AliveOuter)
        /\ pc[Main] > 5 * total + 2 => \A t \in 1..total : pc[t] > 5

\* thread-join-counter-inner.c: each thread counts itself in and out; main waits
\* for all to be in, and then for all to be out.
AliveInner == {t \in 1..total : pc[t] \in 3..15}
CountedInOut ==
    prog = "thread_join_counter_inner" =>
        /\ mem[alive] = Cardinality(AliveInner)
        /\ pc[Main] > 2 * total + 2 => \A t \in 1..total : pc[t] >= 3
        /\ pc[Main] > 2 * total + 8 => \A t \in 1..total : pc[t] >= 16

\* per-thread-index-bitmask.c: a bit is in the mask or is that of one thread, or
\* of main, which took it for the thread that it creates next; and those are
\* among the lowest.
Holders ==
    {t \in 1..total : pc[Main] > Creation(t) /\ pc[t] <= 3}
    \cup (IF pc[Main] <= 4 * total /\ pc[Main] % 4 \in {0, 3} THEN {Main} ELSE {})
mask == mem[Global("threads_mask")]
BitsApart ==
    prog = "per_thread_index_bitmask" /\ Uncreated = {} =>
        /\ mask \subseteq 0..N
        /\ \A b \in 0..N : b \in mask \/ \E h \in Holders : local[h] = b
        /\ \A h \in Holders : local[h] \in 0..total - 1 /\ local[h] \notin mask
        /\ \A g, h \in Holders : g # h => local[g] # local[h]

OtherInv == Base /\ ReadyLast /\ CountedOut /\ CountedInOut /\ BitsApart

-----------------------------------------------------------------------------
(* Their code, step by step.                                               *)

\* Creations and joins in turn.
LEMMA AllOfThem ==
    ASSUME NEW n \in Nat, NEW S, \A i \in 1..n : Create(i) \in S /\ Join(i) \in S
    PROVE  /\ CreateAll(n) \in Seq(S) /\ Len(CreateAll(n)) = n
           /\ JoinAll(n) \in Seq(S) /\ Len(JoinAll(n)) = n
           /\ \A i \in 1..n : CreateAll(n)[i] = Create(i) /\ JoinAll(n)[i] = Join(i)
BY DEF CreateAll, JoinAll

\* The code of the program at hand.
LEMMA CodeIs ==
    ASSUME prog \in Others, total \in 0..N, NEW t \in All0
    PROVE  C(t) = Code(prog, t, total)
BY DEF C, Codes, Others, Names

\* Two steps with the mutex.
LEMMA LockedPair ==
    ASSUME NEW m, NEW a, NEW b
    PROVE  Locked(m, <<a, b>>) = <<Lock(m), a, b, Unlock(m)>>
<1>1. <<Lock(m)>> \o <<a, b>> = <<Lock(m), a, b>>
  BY OneAndTwo
<1>2. <<Lock(m), a, b>> \o <<Unlock(m)>> = <<Lock(m), a, b, Unlock(m)>>
  BY ThreeAndOne
<1>3. Locked(m, <<a, b>>) = (<<Lock(m)>> \o <<a, b>>) \o <<Unlock(m)>>
  BY DEF Locked
<1> QED
  BY <1>1, <1>2, <1>3

\* One step with the mutex, and one or two without.
LEMMA LockedBlock ==
    ASSUME NEW m, NEW a, NEW c, NEW d
    PROVE  /\ Locked(m, <<a>>) \o <<c>> = <<Lock(m), a, Unlock(m), c>>
           /\ Locked(m, <<a>>) \o <<c, d>> = <<Lock(m), a, Unlock(m), c, d>>
<1>1. Locked(m, <<a>>) = <<Lock(m), a, Unlock(m)>>
  BY LockedOne
<1>2. <<Lock(m), a, Unlock(m)>> \o <<c>> = <<Lock(m), a, Unlock(m), c>>
  BY ThreeAndOne
<1>3. <<Lock(m), a, Unlock(m)>> \o <<c, d>> = <<Lock(m), a, Unlock(m), c, d>>
  BY ThreeAndTwo
<1> QED
  BY <1>1, <1>2, <1>3

\* main joins each thread and frees what is its.
LEMMA StructTidMain ==
    ASSUME prog = "per_thread_struct_tid", total \in 0..N
    PROVE  /\ Len(C(Main)) = 3 * total + 1
           /\ \A i \in 1..total :
                /\ C(Main)[i] = Create(i)
                /\ C(Main)[total + 2 * i - 1] = Join(i)
                /\ C(Main)[total + 2 * i] = Free({<<"tids", i>>, <<"t", i>>})
           /\ C(Main)[3 * total + 1] = Free(All("ts", total))
<1> DEFINE f == [i \in 1..total |-> <<Join(i), Free({<<"tids", i>>, <<"t", i>>})>>]
           x1 == Free(All("ts", total))
           S == {Create(i) : i \in 1..total} \cup {Join(i) : i \in 1..total}
                \cup {Free({<<"tids", i>>, <<"t", i>>}) : i \in 1..total}
                \cup {x1}
           a == CreateAll(total)
           b == FlattenSeq(f)
           d == <<x1>>
           c1 == a \o b
           c2 == c1 \o d
<1>1. C(Main) = c2
  <2>1. prog \in Others /\ Main \in All0
    BY DEF Others, All0
  <2> QED
    BY <2>1, CodeIs DEF Code, per_thread_struct_tid, ForAll
<1>2. total \in Nat
  BY NAssumption
<1>3. /\ \A i \in 1..total : Create(i) \in S /\ Join(i) \in S
           /\ Free({<<"tids", i>>, <<"t", i>>}) \in S
      /\ x1 \in S
  OBVIOUS
<1> HIDE DEF S, x1
<1>4. /\ f \in Seq(Seq(S)) /\ Len(f) = total
      /\ \A i \in 1..total : /\ Len(f[i]) = 2
                             /\ f[i][1] = Join(i)
                             /\ f[i][2] = Free({<<"tids", i>>, <<"t", i>>})
  BY <1>2, <1>3
<1>5. a \in Seq(S) /\ Len(a) = total /\ \A i \in 1..total : a[i] = Create(i)
  BY <1>2, <1>3, AllOfThem
<1>6. d \in Seq(S) /\ Len(d) = 1 /\ d[1] = x1
  BY <1>3
<1> HIDE DEF f, a, b, d, c1, c2
<1>7. /\ b \in Seq(S) /\ Len(b) = 2 * total
      /\ \A i \in 1..total:
            /\ b[2 * i - 1] = Join(i)
            /\ b[2 * i] = Free({<<"tids", i>>, <<"t", i>>})
  <2>1. Blocked(S, 2, f) /\ Len(f) = total
    BY <1>4 DEF Blocked
  <2>2. b \in Seq(S) /\ Len(b) = 2 * Len(f)
    BY ONLY <2>1, BlocksOfTwo DEF b
  <2>3. \A i \in 1..Len(f) : b[2 * i - 1] = f[i][1] /\ b[2 * i] = f[i][2]
    BY ONLY <2>1, BlocksOfTwo DEF b
  <2> QED
    BY ONLY <1>4, <2>1, <2>2, <2>3
<1>8. /\ c2 \in Seq(S) /\ Len(c2) = 3 * total + 1
      /\ \A i \in 1..total : c2[i] = a[i]
      /\ \A i \in 1..2 * total : c2[total + i] = b[i]
      /\ \A i \in 1..1 : c2[3 * total + i] = d[i]
  <2>1. a \in Seq(S) /\ b \in Seq(S) /\ d \in Seq(S)
    BY <1>5, <1>7, <1>6
  <2>2. /\ c2 \in Seq(S) /\ Len(c2) = Len(a) + Len(b) + Len(d)
        /\ LiesAt(c2, 0, a) /\ LiesAt(c2, Len(a), b) /\ LiesAt(c2, Len(a) + Len(b), d)
    BY ONLY <2>1, ThreeParts DEF c1, c2
  <2>3. total \in Nat /\ Len(a) = total /\ Len(b) = 2 * total /\ Len(d) = 1
    BY <1>2, <1>5, <1>7, <1>6
  <2> QED
    BY ONLY <2>2, <2>3 DEF LiesAt
<1>9. ASSUME NEW i \in 1..total
      PROVE  c2[i] = Create(i)
  <2>1. i \in 1..total
    BY <1>2
  <2>2. a[i] = Create(i)
    BY <1>5
  <2> QED
    BY <1>2, <1>8, <2>1, <2>2
<1>10. ASSUME NEW i \in 1..total
       PROVE  c2[total + 2 * i - 1] = Join(i)
                /\ c2[total + 2 * i] = Free({<<"tids", i>>, <<"t", i>>})
  <2>1. 2 * i - 1 \in 1..2 * total /\ 2 * i \in 1..2 * total
    BY <1>2
  <2>2. b[2 * i - 1] = Join(i) /\ b[2 * i] = Free({<<"tids", i>>, <<"t", i>>})
    BY <1>7
  <2> QED
    BY <1>2, <1>8, <2>1, <2>2
<1>11. c2[3 * total + 1] = x1
  <2>1. 1 \in 1..1
    BY <1>2
  <2>2. d[1] = x1
    BY <1>6
  <2> QED
    BY <1>2, <1>8, <2>1, <2>2
<1> QED
  BY <1>1, <1>8, <1>9, <1>10, <1>11 DEF x1

\* main writes what each thread reads before it creates it.
LEMMA ArrayInitMain ==
    ASSUME prog = "per_thread_array_init", total \in 0..N
    PROVE  /\ Len(C(Main)) = 3 * total + 1
           /\ \A i \in 1..total :
                /\ C(Main)[2 * i - 1] = Write(<<"is", i>>)
                /\ C(Main)[2 * i] = Create(i)
                /\ C(Main)[2 * total + i] = Join(i)
           /\ C(Main)[3 * total + 1] = Free(All("tids", total) \cup All("is", total))
<1> DEFINE f == [i \in 1..total |-> <<Write(<<"is", i>>), Create(i)>>]
           x1 == Free(All("tids", total) \cup All("is", total))
           S == {Write(<<"is", i>>) : i \in 1..total} \cup {Create(i) : i \in 1..total}
                \cup {Join(i) : i \in 1..total}
                \cup {x1}
           b == FlattenSeq(f)
           a == JoinAll(total)
           d == <<x1>>
           c1 == b \o a
           c2 == c1 \o d
<1>1. C(Main) = c2
  <2>1. prog \in Others /\ Main \in All0
    BY DEF Others, All0
  <2> QED
    BY <2>1, CodeIs DEF Code, per_thread_array_init, ForAll
<1>2. total \in Nat
  BY NAssumption
<1>3. /\ \A i \in 1..total : Write(<<"is", i>>) \in S /\ Create(i) \in S /\ Join(i) \in S
      /\ x1 \in S
  OBVIOUS
<1> HIDE DEF S, x1
<1>4. /\ f \in Seq(Seq(S)) /\ Len(f) = total
      /\ \A i \in 1..total : /\ Len(f[i]) = 2
                             /\ f[i][1] = Write(<<"is", i>>)
                             /\ f[i][2] = Create(i)
  BY <1>2, <1>3
<1>5. a \in Seq(S) /\ Len(a) = total /\ \A i \in 1..total : a[i] = Join(i)
  BY <1>2, <1>3, AllOfThem
<1>6. d \in Seq(S) /\ Len(d) = 1 /\ d[1] = x1
  BY <1>3
<1> HIDE DEF f, b, a, d, c1, c2
<1>7. /\ b \in Seq(S) /\ Len(b) = 2 * total
      /\ \A i \in 1..total:
            /\ b[2 * i - 1] = Write(<<"is", i>>)
            /\ b[2 * i] = Create(i)
  <2>1. Blocked(S, 2, f) /\ Len(f) = total
    BY <1>4 DEF Blocked
  <2>2. b \in Seq(S) /\ Len(b) = 2 * Len(f)
    BY ONLY <2>1, BlocksOfTwo DEF b
  <2>3. \A i \in 1..Len(f) : b[2 * i - 1] = f[i][1] /\ b[2 * i] = f[i][2]
    BY ONLY <2>1, BlocksOfTwo DEF b
  <2> QED
    BY ONLY <1>4, <2>1, <2>2, <2>3
<1>8. /\ c2 \in Seq(S) /\ Len(c2) = 3 * total + 1
      /\ \A i \in 1..2 * total : c2[i] = b[i]
      /\ \A i \in 1..total : c2[2 * total + i] = a[i]
      /\ \A i \in 1..1 : c2[3 * total + i] = d[i]
  <2>1. b \in Seq(S) /\ a \in Seq(S) /\ d \in Seq(S)
    BY <1>7, <1>5, <1>6
  <2>2. /\ c2 \in Seq(S) /\ Len(c2) = Len(b) + Len(a) + Len(d)
        /\ LiesAt(c2, 0, b) /\ LiesAt(c2, Len(b), a) /\ LiesAt(c2, Len(b) + Len(a), d)
    BY ONLY <2>1, ThreeParts DEF c1, c2
  <2>3. total \in Nat /\ Len(b) = 2 * total /\ Len(a) = total /\ Len(d) = 1
    BY <1>2, <1>7, <1>5, <1>6
  <2> QED
    BY ONLY <2>2, <2>3 DEF LiesAt
<1>9. ASSUME NEW i \in 1..total
      PROVE  c2[2 * i - 1] = Write(<<"is", i>>) /\ c2[2 * i] = Create(i)
  <2>1. 2 * i - 1 \in 1..2 * total /\ 2 * i \in 1..2 * total
    BY <1>2
  <2>2. b[2 * i - 1] = Write(<<"is", i>>) /\ b[2 * i] = Create(i)
    BY <1>7
  <2> QED
    BY <1>2, <1>8, <2>1, <2>2
<1>10. ASSUME NEW i \in 1..total
       PROVE  c2[2 * total + i] = Join(i)
  <2>1. i \in 1..total
    BY <1>2
  <2>2. a[i] = Join(i)
    BY <1>5
  <2> QED
    BY <1>2, <1>8, <2>1, <2>2
<1>11. c2[3 * total + 1] = x1
  <2>1. 1 \in 1..1
    BY <1>2
  <2>2. d[1] = x1
    BY <1>6
  <2> QED
    BY <1>2, <1>8, <2>1, <2>2
<1> QED
  BY <1>1, <1>8, <1>9, <1>10, <1>11 DEF x1

\* main takes a bit for each thread, with the mutex, before it creates it.
LEMMA BitmaskMain ==
    ASSUME prog = "per_thread_index_bitmask", total \in 0..N
    PROVE  /\ Len(C(Main)) = 5 * total + 1
           /\ \A i \in 1..total :
                /\ C(Main)[4 * i - 3] = Lock("threads_mask_mutex")
                /\ C(Main)[4 * i - 2] = TakeBit(Global("threads_mask"))
                /\ C(Main)[4 * i - 1] = Unlock("threads_mask_mutex")
                /\ C(Main)[4 * i] = Create(i)
                /\ C(Main)[4 * total + i] = Join(i)
           /\ C(Main)[5 * total + 1] = Free(All("tids", total) \cup All("datas", total))
<1> DEFINE f == [i \in 1..total |-> <<Lock("threads_mask_mutex"),
                                      TakeBit(Global("threads_mask")),
                                      Unlock("threads_mask_mutex"), Create(i)>>]
           x1 == Free(All("tids", total) \cup All("datas", total))
           S == {Create(i) : i \in 1..total} \cup {Join(i) : i \in 1..total}
                \cup {Lock("threads_mask_mutex"), TakeBit(Global("threads_mask")),
                      Unlock("threads_mask_mutex"), x1}
           b == FlattenSeq(f)
           a == JoinAll(total)
           d == <<x1>>
           c1 == b \o a
           c2 == c1 \o d
<1>1. C(Main) = c2
  <2>1. prog \in Others /\ Main \in All0
    BY DEF Others, All0
  <2> QED
    BY <2>1, CodeIs, LockedBlock DEF Code, per_thread_index_bitmask, ForAll
<1>2. total \in Nat
  BY NAssumption
<1>3. /\ \A i \in 1..total : Create(i) \in S /\ Join(i) \in S
      /\ Lock("threads_mask_mutex") \in S
      /\ TakeBit(Global("threads_mask")) \in S
      /\ Unlock("threads_mask_mutex") \in S
      /\ x1 \in S
  OBVIOUS
<1> HIDE DEF S, x1
<1>4. /\ f \in Seq(Seq(S)) /\ Len(f) = total
      /\ \A i \in 1..total : /\ Len(f[i]) = 4
                             /\ f[i][1] = Lock("threads_mask_mutex")
                             /\ f[i][2] = TakeBit(Global("threads_mask"))
                             /\ f[i][3] = Unlock("threads_mask_mutex")
                             /\ f[i][4] = Create(i)
  BY <1>2, <1>3
<1>5. a \in Seq(S) /\ Len(a) = total /\ \A i \in 1..total : a[i] = Join(i)
  BY <1>2, <1>3, AllOfThem
<1>6. d \in Seq(S) /\ Len(d) = 1 /\ d[1] = x1
  BY <1>3
<1> HIDE DEF f, b, a, d, c1, c2
<1>7. /\ b \in Seq(S) /\ Len(b) = 4 * total
      /\ \A i \in 1..total:
            /\ b[4 * i - 3] = Lock("threads_mask_mutex")
            /\ b[4 * i - 2] = TakeBit(Global("threads_mask"))
            /\ b[4 * i - 1] = Unlock("threads_mask_mutex")
            /\ b[4 * i] = Create(i)
  <2>1. Blocked(S, 4, f) /\ Len(f) = total
    BY <1>4 DEF Blocked
  <2>2. /\ FlattenSeq(f) \in Seq(S) /\ Len(FlattenSeq(f)) = 4 * Len(f)
        /\ \A i \in 1..Len(f) :
             /\ FlattenSeq(f)[4 * i - 3] = f[i][1]
             /\ FlattenSeq(f)[4 * i - 2] = f[i][2]
             /\ FlattenSeq(f)[4 * i - 1] = f[i][3]
             /\ FlattenSeq(f)[4 * i] = f[i][4]
    BY ONLY <2>1, BlocksOfFour
  <2> QED
    BY ONLY <1>4, <2>1, <2>2 DEF b
<1>8. /\ c2 \in Seq(S) /\ Len(c2) = 5 * total + 1
      /\ \A i \in 1..4 * total : c2[i] = b[i]
      /\ \A i \in 1..total : c2[4 * total + i] = a[i]
      /\ \A i \in 1..1 : c2[5 * total + i] = d[i]
  <2>1. b \in Seq(S) /\ a \in Seq(S) /\ d \in Seq(S)
    BY <1>7, <1>5, <1>6
  <2>2. /\ c2 \in Seq(S) /\ Len(c2) = Len(b) + Len(a) + Len(d)
        /\ LiesAt(c2, 0, b) /\ LiesAt(c2, Len(b), a) /\ LiesAt(c2, Len(b) + Len(a), d)
    BY ONLY <2>1, ThreeParts DEF c1, c2
  <2>3. total \in Nat /\ Len(b) = 4 * total /\ Len(a) = total /\ Len(d) = 1
    BY <1>2, <1>7, <1>5, <1>6
  <2> QED
    BY ONLY <2>2, <2>3 DEF LiesAt
<1>9. ASSUME NEW i \in 1..total
      PROVE  /\ c2[4 * i - 3] = Lock("threads_mask_mutex")
             /\ c2[4 * i - 2] = TakeBit(Global("threads_mask"))
             /\ c2[4 * i - 1] = Unlock("threads_mask_mutex")
             /\ c2[4 * i] = Create(i)
  <2>1. 4 * i - 3 \in 1..4 * total /\ 4 * i - 2 \in 1..4 * total /\ 4 * i - 1 \in 1..4 * total
        /\ 4 * i \in 1..4 * total
    BY <1>2
  <2>2. b[4 * i - 3] = Lock("threads_mask_mutex")
        /\ b[4 * i - 2] = TakeBit(Global("threads_mask"))
        /\ b[4 * i - 1] = Unlock("threads_mask_mutex") /\ b[4 * i] = Create(i)
    BY <1>7
  <2> QED
    BY <1>2, <1>8, <2>1, <2>2
<1>10. ASSUME NEW i \in 1..total
       PROVE  c2[4 * total + i] = Join(i)
  <2>1. i \in 1..total
    BY <1>2
  <2>2. a[i] = Join(i)
    BY <1>5
  <2> QED
    BY <1>2, <1>8, <2>1, <2>2
<1>11. c2[5 * total + 1] = x1
  <2>1. 1 \in 1..1
    BY <1>2
  <2>2. d[1] = x1
    BY <1>6
  <2> QED
    BY <1>2, <1>8, <2>1, <2>2
<1> QED
  BY <1>1, <1>8, <1>9, <1>10, <1>11 DEF x1

\* main writes the data, sets the flag with the mutex, and wakes the threads.
LEMMA BarrierMain ==
    ASSUME prog = "value_barrier", total \in 0..N
    PROVE  /\ Len(C(Main)) = 2 * total + 6
           /\ \A i \in 1..total :
                /\ C(Main)[i] = Create(i)
                /\ C(Main)[total + 5 + i] = Join(i)
           /\ C(Main)[total + 1] = Write(data)
           /\ C(Main)[total + 2] = Lock("ready_mutex")
           /\ C(Main)[total + 3] = Set(Global("ready"), 1)
           /\ C(Main)[total + 4] = Broadcast("ready_cond")
           /\ C(Main)[total + 5] = Unlock("ready_mutex")
           /\ C(Main)[2 * total + 6] = Free(All("tids", total))
<1> DEFINE x1 == Write(data)
           x2 == Lock("ready_mutex")
           x3 == Set(Global("ready"), 1)
           x4 == Broadcast("ready_cond")
           x5 == Unlock("ready_mutex")
           x6 == Free(All("tids", total))
           S == {Create(i) : i \in 1..total} \cup {Join(i) : i \in 1..total}
                \cup {x1, x2, x3, x4, x5, x6}
           a == CreateAll(total)
           b == <<x1>>
           d == <<x2, x3, x4, x5>>
           e == JoinAll(total)
           g == <<x6>>
           c1 == a \o b
           c2 == c1 \o d
           c3 == c2 \o e
           c4 == c3 \o g
<1>1. C(Main) = c4
  <2>1. prog \in Others /\ Main \in All0
    BY DEF Others, All0
  <2> QED
    BY <2>1, CodeIs, LockedPair DEF Code, value_barrier
<1>2. total \in Nat
  BY NAssumption
<1>3. /\ \A i \in 1..total : Create(i) \in S /\ Join(i) \in S
      /\ x1 \in S
      /\ x2 \in S
      /\ x3 \in S
      /\ x4 \in S
      /\ x5 \in S
      /\ x6 \in S
  OBVIOUS
<1> HIDE DEF S, x1, x2, x3, x4, x5, x6
<1>5. a \in Seq(S) /\ Len(a) = total /\ \A i \in 1..total : a[i] = Create(i)
  BY <1>2, <1>3, AllOfThem
<1>6. b \in Seq(S) /\ Len(b) = 1 /\ b[1] = x1
  BY <1>3
<1>7. d \in Seq(S) /\ Len(d) = 4 /\ d[1] = x2 /\ d[2] = x3 /\ d[3] = x4 /\ d[4] = x5
  BY <1>3
<1>8. e \in Seq(S) /\ Len(e) = total /\ \A i \in 1..total : e[i] = Join(i)
  BY <1>2, <1>3, AllOfThem
<1>9. g \in Seq(S) /\ Len(g) = 1 /\ g[1] = x6
  BY <1>3
<1> HIDE DEF a, b, d, e, g, c1, c2, c3, c4
<1>10. /\ c4 \in Seq(S) /\ Len(c4) = 2 * total + 6
       /\ \A i \in 1..total : c4[i] = a[i]
       /\ \A i \in 1..1 : c4[total + i] = b[i]
       /\ \A i \in 1..4 : c4[total + 1 + i] = d[i]
       /\ \A i \in 1..total : c4[total + 5 + i] = e[i]
       /\ \A i \in 1..1 : c4[2 * total + 5 + i] = g[i]
  <2>1. a \in Seq(S) /\ b \in Seq(S) /\ d \in Seq(S) /\ e \in Seq(S) /\ g \in Seq(S)
    BY <1>5, <1>6, <1>7, <1>8, <1>9
  <2>2. /\ c4 \in Seq(S) /\ Len(c4) = Len(a) + Len(b) + Len(d) + Len(e) + Len(g)
        /\ LiesAt(c4, 0, a) /\ LiesAt(c4, Len(a), b) /\ LiesAt(c4, Len(a) + Len(b), d)
             /\ LiesAt(c4, Len(a) + Len(b) + Len(d), e)
                  /\ LiesAt(c4, Len(a) + Len(b) + Len(d) + Len(e), g)
    BY ONLY <2>1, FiveParts DEF c1, c2, c3, c4
  <2>3. total \in Nat /\ Len(a) = total /\ Len(b) = 1 /\ Len(d) = 4 /\ Len(e) = total /\ Len(g) = 1
    BY <1>2, <1>5, <1>6, <1>7, <1>8, <1>9
  <2>4. \A i \in 1..total : c4[i] = a[i]
    BY ONLY <2>2, <2>3 DEF LiesAt
  <2>5. \A i \in 1..1 : c4[total + i] = b[i]
    BY ONLY <2>2, <2>3 DEF LiesAt
  <2>6. \A i \in 1..4 : c4[total + 1 + i] = d[i]
    BY ONLY <2>2, <2>3 DEF LiesAt
  <2>7. \A i \in 1..total : c4[total + 5 + i] = e[i]
    BY ONLY <2>2, <2>3 DEF LiesAt
  <2>8. \A i \in 1..1 : c4[2 * total + 5 + i] = g[i]
    BY ONLY <2>2, <2>3 DEF LiesAt
  <2> QED
    BY ONLY <2>2, <2>3, <2>4, <2>5, <2>6, <2>7, <2>8
<1>11. ASSUME NEW i \in 1..total
       PROVE  c4[i] = Create(i)
  <2>1. i \in 1..total
    BY <1>2
  <2>2. a[i] = Create(i)
    BY <1>5
  <2> QED
    BY <1>2, <1>10, <2>1, <2>2
<1>12. c4[total + 1] = x1
  <2>1. 1 \in 1..1
    BY <1>2
  <2>2. b[1] = x1
    BY <1>6
  <2> QED
    BY <1>2, <1>10, <2>1, <2>2
<1>13. /\ c4[total + 2] = x2
       /\ c4[total + 3] = x3
       /\ c4[total + 4] = x4
       /\ c4[total + 5] = x5
  <2>1. 1 \in 1..4 /\ 2 \in 1..4 /\ 3 \in 1..4 /\ 4 \in 1..4 /\ total + 2 = total + 1 + 1
        /\ total + 3 = total + 1 + 2 /\ total + 4 = total + 1 + 3 /\ total + 5 = total + 1 + 4
    BY <1>2
  <2>2. d[1] = x2 /\ d[2] = x3 /\ d[3] = x4 /\ d[4] = x5
    BY <1>7
  <2> QED
    BY <1>2, <1>10, <2>1, <2>2
<1>14. ASSUME NEW i \in 1..total
       PROVE  c4[total + 5 + i] = Join(i)
  <2>1. i \in 1..total
    BY <1>2
  <2>2. e[i] = Join(i)
    BY <1>8
  <2> QED
    BY <1>2, <1>10, <2>1, <2>2
<1>15. c4[2 * total + 6] = x6
  <2>1. 1 \in 1..1 /\ 2 * total + 6 = 2 * total + 5 + 1
    BY <1>2
  <2>2. g[1] = x6
    BY <1>9
  <2> QED
    BY <1>2, <1>10, <2>1, <2>2
<1> QED
  BY <1>1, <1>10, <1>11, <1>12, <1>13, <1>14, <1>15 DEF x1, x2, x3, x4, x5, x6

\* main counts each thread before it creates it, and waits until none is left.
LEMMA OuterMain ==
    ASSUME prog = "thread_join_counter_outer", total \in 0..N
    PROVE  /\ Len(C(Main)) = 5 * total + 4
           /\ \A i \in 1..total :
                /\ C(Main)[5 * i - 4] = Lock("threads_alive_mutex")
                /\ C(Main)[5 * i - 3] = Inc(alive)
                /\ C(Main)[5 * i - 2] = Unlock("threads_alive_mutex")
                /\ C(Main)[5 * i - 1] = Create(i)
                /\ C(Main)[5 * i] = Detach(i)
           /\ C(Main)[5 * total + 1] = Lock("threads_alive_mutex")
           /\ C(Main)[5 * total + 2] = Await(alive, 0, "threads_alive_cond", "threads_alive_mutex")
           /\ C(Main)[5 * total + 3] = Unlock("threads_alive_mutex")
           /\ C(Main)[5 * total + 4] = Read(data)
<1> DEFINE f == [i \in 1..total |-> <<Lock("threads_alive_mutex"), Inc(alive),
                                      Unlock("threads_alive_mutex"), Create(i), Detach(i)>>]
           x1 == Lock("threads_alive_mutex")
           x2 == Await(alive, 0, "threads_alive_cond", "threads_alive_mutex")
           x3 == Unlock("threads_alive_mutex")
           x4 == Read(data)
           S == {Create(i) : i \in 1..total} \cup {Detach(i) : i \in 1..total}
                \cup {Lock("threads_alive_mutex"), Inc(alive), Unlock("threads_alive_mutex"),
                      x1, x2, x3, x4}
           b == FlattenSeq(f)
           d == <<x1, x2, x3>>
           e == <<x4>>
           c1 == b \o d
           c2 == c1 \o e
<1>1. C(Main) = c2
  <2>1. prog \in Others /\ Main \in All0
    BY DEF Others, All0
  <2>2. C(Main) = thread_join_counter_outer(Main, total)
    BY <2>1, CodeIs DEF Code
  <2>3. C(Main) = (ForAll(total, LAMBDA i : Locked("threads_alive_mutex", <<Inc(alive)>>)
                          \o <<Create(i), Detach(i)>>)
                   \o AwaitAlive(0)) \o e
    BY <2>2 DEF thread_join_counter_outer
  <2>4. AwaitAlive(0) = d
    BY LockedOne DEF AwaitAlive
  <2>5. ForAll(total, LAMBDA i : Locked("threads_alive_mutex", <<Inc(alive)>>)
               \o <<Create(i), Detach(i)>>) = b
    BY LockedBlock DEF ForAll
  <2> QED
    BY <2>3, <2>4, <2>5
<1>2. total \in Nat
  BY NAssumption
<1>3. /\ \A i \in 1..total : Create(i) \in S /\ Detach(i) \in S
      /\ Lock("threads_alive_mutex") \in S
      /\ Inc(alive) \in S
      /\ Unlock("threads_alive_mutex") \in S
      /\ x1 \in S
      /\ x2 \in S
      /\ x3 \in S
      /\ x4 \in S
  OBVIOUS
<1> HIDE DEF S, x1, x2, x3, x4
<1>4. /\ f \in Seq(Seq(S)) /\ Len(f) = total
      /\ \A i \in 1..total : /\ Len(f[i]) = 5
                             /\ f[i][1] = Lock("threads_alive_mutex")
                             /\ f[i][2] = Inc(alive)
                             /\ f[i][3] = Unlock("threads_alive_mutex")
                             /\ f[i][4] = Create(i)
                             /\ f[i][5] = Detach(i)
  BY <1>2, <1>3
<1>5. d \in Seq(S) /\ Len(d) = 3 /\ d[1] = x1 /\ d[2] = x2 /\ d[3] = x3
  BY <1>3
<1>6. e \in Seq(S) /\ Len(e) = 1 /\ e[1] = x4
  BY <1>3
<1> HIDE DEF f, b, d, e, c1, c2
<1>7. /\ b \in Seq(S) /\ Len(b) = 5 * total
      /\ \A i \in 1..total:
            /\ b[5 * i - 4] = Lock("threads_alive_mutex")
            /\ b[5 * i - 3] = Inc(alive)
            /\ b[5 * i - 2] = Unlock("threads_alive_mutex")
            /\ b[5 * i - 1] = Create(i)
            /\ b[5 * i] = Detach(i)
  <2>1. Blocked(S, 5, f) /\ Len(f) = total
    BY <1>4 DEF Blocked
  <2>2. /\ FlattenSeq(f) \in Seq(S) /\ Len(FlattenSeq(f)) = 5 * Len(f)
        /\ \A i \in 1..Len(f) :
             /\ FlattenSeq(f)[5 * i - 4] = f[i][1]
             /\ FlattenSeq(f)[5 * i - 3] = f[i][2]
             /\ FlattenSeq(f)[5 * i - 2] = f[i][3]
             /\ FlattenSeq(f)[5 * i - 1] = f[i][4]
             /\ FlattenSeq(f)[5 * i] = f[i][5]
    BY ONLY <2>1, BlocksOfFive
  <2> QED
    BY ONLY <1>4, <2>1, <2>2 DEF b
<1>8. /\ c2 \in Seq(S) /\ Len(c2) = 5 * total + 4
      /\ \A i \in 1..5 * total : c2[i] = b[i]
      /\ \A i \in 1..3 : c2[5 * total + i] = d[i]
      /\ \A i \in 1..1 : c2[5 * total + 3 + i] = e[i]
  <2>1. b \in Seq(S) /\ d \in Seq(S) /\ e \in Seq(S)
    BY <1>7, <1>5, <1>6
  <2>2. /\ c2 \in Seq(S) /\ Len(c2) = Len(b) + Len(d) + Len(e)
        /\ LiesAt(c2, 0, b) /\ LiesAt(c2, Len(b), d) /\ LiesAt(c2, Len(b) + Len(d), e)
    BY ONLY <2>1, ThreeParts DEF c1, c2
  <2>3. total \in Nat /\ Len(b) = 5 * total /\ Len(d) = 3 /\ Len(e) = 1
    BY <1>2, <1>7, <1>5, <1>6
  <2> QED
    BY ONLY <2>2, <2>3 DEF LiesAt
<1>9. ASSUME NEW i \in 1..total
      PROVE  /\ c2[5 * i - 4] = Lock("threads_alive_mutex")
             /\ c2[5 * i - 3] = Inc(alive)
             /\ c2[5 * i - 2] = Unlock("threads_alive_mutex")
             /\ c2[5 * i - 1] = Create(i)
             /\ c2[5 * i] = Detach(i)
  <2>1. 5 * i - 4 \in 1..5 * total /\ 5 * i - 3 \in 1..5 * total /\ 5 * i - 2 \in 1..5 * total
        /\ 5 * i - 1 \in 1..5 * total /\ 5 * i \in 1..5 * total
    BY <1>2
  <2>2. b[5 * i - 4] = Lock("threads_alive_mutex") /\ b[5 * i - 3] = Inc(alive)
        /\ b[5 * i - 2] = Unlock("threads_alive_mutex") /\ b[5 * i - 1] = Create(i)
        /\ b[5 * i] = Detach(i)
    BY <1>7
  <2> QED
    BY <1>2, <1>8, <2>1, <2>2
<1>10. /\ c2[5 * total + 1] = x1
       /\ c2[5 * total + 2] = x2
       /\ c2[5 * total + 3] = x3
  <2>1. 1 \in 1..3 /\ 2 \in 1..3 /\ 3 \in 1..3
    BY <1>2
  <2>2. d[1] = x1 /\ d[2] = x2 /\ d[3] = x3
    BY <1>5
  <2> QED
    BY <1>2, <1>8, <2>1, <2>2
<1>11. c2[5 * total + 4] = x4
  <2>1. 1 \in 1..1 /\ 5 * total + 4 = 5 * total + 3 + 1
    BY <1>2
  <2>2. e[1] = x4
    BY <1>6
  <2> QED
    BY <1>2, <1>8, <2>1, <2>2
<1> QED
  BY <1>1, <1>8, <1>9, <1>10, <1>11 DEF x1, x2, x3, x4

\* main waits until all threads are in, lets them go, and waits until none is left.
LEMMA InnerMain ==
    ASSUME prog = "thread_join_counter_inner", total \in 0..N
    PROVE  /\ Len(C(Main)) = 2 * total + 10
           /\ \A i \in 1..total :
                /\ C(Main)[2 * i - 1] = Create(i)
                /\ C(Main)[2 * i] = Detach(i)
           /\ C(Main)[2 * total + 1] = Lock("threads_alive_mutex")
           /\ C(Main)[2 * total + 2] = Await(alive, total, "threads_alive_cond",
                                             "threads_alive_mutex")
           /\ C(Main)[2 * total + 3] = Unlock("threads_alive_mutex")
           /\ C(Main)[2 * total + 4] = Lock("keep_alive_mutex")
           /\ C(Main)[2 * total + 5] = Set(Global("keep_alive"), 0)
           /\ C(Main)[2 * total + 6] = Unlock("keep_alive_mutex")
           /\ C(Main)[2 * total + 7] = Lock("threads_alive_mutex")
           /\ C(Main)[2 * total + 8] = Await(alive, 0, "threads_alive_cond", "threads_alive_mutex")
           /\ C(Main)[2 * total + 9] = Unlock("threads_alive_mutex")
           /\ C(Main)[2 * total + 10] = Read(data)
<1> DEFINE f == [i \in 1..total |-> <<Create(i), Detach(i)>>]
           x1 == Lock("threads_alive_mutex")
           x2 == Await(alive, total, "threads_alive_cond", "threads_alive_mutex")
           x3 == Unlock("threads_alive_mutex")
           x4 == Lock("keep_alive_mutex")
           x5 == Set(Global("keep_alive"), 0)
           x6 == Unlock("keep_alive_mutex")
           x7 == Await(alive, 0, "threads_alive_cond", "threads_alive_mutex")
           x8 == Read(data)
           S == {Create(i) : i \in 1..total} \cup {Detach(i) : i \in 1..total}
                \cup {x1, x2, x3, x4, x5, x6, x7, x8}
           b == FlattenSeq(f)
           d == <<x1, x2, x3>>
           e == <<x4, x5, x6>>
           g == <<x1, x7, x3>>
           h == <<x8>>
           c1 == b \o d
           c2 == c1 \o e
           c3 == c2 \o g
           c4 == c3 \o h
<1>1. C(Main) = c4
  <2>1. prog \in Others /\ Main \in All0
    BY DEF Others, All0
  <2> QED
    BY <2>1, CodeIs, LockedOne DEF Code, thread_join_counter_inner, AwaitAlive, ForAll
<1>2. total \in Nat
  BY NAssumption
<1>3. /\ \A i \in 1..total : Create(i) \in S /\ Detach(i) \in S
      /\ x1 \in S
      /\ x2 \in S
      /\ x3 \in S
      /\ x4 \in S
      /\ x5 \in S
      /\ x6 \in S
      /\ x7 \in S
      /\ x8 \in S
  OBVIOUS
<1> HIDE DEF S, x1, x2, x3, x4, x5, x6, x7, x8
<1>4. /\ f \in Seq(Seq(S)) /\ Len(f) = total
      /\ \A i \in 1..total : /\ Len(f[i]) = 2
                             /\ f[i][1] = Create(i)
                             /\ f[i][2] = Detach(i)
  BY <1>2, <1>3
<1>5. d \in Seq(S) /\ Len(d) = 3 /\ d[1] = x1 /\ d[2] = x2 /\ d[3] = x3
  BY <1>3
<1>6. e \in Seq(S) /\ Len(e) = 3 /\ e[1] = x4 /\ e[2] = x5 /\ e[3] = x6
  BY <1>3
<1>7. g \in Seq(S) /\ Len(g) = 3 /\ g[1] = x1 /\ g[2] = x7 /\ g[3] = x3
  BY <1>3
<1>8. h \in Seq(S) /\ Len(h) = 1 /\ h[1] = x8
  BY <1>3
<1> HIDE DEF f, b, d, e, g, h, c1, c2, c3, c4
<1>9. /\ b \in Seq(S) /\ Len(b) = 2 * total
      /\ \A i \in 1..total:
            /\ b[2 * i - 1] = Create(i)
            /\ b[2 * i] = Detach(i)
  <2>1. Blocked(S, 2, f) /\ Len(f) = total
    BY <1>4 DEF Blocked
  <2>2. b \in Seq(S) /\ Len(b) = 2 * Len(f)
    BY ONLY <2>1, BlocksOfTwo DEF b
  <2>3. \A i \in 1..Len(f) : b[2 * i - 1] = f[i][1] /\ b[2 * i] = f[i][2]
    BY ONLY <2>1, BlocksOfTwo DEF b
  <2> QED
    BY ONLY <1>4, <2>1, <2>2, <2>3
<1>10. /\ c4 \in Seq(S) /\ Len(c4) = 2 * total + 10
       /\ \A i \in 1..2 * total : c4[i] = b[i]
       /\ \A i \in 1..3 : c4[2 * total + i] = d[i]
       /\ \A i \in 1..3 : c4[2 * total + 3 + i] = e[i]
       /\ \A i \in 1..3 : c4[2 * total + 6 + i] = g[i]
       /\ \A i \in 1..1 : c4[2 * total + 9 + i] = h[i]
  <2>1. b \in Seq(S) /\ d \in Seq(S) /\ e \in Seq(S) /\ g \in Seq(S) /\ h \in Seq(S)
    BY <1>9, <1>5, <1>6, <1>7, <1>8
  <2>2. /\ c4 \in Seq(S) /\ Len(c4) = Len(b) + Len(d) + Len(e) + Len(g) + Len(h)
        /\ LiesAt(c4, 0, b) /\ LiesAt(c4, Len(b), d) /\ LiesAt(c4, Len(b) + Len(d), e)
             /\ LiesAt(c4, Len(b) + Len(d) + Len(e), g)
                  /\ LiesAt(c4, Len(b) + Len(d) + Len(e) + Len(g), h)
    BY ONLY <2>1, FiveParts DEF c1, c2, c3, c4
  <2>3. total \in Nat /\ Len(b) = 2 * total /\ Len(d) = 3 /\ Len(e) = 3 /\ Len(g) = 3 /\ Len(h) = 1
    BY <1>2, <1>9, <1>5, <1>6, <1>7, <1>8
  <2>4. \A i \in 1..2 * total : c4[i] = b[i]
    BY ONLY <2>2, <2>3 DEF LiesAt
  <2>5. \A i \in 1..3 : c4[2 * total + i] = d[i]
    BY ONLY <2>2, <2>3 DEF LiesAt
  <2>6. \A i \in 1..3 : c4[2 * total + 3 + i] = e[i]
    BY ONLY <2>2, <2>3 DEF LiesAt
  <2>7. \A i \in 1..3 : c4[2 * total + 6 + i] = g[i]
    BY ONLY <2>2, <2>3 DEF LiesAt
  <2>8. \A i \in 1..1 : c4[2 * total + 9 + i] = h[i]
    BY ONLY <2>2, <2>3 DEF LiesAt
  <2>9. c4 \in Seq(S) /\ Len(c4) = 2 * total + 10
    BY ONLY <2>2, <2>3
  <2> QED
    BY ONLY <2>4, <2>5, <2>6, <2>7, <2>8, <2>9
<1>11. ASSUME NEW i \in 1..total
       PROVE  c4[2 * i - 1] = Create(i) /\ c4[2 * i] = Detach(i)
  <2>1. 2 * i - 1 \in 1..2 * total /\ 2 * i \in 1..2 * total
    BY <1>2
  <2>2. b[2 * i - 1] = Create(i) /\ b[2 * i] = Detach(i)
    BY <1>9
  <2> QED
    BY <1>2, <1>10, <2>1, <2>2
<1>12. /\ c4[2 * total + 1] = x1
       /\ c4[2 * total + 2] = x2
       /\ c4[2 * total + 3] = x3
  <2>1. 1 \in 1..3 /\ 2 \in 1..3 /\ 3 \in 1..3
    BY <1>2
  <2>2. d[1] = x1 /\ d[2] = x2 /\ d[3] = x3
    BY <1>5
  <2> QED
    BY <1>2, <1>10, <2>1, <2>2
<1>13. /\ c4[2 * total + 4] = x4
       /\ c4[2 * total + 5] = x5
       /\ c4[2 * total + 6] = x6
  <2>1. 1 \in 1..3 /\ 2 \in 1..3 /\ 3 \in 1..3 /\ 2 * total + 4 = 2 * total + 3 + 1
        /\ 2 * total + 5 = 2 * total + 3 + 2 /\ 2 * total + 6 = 2 * total + 3 + 3
    BY <1>2
  <2>2. e[1] = x4 /\ e[2] = x5 /\ e[3] = x6
    BY <1>6
  <2> QED
    BY <1>2, <1>10, <2>1, <2>2
<1>14. /\ c4[2 * total + 7] = x1
       /\ c4[2 * total + 8] = x7
       /\ c4[2 * total + 9] = x3
  <2>1. 1 \in 1..3 /\ 2 \in 1..3 /\ 3 \in 1..3 /\ 2 * total + 7 = 2 * total + 6 + 1
        /\ 2 * total + 8 = 2 * total + 6 + 2 /\ 2 * total + 9 = 2 * total + 6 + 3
    BY <1>2
  <2>2. g[1] = x1 /\ g[2] = x7 /\ g[3] = x3
    BY <1>7
  <2> QED
    BY <1>2, <1>10, <2>1, <2>2
<1>15. c4[2 * total + 10] = x8
  <2>1. 1 \in 1..1 /\ 2 * total + 10 = 2 * total + 9 + 1
    BY <1>2
  <2>2. h[1] = x8
    BY <1>8
  <2> QED
    BY <1>2, <1>10, <2>1, <2>2
<1> QED
  BY <1>1, <1>10, <1>11, <1>12, <1>13, <1>14, <1>15 DEF x1, x2, x3, x4, x5, x6, x7, x8

\* The threads' code, but for those that join each other.
LEMMA ShortThreads ==
    ASSUME prog \in Others, total \in 0..N, NEW t \in Threads
    PROVE  /\ prog = "per_thread_struct_tid" => C(t) = <<Write(<<"t", t>>)>>
           /\ prog = "per_thread_array_init" => C(t) = <<Read(<<"is", t>>)>>
           /\ prog = "per_thread_index_bitmask" =>
                C(t) = <<WriteAt("datas"), Lock("threads_mask_mutex"),
                         GiveBit(Global("threads_mask")),
                         Unlock("threads_mask_mutex")>>
           /\ prog = "value_barrier" =>
                C(t) = <<Lock("ready_mutex"),
                         Await(Global("ready"), 1, "ready_cond", "ready_mutex"),
                         Unlock("ready_mutex"), Read(data)>>
           /\ prog = "simple" /\ t = 1 => C(t) = <<Inc(Global("value")),
                                                   AtomicSet(Global("flag"), 1)>>
           /\ prog = "simple" /\ t # 1 => C(t) = <<Spin(Global("flag"), 1), Inc(Global("value"))>>
           /\ prog = "thread_join_counter_outer" =>
                C(t) = <<Lock("data_mutex"), Write(data), Unlock("data_mutex"),
                         Lock("threads_alive_mutex"), Dec(alive), Signal("threads_alive_cond"),
                         Unlock("threads_alive_mutex")>>
           /\ prog = "thread_join_binomial" => C(t) = SetData \o Workers(t - 1, total)
<1>1. t \in All0 /\ t # Main
  BY NAssumption DEF All0, Threads, Main
<1>2. C(t) = Code(prog, t, total)
  BY <1>1, CodeIs
<1>3. CASE prog \in {"per_thread_struct_tid", "per_thread_array_init", "simple",
                     "thread_join_binomial"}
  BY <1>1, <1>2, <1>3 DEF Code, per_thread_struct_tid, per_thread_array_init, simple,
     thread_join_binomial
<1>4. CASE prog = "per_thread_index_bitmask"
  <2> DEFINE m == "threads_mask_mutex"
             x == GiveBit(Global("threads_mask"))
  <2>1. C(t) = <<WriteAt("datas")>> \o Locked(m, <<x>>)
    BY <1>1, <1>2, <1>4 DEF Code, per_thread_index_bitmask
  <2> QED
    BY <1>4, <2>1, LockedOne, OneAndThree
<1>5. CASE prog = "value_barrier"
  <2> DEFINE m == "ready_mutex"
             x == Await(Global("ready"), 1, "ready_cond", "ready_mutex")
  <2>1. C(t) = Locked(m, <<x>>) \o <<Read(data)>>
    BY <1>1, <1>2, <1>5 DEF Code, value_barrier
  <2> QED
    BY <1>5, <2>1, LockedBlock
<1>6. CASE prog = "thread_join_counter_outer"
  <2>1. C(t) = SetData \o SignalAlive(Dec(alive))
    BY <1>1, <1>2, <1>6 DEF Code, thread_join_counter_outer
  <2>2. SetData = <<Lock("data_mutex"), Write(data), Unlock("data_mutex")>>
    BY LockedOne DEF SetData
  <2>3. SignalAlive(Dec(alive)) = <<Lock("threads_alive_mutex"), Dec(alive),
                                    Signal("threads_alive_cond"),
                                    Unlock("threads_alive_mutex")>>
    BY LockedPair DEF SignalAlive
  <2> QED
    BY <1>6, <2>1, <2>2, <2>3, ThreeAndFour
<1> QED
  BY <1>3, <1>4, <1>5, <1>6 DEF Others

\* A thread of thread-join-counter-inner.c.
LEMMA InnerThread ==
    ASSUME prog = "thread_join_counter_inner", total \in 0..N, NEW t \in Threads
    PROVE  C(t) =
             <<Lock("threads_alive_mutex"), Inc(alive), Signal("threads_alive_cond"),
               Unlock("threads_alive_mutex"),
               Lock("keep_alive_mutex"), Unless(Global("keep_alive"), 1, 6),
               Unlock("keep_alive_mutex"),
               Lock("data_mutex"), Write(data), Unlock("data_mutex"),
               Lock("keep_alive_mutex"), Repeat(Global("keep_alive"), 1, 5),
               Unlock("keep_alive_mutex"),
               Lock("threads_alive_mutex"), Dec(alive), Signal("threads_alive_cond"),
               Unlock("threads_alive_mutex")>>
<1>1. t \in All0 /\ t # Main /\ prog \in Others
  BY NAssumption DEF All0, Threads, Main, Others
<1>2. C(t) = (SignalAlive(Inc(alive)) \o KeepAlive(SetData)) \o SignalAlive(Dec(alive))
  BY <1>1, CodeIs DEF Code, thread_join_counter_inner
<1> DEFINE S(x) == <<Lock("threads_alive_mutex"), x, Signal("threads_alive_cond"),
                     Unlock("threads_alive_mutex")>>
           D == <<Lock("data_mutex"), Write(data), Unlock("data_mutex")>>
           K == <<Lock("keep_alive_mutex"), Unless(Global("keep_alive"), 1, 6),
                  Unlock("keep_alive_mutex"),
                  Lock("data_mutex"), Write(data), Unlock("data_mutex"),
                  Lock("keep_alive_mutex"), Repeat(Global("keep_alive"), 1, 5),
                  Unlock("keep_alive_mutex")>>
<1>3. \A x : SignalAlive(x) = S(x)
  BY LockedPair DEF SignalAlive
<1>4. KeepAlive(SetData) = K
  <2>1. SetData = D
    BY LockedOne DEF SetData
  <2>2. Len(D) = 3 /\ 3 + 3 = 6 /\ 3 + 2 = 5
    OBVIOUS
  <2>3. KeepAlive(D) =
            (<<Lock("keep_alive_mutex"), Unless(Global("keep_alive"), 1, 6),
               Unlock("keep_alive_mutex")>> \o D)
            \o <<Lock("keep_alive_mutex"), Repeat(Global("keep_alive"), 1, 5),
                 Unlock("keep_alive_mutex")>>
    BY <2>2 DEF KeepAlive
  <2> QED
    BY <2>1, <2>3, ThreeAndThree, SixAndThree
<1>5. C(t) = (S(Inc(alive)) \o K) \o S(Dec(alive))
  BY <1>2, <1>3, <1>4
<1> DEFINE e1 == Lock("threads_alive_mutex")
           e2 == Inc(alive)
           e3 == Signal("threads_alive_cond")
           e4 == Unlock("threads_alive_mutex")
           e5 == Lock("keep_alive_mutex")
           e6 == Unless(Global("keep_alive"), 1, 6)
           e7 == Unlock("keep_alive_mutex")
           e8 == Lock("data_mutex")
           e9 == Write(data)
           e10 == Unlock("data_mutex")
           e12 == Repeat(Global("keep_alive"), 1, 5)
           e15 == Dec(alive)
<1>6. C(t) = (<<e1, e2, e3, e4>> \o <<e5, e6, e7, e8, e9, e10, e5, e12, e7>>) \o <<e1, e15, e3, e4>>
  BY <1>5
<1> HIDE DEF e1, e2, e3, e4, e5, e6, e7, e8, e9, e10, e12, e15
<1>7. C(t) = <<e1, e2, e3, e4, e5, e6, e7, e8, e9, e10, e5, e12, e7>> \o <<e1, e15, e3, e4>>
  BY ONLY <1>6, FourAndNine
<1>8. C(t) = <<e1, e2, e3, e4, e5, e6, e7, e8, e9, e10, e5, e12, e7, e1, e15, e3, e4>>
  BY ONLY <1>7, ThirteenAndFour
<1> QED
  BY ONLY <1>8 DEF e1, e2, e3, e4, e5, e6, e7, e8, e9, e10, e12, e15
\* main creates the threads and joins them.
LEMMA SimpleMain ==
    ASSUME prog = "simple", total \in 0..N
    PROVE  /\ Len(C(Main)) = 2 * total
           /\ \A i \in 1..total : C(Main)[i] = Create(i) /\ C(Main)[total + i] = Join(i)
<1> DEFINE S == {Create(i) : i \in 1..total} \cup {Join(i) : i \in 1..total}
<1>1. C(Main) = CreateAll(total) \o JoinAll(total)
  <2>1. prog \in Others /\ Main \in All0
    BY DEF Others, All0
  <2> QED
    BY <2>1, CodeIs DEF Code, simple, Main
<1>2. \A i \in 1..total : Create(i) \in S /\ Join(i) \in S
  OBVIOUS
<1> HIDE DEF S
<1> QED
  BY <1>1, <1>2, CreatesAndJoins

\* main creates the threads last to first, and joins the first.
LEMMA BinomialMain ==
    ASSUME prog = "thread_join_binomial", total \in 0..N
    PROVE  /\ Len(C(Main)) = total + 3
           /\ \A i \in 1..total : C(Main)[total + 1 - i] = Create(i)
           /\ C(Main)[total + 1] = Join(1)
           /\ C(Main)[total + 2] = Free(All("tids", total))
           /\ C(Main)[total + 3] = Read(data)
<1> DEFINE x1 == Join(1)
           x2 == Free(All("tids", total))
           x3 == Read(data)
           S == {Create(i) : i \in 1..total} \cup {Join(i) : i \in 1..total} \cup {x1, x2, x3}
           a == CreateAll(total)
           b == Reverse(a)
           d == <<x1, x2, x3>>
           c == b \o d
<1>1. C(Main) = c
  <2>1. prog \in Others /\ Main \in All0
    BY DEF Others, All0
  <2> QED
    BY <2>1, CodeIs DEF Code, thread_join_binomial
<1>2. total \in Nat
  BY NAssumption
<1>3. /\ \A i \in 1..total : Create(i) \in S /\ Join(i) \in S
      /\ x1 \in S /\ x2 \in S /\ x3 \in S
  OBVIOUS
<1> HIDE DEF S, x1, x2, x3
<1>4. a \in Seq(S) /\ Len(a) = total /\ \A i \in 1..total : a[i] = Create(i)
  BY <1>2, <1>3, AllOfThem
<1>5. d \in Seq(S) /\ Len(d) = 3 /\ d[1] = x1 /\ d[2] = x2 /\ d[3] = x3
  BY <1>3
<1> HIDE DEF a, d
<1>6. b \in Seq(S) /\ Len(b) = total /\ \A i \in 1..total : b[i] = a[total - i + 1]
  <2>1. b = [i \in 1..total |-> a[total - i + 1]]
    BY <1>4 DEF Reverse
  <2>2. \A i \in 1..total : a[total - i + 1] \in S
    BY <1>2, <1>4
  <2> QED
    BY <1>2, <2>1, <2>2
<1> HIDE DEF b, c
<1>7. /\ c \in Seq(S) /\ Len(c) = total + 3
      /\ \A i \in 1..total : c[i] = b[i]
      /\ \A i \in 1..3 : c[total + i] = d[i]
  <2> DEFINE n == 3
  <2>1. b \in Seq(S) /\ Len(b) = total /\ d \in Seq(S) /\ Len(d) = n /\ total \in Nat /\ n \in Nat
    BY <1>2, <1>5, <1>6
  <2> HIDE DEF n
  <2>2. /\ c \in Seq(S) /\ Len(c) = total + n
        /\ \A i \in 1..total : c[i] = b[i]
        /\ \A i \in 1..n : c[total + i] = d[i]
    BY ONLY <2>1, InTwoParts DEF c
  <2> QED
    BY <2>2 DEF n
<1>8. ASSUME NEW i \in 1..total PROVE c[total + 1 - i] = Create(i)
  <2>1. total + 1 - i \in 1..total /\ total - (total + 1 - i) + 1 = i
    BY <1>2
  <2> QED
    BY <1>4, <1>6, <1>7, <2>1
<1>9. c[total + 1] = x1 /\ c[total + 2] = x2 /\ c[total + 3] = x3
  <2>1. 1 \in 1..3 /\ 2 \in 1..3 /\ 3 \in 1..3
    OBVIOUS
  <2> QED
    BY <1>5, <1>7, <2>1
<1> QED
  BY <1>1, <1>7, <1>8, <1>9 DEF x1, x2, x3

-----------------------------------------------------------------------------
(* Their steps.                                                            *)

\* Where their code is well placed, and every thread begins outside a section.
Placed ==
    \A t \in All0 :
        Len(C(t)) \in Nat /\ Section(t, 1) = "none" /\ \A p \in 1..Len(C(t)) : WellPlaced(t, p)

\* Thread t goes on to its next step, or jumps.
MovesOn(t) ==
    \E q \in Nat \ {0} :
        /\ pc' = [pc EXCEPT ![t] = q]
        /\ q = pc[t] + 1 \/ (Here(t).op = "unless" /\ q = 13) \/ (Here(t).op = "repeat" /\ q = 7)

\* What becomes of the mutexes.
Hands(t) ==
    /\ Here(t).op = "lock" =>
            owner[Here(t).m] = NoOwner /\ owner' = [owner EXCEPT ![Here(t).m] = t]
    /\ Here(t).op = "unlock" => owner' = [owner EXCEPT ![Here(t).m] = NoOwner]
    /\ Here(t).op \notin {"lock", "unlock"} => owner' = owner

\* A thread that waits goes on waiting, or for the mutex.
Wakes ==
    /\ waits' \in [All0 -> Conditions \cup {"no", "relock"}]
    /\ \A u \in All0 : waits'[u] = "no" <=> waits[u] = "no"

\* A creation succeeds or fails; the rest creates nothing.
Creates(t) ==
    /\ Here(t).op # "create" => status' = status
    /\ Here(t).op = "create" =>
         \/ /\ status' = [status EXCEPT ![Here(t).t] = "running"]
            /\ local' = [local EXCEPT ![Here(t).t] = local[t]]
         \/ status' = [status EXCEPT ![Here(t).t] = "failed"] /\ local' = local

\* What becomes of the locals and of the memory.
Stores(t) ==
    /\ mem' = NewMem(t)
    /\ Here(t).op = "take_bit" => local' = [local EXCEPT ![t] = Min(mem[Here(t).x])]
    /\ Here(t).op \notin {"take_bit", "create"} => local' = local
    /\ Here(t).op = "free" => freed' = freed \cup Here(t).xs
    /\ Here(t).op # "free" => freed' = freed

\* A join is of a thread that is over, or was never created.
Joins(t) ==
    /\ Here(t).op = "join" => status[Here(t).t] # "running"
    /\ Here(t).op \in {"join", "detach"} =>
         outcome' = outcome \/ (NamesNobody(t) /\ outcome' = "undefined")
    /\ Here(t).op \notin {"join", "detach"} => outcome' = outcome
    /\ Here(t).op = "await" => mem[Here(t).x] = Here(t).v

GoesOn(t) ==
    /\ Ready(t) /\ ~AtEnd(t) /\ UNCHANGED <<prog, total>>
    /\ MovesOn(t) /\ Hands(t) /\ Wakes /\ Creates(t) /\ Stores(t) /\ Joins(t)

\* Thread t is to wait, or has the mutex back.
Halts(t) ==
    /\ Ready(t) /\ ~AtEnd(t) /\ Here(t).op = "await"
    /\ waits' = [waits EXCEPT ![t] = Here(t).c]
    /\ owner' = [owner EXCEPT ![Here(t).m] = NoOwner]
    /\ UNCHANGED <<prog, total, status, pc, local, mem, freed, outcome>>

\* Where a thread is, its code is well placed.
LEMMA HereIs ==
    ASSUME OtherTypes, Placed, NEW t \in All0, ~AtEnd(t)
    PROVE  pc[t] \in 1..Len(C(t)) /\ Here(t) = C(t)[pc[t]] /\ WellPlaced(t, pc[t])
<1> DEFINE l == Len(C(t))
<1>1. pc[t] \in Nat \ {0} /\ l \in Nat /\ ~(pc[t] > l)
  BY DEF OtherTypes, Placed, AtEnd, C
<1> HIDE DEF l
<1>2. pc[t] \in 1..l
  BY <1>1
<1> QED
  BY <1>2 DEF l, Placed, Here, C

\* The memory changes where a step stores.
LEMMA NewMemSame ==
    ASSUME NEW t,
           Here(t).op \notin {"set", "atomic_set", "inc", "atomic_inc", "dec", "take_bit",
                              "give_bit"}
    PROVE  NewMem(t) = mem
BY DEF NewMem

\* A step is the end of the thread, a wait, the end of a wait, or goes on.
LEMMA StepIs ==
    ASSUME OtherTypes, WaitsAtAwait, Placed, NEW t \in All0, Step(t)
    PROVE  EndStep(t) \/ Relock(t) \/ Halts(t) \/ GoesOn(t)
<1> DEFINE op == Here(t).op
           a == Here(t)
<1>1. ASSUME ~AtEnd(t) PROVE WellPlaced(t, pc[t]) /\ a = C(t)[pc[t]] /\ pc[t] \in Nat \ {0}
  BY <1>1, HereIs DEF OtherTypes
<1>2. /\ waits \in [All0 -> Conditions \cup {"no", "relock"}]
      /\ local = [u \in All0 |-> local[u]] /\ pc[t] \in Nat \ {0}
  BY DEF OtherTypes
<1>3. ASSUME UNCHANGED waits PROVE Wakes
  BY <1>2, <1>3 DEF Wakes
<1>4. ASSUME pc' = [pc EXCEPT ![t] = @ + 1] PROVE MovesOn(t)
  <2>1. pc' = [pc EXCEPT ![t] = pc[t] + 1]
    BY <1>4
  <2>2. pc[t] + 1 \in Nat \ {0}
    BY <1>2
  <2> QED
    BY <2>1, <2>2 DEF MovesOn
<1>5. CASE LockStep(t)
  <2>1. ~AtEnd(t) /\ op = "lock" /\ Ready(t)
    BY <1>5 DEF LockStep, At
  <2>2. Stores(t)
    BY <1>5, <2>1, NewMemSame DEF LockStep, Stores
  <2>3. Creates(t) /\ Joins(t) /\ Hands(t)
    BY <1>5, <2>1 DEF LockStep, Creates, Joins, Hands, Goes
  <2> QED
    BY <1>3, <1>4, <1>5, <2>1, <2>2, <2>3 DEF LockStep, Goes, Go, GoesOn
<1>6. CASE UnlockStep(t)
  <2>1. ~AtEnd(t) /\ op = "unlock" /\ Ready(t)
    BY <1>6 DEF UnlockStep, At
  <2>2. Stores(t)
    BY <1>6, <2>1, NewMemSame DEF UnlockStep, Stores
  <2>3. Creates(t) /\ Joins(t) /\ Hands(t)
    BY <1>6, <2>1 DEF UnlockStep, Creates, Joins, Hands, Goes
  <2> QED
    BY <1>3, <1>4, <1>6, <2>1, <2>2, <2>3 DEF UnlockStep, Goes, Go, GoesOn
<1>7. CASE AwaitStep(t)
  <2>1. ~AtEnd(t) /\ op = "await" /\ Ready(t)
    BY <1>7 DEF AwaitStep, At
  <2>2. CASE mem[a.x] # a.v
    BY <1>7, <2>1, <2>2 DEF AwaitStep, Halts
  <2>3. CASE mem[a.x] = a.v
    <3>1. Goes(t) /\ UNCHANGED <<owner, waits, local, mem, freed>>
      BY <1>7, <2>3 DEF AwaitStep
    <3>2. Stores(t)
      BY <2>1, <3>1, NewMemSame DEF Stores
    <3>3. Creates(t) /\ Joins(t) /\ Hands(t)
      BY <2>1, <2>3, <3>1 DEF Creates, Joins, Hands, Goes
    <3> QED
      BY <1>3, <1>4, <2>1, <3>1, <3>2, <3>3 DEF Goes, Go, GoesOn
  <2> QED
    BY <2>2, <2>3
<1>8. CASE SignalStep(t)
  <2>1. ~AtEnd(t) /\ op = "signal" /\ Ready(t)
    BY <1>8 DEF SignalStep, At
  <2>2. Stores(t)
    BY <1>8, <2>1, NewMemSame DEF SignalStep, Stores
  <2>3. Creates(t) /\ Joins(t) /\ Hands(t)
    BY <1>8, <2>1 DEF SignalStep, Creates, Joins, Hands, Goes
  <2>4. Wakes
    <3>1. a.c \in Conditions
      BY <1>1, <2>1 DEF WellPlaced
    <3>2. CASE UNCHANGED waits
      BY <1>3, <3>2
    <3>3. ASSUME NEW u \in Waiting(a.c), waits' = [waits EXCEPT ![u] = "relock"] PROVE Wakes
      <4>1. u \in All0 /\ waits[u] # "no"
        BY <3>1 DEF Waiting, Conditions
      <4> QED
        BY <1>2, <3>3, <4>1 DEF Wakes
    <3> QED
      BY <1>8, <3>2, <3>3 DEF SignalStep
  <2> QED
    BY <1>4, <1>8, <2>1, <2>2, <2>3, <2>4 DEF SignalStep, Goes, Go, GoesOn
<1>9. CASE BroadcastStep(t)
  <2>1. ~AtEnd(t) /\ op = "broadcast" /\ Ready(t)
    BY <1>9 DEF BroadcastStep, At
  <2>2. Stores(t)
    BY <1>9, <2>1, NewMemSame DEF BroadcastStep, Stores
  <2>3. Creates(t) /\ Joins(t) /\ Hands(t)
    BY <1>9, <2>1 DEF BroadcastStep, Creates, Joins, Hands, Goes
  <2>4. Wakes
    <3>1. a.c \in Conditions
      BY <1>1, <2>1 DEF WellPlaced
    <3>2. \A u \in Waiting(a.c) : waits[u] # "no"
      BY <3>1 DEF Waiting, Conditions
    <3> QED
      BY <1>2, <1>9, <3>2 DEF BroadcastStep, Wakes
  <2> QED
    BY <1>4, <1>9, <2>1, <2>2, <2>3, <2>4 DEF BroadcastStep, Goes, Go, GoesOn
<1>10. CASE AccessStep(t)
  <2>1. /\ ~AtEnd(t) /\ Ready(t) /\ a = C(t)[pc[t]]
        /\ op \in {"read", "write", "set", "atomic_set", "inc", "dec", "atomic_inc", "fetch",
                   "write_at", "take_bit", "give_bit"}
    BY <1>1, <1>10 DEF AccessStep, At
  <2>2. op # "fetch"
    BY <1>1, <2>1 DEF WellPlaced
  <2>3. Stores(t)
    BY <1>2, <1>10, <2>1, <2>2 DEF AccessStep, Stores
  <2>4. Creates(t) /\ Joins(t) /\ Hands(t)
    BY <1>10, <2>1 DEF AccessStep, Creates, Joins, Hands, Goes
  <2> QED
    BY <1>3, <1>4, <1>10, <2>1, <2>3, <2>4 DEF AccessStep, Goes, Go, GoesOn
<1>11. CASE FreeStep(t)
  <2>1. ~AtEnd(t) /\ op = "free" /\ Ready(t)
    BY <1>11 DEF FreeStep, At
  <2>2. Stores(t)
    BY <1>11, <2>1, NewMemSame DEF FreeStep, Stores
  <2>3. Creates(t) /\ Joins(t) /\ Hands(t)
    BY <1>11, <2>1 DEF FreeStep, Creates, Joins, Hands, Goes
  <2> QED
    BY <1>3, <1>4, <1>11, <2>1, <2>2, <2>3 DEF FreeStep, Goes, Go, GoesOn
<1>12. CASE BranchStep(t)
  <2>1. /\ ~AtEnd(t) /\ op \in {"unless", "spin", "repeat"} /\ Ready(t)
        /\ UNCHANGED <<prog, total, status, local, mem, owner, waits, freed, outcome>>
    BY <1>12 DEF BranchStep, At, Go, world
  <2>2. Stores(t)
    BY <2>1, NewMemSame DEF Stores
  <2>3. Creates(t) /\ Joins(t) /\ Hands(t)
    BY <2>1 DEF Creates, Joins, Hands
  <2>4. MovesOn(t)
    <3>1. /\ op = "unless" => pc[t] = 6 /\ a.n = 6
          /\ op = "repeat" => pc[t] = 12 /\ a.n = 5
      BY <1>1, <2>1 DEF WellPlaced
    <3>2. CASE pc' = [pc EXCEPT ![t] = @ + 1]
      BY <1>4, <3>2
    <3>3. CASE op = "unless" /\ pc' = [pc EXCEPT ![t] = @ + (a.n + 1)]
      <4>1. pc' = [pc EXCEPT ![t] = 13]
        <5> DEFINE z == pc[t] + (a.n + 1)
        <5>1. z = 13
          BY <3>1, <3>3
        <5>2. pc' = [pc EXCEPT ![t] = z]
          BY <3>3
        <5> QED
          BY <5>1, <5>2
      <4> QED
        <5>1. 13 \in Nat \ {0}
          OBVIOUS
        <5> QED
          BY <3>3, <4>1, <5>1 DEF MovesOn
    <3>4. CASE op = "repeat" /\ pc' = [pc EXCEPT ![t] = @ - a.n]
      <4>1. pc' = [pc EXCEPT ![t] = 7]
        <5> DEFINE z == pc[t] - a.n
        <5>1. z = 7
          BY <3>1, <3>4
        <5>2. pc' = [pc EXCEPT ![t] = z]
          BY <3>4
        <5> QED
          BY <5>1, <5>2
      <4> QED
        <5>1. 7 \in Nat \ {0}
          OBVIOUS
        <5> QED
          BY <3>4, <4>1, <5>1 DEF MovesOn
    <3> QED
      BY <1>12, <3>2, <3>3, <3>4 DEF BranchStep, Go, At
  <2> QED
    BY <1>3, <2>1, <2>2, <2>3, <2>4 DEF GoesOn
<1>13. CASE CheckStep(t)
  BY <1>1, <1>13 DEF CheckStep, At, WellPlaced
<1>14. CASE CreateStep(t)
  <2>1. /\ ~AtEnd(t) /\ op = "create" /\ Ready(t) /\ UNCHANGED <<mem, owner, waits, freed, outcome>>
    BY <1>14 DEF CreateStep, At, world
  <2>2. Stores(t)
    BY <2>1, NewMemSame DEF Stores
  <2>3. Creates(t) /\ Joins(t) /\ Hands(t)
    BY <1>14, <2>1 DEF CreateStep, Creates, Joins, Hands
  <2> QED
    BY <1>3, <1>4, <1>14, <2>1, <2>2, <2>3 DEF CreateStep, Go, GoesOn
<1>15. CASE JoinStep(t)
  <2>1. /\ ~AtEnd(t) /\ op \in {"join", "detach"} /\ Ready(t)
        /\ UNCHANGED <<status, local, mem, owner, waits, freed>>
    BY <1>15 DEF JoinStep, At, world
  <2>2. Stores(t)
    BY <2>1, NewMemSame DEF Stores
  <2>3. Creates(t) /\ Joins(t) /\ Hands(t)
    BY <1>15, <2>1 DEF JoinStep, Creates, Joins, Hands
  <2> QED
    BY <1>3, <1>4, <1>15, <2>1, <2>2, <2>3 DEF JoinStep, Go, GoesOn
<1> QED
  BY <1>5, <1>6, <1>7, <1>8, <1>9, <1>10, <1>11, <1>12, <1>13, <1>14, <1>15 DEF Step

-----------------------------------------------------------------------------
(* The common part of the invariant.                                       *)

\* The numbers involved.
LEMMA Numbers ==
    ASSUME OtherTypes
    PROVE  /\ total \in Nat /\ total <= N /\ Main \in All0 /\ Main \notin Threads
           /\ Threads \subseteq All0 /\ All0 \subseteq Nat /\ NoOwner \notin All0
           /\ \A t \in Threads : t >= 1 /\ t <= N
           /\ \A t \in All0 : t = Main \/ t \in Threads
           /\ 1..total \subseteq Threads
<1>1. total \in 0..N /\ N \in Nat
  BY NAssumption DEF OtherTypes, Totals
<1> QED
  BY <1>1 DEF All0, Threads, Main, NoOwner

\* Each thread has its own creation.
LEMMA CreationsApart ==
    ASSUME OtherTypes
    PROVE  /\ \A u \in 1..total : Creation(u) \in Nat
           /\ \A u, v \in 1..total : u # v => Creation(u) # Creation(v)
<1>1. total \in Nat
  BY Numbers
<1>2. CASE prog \in {"per_thread_array_init", "per_thread_index_bitmask",
                     "thread_join_counter_outer",
                     "thread_join_counter_inner"}
  BY <1>1, <1>2 DEF Creation, CreationOf
<1>3. CASE prog \notin {"per_thread_array_init", "per_thread_index_bitmask",
                        "thread_join_counter_outer",
                     "thread_join_counter_inner"}
  BY <1>1, <1>3 DEF Creation, CreationOf
<1> QED
  BY <1>2, <1>3

\* A thread that is named by a join or a detach has been created, or could not be.
LEMMA NamedIsCreated ==
    ASSUME OtherTypes, CreatedInTurn, Placed, NEW t \in All0, Ready(t), ~AtEnd(t),
           Here(t).op \in {"join", "detach"}
    PROVE  /\ Here(t).t \in 1..total /\ Here(t).t \in Threads /\ status[Here(t).t] # "new"
           /\ NamesNobody(t) => Uncreated # {}
<1> DEFINE u == Here(t).t
<1>1. /\ u \in 1..total /\ Creation(u) < IF t = Main THEN pc[t] ELSE Creation(t)
  BY HereIs DEF WellPlaced
<1>2. /\ u \in Threads /\ u <= total /\ Creation(u) \in Nat /\ pc[Main] \in Nat
      /\ total \in Nat /\ u \in Nat /\ t \in Nat /\ (t = Main \/ t \in Threads)
  BY <1>1, Numbers, CreationsApart DEF OtherTypes
<1> HIDE DEF u
<1>3. ~(pc[Main] <= Creation(u))
  <2>1. CASE t = Main
    BY <1>1, <1>2, <2>1
  <2>2. CASE t # Main
    <3>1. t \in Threads /\ status[t] = "running"
      BY <1>2, <2>2 DEF Ready
    <3>2. ~(t > total) /\ ~(pc[Main] <= Creation(t))
      BY <3>1 DEF CreatedInTurn
    <3>3. t \in 1..total
      BY <1>2, <3>1, <3>2, Numbers
    <3>4. Creation(t) \in Nat
      BY <3>3, CreationsApart
    <3> QED
      BY <1>1, <1>2, <2>2, <3>2, <3>4
  <2> QED
    BY <2>1, <2>2
<1>4. status[u] # "new"
  BY <1>2, <1>3 DEF CreatedInTurn
<1>5. ASSUME status[u] = "failed" PROVE u \in Uncreated
  BY <1>2, <1>5 DEF Uncreated
<1> QED
  BY <1>1, <1>2, <1>4, <1>5 DEF NamesNobody, u

\* Where a thread's next step is.
LEMMA NextStep ==
    ASSUME OtherTypes, Placed, NEW t \in All0, ~AtEnd(t), MovesOn(t)
    PROVE  /\ pc' \in [All0 -> Nat \ {0}] /\ \A u \in All0 : u # t => pc'[u] = pc[u]
           /\ pc[t] \in Nat \ {0}
           /\ \/ pc'[t] = pc[t] + 1
              \/ Here(t).op = "unless" /\ pc[t] = 6 /\ pc'[t] = 13
              \/ Here(t).op = "repeat" /\ pc[t] = 12 /\ pc'[t] = 7
           /\ Here(t).op \in {"unless", "repeat"} => t # Main /\ prog = "thread_join_counter_inner"
<1>1. pc \in [All0 -> Nat \ {0}]
  BY DEF OtherTypes
<1>2. PICK q \in Nat \ {0} :
        /\ pc' = [pc EXCEPT ![t] = q]
        /\ q = pc[t] + 1 \/ (Here(t).op = "unless" /\ q = 13) \/ (Here(t).op = "repeat" /\ q = 7)
  BY DEF MovesOn
<1>3. /\ Here(t).op = "unless" => pc[t] = 6
      /\ Here(t).op = "repeat" => pc[t] = 12
      /\ Here(t).op \in {"unless", "repeat"} => t # Main /\ prog = "thread_join_counter_inner"
  BY HereIs DEF WellPlaced
<1> QED
  BY <1>1, <1>2, <1>3

\* The types, after a step that goes on.
LEMMA GoesOnTypes ==
    ASSUME OtherTypes, CreatedInTurn, Placed, NEW t \in All0, GoesOn(t)
    PROVE  OtherTypes'
<1> DEFINE a == Here(t)
<1>1. ~AtEnd(t) /\ WellPlaced(t, pc[t]) /\ a = C(t)[pc[t]]
  BY HereIs DEF GoesOn
<1>2. pc' \in [All0 -> Nat \ {0}]
  BY <1>1, NextStep DEF GoesOn
<1>3. prog' = prog /\ total' = total
  BY DEF GoesOn
<1>4. status' \in [All0 -> {"new", "running", "ended", "failed"}]
  BY DEF GoesOn, Creates, OtherTypes
<1>5. local' = [u \in All0 |-> local'[u]]
  <2>1. local = [u \in All0 |-> local[u]]
    BY DEF OtherTypes
  <2>2. \/ local' = local \/ local' = [local EXCEPT ![t] = Min(mem[a.x])]
        \/ local' = [local EXCEPT ![a.t] = local[t]]
    BY DEF GoesOn, Stores, Creates
  <2> QED
    BY <2>1, <2>2
<1>6. mem' = [x \in Vars |-> mem'[x]]
  <2>1. mem = [x \in Vars |-> mem[x]] /\ mem' = NewMem(t)
    BY DEF OtherTypes, GoesOn, Stores
  <2>2. \/ mem' = mem
        \/ \E v : mem' = [mem EXCEPT ![a.x] = v]
    BY <2>1 DEF NewMem
  <2> QED
    BY <2>1, <2>2
<1>7. owner' \in [Mutexes -> All0 \cup {NoOwner}]
  <2>1. owner \in [Mutexes -> All0 \cup {NoOwner}]
    BY DEF OtherTypes
  <2> QED
    BY <2>1 DEF GoesOn, Hands
<1>8. waits' \in [All0 -> Conditions \cup {"no", "relock"}]
  BY DEF GoesOn, Wakes
<1> QED
  BY <1>2, <1>3, <1>4, <1>5, <1>6, <1>7, <1>8 DEF OtherTypes

\* The sections, creations and code are those of before.
LEMMA SameProgram ==
    ASSUME prog' = prog, total' = total, NEW t
    PROVE  /\ Len(C(t))' = Len(C(t)) /\ C(t)' = C(t)
           /\ Creation(t)' = Creation(t)
           /\ (AtEnd(t))' <=> pc'[t] > Len(C(t))
           /\ Here(t)' = C(t)[pc'[t]]
           /\ Section(t, pc[t])' = Section(t, pc'[t])
BY DEF C, Creation, AtEnd, Here, Section

\* Who is created, after a step that goes on.
LEMMA GoesOnCreated ==
    ASSUME OtherTypes, CreatedInTurn, Placed, NEW t \in All0, GoesOn(t)
    PROVE  CreatedInTurn'
<1> DEFINE a == Here(t)
<1>1. ~AtEnd(t) /\ WellPlaced(t, pc[t]) /\ a = C(t)[pc[t]] /\ status[t] = "running"
  BY HereIs DEF GoesOn, Ready
<1>2. /\ pc' \in [All0 -> Nat \ {0}] /\ \A u \in All0 : u # t => pc'[u] = pc[u]
      /\ pc \in [All0 -> Nat \ {0}] /\ (t = Main => pc'[t] = pc[t] + 1)
  BY <1>1, NextStep DEF GoesOn, OtherTypes
<1>3. prog' = prog /\ total' = total
  BY DEF GoesOn
<1> SUFFICES ASSUME NEW u \in Threads
             PROVE  /\ status'[u] = "new" <=> u > total \/ pc'[Main] <= Creation(u)
                    /\ status'[u] \in {"new", "failed"} => pc'[u] = 1
  BY <1>3, SameProgram DEF CreatedInTurn
<1>4. /\ status[u] = "new" <=> u > total \/ pc[Main] <= Creation(u)
      /\ status[u] \in {"new", "failed"} => pc[u] = 1
  BY DEF CreatedInTurn
<1>5. u \in Nat /\ u >= 1 /\ total \in Nat /\ u # Main /\ Main \in All0 /\ u \in All0
  BY Numbers
<1>6. u <= total => u \in 1..total /\ Creation(u) \in Nat
  BY <1>5, CreationsApart
<1>7. CASE a.op # "create"
  <2>1. status' = status
    BY <1>7 DEF GoesOn, Creates
  <2>2. t = Main /\ u <= total => pc[t] # Creation(u)
    BY <1>1, <1>6, <1>7 DEF WellPlaced
  <2>3. u <= total => (pc'[Main] <= Creation(u) <=> pc[Main] <= Creation(u))
    BY <1>2, <1>5, <1>6, <2>2
  <2>4. status[u] \in {"new", "failed"} => pc'[u] = 1
    BY <1>1, <1>2, <1>4, <1>5
  <2> QED
    BY <1>4, <1>5, <2>1, <2>3, <2>4
<1>8. CASE a.op = "create"
  <2>1. t = Main /\ a.t \in 1..total /\ pc[t] = Creation(a.t) /\ a.t \in All0
    BY <1>1, <1>8, Numbers DEF WellPlaced
  <2>2. \/ status' = [status EXCEPT ![a.t] = "running"]
             \/ status' = [status EXCEPT ![a.t] = "failed"]
    BY <1>8 DEF GoesOn, Creates
  <2>3. status \in [All0 -> {"new", "running", "ended", "failed"}]
    BY DEF OtherTypes
  <2>4. pc'[u] = pc[u]
    BY <1>2, <1>5, <2>1
  <2>5. CASE u = a.t
    <3>1. status'[u] \in {"running", "failed"} /\ u <= total
      BY <1>5, <2>1, <2>2, <2>3, <2>5
    <3>2. ~(pc'[Main] <= Creation(u)) /\ status[u] = "new"
      BY <1>2, <1>4, <1>5, <1>6, <2>1, <2>5, <3>1
    <3> QED
      BY <1>4, <1>5, <2>4, <3>1, <3>2
  <2>6. CASE u # a.t
    <3>1. status'[u] = status[u]
      BY <1>5, <2>2, <2>3, <2>6
    <3>2. u <= total => (pc'[Main] <= Creation(u) <=> pc[Main] <= Creation(u))
      <4>1. u <= total => pc[Main] # Creation(u)
        BY <1>6, <2>1, <2>6, CreationsApart
      <4> QED
        BY <1>2, <1>5, <1>6, <2>1, <4>1
    <3> QED
      BY <1>4, <1>5, <2>4, <3>1, <3>2
  <2> QED
    BY <2>5, <2>6
<1> QED
  BY <1>7, <1>8

\* Waits, ends and sections, after a step that goes on.
LEMMA GoesOnPlaces ==
    ASSUME OtherTypes, WaitsAtAwait, EndedAtEnd, Exclusive, CreatedInTurn, Placed,
           NEW t \in All0, GoesOn(t)
    PROVE  WaitsAtAwait' /\ EndedAtEnd' /\ Exclusive'
<1> DEFINE a == Here(t)
<1>1. /\ ~AtEnd(t) /\ WellPlaced(t, pc[t]) /\ a = C(t)[pc[t]]
      /\ status[t] = "running" /\ waits[t] = "no"
  BY HereIs DEF GoesOn, Ready
<1>2. /\ pc' \in [All0 -> Nat \ {0}] /\ \A u \in All0 : u # t => pc'[u] = pc[u]
      /\ pc \in [All0 -> Nat \ {0}]
      /\ \/ pc'[t] = pc[t] + 1
         \/ a.op = "unless" /\ pc[t] = 6 /\ pc'[t] = 13
         \/ a.op = "repeat" /\ pc[t] = 12 /\ pc'[t] = 7
      /\ a.op \in {"unless", "repeat"} => t # Main /\ prog = "thread_join_counter_inner"
  BY <1>1, NextStep DEF GoesOn, OtherTypes
<1>3. prog' = prog /\ total' = total
  BY DEF GoesOn
<1>4. \A u \in All0 : waits'[u] = "no" <=> waits[u] = "no"
  BY DEF GoesOn, Wakes
<1>5. WaitsAtAwait'
  <2> SUFFICES ASSUME NEW u \in All0, waits'[u] # "no"
               PROVE  ~(pc'[u] > Len(C(u))) /\ C(u)[pc'[u]].op = "await"
    BY <1>3, SameProgram DEF WaitsAtAwait
  <2>1. u # t /\ ~AtEnd(u) /\ Here(u).op = "await"
    BY <1>1, <1>4 DEF WaitsAtAwait
  <2> QED
    BY <1>2, <2>1 DEF AtEnd, Here, C
<1>6. EndedAtEnd'
  <2> SUFFICES ASSUME NEW u \in All0, status'[u] = "ended" PROVE pc'[u] > Len(C(u))
    BY <1>3, SameProgram DEF EndedAtEnd
  <2>1. status[u] = "ended"
    <3>1. status' = status \/ \E v : status' = [status EXCEPT ![a.t] = v] /\ v # "ended"
      BY DEF GoesOn, Creates
    <3>2. status \in [All0 -> {"new", "running", "ended", "failed"}]
      BY DEF OtherTypes
    <3> QED
      BY <3>1, <3>2
  <2> QED
    BY <1>1, <1>2, <2>1 DEF EndedAtEnd, AtEnd, C
<1>7. Exclusive'
  <2> SUFFICES ASSUME NEW u \in All0, waits[u] = "no", Section(u, pc'[u]) # "none"
               PROVE  owner'[Section(u, pc'[u])] = u
    BY <1>3, <1>4, SameProgram DEF Exclusive
  <2>1. owner \in [Mutexes -> All0 \cup {NoOwner}] /\ u # NoOwner /\ t # NoOwner
    BY Numbers DEF OtherTypes
  <2>2. \A v \in All0 : waits[v] = "no" /\ Section(v, pc[v]) # "none"
          => owner[Section(v, pc[v])] = v
    BY DEF Exclusive
  <2>3. CASE a.op = "lock"
    <3>1. /\ a.m \in Mutexes /\ Section(t, pc'[t]) = a.m
          /\ owner[a.m] = NoOwner /\ owner' = [owner EXCEPT ![a.m] = t]
      BY <1>1, <1>2, <2>3 DEF WellPlaced, GoesOn, Hands
    <3> QED
      BY <1>2, <2>1, <2>2, <3>1
  <2>4. CASE a.op = "unlock"
    <3>1. /\ a.m \in Mutexes /\ Section(t, pc[t]) = a.m /\ Section(t, pc'[t]) = "none"
          /\ owner' = [owner EXCEPT ![a.m] = NoOwner]
      BY <1>1, <1>2, <2>4 DEF WellPlaced, GoesOn, Hands
    <3>2. a.m # "none"
      BY <3>1 DEF Mutexes
    <3>3. u # t /\ pc'[u] = pc[u] /\ owner[a.m] = t
      BY <1>1, <1>2, <2>2, <3>1, <3>2
    <3> QED
      BY <2>1, <2>2, <3>1, <3>3
  <2>5. CASE a.op \notin {"lock", "unlock"}
    <3>1. owner' = owner /\ Section(t, pc[t] + 1) = Section(t, pc[t])
      BY <1>1, <2>5 DEF WellPlaced, GoesOn, Hands
    <3>2. Section(t, pc'[t]) = Section(t, pc[t])
      <4>1. CASE pc'[t] = pc[t] + 1
        BY <3>1, <4>1
      <4>2. CASE a.op \in {"unless", "repeat"}
        <5>1. t # Main /\ prog = "thread_join_counter_inner"
          BY <1>2, <4>2
        <5>2. \A q \in {6, 7, 12, 13} : Section(t, q) = "keep_alive_mutex"
          BY <5>1 DEF Section, SectionOf
        <5>3. pc'[t] = pc[t] + 1 \/ (pc[t] = 6 /\ pc'[t] = 13) \/ (pc[t] = 12 /\ pc'[t] = 7)
          BY <1>2
        <5> QED
          BY <3>1, <5>2, <5>3
      <4> QED
        BY <1>2, <4>1, <4>2
    <3> QED
      BY <1>1, <1>2, <2>2, <3>1, <3>2
  <2> QED
    BY <2>3, <2>4, <2>5
<1> QED
  BY <1>5, <1>6, <1>7

\* Joins and frees, and the outcome, after a step that goes on.
LEMMA GoesOnPasses ==
    ASSUME OtherTypes, CreatedInTurn, JoinsPassed, FreesPassed, Unfailed, Placed,
           NEW t \in All0, GoesOn(t)
    PROVE  JoinsPassed' /\ FreesPassed' /\ Unfailed'
<1> DEFINE a == Here(t)
<1>1. /\ ~AtEnd(t) /\ WellPlaced(t, pc[t]) /\ a = C(t)[pc[t]] /\ pc[t] \in 1..Len(C(t))
      /\ status[t] = "running" /\ outcome = "running" /\ Ready(t)
  BY HereIs DEF GoesOn, Ready
<1>2. /\ pc' \in [All0 -> Nat \ {0}] /\ \A u \in All0 : u # t => pc'[u] = pc[u]
      /\ pc \in [All0 -> Nat \ {0}]
      /\ pc'[t] = pc[t] + 1 \/ prog = "thread_join_counter_inner"
      /\ a.op \in {"unless", "repeat"} => t # Main
      /\ pc'[t] = pc[t] + 1 \/ a.op \in {"unless", "repeat"}
  BY <1>1, NextStep DEF GoesOn, OtherTypes
<1>3. prog' = prog /\ total' = total
  BY DEF GoesOn
<1>4. \A u \in Threads : status[u] \in {"ended", "failed"} => status'[u] = status[u]
  <2> SUFFICES ASSUME NEW u \in Threads, status[u] \in {"ended", "failed"}
      PROVE status'[u] = status[u]
    OBVIOUS
  <2>1. CASE a.op # "create"
    BY <2>1 DEF GoesOn, Creates
  <2>2. CASE a.op = "create"
    <3>1. a.t \in 1..total /\ pc[Main] = Creation(a.t)
      BY <1>1, <2>2 DEF WellPlaced
    <3>2. status[a.t] = "new"
      <4>1. a.t \in Threads /\ pc[Main] \in Nat
        BY <1>2, <3>1, Numbers
      <4> QED
        BY <3>1, <4>1 DEF CreatedInTurn
    <3>3. status' = [status EXCEPT ![a.t] = "running"]
            \/ status' = [status EXCEPT ![a.t] = "failed"]
      BY <2>2 DEF GoesOn, Creates
    <3>4. u \in All0 /\ status \in [All0 -> {"new", "running", "ended", "failed"}]
      BY Numbers DEF OtherTypes
    <3> QED
      BY <3>2, <3>3, <3>4
  <2> QED
    BY <2>1, <2>2
<1>5. JoinsPassed'
  <2> SUFFICES ASSUME NEW u \in All0, NEW q \in 1..Len(C(u)), q < pc'[u], C(u)[q].op = "join"
               PROVE  status'[C(u)[q].t] \in {"ended", "failed"}
    BY <1>3, SameProgram DEF JoinsPassed
  <2>1. prog # "thread_join_counter_inner" /\ C(u)[q].t \in Threads /\ q \in Nat
    <3>1. WellPlaced(u, q) /\ Len(C(u)) \in Nat
      BY DEF Placed
    <3> QED
      BY <3>1, Numbers DEF WellPlaced
  <2>2. CASE q < pc[u]
    BY <1>4, <2>1, <2>2 DEF JoinsPassed
  <2>3. CASE ~(q < pc[u])
    <3>1. u = t /\ q = pc[t]
      BY <1>2, <2>1, <2>3
    <3>2. a.op = "join"
      BY <1>1, <3>1
    <3>3. status[a.t] \notin {"running", "new"} /\ a.t \in Threads
      BY <1>1, <3>2, NamedIsCreated DEF GoesOn, Joins
    <3>4. status[a.t] \in {"ended", "failed"}
      BY <3>3, Numbers DEF OtherTypes
    <3> QED
      BY <1>1, <1>4, <3>1, <3>3, <3>4
  <2> QED
    BY <2>2, <2>3
<1>6. FreesPassed'
  <2> SUFFICES ASSUME NEW x \in freed'
               PROVE  \E q \in 1..Len(C(Main)) : q < pc'[Main] /\ C(Main)[q].op = "free"
                        /\ x \in C(Main)[q].xs
    BY <1>3, SameProgram DEF FreesPassed
  <2>1. CASE x \in freed
    <3>1. PICK q \in 1..Len(C(Main)) : q < pc[Main] /\ C(Main)[q].op = "free" /\ x \in C(Main)[q].xs
      BY <2>1 DEF FreesPassed
    <3>2. q < pc'[Main]
      <4>1. Len(C(Main)) \in Nat /\ Main \in All0
        BY Numbers DEF Placed
      <4>2. q \in Nat
        BY <4>1
      <4> QED
        BY <1>2, <3>1, <4>1, <4>2
    <3> QED
      BY <3>1, <3>2
  <2>2. CASE x \notin freed
    <3>1. a.op = "free" /\ x \in a.xs
      BY <2>2 DEF GoesOn, Stores
    <3>2. t = Main
      BY <1>1, <3>1 DEF WellPlaced
    <3>3. pc[t] < pc'[t]
      BY <1>2, <3>1
    <3> QED
      BY <1>1, <3>1, <3>2, <3>3
  <2> QED
    BY <2>1, <2>2
<1>7. Unfailed'
  <2>1. CASE outcome' = outcome
    BY <1>1, <2>1 DEF Unfailed
  <2>2. CASE outcome' # outcome
    <3>1. a.op \in {"join", "detach"} /\ outcome' = "undefined" /\ NamesNobody(t)
      BY <2>2 DEF GoesOn, Joins
    <3>2. Uncreated # {}
      BY <1>1, <3>1, NamedIsCreated
    <3>3. status' = status
      BY <3>1 DEF GoesOn, Creates
    <3>4. Uncreated' = Uncreated
      BY <3>3 DEF Uncreated
    <3> QED
      BY <3>1, <3>2, <3>4 DEF Unfailed
  <2> QED
    BY <2>1, <2>2
<1> QED
  BY <1>5, <1>6, <1>7

\* The common part, after a step that goes on.
LEMMA GoesOnKeeps ==
    ASSUME Base, Placed, NEW t \in All0, GoesOn(t)
    PROVE  Base'
BY GoesOnTypes, GoesOnCreated, GoesOnPlaces, GoesOnPasses DEF Base

\* After the end of a thread.
LEMMA EndKeeps ==
    ASSUME Base, Placed, NEW t \in All0, EndStep(t)
    PROVE  Base'
<1> USE DEF Base
<1>1. /\ AtEnd(t) /\ status[t] = "running" /\ status' = [status EXCEPT ![t] = "ended"]
      /\ outcome' = (IF t = Main THEN "returned" ELSE outcome) /\ outcome = "running"
      /\ UNCHANGED <<prog, total, pc, local, mem, owner, waits, freed>>
  BY DEF EndStep, Ready, world
<1>2. status \in [All0 -> {"new", "running", "ended", "failed"}]
  BY DEF OtherTypes
<1>3. OtherTypes'
  BY <1>1, <1>2 DEF OtherTypes
<1>4. CreatedInTurn'
  BY <1>1, <1>2, SameProgram, Numbers DEF CreatedInTurn
<1>5. WaitsAtAwait' /\ Exclusive' /\ FreesPassed'
  BY <1>1, SameProgram DEF WaitsAtAwait, Exclusive, FreesPassed, AtEnd, Here, C, Section
<1>6. EndedAtEnd'
  BY <1>1, <1>2, SameProgram DEF EndedAtEnd, AtEnd, C
<1>7. JoinsPassed'
  <2> SUFFICES ASSUME NEW u \in All0, NEW q \in 1..Len(C(u)), q < pc[u], C(u)[q].op = "join"
               PROVE  status'[C(u)[q].t] \in {"ended", "failed"}
    BY <1>1, SameProgram DEF JoinsPassed
  <2>1. status[C(u)[q].t] \in {"ended", "failed"}
    BY DEF JoinsPassed
  <2>2. C(u)[q].t \in All0
    BY Numbers DEF Placed, WellPlaced
  <2> QED
    BY <1>1, <1>2, <2>1, <2>2
<1>8. Unfailed'
  <2>1. outcome' \in {"running", "returned"}
    BY <1>1
  <2> QED
    BY <2>1 DEF Unfailed
<1> QED
  BY <1>3, <1>4, <1>5, <1>6, <1>7, <1>8

\* After a step by which only who waits and who has the mutex changes.
LEMMA WaitKeeps ==
    ASSUME Base, Placed, NEW t \in All0, Halts(t) \/ Relock(t) \/ SpuriousWakeup(t)
    PROVE  Base'
<1> USE DEF Base
<1>1. UNCHANGED <<prog, total, status, pc, local, mem, freed, outcome>>
  BY DEF Halts, Relock, SpuriousWakeup
<1>2. /\ waits \in [All0 -> Conditions \cup {"no", "relock"}]
      /\ owner \in [Mutexes -> All0 \cup {NoOwner}] /\ NoOwner \notin All0
  BY Numbers DEF OtherTypes
<1>3. /\ ~AtEnd(t) /\ Here(t).op = "await" /\ Here(t).m \in Mutexes /\ Here(t).c \in Conditions
      /\ Section(t, pc[t]) = Here(t).m
  <2>1. ~AtEnd(t) /\ Here(t).op = "await"
    BY DEF Halts, Relock, SpuriousWakeup, WaitsAtAwait
  <2> QED
    BY <2>1, HereIs DEF WellPlaced
<1>4. /\ waits' \in [All0 -> Conditions \cup {"no", "relock"}]
      /\ owner' \in [Mutexes -> All0 \cup {NoOwner}]
      /\ \A u \in All0 : u # t => waits'[u] = waits[u]
  BY <1>2, <1>3 DEF Halts, Relock, SpuriousWakeup
<1>5. OtherTypes'
  BY <1>1, <1>4 DEF OtherTypes
<1>6. CreatedInTurn' /\ EndedAtEnd' /\ JoinsPassed' /\ FreesPassed' /\ Unfailed'
  BY <1>1, SameProgram DEF CreatedInTurn, EndedAtEnd, JoinsPassed, FreesPassed, Unfailed, Uncreated,
     AtEnd, Here, C, Creation
<1>7. WaitsAtAwait'
  BY <1>1, <1>3, <1>4 DEF WaitsAtAwait, AtEnd, Here
<1>8. Exclusive'
  <2> SUFFICES ASSUME NEW u \in All0, waits'[u] = "no", Section(u, pc[u]) # "none"
               PROVE  owner'[Section(u, pc[u])] = u
    BY <1>1, SameProgram DEF Exclusive
  <2>1. u # t => waits[u] = "no" /\ owner[Section(u, pc[u])] = u
    BY <1>4 DEF Exclusive
  <2>2. CASE Halts(t)
    <3>1. /\ waits'[t] # "no" /\ waits[t] = "no" /\ owner' = [owner EXCEPT ![Here(t).m] = NoOwner]
      BY <1>2, <1>3, <2>2 DEF Halts, Ready, Conditions
    <3>2. u # t /\ owner[Here(t).m] = t
      <4>1. Here(t).m # "none"
        BY <1>3 DEF Mutexes
      <4> QED
        BY <1>3, <3>1, <4>1 DEF Exclusive
    <3> QED
      BY <1>2, <2>1, <3>1, <3>2
  <2>3. CASE Relock(t)
    <3>1. owner[Here(t).m] = NoOwner /\ owner' = [owner EXCEPT ![Here(t).m] = t]
      BY <2>3 DEF Relock
    <3> QED
      BY <1>2, <1>3, <2>1, <3>1
  <2>4. CASE SpuriousWakeup(t)
    <3>1. waits'[t] = "relock" /\ owner' = owner
      BY <1>2, <2>4 DEF SpuriousWakeup
    <3> QED
      BY <2>1, <3>1
  <2> QED
    BY <2>2, <2>3, <2>4
<1> QED
  BY <1>5, <1>6, <1>7, <1>8

\* Only who waits and who has the mutex changes.
Quiet == UNCHANGED <<prog, total, status, pc, local, mem, freed, outcome>>

\* Every step keeps the common part, and goes on, ends a thread or is quiet.
LEMMA BaseKept ==
    ASSUME Base, Placed, [Next]_vars
    PROVE  /\ Base'
           /\ Quiet \/ (\E t \in All0 : GoesOn(t)) \/ (\E t \in All0 : EndStep(t))
<1>1. CASE UNCHANGED vars
  <2>1. Base'
    BY <1>1, SameProgram DEF vars, world, Base, OtherTypes, CreatedInTurn, WaitsAtAwait, EndedAtEnd,
       Exclusive, JoinsPassed, FreesPassed, Unfailed, Uncreated, AtEnd, Here, C, Creation, Section
  <2> QED
    BY <1>1, <2>1 DEF vars, world, Quiet
<1>2. ASSUME NEW t \in All0, SpuriousWakeup(t) PROVE Base' /\ Quiet
  BY <1>2, WaitKeeps DEF SpuriousWakeup, Quiet
<1>3. ASSUME NEW t \in All0, Step(t) PROVE Base' /\ (Quiet \/ GoesOn(t) \/ EndStep(t))
  <2>1. EndStep(t) \/ Relock(t) \/ Halts(t) \/ GoesOn(t)
    BY <1>3, StepIs DEF Base
  <2>2. CASE EndStep(t)
    BY <2>2, EndKeeps
  <2>3. CASE Relock(t) \/ Halts(t)
    BY <2>3, WaitKeeps DEF Relock, Halts, Quiet
  <2>4. CASE GoesOn(t)
    BY <2>4, GoesOnKeeps
  <2> QED
    BY <2>1, <2>2, <2>3, <2>4
<1> QED
  BY <1>1, <1>2, <1>3 DEF Next, Over

\* What main does at a step of per-thread-struct-tid.c.
LEMMA StructTidAt ==
    ASSUME prog = "per_thread_struct_tid", total \in 0..N, NEW q \in 1..Len(C(Main))
    PROVE  \/ \E i \in 1..total :
              \/ q = i /\ C(Main)[q] = Create(i)
              \/ q = total + 2 * i - 1 /\ C(Main)[q] = Join(i)
              \/ q = total + 2 * i /\ C(Main)[q] = Free({<<"tids", i>>, <<"t", i>>})
           \/ q = 3 * total + 1 /\ C(Main)[q] = Free(All("ts", total))
<1>1. total \in Nat /\ Len(C(Main)) = 3 * total + 1 /\ q \in Nat /\ q >= 1 /\ q <= 3 * total + 1
  BY NAssumption, StructTidMain
<1>2. CASE q <= total
  <2> DEFINE j == q
  <2>1. j \in 1..total /\ q = j
    BY <1>1, <1>2
  <2> HIDE DEF j
  <2> QED
    BY <2>1, StructTidMain
<1>3. CASE q > total /\ q <= 3 * total
  <2> DEFINE j == (q - total + 1) \div 2
  <2>1. j \in 1..total /\ (q = total + 2 * j - 1 \/ q = total + 2 * j)
    BY <1>1, <1>3
  <2> HIDE DEF j
  <2>2. CASE q = total + 2 * j - 1
    BY <2>1, <2>2, StructTidMain
  <2>3. CASE q = total + 2 * j
    BY <2>1, <2>3, StructTidMain
  <2> QED
    BY <2>1, <2>2, <2>3
<1>4. CASE q \in {3 * total + 1}
  BY <1>4, StructTidMain
<1>5. q <= total \/ (q > total /\ q <= 3 * total) \/ q \in {3 * total + 1}
  BY <1>1
<1> QED
  BY ONLY <1>2, <1>3, <1>4, <1>5

\* Its code is well placed.
LEMMA StructTidPlaced ==
    ASSUME prog = "per_thread_struct_tid", total \in 0..N
    PROVE  Placed
<1>1. total \in Nat /\ prog \in Others /\ Main \notin Threads /\ \A t \in All0 : t = Main
        \/ t \in Threads
  BY NAssumption DEF Others, All0, Threads, Main
<1>2. total \in Nat /\ prog = "per_thread_struct_tid"
  BY <1>1
<1>3. ASSUME NEW q \in 1..Len(C(Main)) PROVE WellPlaced(Main, q)
  <2>1. ASSUME NEW i \in 1..total, q = i, C(Main)[q] = Create(i) PROVE WellPlaced(Main, q)
    BY <1>1, <2>1 DEF WellPlaced, Section, SectionOf, Creation, CreationOf, Create
  <2>2. ASSUME NEW i \in 1..total, q = total + 2 * i - 1, C(Main)[q] = Join(i)
        PROVE  WellPlaced(Main, q)
    BY <1>1, <2>2 DEF WellPlaced, Section, SectionOf, Creation, CreationOf, Join
  <2>3. ASSUME NEW i \in 1..total, q = total + 2 * i, C(Main)[q] = Free({<<"tids", i>>, <<"t", i>>})
        PROVE  WellPlaced(Main, q)
    BY <1>1, <2>3 DEF WellPlaced, Section, SectionOf, Creation, CreationOf, Free
  <2>4. ASSUME q = 3 * total + 1, C(Main)[q] = Free(All("ts", total)) PROVE WellPlaced(Main, q)
    BY <1>1, <2>4 DEF WellPlaced, Section, SectionOf, Creation, CreationOf, Free
  <2> QED
    BY <2>1, <2>2, <2>3, <2>4, StructTidAt
<1>4. ASSUME NEW t \in Threads, NEW q \in 1..Len(C(t)) PROVE WellPlaced(t, q)
  <2>1. C(t) = <<Write(<<"t", t>>)>> /\ t # Main
    BY <1>1, ShortThreads
  <2>2. Len(C(t)) = 1 /\ q \in 1..1 /\ (q = 1 => C(t)[q] = Write(<<"t", t>>))
    BY <2>1
  <2>3. CASE q = 1
    BY <1>1, <2>1, <2>2, <2>3 DEF WellPlaced, Section, SectionOf, Creation, CreationOf, Write
  <2> QED
    BY <2>2, <2>3
<1>5. Len(C(Main)) \in Nat /\ \A t \in Threads : Len(C(t)) \in Nat
  BY <1>1, StructTidMain, ShortThreads
<1>6. \A t \in All0 : Section(t, 1) = "none"
  BY <1>1 DEF Section, SectionOf
<1> QED
  BY <1>1, <1>3, <1>4, <1>5, <1>6 DEF Placed

\* What main does at a step of per-thread-array-init.c.
LEMMA ArrayInitAt ==
    ASSUME prog = "per_thread_array_init", total \in 0..N, NEW q \in 1..Len(C(Main))
    PROVE  \/ \E i \in 1..total :
              \/ q = 2 * i - 1 /\ C(Main)[q] = Write(<<"is", i>>)
              \/ q = 2 * i /\ C(Main)[q] = Create(i)
              \/ q = 2 * total + i /\ C(Main)[q] = Join(i)
           \/ q = 3 * total + 1 /\ C(Main)[q] = Free(All("tids", total) \cup All("is", total))
<1>1. total \in Nat /\ Len(C(Main)) = 3 * total + 1 /\ q \in Nat /\ q >= 1 /\ q <= 3 * total + 1
  BY NAssumption, ArrayInitMain
<1>2. CASE q <= 2 * total
  <2> DEFINE j == (q + 1) \div 2
  <2>1. j \in 1..total /\ (q = 2 * j - 1 \/ q = 2 * j)
    BY <1>1, <1>2
  <2> HIDE DEF j
  <2>2. CASE q = 2 * j - 1
    BY <2>1, <2>2, ArrayInitMain
  <2>3. CASE q = 2 * j
    BY <2>1, <2>3, ArrayInitMain
  <2> QED
    BY <2>1, <2>2, <2>3
<1>3. CASE q > 2 * total /\ q <= 3 * total
  <2> DEFINE j == q - 2 * total
  <2>1. j \in 1..total /\ q = 2 * total + j
    BY <1>1, <1>3
  <2> HIDE DEF j
  <2> QED
    BY <2>1, ArrayInitMain
<1>4. CASE q \in {3 * total + 1}
  BY <1>4, ArrayInitMain
<1>5. q <= 2 * total \/ (q > 2 * total /\ q <= 3 * total) \/ q \in {3 * total + 1}
  BY <1>1
<1> QED
  BY ONLY <1>2, <1>3, <1>4, <1>5

\* Its code is well placed.
LEMMA ArrayInitPlaced ==
    ASSUME prog = "per_thread_array_init", total \in 0..N
    PROVE  Placed
<1>1. total \in Nat /\ prog \in Others /\ Main \notin Threads /\ \A t \in All0 : t = Main
        \/ t \in Threads
  BY NAssumption DEF Others, All0, Threads, Main
<1>2. total \in Nat /\ prog = "per_thread_array_init"
  BY <1>1
<1>3. ASSUME NEW q \in 1..Len(C(Main)) PROVE WellPlaced(Main, q)
  <2>1. ASSUME NEW i \in 1..total, q = 2 * i - 1, C(Main)[q] = Write(<<"is", i>>)
        PROVE  WellPlaced(Main, q)
    BY <1>1, <2>1 DEF WellPlaced, Section, SectionOf, Creation, CreationOf, Write
  <2>2. ASSUME NEW i \in 1..total, q = 2 * i, C(Main)[q] = Create(i) PROVE WellPlaced(Main, q)
    BY <1>1, <2>2 DEF WellPlaced, Section, SectionOf, Creation, CreationOf, Create
  <2>3. ASSUME NEW i \in 1..total, q = 2 * total + i, C(Main)[q] = Join(i) PROVE WellPlaced(Main, q)
    BY <1>1, <2>3 DEF WellPlaced, Section, SectionOf, Creation, CreationOf, Join
  <2>4. ASSUME q = 3 * total + 1, C(Main)[q] = Free(All("tids", total) \cup All("is", total))
        PROVE  WellPlaced(Main, q)
    BY <1>1, <2>4 DEF WellPlaced, Section, SectionOf, Creation, CreationOf, Free
  <2> QED
    BY <2>1, <2>2, <2>3, <2>4, ArrayInitAt
<1>4. ASSUME NEW t \in Threads, NEW q \in 1..Len(C(t)) PROVE WellPlaced(t, q)
  <2>1. C(t) = <<Read(<<"is", t>>)>> /\ t # Main
    BY <1>1, ShortThreads
  <2>2. Len(C(t)) = 1 /\ q \in 1..1 /\ (q = 1 => C(t)[q] = Read(<<"is", t>>))
    BY <2>1
  <2>3. CASE q = 1
    BY <1>1, <2>1, <2>2, <2>3 DEF WellPlaced, Section, SectionOf, Creation, CreationOf, Read
  <2> QED
    BY <2>2, <2>3
<1>5. Len(C(Main)) \in Nat /\ \A t \in Threads : Len(C(t)) \in Nat
  BY <1>1, ArrayInitMain, ShortThreads
<1>6. \A t \in All0 : Section(t, 1) = "none"
  BY <1>1 DEF Section, SectionOf
<1> QED
  BY <1>1, <1>3, <1>4, <1>5, <1>6 DEF Placed

\* What main does at a step of per-thread-index-bitmask.c.
LEMMA BitmaskAt ==
    ASSUME prog = "per_thread_index_bitmask", total \in 0..N, NEW q \in 1..Len(C(Main))
    PROVE  \/ \E i \in 1..total :
              \/ q = 4 * i - 3 /\ C(Main)[q] = Lock("threads_mask_mutex")
              \/ q = 4 * i - 2 /\ C(Main)[q] = TakeBit(Global("threads_mask"))
              \/ q = 4 * i - 1 /\ C(Main)[q] = Unlock("threads_mask_mutex")
              \/ q = 4 * i /\ C(Main)[q] = Create(i)
              \/ q = 4 * total + i /\ C(Main)[q] = Join(i)
           \/ q = 5 * total + 1 /\ C(Main)[q] = Free(All("tids", total) \cup All("datas", total))
<1>1. total \in Nat /\ Len(C(Main)) = 5 * total + 1 /\ q \in Nat /\ q >= 1 /\ q <= 5 * total + 1
  BY NAssumption, BitmaskMain
<1>2. CASE q <= 4 * total
  <2> DEFINE j == (q + 3) \div 4
  <2>1. j \in 1..total /\ (q = 4 * j - 3 \/ q = 4 * j - 2 \/ q = 4 * j - 1 \/ q = 4 * j)
    BY <1>1, <1>2
  <2> HIDE DEF j
  <2>2. CASE q = 4 * j - 3
    BY <2>1, <2>2, BitmaskMain
  <2>3. CASE q = 4 * j - 2
    BY <2>1, <2>3, BitmaskMain
  <2>4. CASE q = 4 * j - 1
    BY <2>1, <2>4, BitmaskMain
  <2>5. CASE q = 4 * j
    BY <2>1, <2>5, BitmaskMain
  <2> QED
    BY <2>1, <2>2, <2>3, <2>4, <2>5
<1>3. CASE q > 4 * total /\ q <= 5 * total
  <2> DEFINE j == q - 4 * total
  <2>1. j \in 1..total /\ q = 4 * total + j
    BY <1>1, <1>3
  <2> HIDE DEF j
  <2> QED
    BY <2>1, BitmaskMain
<1>4. CASE q \in {5 * total + 1}
  BY <1>4, BitmaskMain
<1>5. q <= 4 * total \/ (q > 4 * total /\ q <= 5 * total) \/ q \in {5 * total + 1}
  BY <1>1
<1> QED
  BY ONLY <1>2, <1>3, <1>4, <1>5

\* Its code is well placed.
LEMMA BitmaskPlaced ==
    ASSUME prog = "per_thread_index_bitmask", total \in 0..N
    PROVE  Placed
<1>1. total \in Nat /\ prog \in Others /\ Main \notin Threads /\ \A t \in All0 : t = Main
        \/ t \in Threads
  BY NAssumption DEF Others, All0, Threads, Main
<1>2. total \in Nat /\ prog = "per_thread_index_bitmask"
  BY <1>1
<1>3. \A q : Section(Main, q) = IF q <= 4 * total /\ q % 4 \in {2, 3}
        THEN "threads_mask_mutex" ELSE "none"
  BY <1>2 DEF Section, SectionOf
<1>4. ASSUME NEW q \in 1..Len(C(Main)) PROVE WellPlaced(Main, q)
  <2>1. ASSUME NEW i \in 1..total, q = 4 * i - 3, C(Main)[q] = Lock("threads_mask_mutex")
        PROVE  WellPlaced(Main, q)
    <3>1. q % 4 = 1 /\ (q + 1) % 4 = 2 /\ q <= 4 * total
      BY <1>2, <2>1
    <3>2. Section(Main, q) = "none" /\ Section(Main, q + 1) = "threads_mask_mutex"
      BY <1>2, <3>1, <1>3
    <3>3. q = 4 * i - 3 /\ C(Main)[q] = Lock("threads_mask_mutex")
      BY <2>1
    <3>4. \A u \in 1..total : q # Creation(u)
      BY <1>2, <3>3 DEF Creation, CreationOf
    <3> QED
      BY <1>2, <3>2, <3>3, <3>4 DEF WellPlaced, Lock, Mutexes
  <2>2. ASSUME NEW i \in 1..total, q = 4 * i - 2, C(Main)[q] = TakeBit(Global("threads_mask"))
        PROVE  WellPlaced(Main, q)
    <3>1. q % 4 = 2 /\ (q + 1) % 4 = 3 /\ q <= 4 * total
      BY <1>2, <2>2
    <3>2. Section(Main, q) = "threads_mask_mutex" /\ Section(Main, q + 1) = "threads_mask_mutex"
      BY <1>2, <3>1, <1>3
    <3>3. q = 4 * i - 2 /\ C(Main)[q] = TakeBit(Global("threads_mask"))
      BY <2>2
    <3>4. \A u \in 1..total : q # Creation(u)
      BY <1>2, <3>3 DEF Creation, CreationOf
    <3> QED
      BY <1>2, <3>2, <3>3, <3>4 DEF WellPlaced, TakeBit
  <2>3. ASSUME NEW i \in 1..total, q = 4 * i - 1, C(Main)[q] = Unlock("threads_mask_mutex")
        PROVE  WellPlaced(Main, q)
    <3>1. q % 4 = 3 /\ (q + 1) % 4 = 0 /\ q <= 4 * total
      BY <1>2, <2>3
    <3>2. Section(Main, q) = "threads_mask_mutex" /\ Section(Main, q + 1) = "none"
      BY <1>2, <3>1, <1>3
    <3>3. q = 4 * i - 1 /\ C(Main)[q] = Unlock("threads_mask_mutex")
      BY <2>3
    <3>4. \A u \in 1..total : q # Creation(u)
      BY <1>2, <3>3 DEF Creation, CreationOf
    <3> QED
      BY <1>2, <3>2, <3>3, <3>4 DEF WellPlaced, Unlock, Mutexes
  <2>4. ASSUME NEW i \in 1..total, q = 4 * i, C(Main)[q] = Create(i) PROVE WellPlaced(Main, q)
    <3>1. q % 4 = 0 /\ (q + 1) % 4 = 1 /\ q <= 4 * total
      BY <1>2, <2>4
    <3>2. Section(Main, q) = "none" /\ Section(Main, q + 1) = "none"
      BY <1>2, <3>1, <1>3
    <3>3. q = 4 * i /\ C(Main)[q] = Create(i)
      BY <2>4
    <3> QED
      BY <1>2, <3>2, <3>3 DEF WellPlaced, Creation, CreationOf, Create
  <2>5. ASSUME NEW i \in 1..total, q = 4 * total + i, C(Main)[q] = Join(i) PROVE WellPlaced(Main, q)
    <3>1. q > 4 * total /\ q + 1 > 4 * total
      BY <1>2, <2>5
    <3>2. Section(Main, q) = "none" /\ Section(Main, q + 1) = "none"
      BY <1>2, <3>1, <1>3
    <3>3. q = 4 * total + i /\ C(Main)[q] = Join(i)
      BY <2>5
    <3> QED
      BY <1>2, <3>2, <3>3 DEF WellPlaced, Creation, CreationOf, Join
  <2>6. ASSUME q = 5 * total + 1, C(Main)[q] = Free(All("tids", total) \cup All("datas", total))
        PROVE  WellPlaced(Main, q)
    <3>1. q > 4 * total /\ q + 1 > 4 * total
      BY <1>2, <2>6
    <3>2. Section(Main, q) = "none" /\ Section(Main, q + 1) = "none"
      BY <1>2, <3>1, <1>3
    <3>3. q = 5 * total + 1 /\ C(Main)[q] = Free(All("tids", total) \cup All("datas", total))
      BY <2>6
    <3>4. \A u \in 1..total : q # Creation(u)
      BY <1>2, <3>3 DEF Creation, CreationOf
    <3> QED
      BY <1>2, <3>2, <3>3, <3>4 DEF WellPlaced, Free
  <2> QED
    BY <2>1, <2>2, <2>3, <2>4, <2>5, <2>6, BitmaskAt
<1>5. ASSUME NEW t \in Threads, NEW q \in 1..Len(C(t)) PROVE WellPlaced(t, q)
  <2>1. C(t) = <<WriteAt("datas"), Lock("threads_mask_mutex"), GiveBit(Global("threads_mask")),
                 Unlock("threads_mask_mutex")>>
        /\ t # Main
    BY <1>1, ShortThreads
  <2>2. /\ Len(C(t)) = 4 /\ q \in 1..4
        /\ q = 1 => C(t)[q] = WriteAt("datas")
        /\ q = 2 => C(t)[q] = Lock("threads_mask_mutex")
        /\ q = 3 => C(t)[q] = GiveBit(Global("threads_mask"))
        /\ q = 4 => C(t)[q] = Unlock("threads_mask_mutex")
    BY <2>1
  <2>3. CASE q = 1
    BY <1>1, <2>1, <2>2, <2>3 DEF WellPlaced, Section, SectionOf, Creation, CreationOf, WriteAt
  <2>4. CASE q = 2
    BY <1>1, <2>1, <2>2, <2>4 DEF WellPlaced, Section, SectionOf, Creation, CreationOf, Lock,
       Mutexes
  <2>5. CASE q = 3
    BY <1>1, <2>1, <2>2, <2>5 DEF WellPlaced, Section, SectionOf, Creation, CreationOf, GiveBit
  <2>6. CASE q = 4
    BY <1>1, <2>1, <2>2, <2>6 DEF WellPlaced, Section, SectionOf, Creation, CreationOf, Unlock,
       Mutexes
  <2> QED
    BY <2>2, <2>3, <2>4, <2>5, <2>6
<1>6. Len(C(Main)) \in Nat /\ \A t \in Threads : Len(C(t)) \in Nat
  BY <1>1, BitmaskMain, ShortThreads
<1>7. \A t \in All0 : Section(t, 1) = "none"
  BY <1>1 DEF Section, SectionOf
<1> QED
  BY <1>1, <1>4, <1>5, <1>6, <1>7 DEF Placed

\* What main does at a step of value-barrier.c.
LEMMA BarrierAt ==
    ASSUME prog = "value_barrier", total \in 0..N, NEW q \in 1..Len(C(Main))
    PROVE  \/ \E i \in 1..total :
              \/ q = i /\ C(Main)[q] = Create(i)
              \/ q = total + 5 + i /\ C(Main)[q] = Join(i)
           \/ q = total + 1 /\ C(Main)[q] = Write(data)
           \/ q = total + 2 /\ C(Main)[q] = Lock("ready_mutex")
           \/ q = total + 3 /\ C(Main)[q] = Set(Global("ready"), 1)
           \/ q = total + 4 /\ C(Main)[q] = Broadcast("ready_cond")
           \/ q = total + 5 /\ C(Main)[q] = Unlock("ready_mutex")
           \/ q = 2 * total + 6 /\ C(Main)[q] = Free(All("tids", total))
<1>1. total \in Nat /\ Len(C(Main)) = 2 * total + 6 /\ q \in Nat /\ q >= 1 /\ q <= 2 * total + 6
  BY NAssumption, BarrierMain
<1>2. CASE q <= total
  <2> DEFINE j == q
  <2>1. j \in 1..total /\ q = j
    BY <1>1, <1>2
  <2> HIDE DEF j
  <2> QED
    BY <2>1, BarrierMain
<1>3. CASE q > total + 5 /\ q <= 2 * total + 5
  <2> DEFINE j == q - (total + 5)
  <2>1. j \in 1..total /\ q = total + 5 + j
    BY <1>1, <1>3
  <2> HIDE DEF j
  <2> QED
    BY <2>1, BarrierMain
<1>4. CASE q \in {total + 1, total + 2, total + 3, total + 4, total + 5, 2 * total + 6}
  BY <1>4, BarrierMain
<1>5. q <= total \/ (q > total + 5 /\ q <= 2 * total + 5)
        \/ q \in {total + 1, total + 2, total + 3, total + 4, total + 5, 2 * total + 6}
  BY <1>1
<1> QED
  BY ONLY <1>2, <1>3, <1>4, <1>5

\* Its code is well placed.
LEMMA BarrierPlaced ==
    ASSUME prog = "value_barrier", total \in 0..N
    PROVE  Placed
<1>1. total \in Nat /\ prog \in Others /\ Main \notin Threads /\ \A t \in All0 : t = Main
        \/ t \in Threads
  BY NAssumption DEF Others, All0, Threads, Main
<1>2. total \in Nat /\ prog = "value_barrier"
  BY <1>1
<1>3. ASSUME NEW q \in 1..Len(C(Main)) PROVE WellPlaced(Main, q)
  <2>1. ASSUME NEW i \in 1..total, q = i, C(Main)[q] = Create(i) PROVE WellPlaced(Main, q)
    BY <1>1, <2>1 DEF WellPlaced, Section, SectionOf, Creation, CreationOf, Create
  <2>2. ASSUME q = total + 1, C(Main)[q] = Write(data) PROVE WellPlaced(Main, q)
    BY <1>1, <2>2 DEF WellPlaced, Section, SectionOf, Creation, CreationOf, Write
  <2>3. ASSUME q = total + 2, C(Main)[q] = Lock("ready_mutex") PROVE WellPlaced(Main, q)
    BY <1>1, <2>3 DEF WellPlaced, Section, SectionOf, Creation, CreationOf, Lock, Mutexes
  <2>4. ASSUME q = total + 3, C(Main)[q] = Set(Global("ready"), 1) PROVE WellPlaced(Main, q)
    BY <1>1, <2>4 DEF WellPlaced, Section, SectionOf, Creation, CreationOf, Set
  <2>5. ASSUME q = total + 4, C(Main)[q] = Broadcast("ready_cond") PROVE WellPlaced(Main, q)
    BY <1>1, <2>5 DEF WellPlaced, Section, SectionOf, Creation, CreationOf, Broadcast, Conditions
  <2>6. ASSUME q = total + 5, C(Main)[q] = Unlock("ready_mutex") PROVE WellPlaced(Main, q)
    BY <1>1, <2>6 DEF WellPlaced, Section, SectionOf, Creation, CreationOf, Unlock, Mutexes
  <2>7. ASSUME NEW i \in 1..total, q = total + 5 + i, C(Main)[q] = Join(i) PROVE WellPlaced(Main, q)
    BY <1>1, <2>7 DEF WellPlaced, Section, SectionOf, Creation, CreationOf, Join
  <2>8. ASSUME q = 2 * total + 6, C(Main)[q] = Free(All("tids", total)) PROVE WellPlaced(Main, q)
    BY <1>1, <2>8 DEF WellPlaced, Section, SectionOf, Creation, CreationOf, Free
  <2> QED
    BY <2>1, <2>2, <2>3, <2>4, <2>5, <2>6, <2>7, <2>8, BarrierAt
<1>4. ASSUME NEW t \in Threads, NEW q \in 1..Len(C(t)) PROVE WellPlaced(t, q)
  <2>1. C(t) = <<Lock("ready_mutex"), Await(Global("ready"), 1, "ready_cond", "ready_mutex"),
                 Unlock("ready_mutex"), Read(data)>>
        /\ t # Main
    BY <1>1, ShortThreads
  <2>2. /\ Len(C(t)) = 4 /\ q \in 1..4
        /\ q = 1 => C(t)[q] = Lock("ready_mutex")
        /\ q = 2 => C(t)[q] = Await(Global("ready"), 1, "ready_cond", "ready_mutex")
        /\ q = 3 => C(t)[q] = Unlock("ready_mutex")
        /\ q = 4 => C(t)[q] = Read(data)
    BY <2>1
  <2>3. CASE q = 1
    BY <1>1, <2>1, <2>2, <2>3 DEF WellPlaced, Section, SectionOf, Creation, CreationOf, Lock,
       Mutexes
  <2>4. CASE q = 2
    BY <1>1, <2>1, <2>2, <2>4 DEF WellPlaced, Section, SectionOf, Creation, CreationOf, Await,
       Mutexes, Conditions
  <2>5. CASE q = 3
    BY <1>1, <2>1, <2>2, <2>5 DEF WellPlaced, Section, SectionOf, Creation, CreationOf, Unlock,
       Mutexes
  <2>6. CASE q = 4
    BY <1>1, <2>1, <2>2, <2>6 DEF WellPlaced, Section, SectionOf, Creation, CreationOf, Read
  <2> QED
    BY <2>2, <2>3, <2>4, <2>5, <2>6
<1>5. Len(C(Main)) \in Nat /\ \A t \in Threads : Len(C(t)) \in Nat
  BY <1>1, BarrierMain, ShortThreads
<1>6. \A t \in All0 : Section(t, 1) = "none"
  BY <1>1 DEF Section, SectionOf
<1> QED
  BY <1>1, <1>3, <1>4, <1>5, <1>6 DEF Placed

\* What main does at a step of thread-join-counter-outer.c.
LEMMA OuterAt ==
    ASSUME prog = "thread_join_counter_outer", total \in 0..N, NEW q \in 1..Len(C(Main))
    PROVE  \/ \E i \in 1..total :
              \/ q = 5 * i - 4 /\ C(Main)[q] = Lock("threads_alive_mutex")
              \/ q = 5 * i - 3 /\ C(Main)[q] = Inc(alive)
              \/ q = 5 * i - 2 /\ C(Main)[q] = Unlock("threads_alive_mutex")
              \/ q = 5 * i - 1 /\ C(Main)[q] = Create(i)
              \/ q = 5 * i /\ C(Main)[q] = Detach(i)
           \/ q = 5 * total + 1 /\ C(Main)[q] = Lock("threads_alive_mutex")
           \/ q = 5 * total + 2 /\ C(Main)[q] = Await(alive, 0, "threads_alive_cond",
                                                      "threads_alive_mutex")
           \/ q = 5 * total + 3 /\ C(Main)[q] = Unlock("threads_alive_mutex")
           \/ q = 5 * total + 4 /\ C(Main)[q] = Read(data)
<1>1. total \in Nat /\ Len(C(Main)) = 5 * total + 4 /\ q \in Nat /\ q >= 1 /\ q <= 5 * total + 4
  BY NAssumption, OuterMain
<1>2. CASE q <= 5 * total
  <2> DEFINE j == (q + 4) \div 5
  <2>1. j \in 1..total /\ (q = 5 * j - 4 \/ q = 5 * j - 3 \/ q = 5 * j - 2 \/ q = 5 * j - 1
                           \/ q = 5 * j)
    BY <1>1, <1>2
  <2> HIDE DEF j
  <2>2. CASE q = 5 * j - 4
    BY <2>1, <2>2, OuterMain
  <2>3. CASE q = 5 * j - 3
    BY <2>1, <2>3, OuterMain
  <2>4. CASE q = 5 * j - 2
    BY <2>1, <2>4, OuterMain
  <2>5. CASE q = 5 * j - 1
    BY <2>1, <2>5, OuterMain
  <2>6. CASE q = 5 * j
    BY <2>1, <2>6, OuterMain
  <2> QED
    BY <2>1, <2>2, <2>3, <2>4, <2>5, <2>6
<1>3. CASE q \in {5 * total + 1, 5 * total + 2, 5 * total + 3, 5 * total + 4}
  BY <1>3, OuterMain
<1>4. q <= 5 * total \/ q \in {5 * total + 1, 5 * total + 2, 5 * total + 3, 5 * total + 4}
  BY <1>1
<1> QED
  BY ONLY <1>2, <1>3, <1>4

\* Its code is well placed.
LEMMA OuterPlaced ==
    ASSUME prog = "thread_join_counter_outer", total \in 0..N
    PROVE  Placed
<1>1. total \in Nat /\ prog \in Others /\ Main \notin Threads /\ \A t \in All0 : t = Main
        \/ t \in Threads
  BY NAssumption DEF Others, All0, Threads, Main
<1>2. total \in Nat /\ prog = "thread_join_counter_outer"
  BY <1>1
<1>3. \A q : Section(Main, q) = IF q % 5 \in {2, 3} THEN "threads_alive_mutex" ELSE "none"
  BY <1>2 DEF Section, SectionOf
<1>4. ASSUME NEW q \in 1..Len(C(Main)) PROVE WellPlaced(Main, q)
  <2>1. ASSUME NEW i \in 1..total, q = 5 * i - 4, C(Main)[q] = Lock("threads_alive_mutex")
        PROVE  WellPlaced(Main, q)
    <3>1. q % 5 = 1 /\ (q + 1) % 5 = 2 /\ q <= 5 * total
      BY <1>2, <2>1
    <3>2. Section(Main, q) = "none" /\ Section(Main, q + 1) = "threads_alive_mutex"
      BY <1>2, <3>1, <1>3
    <3>3. q = 5 * i - 4 /\ C(Main)[q] = Lock("threads_alive_mutex")
      BY <2>1
    <3>4. \A u \in 1..total : q # Creation(u)
      BY <1>2, <3>3 DEF Creation, CreationOf
    <3> QED
      BY <1>2, <3>2, <3>3, <3>4 DEF WellPlaced, Lock, Mutexes
  <2>2. ASSUME NEW i \in 1..total, q = 5 * i - 3, C(Main)[q] = Inc(alive) PROVE WellPlaced(Main, q)
    <3>1. q % 5 = 2 /\ (q + 1) % 5 = 3 /\ q <= 5 * total
      BY <1>2, <2>2
    <3>2. Section(Main, q) = "threads_alive_mutex" /\ Section(Main, q + 1) = "threads_alive_mutex"
      BY <1>2, <3>1, <1>3
    <3>3. q = 5 * i - 3 /\ C(Main)[q] = Inc(alive)
      BY <2>2
    <3>4. \A u \in 1..total : q # Creation(u)
      BY <1>2, <3>3 DEF Creation, CreationOf
    <3> QED
      BY <1>2, <3>2, <3>3, <3>4 DEF WellPlaced, Inc
  <2>3. ASSUME NEW i \in 1..total, q = 5 * i - 2, C(Main)[q] = Unlock("threads_alive_mutex")
        PROVE  WellPlaced(Main, q)
    <3>1. q % 5 = 3 /\ (q + 1) % 5 = 4 /\ q <= 5 * total
      BY <1>2, <2>3
    <3>2. Section(Main, q) = "threads_alive_mutex" /\ Section(Main, q + 1) = "none"
      BY <1>2, <3>1, <1>3
    <3>3. q = 5 * i - 2 /\ C(Main)[q] = Unlock("threads_alive_mutex")
      BY <2>3
    <3>4. \A u \in 1..total : q # Creation(u)
      BY <1>2, <3>3 DEF Creation, CreationOf
    <3> QED
      BY <1>2, <3>2, <3>3, <3>4 DEF WellPlaced, Unlock, Mutexes
  <2>4. ASSUME NEW i \in 1..total, q = 5 * i - 1, C(Main)[q] = Create(i) PROVE WellPlaced(Main, q)
    <3>1. q % 5 = 4 /\ (q + 1) % 5 = 0 /\ q <= 5 * total
      BY <1>2, <2>4
    <3>2. Section(Main, q) = "none" /\ Section(Main, q + 1) = "none"
      BY <1>2, <3>1, <1>3
    <3>3. q = 5 * i - 1 /\ C(Main)[q] = Create(i)
      BY <2>4
    <3> QED
      BY <1>2, <3>2, <3>3 DEF WellPlaced, Creation, CreationOf, Create
  <2>5. ASSUME NEW i \in 1..total, q = 5 * i, C(Main)[q] = Detach(i) PROVE WellPlaced(Main, q)
    <3>1. q % 5 = 0 /\ (q + 1) % 5 = 1 /\ q <= 5 * total
      BY <1>2, <2>5
    <3>2. Section(Main, q) = "none" /\ Section(Main, q + 1) = "none"
      BY <1>2, <3>1, <1>3
    <3>3. q = 5 * i /\ C(Main)[q] = Detach(i)
      BY <2>5
    <3> QED
      BY <1>2, <3>2, <3>3 DEF WellPlaced, Creation, CreationOf, Detach
  <2>6. ASSUME q = 5 * total + 1, C(Main)[q] = Lock("threads_alive_mutex") PROVE WellPlaced(Main, q)
    <3>1. q % 5 = 1 /\ (q + 1) % 5 = 2
      BY <1>2, <2>6
    <3>2. Section(Main, q) = "none" /\ Section(Main, q + 1) = "threads_alive_mutex"
      BY <1>2, <3>1, <1>3
    <3>3. q = 5 * total + 1 /\ C(Main)[q] = Lock("threads_alive_mutex")
      BY <2>6
    <3>4. \A u \in 1..total : q # Creation(u)
      BY <1>2, <3>3 DEF Creation, CreationOf
    <3> QED
      BY <1>2, <3>2, <3>3, <3>4 DEF WellPlaced, Lock, Mutexes
  <2>7. ASSUME q = 5 * total + 2, C(Main)[q] = Await(alive, 0, "threads_alive_cond",
                                                     "threads_alive_mutex")
        PROVE  WellPlaced(Main, q)
    <3>1. q % 5 = 2 /\ (q + 1) % 5 = 3
      BY <1>2, <2>7
    <3>2. Section(Main, q) = "threads_alive_mutex" /\ Section(Main, q + 1) = "threads_alive_mutex"
      BY <1>2, <3>1, <1>3
    <3>3. q = 5 * total + 2
          /\ C(Main)[q] = Await(alive, 0, "threads_alive_cond", "threads_alive_mutex")
      BY <2>7
    <3>4. \A u \in 1..total : q # Creation(u)
      BY <1>2, <3>3 DEF Creation, CreationOf
    <3> QED
      BY <1>2, <3>2, <3>3, <3>4 DEF WellPlaced, Await, Mutexes, Conditions
  <2>8. ASSUME q = 5 * total + 3, C(Main)[q] = Unlock("threads_alive_mutex")
        PROVE  WellPlaced(Main, q)
    <3>1. q % 5 = 3 /\ (q + 1) % 5 = 4
      BY <1>2, <2>8
    <3>2. Section(Main, q) = "threads_alive_mutex" /\ Section(Main, q + 1) = "none"
      BY <1>2, <3>1, <1>3
    <3>3. q = 5 * total + 3 /\ C(Main)[q] = Unlock("threads_alive_mutex")
      BY <2>8
    <3>4. \A u \in 1..total : q # Creation(u)
      BY <1>2, <3>3 DEF Creation, CreationOf
    <3> QED
      BY <1>2, <3>2, <3>3, <3>4 DEF WellPlaced, Unlock, Mutexes
  <2>9. ASSUME q = 5 * total + 4, C(Main)[q] = Read(data) PROVE WellPlaced(Main, q)
    <3>1. q % 5 = 4 /\ (q + 1) % 5 = 0
      BY <1>2, <2>9
    <3>2. Section(Main, q) = "none" /\ Section(Main, q + 1) = "none"
      BY <1>2, <3>1, <1>3
    <3>3. q = 5 * total + 4 /\ C(Main)[q] = Read(data)
      BY <2>9
    <3>4. \A u \in 1..total : q # Creation(u)
      BY <1>2, <3>3 DEF Creation, CreationOf
    <3> QED
      BY <1>2, <3>2, <3>3, <3>4 DEF WellPlaced, Read
  <2> QED
    BY <2>1, <2>2, <2>3, <2>4, <2>5, <2>6, <2>7, <2>8, <2>9, OuterAt
<1>5. ASSUME NEW t \in Threads, NEW q \in 1..Len(C(t)) PROVE WellPlaced(t, q)
  <2>1. C(t) = <<Lock("data_mutex"), Write(data), Unlock("data_mutex"),
                 Lock("threads_alive_mutex"), Dec(alive), Signal("threads_alive_cond"),
                 Unlock("threads_alive_mutex")>>
        /\ t # Main
    BY <1>1, ShortThreads
  <2>2. /\ Len(C(t)) = 7 /\ q \in 1..7
        /\ q = 1 => C(t)[q] = Lock("data_mutex")
        /\ q = 2 => C(t)[q] = Write(data)
        /\ q = 3 => C(t)[q] = Unlock("data_mutex")
        /\ q = 4 => C(t)[q] = Lock("threads_alive_mutex")
        /\ q = 5 => C(t)[q] = Dec(alive)
        /\ q = 6 => C(t)[q] = Signal("threads_alive_cond")
        /\ q = 7 => C(t)[q] = Unlock("threads_alive_mutex")
    BY <2>1
  <2>3. CASE q = 1
    BY <1>1, <2>1, <2>2, <2>3 DEF WellPlaced, Section, SectionOf, Creation, CreationOf, Lock,
       Mutexes
  <2>4. CASE q = 2
    BY <1>1, <2>1, <2>2, <2>4 DEF WellPlaced, Section, SectionOf, Creation, CreationOf, Write
  <2>5. CASE q = 3
    BY <1>1, <2>1, <2>2, <2>5 DEF WellPlaced, Section, SectionOf, Creation, CreationOf, Unlock,
       Mutexes
  <2>6. CASE q = 4
    BY <1>1, <2>1, <2>2, <2>6 DEF WellPlaced, Section, SectionOf, Creation, CreationOf, Lock,
       Mutexes
  <2>7. CASE q = 5
    BY <1>1, <2>1, <2>2, <2>7 DEF WellPlaced, Section, SectionOf, Creation, CreationOf, Dec
  <2>8. CASE q = 6
    BY <1>1, <2>1, <2>2, <2>8 DEF WellPlaced, Section, SectionOf, Creation, CreationOf, Signal,
       Conditions
  <2>9. CASE q = 7
    BY <1>1, <2>1, <2>2, <2>9 DEF WellPlaced, Section, SectionOf, Creation, CreationOf, Unlock,
       Mutexes
  <2> QED
    BY <2>2, <2>3, <2>4, <2>5, <2>6, <2>7, <2>8, <2>9
<1>6. Len(C(Main)) \in Nat /\ \A t \in Threads : Len(C(t)) \in Nat
  BY <1>1, OuterMain, ShortThreads
<1>7. \A t \in All0 : Section(t, 1) = "none"
  BY <1>1 DEF Section, SectionOf
<1> QED
  BY <1>1, <1>4, <1>5, <1>6, <1>7 DEF Placed

\* What main does at a step of thread-join-counter-inner.c.
LEMMA InnerAt ==
    ASSUME prog = "thread_join_counter_inner", total \in 0..N, NEW q \in 1..Len(C(Main))
    PROVE  \/ \E i \in 1..total :
              \/ q = 2 * i - 1 /\ C(Main)[q] = Create(i)
              \/ q = 2 * i /\ C(Main)[q] = Detach(i)
           \/ q = 2 * total + 1 /\ C(Main)[q] = Lock("threads_alive_mutex")
           \/ q = 2 * total + 2 /\ C(Main)[q] = Await(alive, total, "threads_alive_cond",
                                                      "threads_alive_mutex")
           \/ q = 2 * total + 3 /\ C(Main)[q] = Unlock("threads_alive_mutex")
           \/ q = 2 * total + 4 /\ C(Main)[q] = Lock("keep_alive_mutex")
           \/ q = 2 * total + 5 /\ C(Main)[q] = Set(Global("keep_alive"), 0)
           \/ q = 2 * total + 6 /\ C(Main)[q] = Unlock("keep_alive_mutex")
           \/ q = 2 * total + 7 /\ C(Main)[q] = Lock("threads_alive_mutex")
           \/ q = 2 * total + 8 /\ C(Main)[q] = Await(alive, 0, "threads_alive_cond",
                                                      "threads_alive_mutex")
           \/ q = 2 * total + 9 /\ C(Main)[q] = Unlock("threads_alive_mutex")
           \/ q = 2 * total + 10 /\ C(Main)[q] = Read(data)
<1>1. total \in Nat /\ Len(C(Main)) = 2 * total + 10 /\ q \in Nat /\ q >= 1 /\ q <= 2 * total + 10
  BY NAssumption, InnerMain
<1>2. CASE q <= 2 * total
  <2> DEFINE j == (q + 1) \div 2
  <2>1. j \in 1..total /\ (q = 2 * j - 1 \/ q = 2 * j)
    BY <1>1, <1>2
  <2> HIDE DEF j
  <2>2. CASE q = 2 * j - 1
    BY <2>1, <2>2, InnerMain
  <2>3. CASE q = 2 * j
    BY <2>1, <2>3, InnerMain
  <2> QED
    BY <2>1, <2>2, <2>3
<1>3. CASE q \in {2 * total + 1, 2 * total + 2, 2 * total + 3, 2 * total + 4, 2 * total + 5,
                  2 * total + 6, 2 * total + 7, 2 * total + 8, 2 * total + 9, 2 * total + 10}
  BY <1>3, InnerMain
<1>4. q <= 2 * total \/ q \in {2 * total + 1, 2 * total + 2, 2 * total + 3, 2 * total + 4,
                               2 * total + 5, 2 * total + 6, 2 * total + 7, 2 * total + 8,
                               2 * total + 9, 2 * total + 10}
  BY <1>1
<1> QED
  BY ONLY <1>2, <1>3, <1>4

\* Its code is well placed.
LEMMA InnerPlaced ==
    ASSUME prog = "thread_join_counter_inner", total \in 0..N
    PROVE  Placed
<1>1. total \in Nat /\ prog \in Others /\ Main \notin Threads /\ \A t \in All0 : t = Main
        \/ t \in Threads
  BY NAssumption DEF Others, All0, Threads, Main
<1>2. total \in Nat /\ prog = "thread_join_counter_inner"
  BY <1>1
<1>3. \A q : Section(Main, q) = IF q - 2 * total \in {2, 3, 8, 9} THEN "threads_alive_mutex"
                              ELSE IF q - 2 * total \in {5, 6} THEN "keep_alive_mutex" ELSE "none"
  BY <1>2 DEF Section, SectionOf
<1>4. ASSUME NEW q \in 1..Len(C(Main)) PROVE WellPlaced(Main, q)
  <2>1. ASSUME NEW i \in 1..total, q = 2 * i - 1, C(Main)[q] = Create(i) PROVE WellPlaced(Main, q)
    <3>1. q - 2 * total <= 0 /\ q + 1 - 2 * total <= 1
      BY <1>2, <2>1
    <3>2. Section(Main, q) = "none" /\ Section(Main, q + 1) = "none"
      BY <1>2, <3>1, <1>3
    <3>3. q = 2 * i - 1 /\ C(Main)[q] = Create(i)
      BY <2>1
    <3> QED
      BY <1>2, <3>2, <3>3 DEF WellPlaced, Creation, CreationOf, Create
  <2>2. ASSUME NEW i \in 1..total, q = 2 * i, C(Main)[q] = Detach(i) PROVE WellPlaced(Main, q)
    <3>1. q - 2 * total <= 0 /\ q + 1 - 2 * total <= 1
      BY <1>2, <2>2
    <3>2. Section(Main, q) = "none" /\ Section(Main, q + 1) = "none"
      BY <1>2, <3>1, <1>3
    <3>3. q = 2 * i /\ C(Main)[q] = Detach(i)
      BY <2>2
    <3> QED
      BY <1>2, <3>2, <3>3 DEF WellPlaced, Creation, CreationOf, Detach
  <2>3. ASSUME q = 2 * total + 1, C(Main)[q] = Lock("threads_alive_mutex") PROVE WellPlaced(Main, q)
    <3>1. q - 2 * total = 1 /\ q + 1 - 2 * total = 2
      BY <1>2, <2>3
    <3>2. Section(Main, q) = "none" /\ Section(Main, q + 1) = "threads_alive_mutex"
      BY <1>2, <3>1, <1>3
    <3>3. q = 2 * total + 1 /\ C(Main)[q] = Lock("threads_alive_mutex")
      BY <2>3
    <3>4. \A u \in 1..total : q # Creation(u)
      BY <1>2, <3>3 DEF Creation, CreationOf
    <3> QED
      BY <1>2, <3>2, <3>3, <3>4 DEF WellPlaced, Lock, Mutexes
  <2>4. ASSUME q = 2 * total + 2, C(Main)[q] = Await(alive, total, "threads_alive_cond",
                                                     "threads_alive_mutex")
        PROVE  WellPlaced(Main, q)
    <3>1. q - 2 * total = 2 /\ q + 1 - 2 * total = 3
      BY <1>2, <2>4
    <3>2. Section(Main, q) = "threads_alive_mutex" /\ Section(Main, q + 1) = "threads_alive_mutex"
      BY <1>2, <3>1, <1>3
    <3>3. q = 2 * total + 2
          /\ C(Main)[q] = Await(alive, total, "threads_alive_cond", "threads_alive_mutex")
      BY <2>4
    <3>4. \A u \in 1..total : q # Creation(u)
      BY <1>2, <3>3 DEF Creation, CreationOf
    <3> QED
      BY <1>2, <3>2, <3>3, <3>4 DEF WellPlaced, Await, Mutexes, Conditions
  <2>5. ASSUME q = 2 * total + 3, C(Main)[q] = Unlock("threads_alive_mutex")
        PROVE  WellPlaced(Main, q)
    <3>1. q - 2 * total = 3 /\ q + 1 - 2 * total = 4
      BY <1>2, <2>5
    <3>2. Section(Main, q) = "threads_alive_mutex" /\ Section(Main, q + 1) = "none"
      BY <1>2, <3>1, <1>3
    <3>3. q = 2 * total + 3 /\ C(Main)[q] = Unlock("threads_alive_mutex")
      BY <2>5
    <3>4. \A u \in 1..total : q # Creation(u)
      BY <1>2, <3>3 DEF Creation, CreationOf
    <3> QED
      BY <1>2, <3>2, <3>3, <3>4 DEF WellPlaced, Unlock, Mutexes
  <2>6. ASSUME q = 2 * total + 4, C(Main)[q] = Lock("keep_alive_mutex") PROVE WellPlaced(Main, q)
    <3>1. q - 2 * total = 4 /\ q + 1 - 2 * total = 5
      BY <1>2, <2>6
    <3>2. Section(Main, q) = "none" /\ Section(Main, q + 1) = "keep_alive_mutex"
      BY <1>2, <3>1, <1>3
    <3>3. q = 2 * total + 4 /\ C(Main)[q] = Lock("keep_alive_mutex")
      BY <2>6
    <3>4. \A u \in 1..total : q # Creation(u)
      BY <1>2, <3>3 DEF Creation, CreationOf
    <3> QED
      BY <1>2, <3>2, <3>3, <3>4 DEF WellPlaced, Lock, Mutexes
  <2>7. ASSUME q = 2 * total + 5, C(Main)[q] = Set(Global("keep_alive"), 0)
        PROVE  WellPlaced(Main, q)
    <3>1. q - 2 * total = 5 /\ q + 1 - 2 * total = 6
      BY <1>2, <2>7
    <3>2. Section(Main, q) = "keep_alive_mutex" /\ Section(Main, q + 1) = "keep_alive_mutex"
      BY <1>2, <3>1, <1>3
    <3>3. q = 2 * total + 5 /\ C(Main)[q] = Set(Global("keep_alive"), 0)
      BY <2>7
    <3>4. \A u \in 1..total : q # Creation(u)
      BY <1>2, <3>3 DEF Creation, CreationOf
    <3> QED
      BY <1>2, <3>2, <3>3, <3>4 DEF WellPlaced, Set
  <2>8. ASSUME q = 2 * total + 6, C(Main)[q] = Unlock("keep_alive_mutex") PROVE WellPlaced(Main, q)
    <3>1. q - 2 * total = 6 /\ q + 1 - 2 * total = 7
      BY <1>2, <2>8
    <3>2. Section(Main, q) = "keep_alive_mutex" /\ Section(Main, q + 1) = "none"
      BY <1>2, <3>1, <1>3
    <3>3. q = 2 * total + 6 /\ C(Main)[q] = Unlock("keep_alive_mutex")
      BY <2>8
    <3>4. \A u \in 1..total : q # Creation(u)
      BY <1>2, <3>3 DEF Creation, CreationOf
    <3> QED
      BY <1>2, <3>2, <3>3, <3>4 DEF WellPlaced, Unlock, Mutexes
  <2>9. ASSUME q = 2 * total + 7, C(Main)[q] = Lock("threads_alive_mutex") PROVE WellPlaced(Main, q)
    <3>1. q - 2 * total = 7 /\ q + 1 - 2 * total = 8
      BY <1>2, <2>9
    <3>2. Section(Main, q) = "none" /\ Section(Main, q + 1) = "threads_alive_mutex"
      BY <1>2, <3>1, <1>3
    <3>3. q = 2 * total + 7 /\ C(Main)[q] = Lock("threads_alive_mutex")
      BY <2>9
    <3>4. \A u \in 1..total : q # Creation(u)
      BY <1>2, <3>3 DEF Creation, CreationOf
    <3> QED
      BY <1>2, <3>2, <3>3, <3>4 DEF WellPlaced, Lock, Mutexes
  <2>10. ASSUME q = 2 * total + 8, C(Main)[q] = Await(alive, 0, "threads_alive_cond",
                                                      "threads_alive_mutex")
         PROVE  WellPlaced(Main, q)
    <3>1. q - 2 * total = 8 /\ q + 1 - 2 * total = 9
      BY <1>2, <2>10
    <3>2. Section(Main, q) = "threads_alive_mutex" /\ Section(Main, q + 1) = "threads_alive_mutex"
      BY <1>2, <3>1, <1>3
    <3>3. q = 2 * total + 8
          /\ C(Main)[q] = Await(alive, 0, "threads_alive_cond", "threads_alive_mutex")
      BY <2>10
    <3>4. \A u \in 1..total : q # Creation(u)
      BY <1>2, <3>3 DEF Creation, CreationOf
    <3> QED
      BY <1>2, <3>2, <3>3, <3>4 DEF WellPlaced, Await, Mutexes, Conditions
  <2>11. ASSUME q = 2 * total + 9, C(Main)[q] = Unlock("threads_alive_mutex")
         PROVE  WellPlaced(Main, q)
    <3>1. q - 2 * total = 9 /\ q + 1 - 2 * total = 10
      BY <1>2, <2>11
    <3>2. Section(Main, q) = "threads_alive_mutex" /\ Section(Main, q + 1) = "none"
      BY <1>2, <3>1, <1>3
    <3>3. q = 2 * total + 9 /\ C(Main)[q] = Unlock("threads_alive_mutex")
      BY <2>11
    <3>4. \A u \in 1..total : q # Creation(u)
      BY <1>2, <3>3 DEF Creation, CreationOf
    <3> QED
      BY <1>2, <3>2, <3>3, <3>4 DEF WellPlaced, Unlock, Mutexes
  <2>12. ASSUME q = 2 * total + 10, C(Main)[q] = Read(data) PROVE WellPlaced(Main, q)
    <3>1. q - 2 * total = 10 /\ q + 1 - 2 * total = 11
      BY <1>2, <2>12
    <3>2. Section(Main, q) = "none" /\ Section(Main, q + 1) = "none"
      BY <1>2, <3>1, <1>3
    <3>3. q = 2 * total + 10 /\ C(Main)[q] = Read(data)
      BY <2>12
    <3>4. \A u \in 1..total : q # Creation(u)
      BY <1>2, <3>3 DEF Creation, CreationOf
    <3> QED
      BY <1>2, <3>2, <3>3, <3>4 DEF WellPlaced, Read
  <2> QED
    BY <2>1, <2>2, <2>3, <2>4, <2>5, <2>6, <2>7, <2>8, <2>9, <2>10, <2>11, <2>12, InnerAt
<1>5. ASSUME NEW t \in Threads, NEW q \in 1..Len(C(t)) PROVE WellPlaced(t, q)
  <2>1. C(t) = <<Lock("threads_alive_mutex"), Inc(alive), Signal("threads_alive_cond"),
                 Unlock("threads_alive_mutex"), Lock("keep_alive_mutex"),
                 Unless(Global("keep_alive"), 1, 6), Unlock("keep_alive_mutex"),
                 Lock("data_mutex"), Write(data), Unlock("data_mutex"),
                 Lock("keep_alive_mutex"), Repeat(Global("keep_alive"), 1, 5),
                 Unlock("keep_alive_mutex"), Lock("threads_alive_mutex"), Dec(alive),
                 Signal("threads_alive_cond"), Unlock("threads_alive_mutex")>>
        /\ t # Main
    BY <1>1, InnerThread
  <2>2. /\ Len(C(t)) = 17 /\ q \in 1..17
        /\ q = 1 => C(t)[q] = Lock("threads_alive_mutex")
        /\ q = 2 => C(t)[q] = Inc(alive)
        /\ q = 3 => C(t)[q] = Signal("threads_alive_cond")
        /\ q = 4 => C(t)[q] = Unlock("threads_alive_mutex")
        /\ q = 5 => C(t)[q] = Lock("keep_alive_mutex")
        /\ q = 6 => C(t)[q] = Unless(Global("keep_alive"), 1, 6)
        /\ q = 7 => C(t)[q] = Unlock("keep_alive_mutex")
        /\ q = 8 => C(t)[q] = Lock("data_mutex")
        /\ q = 9 => C(t)[q] = Write(data)
        /\ q = 10 => C(t)[q] = Unlock("data_mutex")
        /\ q = 11 => C(t)[q] = Lock("keep_alive_mutex")
        /\ q = 12 => C(t)[q] = Repeat(Global("keep_alive"), 1, 5)
        /\ q = 13 => C(t)[q] = Unlock("keep_alive_mutex")
        /\ q = 14 => C(t)[q] = Lock("threads_alive_mutex")
        /\ q = 15 => C(t)[q] = Dec(alive)
        /\ q = 16 => C(t)[q] = Signal("threads_alive_cond")
        /\ q = 17 => C(t)[q] = Unlock("threads_alive_mutex")
    BY <2>1
  <2>3. CASE q = 1
    BY <1>1, <2>1, <2>2, <2>3 DEF WellPlaced, Section, SectionOf, Creation, CreationOf, Lock,
       Mutexes
  <2>4. CASE q = 2
    BY <1>1, <2>1, <2>2, <2>4 DEF WellPlaced, Section, SectionOf, Creation, CreationOf, Inc
  <2>5. CASE q = 3
    BY <1>1, <2>1, <2>2, <2>5 DEF WellPlaced, Section, SectionOf, Creation, CreationOf, Signal,
       Conditions
  <2>6. CASE q = 4
    BY <1>1, <2>1, <2>2, <2>6 DEF WellPlaced, Section, SectionOf, Creation, CreationOf, Unlock,
       Mutexes
  <2>7. CASE q = 5
    BY <1>1, <2>1, <2>2, <2>7 DEF WellPlaced, Section, SectionOf, Creation, CreationOf, Lock,
       Mutexes
  <2>8. CASE q = 6
    BY <1>1, <2>1, <2>2, <2>8 DEF WellPlaced, Section, SectionOf, Creation, CreationOf, Unless
  <2>9. CASE q = 7
    BY <1>1, <2>1, <2>2, <2>9 DEF WellPlaced, Section, SectionOf, Creation, CreationOf, Unlock,
       Mutexes
  <2>10. CASE q = 8
    BY <1>1, <2>1, <2>2, <2>10 DEF WellPlaced, Section, SectionOf, Creation, CreationOf, Lock,
       Mutexes
  <2>11. CASE q = 9
    BY <1>1, <2>1, <2>2, <2>11 DEF WellPlaced, Section, SectionOf, Creation, CreationOf, Write
  <2>12. CASE q = 10
    BY <1>1, <2>1, <2>2, <2>12 DEF WellPlaced, Section, SectionOf, Creation, CreationOf, Unlock,
       Mutexes
  <2>13. CASE q = 11
    BY <1>1, <2>1, <2>2, <2>13 DEF WellPlaced, Section, SectionOf, Creation, CreationOf, Lock,
       Mutexes
  <2>14. CASE q = 12
    BY <1>1, <2>1, <2>2, <2>14 DEF WellPlaced, Section, SectionOf, Creation, CreationOf, Repeat
  <2>15. CASE q = 13
    BY <1>1, <2>1, <2>2, <2>15 DEF WellPlaced, Section, SectionOf, Creation, CreationOf, Unlock,
       Mutexes
  <2>16. CASE q = 14
    BY <1>1, <2>1, <2>2, <2>16 DEF WellPlaced, Section, SectionOf, Creation, CreationOf, Lock,
       Mutexes
  <2>17. CASE q = 15
    BY <1>1, <2>1, <2>2, <2>17 DEF WellPlaced, Section, SectionOf, Creation, CreationOf, Dec
  <2>18. CASE q = 16
    BY <1>1, <2>1, <2>2, <2>18 DEF WellPlaced, Section, SectionOf, Creation, CreationOf, Signal,
       Conditions
  <2>19. CASE q = 17
    BY <1>1, <2>1, <2>2, <2>19 DEF WellPlaced, Section, SectionOf, Creation, CreationOf, Unlock,
       Mutexes
  <2> QED
    BY <2>2, <2>3, <2>4, <2>5, <2>6, <2>7, <2>8, <2>9, <2>10, <2>11, <2>12, <2>13, <2>14, <2>15,
       <2>16, <2>17, <2>18, <2>19
<1>6. Len(C(Main)) \in Nat /\ \A t \in Threads : Len(C(t)) \in Nat
  BY <1>1, InnerMain, InnerThread
<1>7. \A t \in All0 : Section(t, 1) = "none"
  BY <1>1 DEF Section, SectionOf
<1> QED
  BY <1>1, <1>4, <1>5, <1>6, <1>7 DEF Placed

\* What main does at a step of simple.c.
LEMMA SimpleAt ==
    ASSUME prog = "simple", total \in 0..N, NEW q \in 1..Len(C(Main))
    PROVE  \/ \E i \in 1..total :
              \/ q = i /\ C(Main)[q] = Create(i)
              \/ q = total + i /\ C(Main)[q] = Join(i)
<1>1. total \in Nat /\ Len(C(Main)) = 2 * total /\ q \in Nat /\ q >= 1 /\ q <= 2 * total
  BY NAssumption, SimpleMain
<1>2. CASE q <= total
  <2> DEFINE j == q
  <2>1. j \in 1..total /\ q = j
    BY <1>1, <1>2
  <2> HIDE DEF j
  <2> QED
    BY <2>1, SimpleMain
<1>3. CASE q > total /\ q <= 2 * total
  <2> DEFINE j == q - total
  <2>1. j \in 1..total /\ q = total + j
    BY <1>1, <1>3
  <2> HIDE DEF j
  <2> QED
    BY <2>1, SimpleMain
<1>4. q <= total \/ (q > total /\ q <= 2 * total)
  BY <1>1
<1> QED
  BY ONLY <1>2, <1>3, <1>4

\* Its code is well placed.
LEMMA SimplePlaced ==
    ASSUME prog = "simple", total \in 0..N
    PROVE  Placed
<1>1. total \in Nat /\ prog \in Others /\ Main \notin Threads /\ \A t \in All0 : t = Main
        \/ t \in Threads
  BY NAssumption DEF Others, All0, Threads, Main
<1>2. total \in Nat /\ prog = "simple"
  BY <1>1
<1>3. ASSUME NEW q \in 1..Len(C(Main)) PROVE WellPlaced(Main, q)
  <2>1. ASSUME NEW i \in 1..total, q = i, C(Main)[q] = Create(i) PROVE WellPlaced(Main, q)
    BY <1>1, <2>1 DEF WellPlaced, Section, SectionOf, Creation, CreationOf, Create
  <2>2. ASSUME NEW i \in 1..total, q = total + i, C(Main)[q] = Join(i) PROVE WellPlaced(Main, q)
    BY <1>1, <2>2 DEF WellPlaced, Section, SectionOf, Creation, CreationOf, Join
  <2> QED
    BY <2>1, <2>2, SimpleAt
<1>4. ASSUME NEW t \in Threads, NEW q \in 1..Len(C(t)) PROVE WellPlaced(t, q)
  <2>1. t # Main
    BY <1>1
  <2>2. CASE t = 1
    <3>1. C(t) = <<Inc(Global("value")), AtomicSet(Global("flag"), 1)>>
      BY <1>1, <2>2, ShortThreads
    <3>2. q \in 1..2 /\ (q = 1 => C(t)[q] = Inc(Global("value")))
                     /\ (q = 2 => C(t)[q] = AtomicSet(Global("flag"), 1))
      BY <3>1
    <3>3. CASE q = 1
      BY <1>1, <2>1, <3>2, <3>3 DEF WellPlaced, Section, SectionOf, Inc
    <3>4. CASE q = 2
      BY <1>1, <2>1, <3>2, <3>4 DEF WellPlaced, Section, SectionOf, AtomicSet
    <3> QED
      BY <3>2, <3>3, <3>4
  <2>3. CASE t # 1
    <3>1. C(t) = <<Spin(Global("flag"), 1), Inc(Global("value"))>>
      BY <1>1, <2>3, ShortThreads
    <3>2. q \in 1..2 /\ (q = 1 => C(t)[q] = Spin(Global("flag"), 1))
                     /\ (q = 2 => C(t)[q] = Inc(Global("value")))
      BY <3>1
    <3>3. CASE q = 1
      BY <1>1, <2>1, <3>2, <3>3 DEF WellPlaced, Section, SectionOf, Spin
    <3>4. CASE q = 2
      BY <1>1, <2>1, <3>2, <3>4 DEF WellPlaced, Section, SectionOf, Inc
    <3> QED
      BY <3>2, <3>3, <3>4
  <2> QED
    BY <2>2, <2>3
<1>5. Len(C(Main)) \in Nat /\ \A t \in Threads : Len(C(t)) \in Nat
  BY <1>1, SimpleMain, ShortThreads
<1>6. \A t \in All0 : Section(t, 1) = "none"
  BY <1>1 DEF Section, SectionOf
<1> QED
  BY <1>1, <1>3, <1>4, <1>5, <1>6 DEF Placed

\* Where main of per-thread-struct-tid.c is.
LEMMA StructTidMainHere ==
    ASSUME OtherTypes, prog = "per_thread_struct_tid", ~AtEnd(Main)
    PROVE  \/ \E i \in 1..total :
              \/ pc[Main] = i /\ Here(Main) = Create(i)
              \/ pc[Main] = total + 2 * i - 1 /\ Here(Main) = Join(i)
              \/ pc[Main] = total + 2 * i /\ Here(Main) = Free({<<"tids", i>>, <<"t", i>>})
           \/ pc[Main] = 3 * total + 1 /\ Here(Main) = Free(All("ts", total))
<1> DEFINE q == pc[Main]
<1>1. total \in 0..N /\ Placed /\ Main \in All0
  BY StructTidPlaced, Numbers, NAssumption DEF OtherTypes, Totals
<1>2. q \in 1..Len(C(Main)) /\ Here(Main) = C(Main)[q]
  BY <1>1, HereIs
<1> HIDE DEF q
<1>3. \/ \E i \in 1..total :
         \/ q = i /\ C(Main)[q] = Create(i)
         \/ q = total + 2 * i - 1 /\ C(Main)[q] = Join(i)
         \/ q = total + 2 * i /\ C(Main)[q] = Free({<<"tids", i>>, <<"t", i>>})
      \/ q = 3 * total + 1 /\ C(Main)[q] = Free(All("ts", total))
  BY <1>1, <1>2, StructTidAt
<1> QED
  BY <1>2, <1>3 DEF q

\* Where a thread of per-thread-struct-tid.c is.
LEMMA StructTidThreadHere ==
    ASSUME OtherTypes, prog = "per_thread_struct_tid", NEW t \in Threads
    PROVE  /\ AtEnd(t) <=> pc[t] > 1
           /\ ~AtEnd(t) =>
                \/ pc[t] = 1 /\ Here(t) = Write(<<"t", t>>)
<1>1. total \in 0..N /\ prog \in Others /\ pc[t] \in Nat \ {0}
  BY NAssumption, Numbers DEF OtherTypes, Totals, Others
<1> DEFINE q == pc[t]
           c == C(t)
<1>2. c = <<Write(<<"t", t>>)>>
  BY <1>1, ShortThreads
<1>3. /\ Len(c) = 1
      /\ c[1] = Write(<<"t", t>>)
  BY <1>2
<1>4. AtEnd(t) <=> q > Len(c)
  BY DEF AtEnd, C
<1>5. Here(t) = c[q]
  BY DEF Here, C
<1> HIDE DEF c, q
<1>6. AtEnd(t) <=> q > 1
  BY <1>3, <1>4
<1>7. ~(q > 1) => q = 1
  BY <1>1 DEF q
<1> QED
  BY ONLY <1>3, <1>5, <1>6, <1>7 DEF q

\* Where main of per-thread-array-init.c is.
LEMMA ArrayInitMainHere ==
    ASSUME OtherTypes, prog = "per_thread_array_init", ~AtEnd(Main)
    PROVE  \/ \E i \in 1..total :
              \/ pc[Main] = 2 * i - 1 /\ Here(Main) = Write(<<"is", i>>)
              \/ pc[Main] = 2 * i /\ Here(Main) = Create(i)
              \/ pc[Main] = 2 * total + i /\ Here(Main) = Join(i)
           \/ pc[Main] = 3 * total + 1 /\ Here(Main) = Free(All("tids", total)
                                                            \cup All("is", total))
<1> DEFINE q == pc[Main]
<1>1. total \in 0..N /\ Placed /\ Main \in All0
  BY ArrayInitPlaced, Numbers, NAssumption DEF OtherTypes, Totals
<1>2. q \in 1..Len(C(Main)) /\ Here(Main) = C(Main)[q]
  BY <1>1, HereIs
<1> HIDE DEF q
<1>3. \/ \E i \in 1..total :
         \/ q = 2 * i - 1 /\ C(Main)[q] = Write(<<"is", i>>)
         \/ q = 2 * i /\ C(Main)[q] = Create(i)
         \/ q = 2 * total + i /\ C(Main)[q] = Join(i)
      \/ q = 3 * total + 1 /\ C(Main)[q] = Free(All("tids", total) \cup All("is", total))
  BY <1>1, <1>2, ArrayInitAt
<1> QED
  BY <1>2, <1>3 DEF q

\* Where a thread of per-thread-array-init.c is.
LEMMA ArrayInitThreadHere ==
    ASSUME OtherTypes, prog = "per_thread_array_init", NEW t \in Threads
    PROVE  /\ AtEnd(t) <=> pc[t] > 1
           /\ ~AtEnd(t) =>
                \/ pc[t] = 1 /\ Here(t) = Read(<<"is", t>>)
<1>1. total \in 0..N /\ prog \in Others /\ pc[t] \in Nat \ {0}
  BY NAssumption, Numbers DEF OtherTypes, Totals, Others
<1> DEFINE q == pc[t]
           c == C(t)
<1>2. c = <<Read(<<"is", t>>)>>
  BY <1>1, ShortThreads
<1>3. /\ Len(c) = 1
      /\ c[1] = Read(<<"is", t>>)
  BY <1>2
<1>4. AtEnd(t) <=> q > Len(c)
  BY DEF AtEnd, C
<1>5. Here(t) = c[q]
  BY DEF Here, C
<1> HIDE DEF c, q
<1>6. AtEnd(t) <=> q > 1
  BY <1>3, <1>4
<1>7. ~(q > 1) => q = 1
  BY <1>1 DEF q
<1> QED
  BY ONLY <1>3, <1>5, <1>6, <1>7 DEF q

\* Where main of per-thread-index-bitmask.c is.
LEMMA BitmaskMainHere ==
    ASSUME OtherTypes, prog = "per_thread_index_bitmask", ~AtEnd(Main)
    PROVE  \/ \E i \in 1..total :
              \/ pc[Main] = 4 * i - 3 /\ Here(Main) = Lock("threads_mask_mutex")
              \/ pc[Main] = 4 * i - 2 /\ Here(Main) = TakeBit(Global("threads_mask"))
              \/ pc[Main] = 4 * i - 1 /\ Here(Main) = Unlock("threads_mask_mutex")
              \/ pc[Main] = 4 * i /\ Here(Main) = Create(i)
              \/ pc[Main] = 4 * total + i /\ Here(Main) = Join(i)
           \/ pc[Main] = 5 * total + 1 /\ Here(Main) = Free(All("tids", total)
                                                            \cup All("datas", total))
<1> DEFINE q == pc[Main]
<1>1. total \in 0..N /\ Placed /\ Main \in All0
  BY BitmaskPlaced, Numbers, NAssumption DEF OtherTypes, Totals
<1>2. q \in 1..Len(C(Main)) /\ Here(Main) = C(Main)[q]
  BY <1>1, HereIs
<1> HIDE DEF q
<1>3. \/ \E i \in 1..total :
         \/ q = 4 * i - 3 /\ C(Main)[q] = Lock("threads_mask_mutex")
         \/ q = 4 * i - 2 /\ C(Main)[q] = TakeBit(Global("threads_mask"))
         \/ q = 4 * i - 1 /\ C(Main)[q] = Unlock("threads_mask_mutex")
         \/ q = 4 * i /\ C(Main)[q] = Create(i)
         \/ q = 4 * total + i /\ C(Main)[q] = Join(i)
      \/ q = 5 * total + 1 /\ C(Main)[q] = Free(All("tids", total) \cup All("datas", total))
  BY <1>1, <1>2, BitmaskAt
<1> QED
  BY <1>2, <1>3 DEF q

\* Where a thread of per-thread-index-bitmask.c is.
LEMMA BitmaskThreadHere ==
    ASSUME OtherTypes, prog = "per_thread_index_bitmask", NEW t \in Threads
    PROVE  /\ AtEnd(t) <=> pc[t] > 4
           /\ ~AtEnd(t) =>
                \/ pc[t] = 1 /\ Here(t) = WriteAt("datas")
                \/ pc[t] = 2 /\ Here(t) = Lock("threads_mask_mutex")
                \/ pc[t] = 3 /\ Here(t) = GiveBit(Global("threads_mask"))
                \/ pc[t] = 4 /\ Here(t) = Unlock("threads_mask_mutex")
<1>1. total \in 0..N /\ prog \in Others /\ pc[t] \in Nat \ {0}
  BY NAssumption, Numbers DEF OtherTypes, Totals, Others
<1> DEFINE q == pc[t]
           c == C(t)
<1>2. c = <<WriteAt("datas"), Lock("threads_mask_mutex"), GiveBit(Global("threads_mask")),
            Unlock("threads_mask_mutex")>>
  BY <1>1, ShortThreads
<1>3. /\ Len(c) = 4
      /\ c[1] = WriteAt("datas")
      /\ c[2] = Lock("threads_mask_mutex")
      /\ c[3] = GiveBit(Global("threads_mask"))
      /\ c[4] = Unlock("threads_mask_mutex")
  BY <1>2
<1>4. AtEnd(t) <=> q > Len(c)
  BY DEF AtEnd, C
<1>5. Here(t) = c[q]
  BY DEF Here, C
<1> HIDE DEF c, q
<1>6. AtEnd(t) <=> q > 4
  BY <1>3, <1>4
<1>7. ~(q > 4) => q = 1 \/ q = 2 \/ q = 3 \/ q = 4
  BY <1>1 DEF q
<1> QED
  BY ONLY <1>3, <1>5, <1>6, <1>7 DEF q

\* Where main of value-barrier.c is.
LEMMA BarrierMainHere ==
    ASSUME OtherTypes, prog = "value_barrier", ~AtEnd(Main)
    PROVE  \/ \E i \in 1..total :
              \/ pc[Main] = i /\ Here(Main) = Create(i)
              \/ pc[Main] = total + 5 + i /\ Here(Main) = Join(i)
           \/ pc[Main] = total + 1 /\ Here(Main) = Write(data)
           \/ pc[Main] = total + 2 /\ Here(Main) = Lock("ready_mutex")
           \/ pc[Main] = total + 3 /\ Here(Main) = Set(Global("ready"), 1)
           \/ pc[Main] = total + 4 /\ Here(Main) = Broadcast("ready_cond")
           \/ pc[Main] = total + 5 /\ Here(Main) = Unlock("ready_mutex")
           \/ pc[Main] = 2 * total + 6 /\ Here(Main) = Free(All("tids", total))
<1> DEFINE q == pc[Main]
<1>1. total \in 0..N /\ Placed /\ Main \in All0
  BY BarrierPlaced, Numbers, NAssumption DEF OtherTypes, Totals
<1>2. q \in 1..Len(C(Main)) /\ Here(Main) = C(Main)[q]
  BY <1>1, HereIs
<1> HIDE DEF q
<1>3. \/ \E i \in 1..total :
         \/ q = i /\ C(Main)[q] = Create(i)
         \/ q = total + 5 + i /\ C(Main)[q] = Join(i)
      \/ q = total + 1 /\ C(Main)[q] = Write(data)
      \/ q = total + 2 /\ C(Main)[q] = Lock("ready_mutex")
      \/ q = total + 3 /\ C(Main)[q] = Set(Global("ready"), 1)
      \/ q = total + 4 /\ C(Main)[q] = Broadcast("ready_cond")
      \/ q = total + 5 /\ C(Main)[q] = Unlock("ready_mutex")
      \/ q = 2 * total + 6 /\ C(Main)[q] = Free(All("tids", total))
  BY <1>1, <1>2, BarrierAt
<1> QED
  BY <1>2, <1>3 DEF q

\* Where a thread of value-barrier.c is.
LEMMA BarrierThreadHere ==
    ASSUME OtherTypes, prog = "value_barrier", NEW t \in Threads
    PROVE  /\ AtEnd(t) <=> pc[t] > 4
           /\ ~AtEnd(t) =>
                \/ pc[t] = 1 /\ Here(t) = Lock("ready_mutex")
                \/ pc[t] = 2 /\ Here(t) = Await(Global("ready"), 1, "ready_cond", "ready_mutex")
                \/ pc[t] = 3 /\ Here(t) = Unlock("ready_mutex")
                \/ pc[t] = 4 /\ Here(t) = Read(data)
<1>1. total \in 0..N /\ prog \in Others /\ pc[t] \in Nat \ {0}
  BY NAssumption, Numbers DEF OtherTypes, Totals, Others
<1> DEFINE q == pc[t]
           c == C(t)
<1>2. c = <<Lock("ready_mutex"), Await(Global("ready"), 1, "ready_cond", "ready_mutex"),
            Unlock("ready_mutex"), Read(data)>>
  BY <1>1, ShortThreads
<1>3. /\ Len(c) = 4
      /\ c[1] = Lock("ready_mutex")
      /\ c[2] = Await(Global("ready"), 1, "ready_cond", "ready_mutex")
      /\ c[3] = Unlock("ready_mutex")
      /\ c[4] = Read(data)
  BY <1>2
<1>4. AtEnd(t) <=> q > Len(c)
  BY DEF AtEnd, C
<1>5. Here(t) = c[q]
  BY DEF Here, C
<1> HIDE DEF c, q
<1>6. AtEnd(t) <=> q > 4
  BY <1>3, <1>4
<1>7. ~(q > 4) => q = 1 \/ q = 2 \/ q = 3 \/ q = 4
  BY <1>1 DEF q
<1> QED
  BY ONLY <1>3, <1>5, <1>6, <1>7 DEF q

\* Where main of thread-join-counter-outer.c is.
LEMMA OuterMainHere ==
    ASSUME OtherTypes, prog = "thread_join_counter_outer", ~AtEnd(Main)
    PROVE  \/ \E i \in 1..total :
              \/ pc[Main] = 5 * i - 4 /\ Here(Main) = Lock("threads_alive_mutex")
              \/ pc[Main] = 5 * i - 3 /\ Here(Main) = Inc(alive)
              \/ pc[Main] = 5 * i - 2 /\ Here(Main) = Unlock("threads_alive_mutex")
              \/ pc[Main] = 5 * i - 1 /\ Here(Main) = Create(i)
              \/ pc[Main] = 5 * i /\ Here(Main) = Detach(i)
           \/ pc[Main] = 5 * total + 1 /\ Here(Main) = Lock("threads_alive_mutex")
           \/ pc[Main] = 5 * total + 2 /\ Here(Main) = Await(alive, 0, "threads_alive_cond",
                                                             "threads_alive_mutex")
           \/ pc[Main] = 5 * total + 3 /\ Here(Main) = Unlock("threads_alive_mutex")
           \/ pc[Main] = 5 * total + 4 /\ Here(Main) = Read(data)
<1> DEFINE q == pc[Main]
<1>1. total \in 0..N /\ Placed /\ Main \in All0
  BY OuterPlaced, Numbers, NAssumption DEF OtherTypes, Totals
<1>2. q \in 1..Len(C(Main)) /\ Here(Main) = C(Main)[q]
  BY <1>1, HereIs
<1> HIDE DEF q
<1>3. \/ \E i \in 1..total :
         \/ q = 5 * i - 4 /\ C(Main)[q] = Lock("threads_alive_mutex")
         \/ q = 5 * i - 3 /\ C(Main)[q] = Inc(alive)
         \/ q = 5 * i - 2 /\ C(Main)[q] = Unlock("threads_alive_mutex")
         \/ q = 5 * i - 1 /\ C(Main)[q] = Create(i)
         \/ q = 5 * i /\ C(Main)[q] = Detach(i)
      \/ q = 5 * total + 1 /\ C(Main)[q] = Lock("threads_alive_mutex")
      \/ q = 5 * total + 2 /\ C(Main)[q] = Await(alive, 0, "threads_alive_cond",
                                                 "threads_alive_mutex")
      \/ q = 5 * total + 3 /\ C(Main)[q] = Unlock("threads_alive_mutex")
      \/ q = 5 * total + 4 /\ C(Main)[q] = Read(data)
  BY <1>1, <1>2, OuterAt
<1> QED
  BY <1>2, <1>3 DEF q

\* Where a thread of thread-join-counter-outer.c is.
LEMMA OuterThreadHere ==
    ASSUME OtherTypes, prog = "thread_join_counter_outer", NEW t \in Threads
    PROVE  /\ AtEnd(t) <=> pc[t] > 7
           /\ ~AtEnd(t) =>
                \/ pc[t] = 1 /\ Here(t) = Lock("data_mutex")
                \/ pc[t] = 2 /\ Here(t) = Write(data)
                \/ pc[t] = 3 /\ Here(t) = Unlock("data_mutex")
                \/ pc[t] = 4 /\ Here(t) = Lock("threads_alive_mutex")
                \/ pc[t] = 5 /\ Here(t) = Dec(alive)
                \/ pc[t] = 6 /\ Here(t) = Signal("threads_alive_cond")
                \/ pc[t] = 7 /\ Here(t) = Unlock("threads_alive_mutex")
<1>1. total \in 0..N /\ prog \in Others /\ pc[t] \in Nat \ {0}
  BY NAssumption, Numbers DEF OtherTypes, Totals, Others
<1> DEFINE q == pc[t]
           c == C(t)
<1>2. c = <<Lock("data_mutex"), Write(data), Unlock("data_mutex"), Lock("threads_alive_mutex"),
            Dec(alive), Signal("threads_alive_cond"), Unlock("threads_alive_mutex")>>
  BY <1>1, ShortThreads
<1>3. /\ Len(c) = 7
      /\ c[1] = Lock("data_mutex")
      /\ c[2] = Write(data)
      /\ c[3] = Unlock("data_mutex")
      /\ c[4] = Lock("threads_alive_mutex")
      /\ c[5] = Dec(alive)
      /\ c[6] = Signal("threads_alive_cond")
      /\ c[7] = Unlock("threads_alive_mutex")
  BY <1>2
<1>4. AtEnd(t) <=> q > Len(c)
  BY DEF AtEnd, C
<1>5. Here(t) = c[q]
  BY DEF Here, C
<1> HIDE DEF c, q
<1>6. AtEnd(t) <=> q > 7
  BY <1>3, <1>4
<1>7. ~(q > 7) => q = 1 \/ q = 2 \/ q = 3 \/ q = 4 \/ q = 5 \/ q = 6 \/ q = 7
  BY <1>1 DEF q
<1> QED
  BY ONLY <1>3, <1>5, <1>6, <1>7 DEF q

\* Where main of thread-join-counter-inner.c is.
LEMMA InnerMainHere ==
    ASSUME OtherTypes, prog = "thread_join_counter_inner", ~AtEnd(Main)
    PROVE  \/ \E i \in 1..total :
              \/ pc[Main] = 2 * i - 1 /\ Here(Main) = Create(i)
              \/ pc[Main] = 2 * i /\ Here(Main) = Detach(i)
           \/ pc[Main] = 2 * total + 1 /\ Here(Main) = Lock("threads_alive_mutex")
           \/ pc[Main] = 2 * total + 2 /\ Here(Main) = Await(alive, total, "threads_alive_cond",
                                                             "threads_alive_mutex")
           \/ pc[Main] = 2 * total + 3 /\ Here(Main) = Unlock("threads_alive_mutex")
           \/ pc[Main] = 2 * total + 4 /\ Here(Main) = Lock("keep_alive_mutex")
           \/ pc[Main] = 2 * total + 5 /\ Here(Main) = Set(Global("keep_alive"), 0)
           \/ pc[Main] = 2 * total + 6 /\ Here(Main) = Unlock("keep_alive_mutex")
           \/ pc[Main] = 2 * total + 7 /\ Here(Main) = Lock("threads_alive_mutex")
           \/ pc[Main] = 2 * total + 8 /\ Here(Main) = Await(alive, 0, "threads_alive_cond",
                                                             "threads_alive_mutex")
           \/ pc[Main] = 2 * total + 9 /\ Here(Main) = Unlock("threads_alive_mutex")
           \/ pc[Main] = 2 * total + 10 /\ Here(Main) = Read(data)
<1> DEFINE q == pc[Main]
<1>1. total \in 0..N /\ Placed /\ Main \in All0
  BY InnerPlaced, Numbers, NAssumption DEF OtherTypes, Totals
<1>2. q \in 1..Len(C(Main)) /\ Here(Main) = C(Main)[q]
  BY <1>1, HereIs
<1> HIDE DEF q
<1>3. \/ \E i \in 1..total :
         \/ q = 2 * i - 1 /\ C(Main)[q] = Create(i)
         \/ q = 2 * i /\ C(Main)[q] = Detach(i)
      \/ q = 2 * total + 1 /\ C(Main)[q] = Lock("threads_alive_mutex")
      \/ q = 2 * total + 2 /\ C(Main)[q] = Await(alive, total, "threads_alive_cond",
                                                 "threads_alive_mutex")
      \/ q = 2 * total + 3 /\ C(Main)[q] = Unlock("threads_alive_mutex")
      \/ q = 2 * total + 4 /\ C(Main)[q] = Lock("keep_alive_mutex")
      \/ q = 2 * total + 5 /\ C(Main)[q] = Set(Global("keep_alive"), 0)
      \/ q = 2 * total + 6 /\ C(Main)[q] = Unlock("keep_alive_mutex")
      \/ q = 2 * total + 7 /\ C(Main)[q] = Lock("threads_alive_mutex")
      \/ q = 2 * total + 8 /\ C(Main)[q] = Await(alive, 0, "threads_alive_cond",
                                                 "threads_alive_mutex")
      \/ q = 2 * total + 9 /\ C(Main)[q] = Unlock("threads_alive_mutex")
      \/ q = 2 * total + 10 /\ C(Main)[q] = Read(data)
  BY <1>1, <1>2, InnerAt
<1> QED
  BY <1>2, <1>3 DEF q

\* Where a thread of thread-join-counter-inner.c is.
LEMMA InnerThreadHere ==
    ASSUME OtherTypes, prog = "thread_join_counter_inner", NEW t \in Threads
    PROVE  /\ AtEnd(t) <=> pc[t] > 17
           /\ ~AtEnd(t) =>
                \/ pc[t] = 1 /\ Here(t) = Lock("threads_alive_mutex")
                \/ pc[t] = 2 /\ Here(t) = Inc(alive)
                \/ pc[t] = 3 /\ Here(t) = Signal("threads_alive_cond")
                \/ pc[t] = 4 /\ Here(t) = Unlock("threads_alive_mutex")
                \/ pc[t] = 5 /\ Here(t) = Lock("keep_alive_mutex")
                \/ pc[t] = 6 /\ Here(t) = Unless(Global("keep_alive"), 1, 6)
                \/ pc[t] = 7 /\ Here(t) = Unlock("keep_alive_mutex")
                \/ pc[t] = 8 /\ Here(t) = Lock("data_mutex")
                \/ pc[t] = 9 /\ Here(t) = Write(data)
                \/ pc[t] = 10 /\ Here(t) = Unlock("data_mutex")
                \/ pc[t] = 11 /\ Here(t) = Lock("keep_alive_mutex")
                \/ pc[t] = 12 /\ Here(t) = Repeat(Global("keep_alive"), 1, 5)
                \/ pc[t] = 13 /\ Here(t) = Unlock("keep_alive_mutex")
                \/ pc[t] = 14 /\ Here(t) = Lock("threads_alive_mutex")
                \/ pc[t] = 15 /\ Here(t) = Dec(alive)
                \/ pc[t] = 16 /\ Here(t) = Signal("threads_alive_cond")
                \/ pc[t] = 17 /\ Here(t) = Unlock("threads_alive_mutex")
<1>1. total \in 0..N /\ prog \in Others /\ pc[t] \in Nat \ {0}
  BY NAssumption, Numbers DEF OtherTypes, Totals, Others
<1> DEFINE q == pc[t]
           c == C(t)
<1>2. c = <<Lock("threads_alive_mutex"), Inc(alive), Signal("threads_alive_cond"),
            Unlock("threads_alive_mutex"), Lock("keep_alive_mutex"),
            Unless(Global("keep_alive"), 1, 6), Unlock("keep_alive_mutex"), Lock("data_mutex"),
            Write(data), Unlock("data_mutex"), Lock("keep_alive_mutex"),
            Repeat(Global("keep_alive"), 1, 5), Unlock("keep_alive_mutex"),
            Lock("threads_alive_mutex"), Dec(alive), Signal("threads_alive_cond"),
            Unlock("threads_alive_mutex")>>
  BY <1>1, InnerThread
<1>3. /\ Len(c) = 17
      /\ c[1] = Lock("threads_alive_mutex")
      /\ c[2] = Inc(alive)
      /\ c[3] = Signal("threads_alive_cond")
      /\ c[4] = Unlock("threads_alive_mutex")
      /\ c[5] = Lock("keep_alive_mutex")
      /\ c[6] = Unless(Global("keep_alive"), 1, 6)
      /\ c[7] = Unlock("keep_alive_mutex")
      /\ c[8] = Lock("data_mutex")
      /\ c[9] = Write(data)
      /\ c[10] = Unlock("data_mutex")
      /\ c[11] = Lock("keep_alive_mutex")
      /\ c[12] = Repeat(Global("keep_alive"), 1, 5)
      /\ c[13] = Unlock("keep_alive_mutex")
      /\ c[14] = Lock("threads_alive_mutex")
      /\ c[15] = Dec(alive)
      /\ c[16] = Signal("threads_alive_cond")
      /\ c[17] = Unlock("threads_alive_mutex")
  BY <1>2
<1>4. AtEnd(t) <=> q > Len(c)
  BY DEF AtEnd, C
<1>5. Here(t) = c[q]
  BY DEF Here, C
<1> HIDE DEF c, q
<1>6. AtEnd(t) <=> q > 17
  BY <1>3, <1>4
<1>7. ~(q > 17) => q = 1 \/ q = 2 \/ q = 3 \/ q = 4 \/ q = 5 \/ q = 6 \/ q = 7 \/ q = 8 \/ q = 9
        \/ q = 10 \/ q = 11 \/ q = 12 \/ q = 13 \/ q = 14 \/ q = 15 \/ q = 16 \/ q = 17
  BY <1>1 DEF q
<1> QED
  BY ONLY <1>3, <1>5, <1>6, <1>7 DEF q

\* Where main of simple.c is.
LEMMA SimpleMainHere ==
    ASSUME OtherTypes, prog = "simple", ~AtEnd(Main)
    PROVE  \/ \E i \in 1..total :
              \/ pc[Main] = i /\ Here(Main) = Create(i)
              \/ pc[Main] = total + i /\ Here(Main) = Join(i)
<1> DEFINE q == pc[Main]
<1>1. total \in 0..N /\ Placed /\ Main \in All0
  BY SimplePlaced, Numbers, NAssumption DEF OtherTypes, Totals
<1>2. q \in 1..Len(C(Main)) /\ Here(Main) = C(Main)[q]
  BY <1>1, HereIs
<1> HIDE DEF q
<1>3. \/ \E i \in 1..total :
         \/ q = i /\ C(Main)[q] = Create(i)
         \/ q = total + i /\ C(Main)[q] = Join(i)
  BY <1>1, <1>2, SimpleAt
<1> QED
  BY <1>2, <1>3 DEF q

-----------------------------------------------------------------------------
(* Powers of two.                                                          *)

\* They count the subsets of an interval.
LEMMA SubsetsOf ==
    ASSUME NEW s \in Nat
    PROVE  /\ IsFiniteSet(SUBSET (1..s)) /\ Cardinality(SUBSET (1..s)) = 2^s /\ 2^s \in Nat \ {0}
<1>1. IsFiniteSet(1..s) /\ Cardinality(1..s) = s
  <2>1. IsFiniteSet(1..s) /\ Cardinality(1..s) = IF 1 > s THEN 0 ELSE s - 1 + 1
    BY FS_Interval
  <2> QED
    BY <2>1
<1>2. IsFiniteSet(SUBSET (1..s)) /\ Cardinality(SUBSET (1..s)) = 2^Cardinality(1..s)
  BY ONLY <1>1, FS_SUBSET
<1>3. Cardinality(SUBSET (1..s)) \in Nat
  BY <1>2, FS_CardinalityType
<1>4. Cardinality(SUBSET (1..s)) # 0
  <2>1. {} \in SUBSET (1..s)
    OBVIOUS
  <2> QED
    BY <1>2, <2>1, FS_EmptySet
<1> QED
  BY <1>1, <1>2, <1>3, <1>4

\* Each is twice the one before.
LEMMA Doubled ==
    ASSUME NEW s \in Nat
    PROVE  2^(s + 1) = 2 * 2^s
<1> DEFINE A == SUBSET (1..s)
           B == {x \cup {s + 1} : x \in A}
           T == SUBSET (1..s + 1)
<1>1. IsFiniteSet(A) /\ Cardinality(A) = 2^s /\ Cardinality(T) = 2^(s + 1) /\ 2^s \in Nat
  <2>1. s + 1 \in Nat
    OBVIOUS
  <2> QED
    BY <2>1, SubsetsOf
<1>2. T = A \cup B
  <2>1. ASSUME NEW x \in T PROVE x \in A \cup B
    <3>1. CASE s + 1 \in x
      <4>1. x \ {s + 1} \in A
        OBVIOUS
      <4>2. x = (x \ {s + 1}) \cup {s + 1}
        BY <3>1
      <4> QED
        BY <4>1, <4>2
    <3>2. CASE s + 1 \notin x
      BY <3>2
    <3> QED
      BY <3>1, <3>2
  <2>2. \A x \in A \cup B : x \in T
    OBVIOUS
  <2> QED
    BY <2>1, <2>2
<1>3. A \cap B = {}
  OBVIOUS
<1>4. IsFiniteSet(B) /\ Cardinality(B) = Cardinality(A)
  <2> DEFINE f == [x \in A |-> x \cup {s + 1}]
  <2>1. f \in [A -> B] /\ \A y \in B : \E x \in A : f[x] = y
    OBVIOUS
  <2>2. ASSUME NEW x \in A, NEW y \in A, f[x] = f[y] PROVE x = y
    <3>1. s + 1 \notin x /\ s + 1 \notin y
      OBVIOUS
    <3>2. x = f[x] \ {s + 1} /\ y = f[y] \ {s + 1}
      BY <3>1
    <3> QED
      BY <2>2, <3>2
  <2>3. f \in Bijection(A, B)
    BY <2>1, <2>2 DEF Bijection, Injection, Surjection, IsInjective
  <2>4. ExistsBijection(A, B)
    BY <2>3 DEF ExistsBijection
  <2> HIDE DEF A, B
  <2> QED
    BY ONLY <1>1, <2>4, FS_Bijection
<1>5. Cardinality(T) = Cardinality(A) + Cardinality(B)
  <2> HIDE DEF A, B, T
  <2>1. Cardinality(A \cup B) = Cardinality(A) + Cardinality(B) - Cardinality(A \cap B)
    BY ONLY <1>1, <1>4, FS_Union
  <2>2. Cardinality(A \cap B) = 0
    BY <1>3, FS_EmptySet
  <2> QED
    BY <1>1, <1>2, <1>4, <2>1, <2>2
<1> HIDE DEF A, B, T
<1> QED
  BY <1>1, <1>4, <1>5

\* A power of two is larger than its exponent.
LEMMA Grows ==
    ASSUME NEW n \in Nat
    PROVE  n < 2^n
<1> DEFINE S == {m \in Nat : m < 2^m}
<1>1. 0 \in S
  OBVIOUS
<1>2. ASSUME NEW m \in 0..n - 1, m \in S PROVE m + 1 \in S
  <2>1. m \in Nat /\ m < 2^m /\ 2^m \in Nat /\ 2^(m + 1) = 2 * 2^m
    <3>1. m \in Nat
      OBVIOUS
    <3> QED
      BY <1>2, <3>1, SubsetsOf, Doubled
  <2>2. m + 1 < 2^(m + 1)
    <3> DEFINE p == 2^m
               q == 2^(m + 1)
    <3>1. m < p /\ p \in Nat /\ q = 2 * p
      BY <2>1
    <3> HIDE DEF p, q
    <3>2. m + 1 < q
      BY <2>1, <3>1
    <3> QED
      BY <3>2 DEF q
  <2> QED
    BY <2>1, <2>2
<1> HIDE DEF S
<1>3. 0..n \subseteq S
  BY <1>1, <1>2, UpTo
<1>4. n \in S
  BY <1>3
<1> QED
  BY <1>4 DEF S

-----------------------------------------------------------------------------
(* The lowest bit of a number.                                             *)

\* A multiple is some number of times the other.
LEMMA Multiple ==
    ASSUME NEW x \in Nat, NEW P \in Nat \ {0}, x % P = 0
    PROVE  \E q \in Nat : x = P * q
<1>1. x = P * (x \div P) + (x % P)
  OBVIOUS
<1>2. x \div P \in Nat
  OBVIOUS
<1> QED
  BY <1>1, <1>2

\* That many times a number is a multiple.
LEMMA Times ==
    ASSUME NEW q \in Nat, NEW P \in Nat \ {0}
    PROVE  (P * q) % P = 0
OBVIOUS

\* A multiple of twice a number is one of the number.
LEMMA HalfDivides ==
    ASSUME NEW x \in Nat, NEW P \in Nat \ {0}, x % (2 * P) = 0
    PROVE  x % P = 0
<1> DEFINE D == 2 * P
<1>1. D \in Nat \ {0} /\ x % D = 0
  OBVIOUS
<1> HIDE DEF D
<1>2. PICK q \in Nat : x = D * q
  BY ONLY <1>1, x \in Nat, Multiple
<1>3. x = P * (2 * q) /\ 2 * q \in Nat
  BY <1>2 DEF D
<1> DEFINE r == 2 * q
<1>4. x = P * r /\ r \in Nat
  BY <1>3
<1> HIDE DEF r
<1> QED
  BY ONLY <1>4, P \in Nat \ {0}, Times

\* A multiple that is none of twice the number is one when the number is taken
\* away.
LEMMA OddMultiple ==
    ASSUME NEW x \in Nat, NEW P \in Nat \ {0}, x % P = 0, x % (2 * P) # 0
    PROVE  x - P \in Nat /\ (x - P) % (2 * P) = 0
<1> DEFINE D == 2 * P
<1>1. D \in Nat \ {0} /\ x % D # 0
  OBVIOUS
<1>2. PICK q \in Nat : x = P * q
  BY ONLY x \in Nat, P \in Nat \ {0}, x % P = 0, Multiple
<1>3. PICK r \in Nat : q = 2 * r \/ q = 2 * r + 1
  <2>1. q \div 2 \in Nat /\ (q = 2 * (q \div 2) \/ q = 2 * (q \div 2) + 1)
    OBVIOUS
  <2> QED
    BY <2>1
<1>4. D * r \in Nat /\ (D * r) % D = 0
  <2>1. D * r \in Nat
    OBVIOUS
  <2> HIDE DEF D
  <2>2. (D * r) % D = 0
    BY ONLY <1>1, r \in Nat, Times
  <2> QED
    BY <2>1, <2>2
<1>5. q # 2 * r
  <2> SUFFICES ASSUME q = 2 * r PROVE FALSE
    OBVIOUS
  <2>1. x = P * (2 * r)
    BY <1>2
  <2>2. P * (2 * r) = D * r
    OBVIOUS
  <2> HIDE DEF D
  <2> QED
    BY <1>1, <1>4, <2>1, <2>2
<1>6. x = P * (2 * r + 1)
  BY <1>2, <1>3, <1>5
<1>7. P * (2 * r + 1) = D * r + P
  OBVIOUS
<1>8. x - P = D * r
  <2> DEFINE e == D * r
  <2>1. e \in Nat /\ x = e + P
    BY <1>4, <1>6, <1>7
  <2> HIDE DEF e, D
  <2>2. x - P = e
    BY <2>1
  <2> QED
    BY <2>2 DEF e
<1> HIDE DEF D
<1>9. x - P \in Nat /\ (x - P) % D = 0
  BY <1>4, <1>8
<1> QED
  BY <1>9 DEF D

\* A multiple of a power of two is one of the smaller powers, which are smaller.
LEMMA LowerPowers ==
    ASSUME NEW x \in Nat, NEW k \in Nat, x % (2 * 2^k) = 0, NEW r \in 0..k
    PROVE  x % (2 * 2^r) = 0 /\ 2^r <= 2^k
<1> DEFINE S == {m \in Nat : m <= k => x % (2 * 2^(k - m)) = 0 /\ 2^(k - m) <= 2^k}
<1>1. 0 \in S
  <2> DEFINE T == 2^k
  <2>1. k - 0 = k
    OBVIOUS
  <2>2. T \in Nat
    BY SubsetsOf
  <2>3. x % (2 * T) = 0
    OBVIOUS
  <2> HIDE DEF T
  <2>4. x % (2 * T) = 0 /\ T <= T
    BY <2>2, <2>3
  <2>5. x % (2 * 2^(k - 0)) = 0 /\ 2^(k - 0) <= 2^k
    BY <2>1, <2>4 DEF T
  <2> QED
    BY <2>5
<1>2. ASSUME NEW m \in 0..k - 1, m \in S PROVE m + 1 \in S
  <2> DEFINE l == k - (m + 1)
             P == 2^l
             Q == 2^(k - m)
             T == 2^k
  <2>1. l \in Nat /\ l + 1 = k - m
    OBVIOUS
  <2>2. P \in Nat \ {0} /\ Q = 2 * P /\ T \in Nat
    <3>1. 2^(l + 1) = 2 * 2^l
      BY <2>1, Doubled
    <3> QED
      BY <2>1, <3>1, SubsetsOf
  <2>3. x % (2 * Q) = 0 /\ Q <= T
    BY <1>2
  <2> HIDE DEF P, Q, T, l
  <2>4. x % Q = 0
    <3>1. Q \in Nat \ {0}
      BY <2>2
    <3> QED
      BY ONLY <2>3, <3>1, x \in Nat, HalfDivides
  <2>5. x % (2 * P) = 0 /\ P <= T
    BY <2>2, <2>3, <2>4
  <2>6. m + 1 \in Nat /\ x % (2 * 2^(k - (m + 1))) = 0 /\ 2^(k - (m + 1)) <= 2^k
    BY <2>5 DEF P, T, l
  <2> QED
    BY <2>6
<1>3. 0..k \subseteq S
  <2> HIDE DEF S
  <2> QED
    BY <1>1, <1>2, UpTo
<1> DEFINE j == k - r
<1>4. j \in 0..k /\ k - j = r
  OBVIOUS
<1>5. j \in S
  BY <1>3, <1>4
<1>6. x % (2 * 2^(k - j)) = 0 /\ 2^(k - j) <= 2^k
  BY <1>4, <1>5
<1> HIDE DEF j
<1> QED
  BY <1>4, <1>6

\* Every number but 0 has a lowest bit.
LEMMA LowestBit ==
    ASSUME NEW x \in Nat \ {0}
    PROVE  \E k \in Nat : x % 2^k = 0 /\ x % (2 * 2^k) # 0
<1> SUFFICES ASSUME \A k \in Nat : x % 2^k = 0 => x % (2 * 2^k) = 0 PROVE FALSE
  OBVIOUS
<1> DEFINE S == {m \in Nat : x % 2^m = 0}
<1>1. 0 \in S
  <2>1. 2^0 = 1
    OBVIOUS
  <2>2. x % 1 = 0
    OBVIOUS
  <2> QED
    BY <2>1, <2>2
<1>2. ASSUME NEW m \in 0..x - 1, m \in S PROVE m + 1 \in S
  <2>1. m \in Nat /\ 2^(m + 1) = 2 * 2^m /\ x % (2 * 2^m) = 0
    BY <1>2, Doubled
  <2> QED
    BY <2>1
<1>3. 0..x \subseteq S
  <2> HIDE DEF S
  <2> QED
    BY <1>1, <1>2, UpTo
<1>4. x % 2^x = 0
  BY <1>3
<1> DEFINE T == 2^x
<1>5. T \in Nat /\ x < T
  BY SubsetsOf, Grows
<1>6. x % T = 0
  BY <1>4
<1> HIDE DEF T
<1> QED
  BY <1>5, <1>6

-----------------------------------------------------------------------------
(* The tree of joins of thread-join-binomial.c.                            *)

\* Thread number i, from 0, joins the one that is 2^s further.
Fans(i, n, s) == i % (2 * 2^s) = 0 /\ i + 2^s < n

\* It joins as many as it can, from the nearest on.
LEMMA WorkersOf ==
    ASSUME NEW i \in Nat, NEW n \in Nat
    PROVE  \E l \in 0..n :
              /\ Workers(i, n) = [s \in 1..l |-> Join(i + 2^(s - 1) + 1)]
              /\ ~Fans(i, n, l) /\ \A r \in 0..l - 1 : Fans(i, n, r)
<1> DEFINE l == CHOOSE s \in 0..n : ~Fans(i, n, s) /\ \A r \in 0..s - 1 : Fans(i, n, r)
<1>1. \E s \in 0..n : ~Fans(i, n, s) /\ \A r \in 0..s - 1 : Fans(i, n, r)
  <2> SUFFICES ASSUME \A s \in 0..n : (\A r \in 0..s - 1 : Fans(i, n, r)) => Fans(i, n, s)
      PROVE FALSE
    OBVIOUS
  <2> DEFINE S == {m \in Nat : \A r \in 0..m : Fans(i, n, r)}
  <2>1. 0 \in S
    <3>1. 0..0 - 1 = {} /\ 0..0 = {0} /\ 0 \in 0..n
      OBVIOUS
    <3> HIDE DEF Fans
    <3>2. Fans(i, n, 0)
      BY <3>1
    <3> QED
      BY <3>1, <3>2
  <2>2. ASSUME NEW m \in 0..n - 1, m \in S PROVE m + 1 \in S
    <3>1. (m + 1) - 1 = m /\ m + 1 \in 0..n /\ 0..m + 1 = 0..m \cup {m + 1} /\ m + 1 \in Nat
      OBVIOUS
    <3>2. Fans(i, n, m + 1)
      BY <2>2, <3>1
    <3> QED
      BY <2>2, <3>1, <3>2
  <2>3. 0..n \subseteq S
    <3> HIDE DEF S
    <3> QED
      BY <2>1, <2>2, UpTo
  <2>4. Fans(i, n, n)
    BY <2>3
  <2> DEFINE P == 2^n
  <2>5. P \in Nat /\ n < P /\ i + P < n
    BY <2>4, SubsetsOf, Grows DEF Fans
  <2> HIDE DEF P
  <2> QED
    BY <2>5
<1>2. l \in 0..n /\ ~Fans(i, n, l) /\ \A r \in 0..l - 1 : Fans(i, n, r)
  BY <1>1
<1>3. Workers(i, n) = [s \in 1..l |-> Join(i + 2^(s - 1) + 1)]
  BY DEF Workers, Fans
<1> HIDE DEF l
<1> QED
  BY <1>2, <1>3

\* Each but the first is joined by one that is before it.
LEMMA JoinedBy ==
    ASSUME NEW n \in Nat, NEW x \in 1..n - 1
    PROVE  \E i \in 0..x - 1 : \E k \in Nat : x = i + 2^k /\ \A r \in 0..k : Fans(i, n, r)
<1>1. x \in Nat \ {0}
  OBVIOUS
<1>2. PICK k \in Nat : x % 2^k = 0 /\ x % (2 * 2^k) # 0
  BY <1>1, LowestBit
<1> DEFINE P == 2^k
           i == x - P
<1>3. P \in Nat \ {0}
  BY SubsetsOf
<1>4. i \in Nat /\ i % (2 * P) = 0
  <2> HIDE DEF P
  <2> SUFFICES x % P = 0 /\ x % (2 * P) # 0
    BY ONLY <1>1, <1>3, OddMultiple, x % P = 0, x % (2 * P) # 0 DEF i
  <2> QED
    BY <1>2 DEF P
<1>5. i \in 0..x - 1 /\ x = i + P
  <2> HIDE DEF P
  <2> QED
    BY <1>3, <1>4
<1>6. ASSUME NEW r \in 0..k PROVE Fans(i, n, r)
  <2> DEFINE R == 2^r
  <2>1. R \in Nat
    <3>1. r \in Nat
      OBVIOUS
    <3> QED
      BY <3>1, SubsetsOf
  <2> HIDE DEF i
  <2>2. i % (2 * R) = 0 /\ R <= P
    BY <1>4, LowerPowers
  <2> HIDE DEF P, R
  <2>3. i + R < n
    BY <1>3, <1>4, <1>5, <2>1, <2>2
  <2> QED
    BY <2>2, <2>3 DEF Fans, R
<1> HIDE DEF i
<1> QED
  BY <1>5, <1>6

\* The code of a thread of thread-join-binomial.c, l of which are joins.
BinomialCode(t, l) ==
    /\ l \in 0..total /\ Len(C(t)) = 3 + l
    /\ C(t)[1] = Lock("data_mutex") /\ C(t)[2] = Write(data) /\ C(t)[3] = Unlock("data_mutex")
    /\ \A s \in 1..l : C(t)[3 + s] = Join(t + 2^(s - 1))
    /\ ~Fans(t - 1, total, l) /\ \A r \in 0..l - 1 : Fans(t - 1, total, r)

\* It is of that form.
LEMMA BinomialThread ==
    ASSUME prog = "thread_join_binomial", total \in 0..N, NEW t \in Threads
    PROVE  \E l : BinomialCode(t, l)
<1>1. total \in Nat /\ t \in Nat /\ t - 1 \in Nat /\ prog \in Others
  BY NAssumption DEF Threads, Others
<1>2. C(t) = SetData \o Workers(t - 1, total)
  BY <1>1, ShortThreads
<1>3. SetData = <<Lock("data_mutex"), Write(data), Unlock("data_mutex")>>
  BY LockedOne DEF SetData
<1> DEFINE i == t - 1
<1>4. PICK l \in 0..total :
              /\ Workers(i, total) = [s \in 1..l |-> Join(i + 2^(s - 1) + 1)]
              /\ ~Fans(i, total, l) /\ \A r \in 0..l - 1 : Fans(i, total, r)
  <2>1. i \in Nat
    BY <1>1
  <2> HIDE DEF i
  <2> QED
    BY ONLY <2>1, <1>1, WorkersOf
<1> DEFINE x1 == Lock("data_mutex")
           x2 == Write(data)
           x3 == Unlock("data_mutex")
           f == [s \in 1..l |-> Join(i + 2^(s - 1) + 1)]
           d == <<x1, x2, x3>>
           S == {x1, x2, x3} \cup {f[s] : s \in 1..l}
           c == d \o f
<1>5. C(t) = c
  BY <1>2, <1>3, <1>4
<1>6. l \in Nat /\ \A s \in 1..l : f[s] = Join(t + 2^(s - 1))
  <2>1. ASSUME NEW s \in 1..l PROVE i + 2^(s - 1) + 1 = t + 2^(s - 1)
    <3> DEFINE z == s - 1
    <3>1. z \in Nat
      OBVIOUS
    <3> HIDE DEF z
    <3> DEFINE P == 2^z
    <3>2. P \in Nat
      BY <3>1, SubsetsOf
    <3> HIDE DEF P
    <3>3. i + P + 1 = t + P
      BY <1>1, <3>2
    <3> QED
      BY <3>3 DEF P, z
  <2>2. ASSUME NEW s \in 1..l PROVE f[s] = Join(t + 2^(s - 1))
    <3>1. f[s] = Join(i + 2^(s - 1) + 1)
      OBVIOUS
    <3> HIDE DEF f, i
    <3> QED
      BY <2>1, <3>1
  <2>3. l \in Nat
    BY <1>1
  <2> HIDE DEF f
  <2> QED
    BY <2>2, <2>3
<1>7. f \in Seq(S) /\ Len(f) = l
  <2>1. \A s \in 1..l : f[s] \in S
    OBVIOUS
  <2>2. f = [s \in 1..l |-> f[s]]
    OBVIOUS
  <2> HIDE DEF f, S
  <2> QED
    BY <1>6, <2>1, <2>2
<1> HIDE DEF f
<1>8. x1 \in S /\ x2 \in S /\ x3 \in S
  OBVIOUS
<1> HIDE DEF S, x1, x2, x3
<1>9. d \in Seq(S) /\ Len(d) = 3 /\ d[1] = x1 /\ d[2] = x2 /\ d[3] = x3
  BY <1>8
<1> HIDE DEF d, c
<1>10. /\ Len(c) = 3 + l
       /\ \A j \in 1..3 : c[j] = d[j]
       /\ \A j \in 1..l : c[3 + j] = f[j]
  <2> DEFINE n == 3
  <2>1. f \in Seq(S) /\ Len(f) = l /\ d \in Seq(S) /\ Len(d) = n /\ l \in Nat /\ n \in Nat
    BY <1>6, <1>7, <1>9
  <2> HIDE DEF n
  <2>2. /\ Len(c) = n + l
        /\ \A j \in 1..n : c[j] = d[j]
        /\ \A j \in 1..l : c[n + j] = f[j]
    BY ONLY <2>1, InTwoParts DEF c
  <2> QED
    BY <2>2 DEF n
<1>11. c[1] = x1 /\ c[2] = x2 /\ c[3] = x3
  <2>1. 1 \in 1..3 /\ 2 \in 1..3 /\ 3 \in 1..3
    OBVIOUS
  <2> QED
    BY <1>9, <1>10, <2>1
<1>12. \A s \in 1..l : c[3 + s] = Join(t + 2^(s - 1))
  BY <1>6, <1>10
<1> QED
  BY <1>4, <1>5, <1>10, <1>11, <1>12 DEF BinomialCode, x1, x2, x3

\* What a thread does at a step: it joins one that comes after it.
LEMMA BinomialThreadAt ==
    ASSUME prog = "thread_join_binomial", total \in 0..N, NEW t \in Threads, NEW q \in 1..Len(C(t))
    PROVE  \/ q = 1 /\ C(t)[q] = Lock("data_mutex")
           \/ q = 2 /\ C(t)[q] = Write(data)
           \/ q = 3 /\ C(t)[q] = Unlock("data_mutex")
           \/ q > 3 /\ \E u \in 1..total : u > t /\ C(t)[q] = Join(u)
<1>1. total \in Nat /\ t \in Nat
  BY NAssumption DEF Threads
<1>2. PICK l : BinomialCode(t, l)
  BY BinomialThread
<1>3. l \in Nat /\ q \in Nat /\ q >= 1 /\ q <= 3 + l
  BY <1>1, <1>2 DEF BinomialCode
<1>4. CASE q > 3
  <2> DEFINE s == q - 3
             r == s - 1
             P == 2^r
  <2>1. s \in 1..l /\ 3 + s = q /\ r \in 0..l - 1 /\ r \in Nat
    BY <1>3, <1>4
  <2>2. C(t)[q] = Join(t + 2^(s - 1))
    <3> HIDE DEF s
    <3>1. C(t)[3 + s] = Join(t + 2^(s - 1))
      BY <1>2, <2>1 DEF BinomialCode
    <3> QED
      BY <2>1, <3>1
  <2>3. P \in Nat \ {0}
    <3> HIDE DEF r
    <3> QED
      BY <2>1, SubsetsOf
  <2>4. t - 1 + P < total
    <3> HIDE DEF r
    <3> QED
      BY <1>2, <2>1 DEF BinomialCode, Fans
  <2>5. C(t)[q] = Join(t + P)
    BY <2>2
  <2> HIDE DEF P
  <2>6. t + P \in 1..total /\ t + P > t
    BY <1>1, <2>3, <2>4
  <2> QED
    BY <1>4, <2>5, <2>6
<1>5. CASE ~(q > 3)
  <2>1. q = 1 \/ q = 2 \/ q = 3
    BY <1>3, <1>5
  <2> QED
    BY <1>2, <2>1 DEF BinomialCode
<1> QED
  BY <1>4, <1>5

\* What main does at a step of thread-join-binomial.c.
LEMMA BinomialAt ==
    ASSUME prog = "thread_join_binomial", total \in 0..N, NEW q \in 1..Len(C(Main))
    PROVE  \/ \E i \in 1..total : q = total + 1 - i /\ C(Main)[q] = Create(i)
           \/ q = total + 1 /\ C(Main)[q] = Join(1)
           \/ q = total + 2 /\ C(Main)[q] = Free(All("tids", total))
           \/ q = total + 3 /\ C(Main)[q] = Read(data)
<1>1. total \in Nat /\ Len(C(Main)) = total + 3 /\ q \in Nat /\ q >= 1 /\ q <= total + 3
  BY NAssumption, BinomialMain
<1>2. CASE q <= total
  <2> DEFINE j == total + 1 - q
  <2>1. j \in 1..total /\ q = total + 1 - j
    BY <1>1, <1>2
  <2> HIDE DEF j
  <2> QED
    BY <2>1, BinomialMain
<1>3. CASE q = total + 1
  BY <1>3, BinomialMain
<1>4. CASE q = total + 2
  BY <1>4, BinomialMain
<1>5. CASE q = total + 3
  BY <1>5, BinomialMain
<1>6. q <= total \/ q = total + 1 \/ q = total + 2 \/ q = total + 3
  BY <1>1
<1> QED
  BY ONLY <1>2, <1>3, <1>4, <1>5, <1>6

\* Its code is well placed.
LEMMA BinomialPlaced ==
    ASSUME prog = "thread_join_binomial", total \in 1..N
    PROVE  Placed
<1>1. /\ total \in Nat /\ total \in 0..N /\ total >= 1 /\ prog \in Others
      /\ Main \notin Threads /\ \A t \in All0 : t = Main \/ t \in Threads
  BY NAssumption DEF Others, All0, Threads, Main
<1>2. total \in Nat /\ total >= 1 /\ prog = "thread_join_binomial"
  BY <1>1
<1>3. ASSUME NEW q \in 1..Len(C(Main)) PROVE WellPlaced(Main, q)
  <2>1. ASSUME NEW i \in 1..total, q = total + 1 - i, C(Main)[q] = Create(i)
        PROVE  WellPlaced(Main, q)
    BY <1>2, <2>1 DEF WellPlaced, Section, SectionOf, Creation, CreationOf, Create
  <2>2. ASSUME q = total + 1, C(Main)[q] = Join(1) PROVE WellPlaced(Main, q)
    BY <1>2, <2>2 DEF WellPlaced, Section, SectionOf, Creation, CreationOf, Join
  <2>3. ASSUME q = total + 2, C(Main)[q] = Free(All("tids", total)) PROVE WellPlaced(Main, q)
    BY <1>2, <2>3 DEF WellPlaced, Section, SectionOf, Creation, CreationOf, Free
  <2>4. ASSUME q = total + 3, C(Main)[q] = Read(data) PROVE WellPlaced(Main, q)
    BY <1>2, <2>4 DEF WellPlaced, Section, SectionOf, Creation, CreationOf, Read
  <2> QED
    BY <1>1, <2>1, <2>2, <2>3, <2>4, BinomialAt
<1>4. ASSUME NEW t \in Threads, NEW q \in 1..Len(C(t)) PROVE WellPlaced(t, q)
  <2>1. /\ t # Main /\ t \in Nat
        /\ \A z : Section(t, z) = IF z \in {2, 3} THEN "data_mutex" ELSE "none"
    BY <1>1, <1>2 DEF Section, SectionOf, Threads
  <2>2. CASE q = 1 /\ C(t)[q] = Lock("data_mutex")
    <3>1. Section(t, q) = "none" /\ Section(t, q + 1) = "data_mutex"
      BY <2>1, <2>2
    <3> QED
      BY <2>1, <2>2, <3>1 DEF WellPlaced, Lock, Mutexes
  <2>3. CASE q = 2 /\ C(t)[q] = Write(data)
    <3>1. Section(t, q) = "data_mutex" /\ Section(t, q + 1) = "data_mutex"
      BY <2>1, <2>3
    <3> QED
      BY <2>1, <2>3, <3>1 DEF WellPlaced, Write
  <2>4. CASE q = 3 /\ C(t)[q] = Unlock("data_mutex")
    <3>1. Section(t, q) = "data_mutex" /\ Section(t, q + 1) = "none"
      BY <2>1, <2>4
    <3> QED
      BY <2>1, <2>4, <3>1 DEF WellPlaced, Unlock, Mutexes
  <2>5. ASSUME q > 3, NEW u \in 1..total, u > t, C(t)[q] = Join(u) PROVE WellPlaced(t, q)
    <3>1. Section(t, q) = "none" /\ Section(t, q + 1) = "none"
      BY <2>1, <2>5
    <3>2. Creation(u) < Creation(t)
      BY <1>2, <2>1, <2>5 DEF Creation, CreationOf
    <3> QED
      BY <1>2, <2>1, <2>5, <3>1, <3>2 DEF WellPlaced, Join
  <2> QED
    BY <1>1, <2>2, <2>3, <2>4, <2>5, BinomialThreadAt
<1>5. Len(C(Main)) \in Nat /\ \A t \in Threads : Len(C(t)) \in Nat
  <2>1. Len(C(Main)) \in Nat
    BY <1>1, BinomialMain
  <2>2. ASSUME NEW t \in Threads PROVE Len(C(t)) \in Nat
    <3>1. PICK l : BinomialCode(t, l)
      BY <1>1, BinomialThread
    <3> QED
      BY <1>1, <3>1 DEF BinomialCode
  <2> QED
    BY <2>1, <2>2
<1>6. \A t \in All0 : Section(t, 1) = "none"
  BY <1>1 DEF Section, SectionOf
<1> QED
  BY <1>1, <1>3, <1>4, <1>5, <1>6 DEF Placed

\* The code of each is well placed.
LEMMA OthersPlaced ==
    ASSUME OtherTypes
    PROVE  Placed
<1>1. /\ total \in 0..N
      /\ prog = "thread_join_binomial" => total \in 1..N
  BY NAssumption DEF OtherTypes, Totals
<1> QED
  BY <1>1, StructTidPlaced, ArrayInitPlaced, BitmaskPlaced, BarrierPlaced, OuterPlaced, InnerPlaced,
     SimplePlaced, BinomialPlaced DEF Others, OtherTypes

\* Initially.
LEMMA OthersInit ==
    ASSUME Init, prog \in Others
    PROVE  OtherInv
<1>1. /\ prog \in Others /\ total \in Totals(prog) /\ pc = [t \in All0 |-> 1]
      /\ status = [t \in All0 |-> IF t = Main THEN "running" ELSE "new"]
      /\ local = [t \in All0 |-> 0] /\ owner = [m \in Mutexes |-> NoOwner]
      /\ waits = [t \in All0 |-> "no"] /\ freed = {} /\ outcome = "running"
      /\ mem = [x \in Vars |-> mem[x]]
  BY DEF Init
<1>2. /\ mem[alive] = 0 /\ mem[Global("ready")] = 0 /\ mask = 0..N
  <2>1. alive \in Vars /\ Global("ready") \in Vars /\ Global("threads_mask") \in Vars
    BY DEF Vars, Globals, alive
  <2>2. /\ alive # Global("threads_mask") /\ alive # Global("keep_alive")
        /\ Global("ready") # Global("threads_mask") /\ Global("ready") # Global("keep_alive")
    BY DEF alive, Global
  <2>3. mem = [x \in Vars |-> CASE x = Global("threads_mask") -> 0..N
                               [] x = Global("keep_alive") -> 1
                               [] OTHER -> 0]
    BY DEF Init
  <2>4. mem[alive] = 0
    BY <2>1, <2>2, <2>3
  <2>5. mem[Global("ready")] = 0
    BY <2>1, <2>2, <2>3
  <2>6. mem[Global("threads_mask")] = 0..N
    <3> DEFINE y == Global("threads_mask")
               f(x) == CASE x = Global("threads_mask") -> 0..N
                         [] x = Global("keep_alive") -> 1
                         [] OTHER -> 0
    <3>1. mem[y] = f(y)
      BY <2>1, <2>3, Zenon
    <3>2. y # Global("keep_alive")
      BY DEF Global
    <3>3. f(y) = 0..N
      BY <3>2, Zenon
    <3> QED
      BY <3>1, <3>3
  <2> QED
    BY <2>4, <2>5, <2>6 DEF mask
<1>3. OtherTypes
  <2>1. 1 \in Nat \ {0}
    OBVIOUS
  <2>2. pc \in [All0 -> Nat \ {0}]
    BY <1>1, <2>1
  <2> QED
    BY <1>1, <2>2 DEF OtherTypes
<1>4. Placed /\ total \in Nat /\ Main \in All0 /\ Main \notin Threads /\ Threads \subseteq All0
  BY <1>1, <1>3, OthersPlaced, Numbers
<1>5. Base
  <2>1. CreatedInTurn
    <3> SUFFICES ASSUME NEW t \in Threads PROVE t > total \/ pc[Main] <= Creation(t)
      BY <1>1, <1>4 DEF CreatedInTurn
    <3>1. CASE t > total
      BY <3>1
    <3>2. CASE ~(t > total)
      <4>1. t \in 1..total
        BY <1>4, <3>2 DEF Threads
      <4>2. Creation(t) \in Nat /\ Creation(t) >= 1
        BY <1>4, <4>1 DEF Creation, CreationOf
      <4> QED
        BY <1>1, <1>4, <4>2
    <3> QED
      BY <3>1, <3>2
  <2>2. WaitsAtAwait /\ EndedAtEnd /\ FreesPassed /\ Unfailed
    BY <1>1 DEF WaitsAtAwait, EndedAtEnd, FreesPassed, Unfailed
  <2>3. Exclusive
    BY <1>1, <1>4 DEF Exclusive, Placed
  <2>4. JoinsPassed
    <3> SUFFICES ASSUME NEW t \in All0, NEW q \in 1..Len(C(t)), q < pc[t] PROVE FALSE
      BY DEF JoinsPassed
    <3>1. Len(C(t)) \in Nat /\ pc[t] = 1
      BY <1>1, <1>4 DEF Placed
    <3> QED
      BY <3>1
  <2> QED
    BY <1>3, <2>1, <2>2, <2>3, <2>4 DEF Base
<1>6. ReadyLast
  BY <1>1, <1>2, <1>4 DEF ReadyLast
<1>7. CountedOut
  <2>1. AliveOuter = {}
    BY <1>1, <1>4 DEF AliveOuter
  <2> QED
    BY <1>1, <1>2, <1>4, <2>1, FS_EmptySet DEF CountedOut
<1>8. CountedInOut
  <2>1. AliveInner = {}
    <3>1. 1..total \subseteq All0
      BY <1>1, <1>3, Numbers
    <3> QED
      BY <1>1, <3>1 DEF AliveInner
  <2> QED
    BY <1>1, <1>2, <1>4, <2>1, FS_EmptySet DEF CountedInOut
<1>9. BitsApart
  <2> SUFFICES ASSUME prog = "per_thread_index_bitmask"
               PROVE  Holders = {}
    BY <1>2 DEF BitsApart
  <2>1. pc[Main] = 1 /\ 1 % 4 = 1
    BY <1>1, <1>4
  <2>2. \A t \in 1..total : ~(1 > 4 * t)
    BY <1>4
  <2> QED
    BY <2>1, <2>2 DEF Holders, Creation, CreationOf
<1> QED
  BY <1>5, <1>6, <1>7, <1>8, <1>9 DEF OtherInv

-----------------------------------------------------------------------------
(* Accesses.                                                               *)

\* An instruction accesses what it names, and some only read it.
LEMMA OpAccess ==
    ASSUME NEW t
    PROVE  /\ Accesses(t) # {} => Ready(t) /\ ~AtEnd(t)
           /\ Here(t).op \in {"lock", "unlock", "signal", "broadcast"} => Accesses(t) = {}
           /\ Here(t).op \in {"write", "set", "inc", "dec", "atomic_set", "atomic_inc", "take_bit",
                              "give_bit", "read", "await", "unless", "repeat", "spin"}
                => Accesses(t) \subseteq {Here(t).x}
           /\ Here(t).op \in {"read", "await", "unless", "repeat", "spin", "join", "detach"}
                => Writes(t) = {}
           /\ Here(t).op = "write_at" => Accesses(t) \subseteq {<<Here(t).x, local[t]>>}
           /\ Here(t).op = "free" => Accesses(t) \subseteq Here(t).xs
           /\ Here(t).op \in {"create", "join", "detach"}
                => Accesses(t) \subseteq {<<"tids", Here(t).t>>}
<1> DEFINE op == Here(t).op
<1>1. Accesses(t) # {} => Ready(t) /\ ~AtEnd(t)
  BY DEF Accesses, Writes, Reads
<1>2. op \in {"lock", "unlock", "signal", "broadcast"} => Writes(t) = {} /\ Reads(t) = {}
  BY DEF Writes, Reads
<1>3. op \in {"write", "set", "inc", "dec", "atomic_set", "atomic_inc", "take_bit", "give_bit"}
        => Writes(t) \subseteq {Here(t).x} /\ Reads(t) = {}
  BY DEF Writes, Reads
<1>4. op \in {"read", "await", "unless", "repeat", "spin"} => Writes(t) = {}
        /\ Reads(t) \subseteq {Here(t).x}
  BY DEF Writes, Reads
<1>5. op = "write_at" => Writes(t) \subseteq {<<Here(t).x, local[t]>>} /\ Reads(t) = {}
  BY DEF Writes, Reads
<1>6. op = "free" => Writes(t) \subseteq Here(t).xs /\ Reads(t) = {}
  BY DEF Writes, Reads
<1>7. op = "create" => Writes(t) \subseteq {<<"tids", Here(t).t>>} /\ Reads(t) = {}
  BY DEF Writes, Reads
<1>8. op \in {"join", "detach"} => Writes(t) = {} /\ Reads(t) \subseteq {<<"tids", Here(t).t>>}
  BY DEF Writes, Reads
<1> HIDE DEF op
<1> QED
  BY <1>1, <1>2, <1>3, <1>4, <1>5, <1>6, <1>7, <1>8 DEF Accesses, op

\* Two threads are not in the same section.
LEMMA SectionsApart ==
    ASSUME Base, NEW t \in All0, NEW u \in All0, t # u, Ready(t), Ready(u),
           Section(t, pc[t]) # "none"
    PROVE  Section(t, pc[t]) # Section(u, pc[u])
BY DEF Base, Exclusive, Ready

\* A thread that is joined, or not created, is not about to do anything.
LEMMA IdleThreads ==
    ASSUME Base, Placed, NEW t \in Threads
    PROVE  /\ t > total \/ pc[Main] <= Creation(t) => ~Ready(t)
           /\ \A q \in 1..Len(C(Main)) :
                q < pc[Main] /\ C(Main)[q].op = "join" /\ C(Main)[q].t = t => ~Ready(t)
BY Numbers DEF Base, CreatedInTurn, JoinsPassed, Ready

-----------------------------------------------------------------------------
(* What only some of them keep.                                            *)

\* What a step of thread t leaves alone.
LEMMA GoesOnAlone ==
    ASSUME Base, Placed, NEW t \in All0, GoesOn(t)
    PROVE  /\ prog' = prog /\ total' = total /\ ~AtEnd(t) /\ status[t] = "running"
           /\ \A u \in All0 : u # t => pc'[u] = pc[u]
           /\ pc \in [All0 -> Nat \ {0}] /\ pc' \in [All0 -> Nat \ {0}]
           /\ \/ pc'[t] = pc[t] + 1
              \/ Here(t).op = "unless" /\ pc[t] = 6 /\ pc'[t] = 13
              \/ Here(t).op = "repeat" /\ pc[t] = 12 /\ pc'[t] = 7
           /\ mem' = NewMem(t)
           /\ Here(t).op = "await" => mem[Here(t).x] = Here(t).v
<1>1. ~AtEnd(t) /\ MovesOn(t) /\ prog' = prog /\ total' = total /\ status[t] = "running"
  BY DEF GoesOn, Ready
<1>2. mem' = NewMem(t) /\ (Here(t).op = "await" => mem[Here(t).x] = Here(t).v)
  BY DEF GoesOn, Stores, Joins
<1> QED
  BY <1>1, <1>2, NextStep DEF Base, OtherTypes

\* A thread that runs has been created.
LEMMA RunsCreated ==
    ASSUME Base, NEW t \in Threads, status[t] = "running"
    PROVE  t \in 1..total /\ Creation(t) \in Nat /\ pc[Main] > Creation(t)
<1>1. ~(t > total) /\ ~(pc[Main] <= Creation(t)) /\ t \in Nat /\ total \in Nat /\ t >= 1
  BY Numbers DEF Base, CreatedInTurn, Threads
<1>2. t \in 1..total /\ pc[Main] \in Nat
  BY <1>1, Numbers DEF Base, OtherTypes
<1>3. Creation(t) \in Nat
  BY <1>2, CreationsApart DEF Base
<1> QED
  BY <1>1, <1>2, <1>3

\* A location of the memory.
LEMMA MemAt ==
    ASSUME OtherTypes, NEW y \in Vars, NEW x, NEW v, mem' = [mem EXCEPT ![x] = v]
    PROVE  mem'[y] = IF y = x THEN v ELSE mem[y]
<1>1. mem = [z \in Vars |-> mem[z]]
  BY DEF OtherTypes
<1> QED
  BY <1>1

\* value-barrier.c: a step keeps ReadyLast.
LEMMA ReadyKept ==
    ASSUME Base, Placed, ReadyLast, NEW t \in All0, GoesOn(t)
    PROVE  ReadyLast'
<1> DEFINE r == Global("ready")
<1> SUFFICES ASSUME prog = "value_barrier"
             PROVE  /\ mem'[r] = 1 => pc'[Main] > total + 3
                    /\ \A u \in Threads : pc'[u] >= 3 => mem'[r] = 1
  BY GoesOnAlone DEF ReadyLast
<1>1. /\ mem[r] = 1 => pc[Main] > total + 3
      /\ \A u \in Threads : pc[u] >= 3 => mem[r] = 1
  BY DEF ReadyLast
<1>2. /\ ~AtEnd(t) /\ mem' = NewMem(t) /\ pc[t] \in Nat /\ pc[Main] \in Nat /\ total \in Nat
      /\ \A u \in All0 : u # t => pc'[u] = pc[u]
      /\ Threads \subseteq All0 /\ (t = Main \/ t \in Threads) /\ Main \notin Threads
           /\ Main \in All0
      /\ OtherTypes
  BY GoesOnAlone, Numbers DEF Base
<1>3. CASE t = Main
  <2>1. \A u \in Threads : pc'[u] = pc[u]
    BY <1>2, <1>3
  <2>2. CASE pc[Main] = total + 3 /\ Here(Main) = Set(r, 1)
    <3>1. pc'[Main] = pc[Main] + 1
      BY <1>3, <2>2, GoesOnAlone DEF Set
    <3>2. mem' = [mem EXCEPT ![r] = 1]
      BY <1>2, <1>3, <2>2 DEF NewMem, Set
    <3>3. mem'[r] = 1
      <4>1. r \in Vars
        BY DEF Vars, Globals
      <4> QED
        BY <1>2, <3>2, <4>1, MemAt
    <3> QED
      BY <1>2, <2>2, <3>1, <3>3
  <2>3. CASE Here(Main).op \in {"create", "write", "lock", "broadcast", "unlock", "join", "free"}
    <3>1. mem' = mem /\ pc'[Main] = pc[Main] + 1
      BY <1>2, <1>3, <2>3, NewMemSame, GoesOnAlone
    <3> QED
      BY <1>1, <1>2, <2>1, <3>1
  <2> QED
    BY <1>2, <1>3, <2>2, <2>3, BarrierMainHere DEF Create, Write, Lock, Broadcast, Unlock, Join,
       Free
<1>4. CASE t \in Threads
  <2>1. pc'[Main] = pc[Main]
    BY <1>2, <1>4
  <2>2. /\ \/ pc[t] = 2 /\ Here(t) = Await(r, 1, "ready_cond", "ready_mutex")
           \/ pc[t] # 2 /\ Here(t).op \in {"lock", "unlock", "read"}
    BY <1>2, <1>4, BarrierThreadHere DEF Lock, Unlock, Read
  <2>3. Here(t).op \in {"await", "lock", "unlock", "read"} /\ (pc[t] = 2 => mem[r] = 1)
    BY <2>2, GoesOnAlone DEF Await
  <2>4. mem' = mem /\ pc'[t] = pc[t] + 1
    BY <1>2, <2>3, NewMemSame, GoesOnAlone
  <2> QED
    BY <1>1, <1>2, <2>1, <2>3, <2>4
<1> QED
  BY <1>2, <1>3, <1>4

\* Some threads.
LEMMA SomeThreads ==
    ASSUME OtherTypes, NEW S \in SUBSET (1..total)
    PROVE  IsFiniteSet(S) /\ Cardinality(S) \in Nat /\ Cardinality(S) <= total
           /\ (Cardinality(S) = 0 <=> S = {}) /\ (Cardinality(S) = total => S = 1..total)
<1>1. IsFiniteSet(1..total) /\ Cardinality(1..total) = total
  BY Numbers, FS_Interval
<1>2. IsFiniteSet(S) /\ Cardinality(S) <= total
  BY <1>1, FS_Subset
<1>3. Cardinality(S) = total => S = 1..total
  BY <1>1, FS_Subset
<1> QED
  BY <1>2, <1>3, FS_CardinalityType, FS_EmptySet

\* thread-join-counter-outer.c: a step keeps CountedOut.
LEMMA CountedOutKept ==
    ASSUME Base, Placed, CountedOut, NEW t \in All0, GoesOn(t)
    PROVE  CountedOut'
<1> DEFINE S == {u \in 1..total : pc[Main] > 5 * u - 3 /\ pc[u] <= 5}
           T == {u \in 1..total : pc'[Main] > 5 * u - 3 /\ pc'[u] <= 5}
<1> SUFFICES ASSUME prog = "thread_join_counter_outer"
             PROVE  /\ mem'[alive] = Cardinality(T)
                    /\ pc'[Main] > 5 * total + 2 => \A u \in 1..total : pc'[u] > 5
  BY GoesOnAlone DEF CountedOut, AliveOuter
<1>1. /\ mem[alive] = Cardinality(S)
      /\ pc[Main] > 5 * total + 2 => \A u \in 1..total : pc[u] > 5
  BY DEF CountedOut, AliveOuter
<1>2. /\ ~AtEnd(t) /\ mem' = NewMem(t) /\ pc[t] \in Nat /\ pc[Main] \in Nat /\ total \in Nat
      /\ \A u \in All0 : u # t => pc'[u] = pc[u]
      /\ 1..total \subseteq Threads /\ Threads \subseteq All0
      /\ (t = Main \/ t \in Threads) /\ Main \notin Threads /\ Main \in All0
      /\ OtherTypes /\ \A u \in All0 : pc[u] \in Nat
  BY GoesOnAlone, Numbers DEF Base
<1>3. IsFiniteSet(S) /\ Cardinality(S) \in Nat /\ (Cardinality(S) = 0 <=> S = {})
  BY <1>2, SomeThreads
<1>4. alive \in Vars
  BY DEF Vars, Globals, alive
<1>5. ASSUME Here(t).op \notin {"set", "atomic_set", "inc", "atomic_inc", "dec", "take_bit",
                                "give_bit",
                               "unless", "repeat"}
      PROVE  mem' = mem /\ pc'[t] = pc[t] + 1
  BY <1>2, <1>5, NewMemSame, GoesOnAlone
<1>6. CASE t = Main
  <2>1. \A u \in 1..total : pc'[u] = pc[u] /\ pc[u] \in Nat
    BY <1>2, <1>6
  <2>2. ASSUME NEW i \in 1..total, pc[Main] = 5 * i - 3, Here(Main) = Inc(alive)
        PROVE  mem'[alive] = Cardinality(T) /\ pc'[Main] = pc[Main] + 1
    <3>1. pc'[Main] = pc[Main] + 1
      BY <1>6, <2>2, GoesOnAlone DEF Inc
    <3>2. mem'[alive] = mem[alive] + 1
      <4>1. mem' = [mem EXCEPT ![alive] = @ + 1]
        BY <1>2, <1>6, <2>2 DEF NewMem, Inc
      <4> QED
        BY <1>2, <1>4, <4>1, MemAt
    <3>3. pc[i] = 1
      <4>1. pc[Main] <= Creation(i)
        BY <1>2, <2>2 DEF Creation, CreationOf
      <4> QED
        BY <1>2, <4>1 DEF Base, CreatedInTurn
    <3>4. T = S \cup {i} /\ i \notin S
      BY <1>2, <2>1, <2>2, <3>1, <3>3
    <3>5. Cardinality(S \cup {i}) = Cardinality(S) + 1
      BY <1>3, <3>4, FS_AddElement
    <3> HIDE DEF S, T
    <3> QED
      BY <1>1, <3>1, <3>2, <3>4, <3>5
  <2>3. ASSUME NEW i \in 1..total,
               \/ pc[Main] = 5 * i - 4 /\ Here(Main).op = "lock"
               \/ pc[Main] = 5 * i - 2 /\ Here(Main).op = "unlock"
               \/ pc[Main] = 5 * i - 1 /\ Here(Main).op = "create"
               \/ pc[Main] = 5 * i /\ Here(Main).op = "detach"
        PROVE  mem'[alive] = Cardinality(T) /\ pc'[Main] = pc[Main] + 1
    <3>1. mem' = mem /\ pc'[Main] = pc[Main] + 1
      BY <1>5, <1>6, <2>3
    <3>2. T = S
      BY <1>2, <2>1, <2>3, <3>1
    <3> QED
      BY <1>1, <3>1, <3>2
  <2>4. ASSUME pc[Main] > 5 * total, Here(Main).op \in {"lock", "await", "unlock", "read"}
        PROVE  mem'[alive] = Cardinality(T) /\ pc'[Main] = pc[Main] + 1
    <3>1. mem' = mem /\ pc'[Main] = pc[Main] + 1
      BY <1>5, <1>6, <2>4
    <3>2. T = S
      BY <1>2, <2>1, <2>4, <3>1
    <3> QED
      BY <1>1, <3>1, <3>2
  <2>5. ASSUME pc[Main] = 5 * total + 2, Here(Main) = Await(alive, 0, "threads_alive_cond",
                                                            "threads_alive_mutex")
        PROVE  \A u \in 1..total : pc[u] > 5
    <3>1. mem[alive] = 0
      BY <1>6, <2>5, GoesOnAlone DEF Await
    <3>2. S = {}
      BY <1>1, <1>3, <3>1
    <3>3. \A u \in 1..total : pc[Main] > 5 * u - 3
      BY <1>2, <2>5
    <3> QED
      BY <2>1, <3>2, <3>3
  <2>6. /\ mem'[alive] = Cardinality(T) /\ pc'[Main] = pc[Main] + 1
        /\ pc[Main] = 5 * total + 2 => \A u \in 1..total : pc[u] > 5
    <3> HIDE DEF T
    <3>1. \/ \E i \in 1..total :
              \/ pc[Main] = 5 * i - 4 /\ Here(Main).op = "lock"
              \/ pc[Main] = 5 * i - 3 /\ Here(Main) = Inc(alive)
              \/ pc[Main] = 5 * i - 2 /\ Here(Main).op = "unlock"
              \/ pc[Main] = 5 * i - 1 /\ Here(Main).op = "create"
              \/ pc[Main] = 5 * i /\ Here(Main).op = "detach"
          \/ pc[Main] = 5 * total + 2 /\ Here(Main) = Await(alive, 0, "threads_alive_cond",
                                                            "threads_alive_mutex")
          \/ pc[Main] > 5 * total /\ pc[Main] # 5 * total + 2
               /\ Here(Main).op \in {"lock", "unlock", "read"}
      BY <1>2, <1>6, OuterMainHere DEF Lock, Unlock, Create, Detach, Read
    <3>2. CASE \E i \in 1..total : pc[Main] = 5 * i - 3 /\ Here(Main) = Inc(alive)
      BY <1>2, <2>2, <3>2
    <3>3. CASE \E i \in 1..total :
              \/ pc[Main] = 5 * i - 4 /\ Here(Main).op = "lock"
              \/ pc[Main] = 5 * i - 2 /\ Here(Main).op = "unlock"
              \/ pc[Main] = 5 * i - 1 /\ Here(Main).op = "create"
              \/ pc[Main] = 5 * i /\ Here(Main).op = "detach"
      BY <1>2, <2>3, <3>3
    <3>4. CASE pc[Main] = 5 * total + 2
          /\ Here(Main) = Await(alive, 0, "threads_alive_cond", "threads_alive_mutex")
      <4>1. Here(Main).op = "await" /\ pc[Main] > 5 * total
        BY <1>2, <3>4 DEF Await
      <4> QED
        BY <2>4, <2>5, <3>4, <4>1
    <3>5. CASE pc[Main] > 5 * total /\ pc[Main] # 5 * total + 2
          /\ Here(Main).op \in {"lock", "unlock", "read"}
      BY <2>4, <3>5
    <3> QED
      BY <3>1, <3>2, <3>3, <3>4, <3>5
  <2> HIDE DEF S, T
  <2> QED
    BY <1>1, <1>2, <2>1, <2>6
<1>7. CASE t \in Threads
  <2>1. pc'[Main] = pc[Main] /\ t \in 1..total /\ pc[Main] > 5 * t - 1
    BY <1>2, <1>7, GoesOnAlone, RunsCreated DEF Creation, CreationOf
  <2>2. \A u \in 1..total : u # t => pc'[u] = pc[u]
    BY <1>2
  <2>3. \A u \in 1..total : pc[u] \in Nat
    BY <1>2
  <2>4. CASE pc[t] = 5 /\ Here(t) = Dec(alive)
    <3>1. pc'[t] = pc[t] + 1
      BY <2>4, GoesOnAlone DEF Dec
    <3>2. mem'[alive] = mem[alive] - 1
      <4>1. mem' = [mem EXCEPT ![alive] = @ - 1]
        BY <1>2, <2>4 DEF NewMem, Dec
      <4> QED
        BY <1>2, <1>4, <4>1, MemAt
    <3>3. T = S \ {t} /\ t \in S
      <4>1. pc[Main] > 5 * t - 3 /\ pc[t] <= 5 /\ ~(pc'[t] <= 5)
        BY <1>2, <2>1, <2>4, <3>1
      <4> QED
        BY <2>1, <2>2, <2>3, <4>1
    <3>4. Cardinality(S \ {t}) = Cardinality(S) - 1
      BY <1>3, <3>3, FS_RemoveElement
    <3> HIDE DEF S, T
    <3> QED
      BY <1>1, <1>2, <2>1, <2>2, <2>3, <2>4, <3>1, <3>2, <3>3, <3>4
  <2>5. CASE pc[t] # 5 /\ Here(t).op \in {"lock", "write", "unlock", "signal"}
    <3>1. mem' = mem /\ pc'[t] = pc[t] + 1
      BY <1>5, <2>5
    <3>2. pc'[t] <= 5 <=> pc[t] <= 5
      BY <1>2, <2>5, <3>1
    <3>3. T = S
      BY <2>1, <2>2, <3>2
    <3>4. \A u \in 1..total : pc[u] > 5 => pc'[u] > 5
      BY <2>1, <2>2, <2>3, <3>1
    <3> HIDE DEF S, T
    <3> QED
      BY <1>1, <2>1, <3>1, <3>3, <3>4
  <2> QED
    BY <1>2, <1>7, <2>4, <2>5, OuterThreadHere DEF Lock, Write, Unlock, Signal
<1> QED
  BY <1>2, <1>6, <1>7

\* thread-join-counter-inner.c: a step keeps CountedInOut.
LEMMA CountedInOutKept ==
    ASSUME Base, Placed, CountedInOut, NEW t \in All0, GoesOn(t)
    PROVE  CountedInOut'
<1> DEFINE S == {u \in 1..total : pc[u] \in 3..15}
           T == {u \in 1..total : pc'[u] \in 3..15}
<1> SUFFICES ASSUME prog = "thread_join_counter_inner"
             PROVE  /\ mem'[alive] = Cardinality(T)
                    /\ pc'[Main] > 2 * total + 2 => \A u \in 1..total : pc'[u] >= 3
                    /\ pc'[Main] > 2 * total + 8 => \A u \in 1..total : pc'[u] >= 16
  BY GoesOnAlone DEF CountedInOut, AliveInner
<1>1. /\ mem[alive] = Cardinality(S)
      /\ pc[Main] > 2 * total + 2 => \A u \in 1..total : pc[u] >= 3
      /\ pc[Main] > 2 * total + 8 => \A u \in 1..total : pc[u] >= 16
  BY DEF CountedInOut, AliveInner
<1>2. /\ ~AtEnd(t) /\ mem' = NewMem(t) /\ pc[t] \in Nat /\ pc[Main] \in Nat /\ total \in Nat
      /\ \A u \in All0 : u # t => pc'[u] = pc[u]
      /\ 1..total \subseteq Threads /\ Threads \subseteq All0
      /\ (t = Main \/ t \in Threads) /\ Main \notin Threads /\ Main \in All0
      /\ OtherTypes /\ \A u \in All0 : pc[u] \in Nat
  BY GoesOnAlone, Numbers DEF Base
<1>3. IsFiniteSet(S) /\ Cardinality(S) \in Nat /\ (Cardinality(S) = 0 <=> S = {})
      /\ (Cardinality(S) = total => S = 1..total)
  BY <1>2, SomeThreads
<1>4. alive \in Vars /\ Global("keep_alive") # alive
  BY DEF Vars, Globals, alive, Global
<1>5. ASSUME Here(t).op \notin {"set", "atomic_set", "inc", "atomic_inc", "dec", "take_bit",
                                "give_bit",
                               "unless", "repeat"}
      PROVE  mem' = mem /\ pc'[t] = pc[t] + 1
  BY <1>2, <1>5, NewMemSame, GoesOnAlone
<1>6. CASE t = Main
  <2>1. \A u \in 1..total : pc'[u] = pc[u] /\ pc[u] \in Nat
    BY <1>2, <1>6
  <2>2. T = S
    BY <2>1
  <2>3. mem'[alive] = mem[alive] /\ pc'[Main] = pc[Main] + 1
    <3>1. CASE Here(Main) = Set(Global("keep_alive"), 0)
      <4>1. mem' = [mem EXCEPT ![Global("keep_alive")] = 0]
        BY <1>2, <1>6, <3>1 DEF NewMem, Set
      <4>2. mem'[alive] = mem[alive]
        BY <1>2, <1>4, <4>1, MemAt
      <4>3. Here(t).op = "set"
        BY <1>6, <3>1 DEF Set
      <4> QED
        BY <1>6, <4>2, <4>3, GoesOnAlone
    <3>2. CASE Here(Main).op \in {"create", "detach", "lock", "await", "unlock", "read"}
      BY <1>5, <1>6, <3>2
    <3> QED
      BY <1>2, <1>6, <3>1, <3>2, InnerMainHere DEF Create, Detach, Lock, Await, Unlock, Read
  <2>4. pc[Main] = 2 * total + 2 => mem[alive] = total
    <3>1. pc[Main] = 2 * total + 2 => Here(Main) = Await(alive, total, "threads_alive_cond",
                                                         "threads_alive_mutex")
      BY <1>2, <1>6, InnerMainHere
    <3> QED
      BY <1>6, <3>1, GoesOnAlone DEF Await
  <2>5. pc[Main] = 2 * total + 8 => mem[alive] = 0
    <3>1. pc[Main] = 2 * total + 8 => Here(Main) = Await(alive, 0, "threads_alive_cond",
                                                         "threads_alive_mutex")
      BY <1>2, <1>6, InnerMainHere
    <3> QED
      BY <1>6, <3>1, GoesOnAlone DEF Await
  <2>6. pc[Main] = 2 * total + 2 => \A u \in 1..total : pc[u] >= 3
    <3>1. pc[Main] = 2 * total + 2 => S = 1..total
      BY <1>1, <1>3, <2>4
    <3> QED
      BY <2>1, <3>1
  <2>7. pc[Main] = 2 * total + 8 => \A u \in 1..total : pc[u] >= 16
    <3>1. pc[Main] = 2 * total + 8 => S = {} /\ \A u \in 1..total : pc[u] >= 3
      BY <1>1, <1>2, <1>3, <2>5
    <3>2. \A u \in 1..total : u \notin S => ~(pc[u] \in 3..15)
      OBVIOUS
    <3> QED
      BY <2>1, <3>1, <3>2
  <2> HIDE DEF S, T
  <2> QED
    BY <1>1, <1>2, <2>1, <2>2, <2>3, <2>6, <2>7
<1>7. CASE t \in Threads
  <2>1. pc'[Main] = pc[Main] /\ t \in 1..total
    BY <1>2, <1>7, GoesOnAlone, RunsCreated
  <2>2. \A u \in 1..total : u # t => pc'[u] = pc[u]
    BY <1>2
  <2>3. \A u \in 1..total : pc[u] \in Nat
    BY <1>2
  <2>4. /\ \/ pc[t] = 2 /\ Here(t) = Inc(alive)
           \/ pc[t] = 15 /\ Here(t) = Dec(alive)
           \/ pc[t] = 6 /\ Here(t).op = "unless"
           \/ pc[t] = 12 /\ Here(t).op = "repeat"
           \/ pc[t] \notin {2, 6, 12, 15} /\ Here(t).op \in {"lock", "write", "unlock", "signal"}
    BY <1>2, <1>7, InnerThreadHere DEF Lock, Write, Unlock, Signal, Unless, Repeat
  <2>5. CASE pc[t] = 2 /\ Here(t) = Inc(alive)
    <3>1. pc'[t] = 3
      BY <2>5, GoesOnAlone DEF Inc
    <3>2. mem'[alive] = mem[alive] + 1
      <4>1. mem' = [mem EXCEPT ![alive] = @ + 1]
        BY <1>2, <2>5 DEF NewMem, Inc
      <4> QED
        BY <1>2, <1>4, <4>1, MemAt
    <3>3. T = S \cup {t} /\ t \notin S
      BY <2>1, <2>2, <2>3, <2>5, <3>1
    <3>4. Cardinality(S \cup {t}) = Cardinality(S) + 1
      BY <1>3, <3>3, FS_AddElement
    <3>5. \A u \in 1..total : (pc[u] >= 3 => pc'[u] >= 3) /\ (pc[u] >= 16 => pc'[u] >= 16)
      BY <2>1, <2>2, <2>3, <2>5, <3>1
    <3> HIDE DEF S, T
    <3> QED
      BY <1>1, <2>1, <3>2, <3>3, <3>4, <3>5
  <2>6. CASE pc[t] = 15 /\ Here(t) = Dec(alive)
    <3>1. pc'[t] = 16
      BY <2>6, GoesOnAlone DEF Dec
    <3>2. mem'[alive] = mem[alive] - 1
      <4>1. mem' = [mem EXCEPT ![alive] = @ - 1]
        BY <1>2, <2>6 DEF NewMem, Dec
      <4> QED
        BY <1>2, <1>4, <4>1, MemAt
    <3>3. T = S \ {t} /\ t \in S
      BY <2>1, <2>2, <2>3, <2>6, <3>1
    <3>4. Cardinality(S \ {t}) = Cardinality(S) - 1
      BY <1>3, <3>3, FS_RemoveElement
    <3>5. \A u \in 1..total : (pc[u] >= 3 => pc'[u] >= 3) /\ (pc[u] >= 16 => pc'[u] >= 16)
      BY <2>1, <2>2, <2>3, <2>6, <3>1
    <3> HIDE DEF S, T
    <3> QED
      BY <1>1, <2>1, <3>2, <3>3, <3>4, <3>5
  <2>7. CASE pc[t] \notin {2, 15}
        /\ Here(t).op \in {"lock", "write", "unlock", "signal", "unless", "repeat"}
    <3>1. mem' = mem
      BY <1>2, <2>7, NewMemSame
    <3>2. pc'[t] = pc[t] + 1 \/ (pc[t] = 6 /\ pc'[t] = 13) \/ (pc[t] = 12 /\ pc'[t] = 7)
      BY GoesOnAlone
    <3>3. pc[t] \in 3..15 <=> pc'[t] \in 3..15
      BY <1>2, <2>7, <3>2
    <3>4. T = S
      BY <2>1, <2>2, <3>3
    <3>5. \A u \in 1..total : (pc[u] >= 3 => pc'[u] >= 3) /\ (pc[u] >= 16 => pc'[u] >= 16)
      BY <2>1, <2>2, <2>3, <3>2
    <3> HIDE DEF S, T
    <3> QED
      BY <1>1, <2>1, <3>1, <3>4, <3>5
  <2> QED
    BY <2>4, <2>5, <2>6, <2>7
<1> QED
  BY <1>2, <1>6, <1>7

\* The threads that could not be created stay so.
LEMMA UncreatedGrow ==
    ASSUME Base, Placed, NEW t \in All0, GoesOn(t)
    PROVE  Uncreated \subseteq Uncreated'
<1> SUFFICES ASSUME NEW u \in Threads, status[u] = "failed" PROVE status'[u] = "failed"
  BY DEF Uncreated
<1>1. ~AtEnd(t) /\ WellPlaced(t, pc[t]) /\ Here(t) = C(t)[pc[t]]
  BY HereIs DEF GoesOn, Base
<1>2. CASE Here(t).op # "create"
  BY <1>2 DEF GoesOn, Creates
<1>3. CASE Here(t).op = "create"
  <2>1. Here(t).t \in 1..total /\ pc[Main] = Creation(Here(t).t)
    BY <1>1, <1>3 DEF WellPlaced
  <2>2. Here(t).t \in Threads /\ pc[Main] \in Nat /\ u \in All0
        /\ status \in [All0 -> {"new", "running", "ended", "failed"}]
    BY <2>1, Numbers DEF Base, OtherTypes
  <2>3. status[Here(t).t] = "new"
    BY <2>1, <2>2 DEF Base, CreatedInTurn
  <2>4. status' = [status EXCEPT ![Here(t).t] = "running"]
          \/ status' = [status EXCEPT ![Here(t).t] = "failed"]
    BY <1>3 DEF GoesOn, Creates
  <2> QED
    BY <2>2, <2>3, <2>4
<1> QED
  BY <1>2, <1>3

\* The least of a set of numbers.
LEMMA LeastOf ==
    ASSUME NEW S \in SUBSET Nat, NEW b \in S
    PROVE  Min(S) \in S /\ Min(S) <= b
<1>1. \E m \in S : \A y \in S : m <= y
  <2> SUFFICES ASSUME \A m \in S : \E y \in S : ~(m <= y) PROVE FALSE
    OBVIOUS
  <2> DEFINE M == {m \in 0..b : \A k \in 0..m : k \notin S}
  <2>1. b \in Nat /\ \A m \in S : m \in Nat
    OBVIOUS
  <2>2. 0 \in M
    BY <2>1
  <2>3. ASSUME NEW m \in 0..b - 1, m \in M PROVE m + 1 \in M
    <3>1. m + 1 \notin S
      <4> SUFFICES ASSUME m + 1 \in S PROVE FALSE
        OBVIOUS
      <4>1. PICK y \in S : ~(m + 1 <= y)
        OBVIOUS
      <4>2. y \in 0..m
        BY <2>1, <4>1
      <4> QED
        BY <2>3, <4>2
    <3> QED
      BY <2>1, <2>3, <3>1
  <2> HIDE DEF M
  <2>4. 0..b \subseteq M
    BY <2>1, <2>2, <2>3, UpTo
  <2>5. b \in M
    BY <2>1, <2>4
  <2> QED
    BY <2>1, <2>5 DEF M
<1> QED
  BY <1>1 DEF Min

\* When main is about to take a bit, one of the lowest is there, for the holders
\* are fewer.
LEMMA BitIsThere ==
    ASSUME OtherTypes, BitsApart, prog = "per_thread_index_bitmask", Uncreated = {},
           NEW i \in 1..total, pc[Main] = 4 * i - 2
    PROVE  Min(mask) \in mask /\ Min(mask) \in 0..total - 1
<1>1. total \in Nat /\ total <= N /\ N \in Nat /\ 1..total \subseteq Nat /\ pc[Main] \in Nat
  BY Numbers, NAssumption DEF OtherTypes
<1>2. /\ mask \subseteq 0..N
      /\ \A b \in 0..N : b \in mask \/ \E h \in Holders : local[h] = b
  BY DEF BitsApart
<1>3. Holders \subseteq 1..i - 1
  <2>1. pc[Main] % 4 = 2
    BY <1>1
  <2> SUFFICES ASSUME NEW h \in Holders PROVE h \in 1..i - 1
    OBVIOUS
  <2>2. h \in 1..total /\ pc[Main] > 4 * h
    BY <2>1 DEF Holders, Creation, CreationOf
  <2> QED
    BY <1>1, <2>2
<1>4. \E b \in 0..i - 1 : b \in mask
  <2> SUFFICES ASSUME \A b \in 0..i - 1 : b \notin mask PROVE FALSE
    OBVIOUS
  <2> DEFINE f == [b \in 0..i - 1 |-> CHOOSE h \in Holders : local[h] = b]
  <2>1. ASSUME NEW b \in 0..i - 1 PROVE f[b] \in Holders /\ local[f[b]] = b
    <3>1. b \in 0..N
      BY <1>1
    <3>2. \E h \in Holders : local[h] = b
      BY <1>2, <3>1
    <3> QED
      BY <3>2
  <2>2. f \in [0..i - 1 -> 1..i - 1]
    BY <1>3, <2>1
  <2> HIDE DEF f
  <2>3. /\ IsFiniteSet(0..i - 1) /\ Cardinality(0..i - 1) = i
        /\ IsFiniteSet(1..i - 1) /\ Cardinality(1..i - 1) = i - 1
    <3>1. 0 \in Int /\ i - 1 \in Int /\ 1 \in Int /\ i \in Nat /\ i >= 1
      BY <1>1
    <3>2. /\ IsFiniteSet(0..i - 1) /\ IsFiniteSet(1..i - 1)
          /\ Cardinality(0..i - 1) = IF 0 > i - 1 THEN 0 ELSE (i - 1) - 0 + 1
          /\ Cardinality(1..i - 1) = IF 1 > i - 1 THEN 0 ELSE (i - 1) - 1 + 1
      BY <3>1, FS_Interval
    <3> QED
      BY <3>1, <3>2
  <2>4. Cardinality(1..i - 1) < Cardinality(0..i - 1)
    BY <1>1, <2>3
  <2>5. \E x, y \in 0..i - 1 : x # y /\ f[x] = f[y]
    <3> DEFINE A == 0..i - 1
               B == 1..i - 1
    <3>1. f \in [A -> B] /\ IsFiniteSet(A) /\ IsFiniteSet(B) /\ Cardinality(B) < Cardinality(A)
      BY <2>2, <2>3, <2>4
    <3> HIDE DEF A, B
    <3>2. \E x, y \in A : x # y /\ f[x] = f[y]
      BY ONLY <3>1, FS_PigeonHole
    <3> QED
      BY <3>2 DEF A
  <2> QED
    BY <2>1, <2>5
<1>5. PICK b \in 0..i - 1 : b \in mask
  BY <1>4
<1>6. mask \subseteq Nat /\ Min(mask) \in mask /\ Min(mask) <= b
  <2>1. mask \in SUBSET Nat
    BY <1>1, <1>2
  <2> QED
    BY <1>5, <2>1, LeastOf
<1> DEFINE z == Min(mask)
<1>7. z \in mask /\ z \in Nat /\ z <= b
  BY <1>6
<1> HIDE DEF z
<1>8. z \in 0..total - 1
  BY <1>1, <1>5, <1>7
<1> QED
  BY <1>7, <1>8 DEF z

\* per-thread-index-bitmask.c: a step keeps BitsApart.
LEMMA BitsKept ==
    ASSUME Base, Placed, BitsApart, NEW t \in All0, GoesOn(t)
    PROVE  BitsApart'
<1> DEFINE g == Global("threads_mask")
           H == {u \in 1..total : pc[Main] > 4 * u /\ pc[u] <= 3}
                \cup (IF pc[Main] <= 4 * total /\ pc[Main] % 4 \in {0, 3} THEN {Main} ELSE {})
           G == {u \in 1..total : pc'[Main] > 4 * u /\ pc'[u] <= 3}
                \cup (IF pc'[Main] <= 4 * total /\ pc'[Main] % 4 \in {0, 3} THEN {Main} ELSE {})
           Fine(m, l, K) ==
              /\ m \subseteq 0..N
              /\ \A b \in 0..N : b \in m \/ \E h \in K : l[h] = b
              /\ \A h \in K : l[h] \in 0..total - 1 /\ l[h] \notin m
              /\ \A h, k \in K : h # k => l[h] # l[k]
<1>1. prog' = prog /\ total' = total /\ Uncreated \subseteq Uncreated'
  BY GoesOnAlone, UncreatedGrow
<1> SUFFICES ASSUME prog = "per_thread_index_bitmask", Uncreated' = {}
             PROVE  Fine(mem'[g], local', G)
  BY <1>1 DEF BitsApart, Holders, Creation, CreationOf, mask
<1>2. Fine(mem[g], local, H) /\ Uncreated = {} /\ mask = mem[g]
  BY <1>1 DEF BitsApart, Holders, Creation, CreationOf, mask
<1>3. /\ ~AtEnd(t) /\ mem' = NewMem(t) /\ pc[t] \in Nat /\ pc[Main] \in Nat /\ total \in Nat
           /\ total <= N
      /\ \A u \in All0 : u # t => pc'[u] = pc[u]
      /\ 1..total \subseteq Threads /\ Threads \subseteq All0
      /\ (t = Main \/ t \in Threads) /\ Main \notin Threads /\ Main \in All0
      /\ OtherTypes /\ local = [u \in All0 |-> local[u]] /\ \A u \in All0 : pc[u] \in Nat
      /\ Stores(t) /\ Creates(t) /\ N \in Nat
  BY GoesOnAlone, Numbers, NAssumption DEF Base, GoesOn, OtherTypes
<1>4. g \in Vars
  BY DEF Vars
<1>5. ASSUME Here(t).op \notin {"set", "atomic_set", "inc", "atomic_inc", "dec", "take_bit",
                                "give_bit",
                               "unless", "repeat", "create"}
      PROVE  mem' = mem /\ local' = local /\ pc'[t] = pc[t] + 1
  BY <1>3, <1>5, NewMemSame, GoesOnAlone DEF Stores
<1>6. CASE t = Main
  <2>1. \A u \in 1..total : pc'[u] = pc[u] /\ pc[u] \in Nat
    BY <1>3, <1>6
  <2>2. ASSUME NEW i \in 1..total, pc[Main] = 4 * i - 2, Here(Main) = TakeBit(g)
        PROVE  Fine(mem'[g], local', G)
    <3> DEFINE b == Min(mem[g])
    <3>1. b \in mem[g] /\ b \in 0..total - 1
      BY <1>2, <1>3, <2>2, BitIsThere
    <3> HIDE DEF b
    <3>2. mem'[g] = mem[g] \ {b}
      <4>1. mem' = [mem EXCEPT ![g] = @ \ {Min(@)}]
        BY <1>3, <1>6, <2>2 DEF NewMem, TakeBit
      <4>2. mem' = [mem EXCEPT ![g] = mem[g] \ {b}]
        BY <4>1 DEF b
      <4> QED
        BY <1>3, <1>4, <4>2, MemAt
    <3>3. local' = [local EXCEPT ![Main] = b]
      BY <1>3, <1>6, <2>2 DEF Stores, TakeBit, b
    <3>4. local'[Main] = b /\ \A u \in 1..total : local'[u] = local[u]
      BY <1>3, <3>3
    <3>5. pc'[Main] = 4 * i - 1
      BY <1>3, <1>6, <2>2, GoesOnAlone DEF TakeBit
    <3>6. pc[Main] % 4 = 2 /\ pc'[Main] % 4 = 3 /\ 4 * i - 1 <= 4 * total
      BY <1>3, <2>2, <3>5
    <3>7. H = {u \in 1..total : pc[Main] > 4 * u /\ pc[u] <= 3}
      BY <3>6
    <3>8. G = {u \in 1..total : pc'[Main] > 4 * u /\ pc'[u] <= 3} \cup {Main}
      BY <3>5, <3>6
    <3>9. {u \in 1..total : pc'[Main] > 4 * u /\ pc'[u] <= 3} = H
      BY <1>3, <2>1, <2>2, <3>5, <3>7
    <3>10. G = H \cup {Main} /\ Main \notin H /\ H \subseteq 1..total
      BY <1>3, <3>7, <3>8, <3>9
    <3> DEFINE m == mem[g]
               n == mem'[g]
    <3>11. \A h \in H : local'[h] = local[h]
      BY <3>4, <3>10
    <3>12. n = m \ {b}
      BY <3>2
    <3>13. Fine(m, local, H)
      BY <1>2
    <3> HIDE DEF G, H, m, n
    <3> DEFINE l == local'
    <3>14. l[Main] = b /\ \A h \in H : l[h] = local[h]
      BY <3>4, <3>11
    <3> HIDE DEF l
    <3>15. n \subseteq 0..N
      BY <3>12, <3>13
    <3>16. \A c \in 0..N : c \in n \/ \E h \in G : l[h] = c
      BY <3>10, <3>12, <3>13, <3>14
    <3>17. \A h \in G : l[h] \in 0..total - 1 /\ l[h] \notin n
      BY <3>1, <3>10, <3>12, <3>13, <3>14 DEF m
    <3>18. \A h, k \in G : h # k => l[h] # l[k]
      <4>1. b \in m
        BY <3>1 DEF m
      <4>2. \A h \in H : l[h] # b
        BY ONLY <3>13, <3>14, <4>1
      <4>3. \A h, k \in H : h # k => l[h] # l[k]
        BY ONLY <3>13, <3>14
      <4>4. G = H \cup {Main} /\ l[Main] = b
        BY <3>10, <3>14
      <4> QED
        BY ONLY <4>2, <4>3, <4>4
    <3> QED
      BY <3>15, <3>16, <3>17, <3>18 DEF n, l
  <2>3. ASSUME NEW i \in 1..total, pc[Main] = 4 * i, Here(Main) = Create(i)
        PROVE  Fine(mem'[g], local', G)
    <3>1. mem' = mem /\ pc'[Main] = 4 * i + 1
      BY <1>3, <1>6, <2>3, NewMemSame, GoesOnAlone DEF Create
    <3>2. local' = [local EXCEPT ![i] = local[Main]]
      <4>1. \/ /\ status' = [status EXCEPT ![i] = "running"]
               /\ local' = [local EXCEPT ![i] = local[Main]]
            \/ status' = [status EXCEPT ![i] = "failed"]
        BY <1>3, <1>6, <2>3 DEF Creates, Create
      <4>2. ASSUME status' = [status EXCEPT ![i] = "failed"] PROVE FALSE
        <5>1. i \in All0 /\ i \in Threads
              /\ status \in [All0 -> {"new", "running", "ended", "failed"}]
          BY <1>3 DEF OtherTypes
        <5>2. i \in Uncreated'
          BY <4>2, <5>1 DEF Uncreated
        <5> QED
          BY <5>2
      <4> QED
        BY <4>1, <4>2
    <3>3. local'[i] = local[Main] /\ \A u \in 1..total : u # i => local'[u] = local[u]
      BY <1>3, <3>2
    <3>4. pc[i] = 1
      <4>1. pc[Main] <= Creation(i)
        BY <1>3, <2>3 DEF Creation, CreationOf
      <4> QED
        BY <1>3, <4>1 DEF Base, CreatedInTurn
    <3>5. pc[Main] % 4 = 0 /\ pc'[Main] % 4 = 1 /\ 4 * i <= 4 * total
      BY <1>3, <2>3, <3>1
    <3> DEFINE K == {u \in 1..total : pc[Main] > 4 * u /\ pc[u] <= 3}
    <3>6. H = K \cup {Main}
      BY <2>3, <3>5
    <3>7. G = {u \in 1..total : pc'[Main] > 4 * u /\ pc'[u] <= 3}
      BY <3>5
    <3>8. G = K \cup {i} /\ i \notin K /\ K \subseteq 1..total /\ Main \notin K
      BY <1>3, <2>1, <2>3, <3>1, <3>4, <3>7
    <3>9. \A h \in K : local'[h] = local[h]
      BY <3>3, <3>8
    <3> DEFINE m == mem[g]
    <3>10. Fine(m, local, H) /\ mem'[g] = m
      BY <1>2, <3>1
    <3> HIDE DEF G, H, K, m
    <3> DEFINE l == local'
    <3>11. l[i] = local[Main] /\ \A h \in K : l[h] = local[h]
      BY <3>3, <3>9
    <3> HIDE DEF l
    <3>12. \A c \in 0..N : c \in m \/ \E h \in G : l[h] = c
      BY <3>6, <3>8, <3>10, <3>11
    <3>13. \A h \in G : l[h] \in 0..total - 1 /\ l[h] \notin m
      BY <3>6, <3>8, <3>10, <3>11
    <3>14. \A h, k \in G : h # k => l[h] # l[k]
      <4>1. \A h, k \in H : h # k => local[h] # local[k]
        BY <3>10
      <4>2. K \subseteq H /\ Main \in H /\ Main \notin K
        BY <3>6, <3>8
      <4>3. \A h \in K : l[h] # l[i]
        BY ONLY <3>11, <4>1, <4>2
      <4>4. \A h, k \in K : h # k => l[h] # l[k]
        BY ONLY <3>11, <4>1, <4>2
      <4> QED
        BY ONLY <3>8, <4>3, <4>4
    <3> QED
      BY <3>10, <3>12, <3>13, <3>14 DEF l
  <2>4. ASSUME NEW i \in 1..total,
               \/ pc[Main] = 4 * i - 3 /\ Here(Main).op = "lock"
               \/ pc[Main] = 4 * i - 1 /\ Here(Main).op = "unlock"
        PROVE  Fine(mem'[g], local', G)
    <3>1. mem' = mem /\ local' = local /\ pc'[Main] = pc[Main] + 1
      BY <1>5, <1>6, <2>4
    <3>2. (pc'[Main] % 4 \in {0, 3} <=> pc[Main] % 4 \in {0, 3}) /\ pc[Main] <= 4 * total
            /\ pc'[Main] <= 4 * total
      BY <1>3, <2>4, <3>1
    <3>3. \A u \in 1..total : pc'[Main] > 4 * u <=> pc[Main] > 4 * u
      BY <1>3, <2>4, <3>1
    <3>4. G = H
      BY <2>1, <3>2, <3>3
    <3> HIDE DEF G, H
    <3> QED
      BY <1>2, <3>1, <3>4
  <2>5. ASSUME pc[Main] > 4 * total, Here(Main).op \in {"join", "free"}
        PROVE  Fine(mem'[g], local', G)
    <3>1. mem' = mem /\ local' = local /\ pc'[Main] = pc[Main] + 1
      BY <1>5, <1>6, <2>5
    <3>2. ~(pc[Main] <= 4 * total) /\ ~(pc'[Main] <= 4 * total)
      BY <1>3, <2>5, <3>1
    <3>3. \A u \in 1..total : pc'[Main] > 4 * u /\ pc[Main] > 4 * u
      BY <1>3, <2>5, <3>1
    <3>4. G = H
      BY <2>1, <3>2, <3>3
    <3> HIDE DEF G, H
    <3> QED
      BY <1>2, <3>1, <3>4
  <2>6. \/ \E i \in 1..total :
              \/ pc[Main] = 4 * i - 3 /\ Here(Main).op = "lock"
              \/ pc[Main] = 4 * i - 2 /\ Here(Main) = TakeBit(g)
              \/ pc[Main] = 4 * i - 1 /\ Here(Main).op = "unlock"
              \/ pc[Main] = 4 * i /\ Here(Main) = Create(i)
        \/ pc[Main] > 4 * total /\ Here(Main).op \in {"join", "free"}
    BY <1>3, <1>6, BitmaskMainHere DEF Lock, Unlock, Join, Free
  <2> HIDE DEF Fine, G
  <2> QED
    BY <2>2, <2>3, <2>4, <2>5, <2>6
<1>7. CASE t \in Threads
  <2>1. pc'[Main] = pc[Main] /\ t \in 1..total /\ pc[Main] > 4 * t
    BY <1>3, <1>7, GoesOnAlone, RunsCreated DEF Creation, CreationOf
  <2>2. \A u \in 1..total : u # t => pc'[u] = pc[u]
    BY <1>3
  <2>3. CASE pc[t] = 3 /\ Here(t) = GiveBit(g)
    <3>1. pc'[t] = 4 /\ local' = local
      BY <1>3, <2>3, GoesOnAlone DEF GiveBit, Stores
    <3>2. mem'[g] = mem[g] \cup {local[t]}
      <4>1. mem' = [mem EXCEPT ![g] = @ \cup {local[t]}]
        BY <1>3, <2>3 DEF NewMem, GiveBit
      <4> QED
        BY <1>3, <1>4, <4>1, MemAt
    <3>3. t \in H /\ G = H \ {t}
      <4>1. t # Main
        BY <1>3, <1>7
      <4>2. pc[t] <= 3 /\ ~(pc'[t] <= 3)
        BY <2>3, <3>1
      <4> QED
        BY <2>1, <2>2, <4>1, <4>2
    <3> DEFINE m == mem[g]
               n == mem'[g]
    <3>4. Fine(m, local, H) /\ n = m \cup {local[t]}
      BY <1>2, <3>2
    <3>5. 0..total - 1 \subseteq 0..N
      BY <1>3
    <3> HIDE DEF G, H, m
    <3>6. n \subseteq 0..N
      BY <3>3, <3>4, <3>5
    <3>7. \A b \in 0..N : b \in n \/ \E h \in G : local[h] = b
      BY <3>3, <3>4
    <3>8. \A h \in G : local[h] \in 0..total - 1 /\ local[h] \notin n
      BY <3>3, <3>4
    <3>9. \A h, k \in G : h # k => local[h] # local[k]
      BY <3>3, <3>4
    <3> QED
      BY <3>1, <3>6, <3>7, <3>8, <3>9
  <2>4. CASE pc[t] # 3 /\ Here(t).op \in {"write_at", "lock", "unlock"}
    <3>1. mem' = mem /\ local' = local /\ pc'[t] = pc[t] + 1
      BY <1>5, <2>4
    <3>2. pc'[t] <= 3 <=> pc[t] <= 3
      BY <1>3, <2>4, <3>1
    <3>3. G = H
      BY <2>1, <2>2, <3>2
    <3> HIDE DEF G, H
    <3> QED
      BY <1>2, <3>1, <3>3
  <2> QED
    BY <1>3, <1>7, <2>3, <2>4, BitmaskThreadHere DEF WriteAt, Lock, Unlock
<1> QED
  BY <1>3, <1>6, <1>7

-----------------------------------------------------------------------------
(* Every step keeps their invariant.                                       *)

\* Each part of it has a lemma above; a thread that ends, waits or is woken
\* changes nothing that they are about.
LEMMA OthersNext ==
    ASSUME OtherInv, [Next]_vars
    PROVE  OtherInv'
<1>1. Base /\ ReadyLast /\ CountedOut /\ CountedInOut /\ BitsApart
  BY DEF OtherInv
<1>2. Placed
  BY <1>1, OthersPlaced DEF Base
<1>3. Base' /\ (Quiet \/ (\E t \in All0 : GoesOn(t)) \/ (\E t \in All0 : EndStep(t)))
  BY <1>1, <1>2, BaseKept
<1>4. ASSUME NEW t \in All0, GoesOn(t) PROVE OtherInv'
  BY <1>1, <1>2, <1>3, <1>4, ReadyKept, CountedOutKept, CountedInOutKept, BitsKept DEF OtherInv
<1>5. ASSUME UNCHANGED <<prog, total, pc, local, mem>>, Uncreated \subseteq Uncreated'
      PROVE  OtherInv'
  <2>1. ReadyLast'
    BY <1>1, <1>5 DEF ReadyLast
  <2>2. CountedOut' /\ CountedInOut'
    BY <1>1, <1>5 DEF CountedOut, CountedInOut, AliveOuter, AliveInner
  <2>3. BitsApart'
    <3> SUFFICES ASSUME Uncreated' = {} PROVE BitsApart'
      BY DEF BitsApart
    <3>1. Uncreated = {}
      BY <1>5
    <3> QED
      BY <1>1, <1>5, <3>1 DEF BitsApart, Holders, Creation, mask
  <2> QED
    BY <1>3, <2>1, <2>2, <2>3 DEF OtherInv
<1>6. CASE Quiet
  BY <1>5, <1>6 DEF Quiet, Uncreated
<1>7. ASSUME NEW t \in All0, EndStep(t) PROVE OtherInv'
  <2>1. status[t] = "running" /\ status' = [status EXCEPT ![t] = "ended"]
        /\ UNCHANGED <<prog, total, pc, local, mem>>
    BY <1>7 DEF EndStep, Ready, world
  <2>2. \A u \in Threads : u \in All0
    BY <1>1, Numbers DEF Base
  <2>3. Uncreated \subseteq Uncreated'
    BY <1>1, <2>1, <2>2 DEF Uncreated, Base, OtherTypes
  <2> QED
    BY <1>5, <2>1, <2>3
<1> QED
  BY <1>3, <1>4, <1>6, <1>7

-----------------------------------------------------------------------------
(* What the invariant says of their accesses.                              *)

\* What a program must not do, if every thread is created.
Race   == \E t, u \in All0 : t # u /\ Writes(t) \cap Accesses(u) # {}
Reuse  == \E t \in All0 : Accesses(t) \cap freed # {}
Beyond == \E t \in Threads : \E x \in Writes(t) : Here(t).op = "write_at" /\ ~(x[2] < total)

\* A race is of main and another thread, or of two others.
LEMMA RaceOf ==
    ASSUME OtherTypes,
           \A t, u \in Threads : t # u => Writes(t) \cap Accesses(u) = {},
           \A t \in Threads : Writes(Main) \cap Accesses(t) = {}
             /\ Writes(t) \cap Accesses(Main) = {}
    PROVE  ~Race
BY Numbers DEF Race

\* What main has joined is idle.
LEMMA JoinedIdle ==
    ASSUME Base, Placed, NEW i \in 1..total, NEW q \in 1..Len(C(Main)), q < pc[Main],
           C(Main)[q] = Join(i)
    PROVE  ~Ready(i)
<1>1. i \in Threads
  BY Numbers DEF Base
<1> QED
  BY <1>1, IdleThreads DEF Join

\* What is freed was freed by main.
LEMMA FreedBefore ==
    ASSUME Base, Placed, NEW x \in freed
    PROVE  \E q \in 1..Len(C(Main)) :
              q \in Nat /\ pc[Main] \in Nat /\ q < pc[Main] /\ C(Main)[q].op = "free"
                /\ x \in C(Main)[q].xs
<1>1. Main \in All0
  BY Numbers DEF Base
<1>2. Len(C(Main)) \in Nat /\ pc[Main] \in Nat
  BY <1>1 DEF Base, OtherTypes, Placed
<1> QED
  BY <1>2 DEF Base, FreesPassed

\* The numbers again, for a program and where main is.
LEMMA Settled ==
    ASSUME OtherInv
    PROVE  /\ Base /\ Placed /\ OtherTypes /\ total \in Nat /\ total \in 0..N /\ pc[Main] \in Nat
           /\ Main \in All0 /\ Main \notin Threads /\ Threads \subseteq All0
           /\ \A t \in All0 : pc[t] \in Nat
           /\ \A t \in Threads : t \in Nat /\ (Ready(t) => t \in 1..total /\ pc[Main] > Creation(t))
<1>1. Base /\ OtherTypes /\ Placed
  BY OthersPlaced DEF OtherInv, Base
<1>2. /\ total \in Nat /\ total \in 0..N /\ Main \in All0 /\ Main \notin Threads
           /\ Threads \subseteq All0
      /\ \A t \in Threads : t \in Nat
  BY <1>1, Numbers, NAssumption DEF Threads, OtherTypes, Totals
<1>3. \A t \in All0 : pc[t] \in Nat
  BY <1>1 DEF OtherTypes
<1>4. \A t \in Threads : Ready(t) => t \in 1..total /\ pc[Main] > Creation(t)
  BY <1>1, RunsCreated DEF Ready
<1> QED
  BY <1>1, <1>2, <1>3, <1>4

\* per-thread-struct-tid.c.
LEMMA StructTidSafe ==
    ASSUME OtherInv, prog = "per_thread_struct_tid"
    PROVE  ~Race /\ ~Reuse /\ ~Beyond
<1>1. /\ Base /\ Placed /\ OtherTypes /\ total \in Nat /\ total \in 0..N /\ pc[Main] \in Nat
      /\ Main \in All0 /\ Main \notin Threads /\ Threads \subseteq All0
      /\ \A t \in Threads : t \in Nat
  BY Settled
<1>2. ASSUME NEW t \in Threads, NEW x \in Accesses(t)
      PROVE  x = <<"t", t>> /\ Here(t).op # "write_at" /\ Ready(t)
  <2>1. ~AtEnd(t) /\ Ready(t)
    BY <1>2, OpAccess
  <2>2. Here(t) = Write(<<"t", t>>)
    BY <1>1, <2>1, StructTidThreadHere
  <2> QED
    BY <1>2, <2>1, <2>2, OpAccess DEF Write
<1>3. ASSUME NEW i \in 1..total, pc[Main] > total + 2 * i - 1 PROVE ~Ready(i)
  <2> DEFINE q == total + 2 * i - 1
  <2>1. q \in 1..Len(C(Main)) /\ C(Main)[q] = Join(i) /\ q < pc[Main]
    <3>1. Len(C(Main)) = 3 * total + 1 /\ C(Main)[q] = Join(i)
      BY <1>1, StructTidMain
    <3>2. q \in 1..3 * total + 1 /\ q < pc[Main]
      BY <1>1, <1>3
    <3> QED
      BY <3>1, <3>2
  <2> HIDE DEF q
  <2> QED
    BY <1>1, <2>1, JoinedIdle
<1>4. ASSUME NEW x \in Accesses(Main)
      PROVE  \/ \E i \in 1..total : x = <<"tids", i>> /\ pc[Main] <= total + 2 * i
             \/ \E i \in 1..total : x = <<"t", i>> /\ pc[Main] = total + 2 * i
             \/ x[1] = "ts" /\ pc[Main] = 3 * total + 1
  <2>1. ~AtEnd(Main)
    BY <1>4, OpAccess
  <2>2. \/ \E i \in 1..total :
              \/ pc[Main] = i /\ Here(Main) = Create(i)
              \/ pc[Main] = total + 2 * i - 1 /\ Here(Main) = Join(i)
              \/ pc[Main] = total + 2 * i /\ Here(Main) = Free({<<"tids", i>>, <<"t", i>>})
        \/ pc[Main] = 3 * total + 1 /\ Here(Main) = Free(All("ts", total))
    BY <1>1, <2>1, StructTidMainHere
  <2>3. CASE \E i \in 1..total : pc[Main] <= total + 2 * i
               /\ (Here(Main) = Create(i) \/ Here(Main) = Join(i))
    BY <1>4, <2>3, OpAccess DEF Create, Join
  <2>4. CASE \E i \in 1..total : pc[Main] = total + 2 * i
        /\ Here(Main) = Free({<<"tids", i>>, <<"t", i>>})
    <3>1. PICK i \in 1..total : pc[Main] = total + 2 * i
          /\ Here(Main) = Free({<<"tids", i>>, <<"t", i>>})
      BY <2>4
    <3>2. x \in {<<"tids", i>>, <<"t", i>>}
      BY <1>4, <3>1, OpAccess DEF Free
    <3>3. pc[Main] <= total + 2 * i
      BY <1>1, <3>1
    <3> QED
      BY <3>1, <3>2, <3>3
  <2>5. CASE pc[Main] = 3 * total + 1 /\ Here(Main) = Free(All("ts", total))
    BY <1>4, <2>5, OpAccess DEF Free, All
  <2>6. ASSUME NEW i \in 1..total, pc[Main] = i \/ pc[Main] = total + 2 * i - 1
        PROVE  pc[Main] <= total + 2 * i
    BY <1>1, <2>6
  <2> QED
    BY <2>2, <2>3, <2>4, <2>5, <2>6
<1>5. ~Race
  <2>1. ASSUME NEW t \in Threads, NEW x \in Accesses(Main), x \in Accesses(t) PROVE FALSE
    <3>1. x = <<"t", t>> /\ Ready(t)
      BY <1>2, <2>1
    <3>2. t \in 1..total /\ pc[Main] = total + 2 * t
      BY <1>4, <2>1, <3>1
    <3>3. pc[Main] > total + 2 * t - 1
      BY <1>1, <3>2
    <3> QED
      BY <1>3, <3>1, <3>2, <3>3
  <2>2. ASSUME NEW t \in Threads, NEW u \in Threads, t # u, NEW x \in Accesses(t), x \in Accesses(u)
        PROVE  FALSE
    BY <1>2, <2>2
  <2> QED
    BY <1>1, <2>1, <2>2, RaceOf DEF Accesses
<1>6. ~Reuse
  <2> SUFFICES ASSUME NEW t \in All0, NEW x \in Accesses(t), x \in freed PROVE FALSE
    BY DEF Reuse
  <2>1. PICK q \in 1..Len(C(Main)) :
              q \in Nat /\ q < pc[Main] /\ C(Main)[q].op = "free" /\ x \in C(Main)[q].xs
    BY <1>1, FreedBefore
  <2>2. \/ \E i \in 1..total : q = total + 2 * i /\ x \in {<<"tids", i>>, <<"t", i>>}
        \/ q = 3 * total + 1 /\ x[1] = "ts"
    <3> DEFINE a == C(Main)[q]
    <3>1. \/ \E i \in 1..total :
              \/ q = i /\ a = Create(i)
              \/ q = total + 2 * i - 1 /\ a = Join(i)
              \/ q = total + 2 * i /\ a = Free({<<"tids", i>>, <<"t", i>>})
          \/ q = 3 * total + 1 /\ a = Free(All("ts", total))
      BY <1>1, StructTidAt
    <3>2. a.op = "free" /\ x \in a.xs
      BY <2>1
    <3> HIDE DEF a
    <3>3. ASSUME NEW i \in 1..total, a = Create(i) \/ a = Join(i) PROVE FALSE
      BY <3>2, <3>3 DEF Create, Join
    <3>4. ASSUME NEW i \in 1..total, a = Free({<<"tids", i>>, <<"t", i>>})
          PROVE  x \in {<<"tids", i>>, <<"t", i>>}
      BY <3>2, <3>4 DEF Free
    <3>5. ASSUME a = Free(All("ts", total)) PROVE x[1] = "ts"
      BY <3>2, <3>5 DEF Free, All
    <3> QED
      BY <3>1, <3>3, <3>4, <3>5
  <2>3. CASE t \in Threads
    <3>1. x = <<"t", t>> /\ Ready(t)
      BY <1>2, <2>3
    <3>2. t \in 1..total /\ q = total + 2 * t
      BY <2>2, <3>1
    <3>3. pc[Main] > total + 2 * t - 1
      BY <1>1, <2>1, <3>2
    <3> QED
      BY <1>3, <3>1, <3>2, <3>3
  <2>4. CASE t = Main
    <3>1. CASE x[1] = "ts"
      <4>1. q = 3 * total + 1 /\ pc[Main] = 3 * total + 1
        BY <1>4, <2>2, <2>4, <3>1
      <4> QED
        BY <1>1, <2>1, <4>1
    <3>2. CASE x[1] # "ts"
      <4>1. PICK i \in 1..total : q = total + 2 * i /\ x \in {<<"tids", i>>, <<"t", i>>}
        BY <2>2, <3>2
      <4>2. pc[Main] <= total + 2 * i
        BY <1>1, <1>4, <2>4, <3>2, <4>1
      <4> QED
        BY <1>1, <2>1, <4>1, <4>2
    <3> QED
      BY <3>1, <3>2
  <2> QED
    BY <2>3, <2>4, <1>1, Numbers
<1>7. ~Beyond
  BY <1>2 DEF Beyond, Accesses
<1> QED
  BY <1>5, <1>6, <1>7

\* per-thread-array-init.c.
LEMMA ArrayInitSafe ==
    ASSUME OtherInv, prog = "per_thread_array_init"
    PROVE  ~Race /\ ~Reuse /\ ~Beyond
<1>1. /\ Base /\ Placed /\ OtherTypes /\ total \in Nat /\ total \in 0..N /\ pc[Main] \in Nat
      /\ Main \in All0 /\ Main \notin Threads /\ Threads \subseteq All0
      /\ \A t \in Threads : t \in Nat /\ (Ready(t) => t \in 1..total /\ pc[Main] > 2 * t)
  BY Settled DEF Creation, CreationOf
<1>2. ASSUME NEW t \in Threads, NEW x \in Accesses(t)
      PROVE  x = <<"is", t>> /\ Here(t).op # "write_at" /\ Ready(t)
  <2>1. ~AtEnd(t) /\ Ready(t)
    BY <1>2, OpAccess
  <2>2. Here(t) = Read(<<"is", t>>)
    BY <1>1, <2>1, ArrayInitThreadHere
  <2> QED
    BY <1>2, <2>1, <2>2, OpAccess DEF Read
<1>3. ASSUME NEW t \in Threads, pc[Main] > 3 * total PROVE ~Ready(t)
  <2> SUFFICES ASSUME t \in 1..total PROVE ~Ready(t)
    BY <1>1
  <2> DEFINE q == 2 * total + t
  <2>1. q \in 1..Len(C(Main)) /\ C(Main)[q] = Join(t) /\ q < pc[Main]
    <3>1. Len(C(Main)) = 3 * total + 1 /\ C(Main)[q] = Join(t)
      BY <1>1, ArrayInitMain
    <3>2. q \in 1..3 * total + 1 /\ q < pc[Main]
      BY <1>1, <1>3
    <3> QED
      BY <3>1, <3>2
  <2> HIDE DEF q
  <2> QED
    BY <1>1, <2>1, JoinedIdle
<1>4. ASSUME NEW x \in Accesses(Main)
      PROVE  /\ pc[Main] <= 3 * total + 1
             /\ x[1] = "is" => \/ pc[Main] = 3 * total + 1
                               \/ \E i \in 1..total : x = <<"is", i>> /\ pc[Main] = 2 * i - 1
  <2>1. ~AtEnd(Main)
    BY <1>4, OpAccess
  <2>2. \/ \E i \in 1..total :
              \/ pc[Main] = 2 * i - 1 /\ Here(Main) = Write(<<"is", i>>)
              \/ pc[Main] = 2 * i /\ Here(Main) = Create(i)
              \/ pc[Main] = 2 * total + i /\ Here(Main) = Join(i)
        \/ pc[Main] = 3 * total + 1
    BY <1>1, <2>1, ArrayInitMainHere
  <2>3. CASE \E i \in 1..total : pc[Main] = 2 * i - 1 /\ Here(Main) = Write(<<"is", i>>)
    BY <1>1, <1>4, <2>3, OpAccess DEF Write
  <2>4. CASE \E i \in 1..total : pc[Main] <= 3 * total
               /\ (Here(Main) = Create(i) \/ Here(Main) = Join(i))
    <3>1. x[1] = "tids"
      BY <1>4, <2>4, OpAccess DEF Create, Join
    <3> QED
      BY <1>1, <2>4, <3>1
  <2>5. CASE pc[Main] = 3 * total + 1
    BY <1>1, <2>5
  <2>6. ASSUME NEW i \in 1..total, pc[Main] = 2 * i \/ pc[Main] = 2 * total + i
        PROVE  pc[Main] <= 3 * total
    BY <1>1, <2>6
  <2> QED
    BY <2>2, <2>3, <2>4, <2>5, <2>6
<1>5. ~Race
  <2>1. ASSUME NEW t \in Threads, NEW x \in Accesses(Main), x \in Accesses(t) PROVE FALSE
    <3>1. x = <<"is", t>> /\ Ready(t)
      BY <1>2, <2>1
    <3>2. pc[Main] = 3 * total + 1 \/ (t \in 1..total /\ pc[Main] = 2 * t - 1)
      BY <1>4, <2>1, <3>1
    <3>3. pc[Main] # 3 * total + 1
      BY <1>1, <1>3, <3>1
    <3> QED
      BY <1>1, <3>1, <3>2, <3>3
  <2>2. ASSUME NEW t \in Threads, NEW u \in Threads, t # u, NEW x \in Accesses(t), x \in Accesses(u)
        PROVE  FALSE
    BY <1>2, <2>2
  <2> QED
    BY <1>1, <2>1, <2>2, RaceOf DEF Accesses
<1>6. ~Reuse
  <2> SUFFICES ASSUME NEW t \in All0, NEW x \in Accesses(t), x \in freed PROVE FALSE
    BY DEF Reuse
  <2>1. PICK q \in 1..Len(C(Main)) :
              q \in Nat /\ q < pc[Main] /\ C(Main)[q].op = "free" /\ x \in C(Main)[q].xs
    BY <1>1, FreedBefore
  <2>2. q = 3 * total + 1
    <3> DEFINE a == C(Main)[q]
    <3>1. \/ \E i \in 1..total :
              \/ q = 2 * i - 1 /\ a = Write(<<"is", i>>)
              \/ q = 2 * i /\ a = Create(i)
              \/ q = 2 * total + i /\ a = Join(i)
          \/ q = 3 * total + 1
      BY <1>1, ArrayInitAt
    <3>2. a.op = "free"
      BY <2>1
    <3> HIDE DEF a
    <3> QED
      BY <3>1, <3>2 DEF Create, Join, Write
  <2>3. CASE t \in Threads
    BY <1>1, <1>2, <1>3, <2>1, <2>2, <2>3
  <2>4. CASE t = Main
    BY <1>1, <1>4, <2>1, <2>2, <2>4
  <2> QED
    BY <2>3, <2>4, <1>1, Numbers
<1>7. ~Beyond
  BY <1>2 DEF Beyond, Accesses
<1> QED
  BY <1>5, <1>6, <1>7

\* per-thread-index-bitmask.c.
LEMMA BitmaskSafe ==
    ASSUME OtherInv, prog = "per_thread_index_bitmask", Uncreated = {}
    PROVE  ~Race /\ ~Reuse /\ ~Beyond
<1> DEFINE g == Global("threads_mask")
<1>1. /\ Base /\ Placed /\ OtherTypes /\ total \in Nat /\ total \in 0..N /\ pc[Main] \in Nat
      /\ Main \in All0 /\ Main \notin Threads /\ Threads \subseteq All0
      /\ \A t \in Threads : t \in Nat /\ (Ready(t) => t \in 1..total /\ pc[Main] > Creation(t))
  BY Settled
<1>2. ASSUME NEW t \in Threads, NEW x \in Accesses(t)
      PROVE  /\ Ready(t)
             /\ \/ pc[t] = 1 /\ x = <<"datas", local[t]>>
                \/ pc[t] = 3 /\ x = g /\ Here(t).op # "write_at"
  <2>1. ~AtEnd(t) /\ Ready(t) /\ Here(t).op \notin {"lock", "unlock"}
    BY <1>2, OpAccess
  <2>2. \/ pc[t] = 1 /\ Here(t) = WriteAt("datas")
        \/ pc[t] = 3 /\ Here(t) = GiveBit(g)
    BY <1>1, <2>1, BitmaskThreadHere DEF Lock, Unlock
  <2>3. CASE Here(t) = WriteAt("datas")
    BY <1>2, <2>1, <2>2, <2>3, OpAccess DEF WriteAt, GiveBit
  <2>4. CASE Here(t) = GiveBit(g)
    BY <1>2, <2>1, <2>2, <2>4, OpAccess DEF WriteAt, GiveBit
  <2> QED
    BY <2>2, <2>3, <2>4
<1>3. ASSUME NEW t \in Threads, pc[Main] > 5 * total PROVE ~Ready(t)
  <2> SUFFICES ASSUME t \in 1..total PROVE ~Ready(t)
    BY <1>1
  <2> DEFINE q == 4 * total + t
  <2>1. q \in 1..Len(C(Main)) /\ C(Main)[q] = Join(t) /\ q < pc[Main]
    <3>1. Len(C(Main)) = 5 * total + 1 /\ C(Main)[q] = Join(t)
      BY <1>1, BitmaskMain
    <3>2. q \in 1..5 * total + 1 /\ q < pc[Main]
      BY <1>1, <1>3
    <3> QED
      BY <3>1, <3>2
  <2> HIDE DEF q
  <2> QED
    BY <1>1, <2>1, JoinedIdle
<1>4. ASSUME NEW x \in Accesses(Main)
      PROVE  /\ pc[Main] <= 5 * total + 1 /\ Ready(Main)
             /\ \/ pc[Main] = 5 * total + 1
                \/ x[1] = "tids"
                \/ x = g /\ \E i \in 1..total : pc[Main] = 4 * i - 2
  <2>1. ~AtEnd(Main) /\ Ready(Main) /\ Here(Main).op \notin {"lock", "unlock"}
    BY <1>4, OpAccess
  <2>2. \/ \E i \in 1..total :
              \/ pc[Main] = 4 * i - 2 /\ Here(Main) = TakeBit(g)
              \/ pc[Main] = 4 * i /\ Here(Main) = Create(i)
              \/ pc[Main] = 4 * total + i /\ Here(Main) = Join(i)
        \/ pc[Main] = 5 * total + 1
    BY <1>1, <2>1, BitmaskMainHere DEF Lock, Unlock
  <2>3. ASSUME NEW i \in 1..total, pc[Main] = 4 * i - 2, Here(Main) = TakeBit(g)
        PROVE  x = g /\ pc[Main] <= 5 * total + 1
    <3>1. x = g
      BY <1>4, <2>3, OpAccess DEF TakeBit
    <3> QED
      BY <1>1, <2>3, <3>1
  <2>4. ASSUME NEW i \in 1..total, pc[Main] = 4 * i \/ pc[Main] = 4 * total + i,
               Here(Main) = Create(i) \/ Here(Main) = Join(i)
        PROVE  x[1] = "tids" /\ pc[Main] <= 5 * total + 1
    <3>1. x[1] = "tids"
      BY <1>4, <2>4, OpAccess DEF Create, Join
    <3> QED
      BY <1>1, <2>4, <3>1
  <2>5. CASE pc[Main] = 5 * total + 1
    BY <1>1, <2>1, <2>5
  <2> QED
    BY <2>1, <2>2, <2>3, <2>4, <2>5
<1>5. ASSUME NEW t \in Threads, Ready(t), pc[t] = 3
      PROVE  Section(t, pc[t]) = "threads_mask_mutex"
  BY <1>1, <1>5 DEF Section, SectionOf
<1>6. ASSUME NEW t \in Threads, Ready(t), pc[t] <= 3
      PROVE  t \in Holders
  BY <1>1, <1>6 DEF Holders
<1>7. ~Race
  <2>1. ASSUME NEW t \in Threads, NEW x \in Accesses(Main), x \in Accesses(t) PROVE FALSE
    <3>1. Ready(t) /\ x[1] # "tids" /\ (x = g => pc[t] = 3)
      BY <1>2, <2>1 DEF Global
    <3>2. pc[Main] # 5 * total + 1
      BY <1>1, <1>3, <3>1
    <3>3. x = g /\ Ready(Main) /\ \E i \in 1..total : pc[Main] = 4 * i - 2
      BY <1>4, <2>1, <3>1, <3>2
    <3>4. Section(Main, pc[Main]) = "threads_mask_mutex"
      <4>1. pc[Main] <= 4 * total /\ pc[Main] % 4 = 2
        BY <1>1, <3>3
      <4> QED
        BY <4>1 DEF Section, SectionOf
    <3>5. Section(t, pc[t]) = "threads_mask_mutex"
      BY <1>5, <3>1, <3>3
    <3>6. Main # t /\ t \in All0
      BY <1>1
    <3> QED
      BY <1>1, <3>1, <3>3, <3>4, <3>5, <3>6, SectionsApart
  <2>2. ASSUME NEW t \in Threads, NEW u \in Threads, t # u, NEW x \in Accesses(t), x \in Accesses(u)
        PROVE  FALSE
    <3>1. Ready(t) /\ Ready(u) /\ t \in All0 /\ u \in All0
      BY <1>1, <1>2, <2>2
    <3>2. \/ pc[t] = 3 /\ pc[u] = 3
          \/ pc[t] = 1 /\ pc[u] = 1 /\ local[t] = local[u]
      BY <1>2, <2>2 DEF Global
    <3>3. CASE pc[t] = 3 /\ pc[u] = 3
      BY <1>1, <1>5, <2>2, <3>1, <3>3, SectionsApart
    <3>4. CASE pc[t] = 1 /\ pc[u] = 1 /\ local[t] = local[u]
      <4>1. t \in Holders /\ u \in Holders
        BY <1>6, <3>1, <3>4
      <4> QED
        BY <2>2, <3>4, <4>1 DEF OtherInv, BitsApart
    <3> QED
      BY <3>2, <3>3, <3>4
  <2> QED
    BY <1>1, <2>1, <2>2, RaceOf DEF Accesses
<1>8. ~Reuse
  <2> SUFFICES ASSUME NEW t \in All0, NEW x \in Accesses(t), x \in freed PROVE FALSE
    BY DEF Reuse
  <2>1. PICK q \in 1..Len(C(Main)) :
              q \in Nat /\ q < pc[Main] /\ C(Main)[q].op = "free" /\ x \in C(Main)[q].xs
    BY <1>1, FreedBefore
  <2>2. q = 5 * total + 1
    <3> DEFINE a == C(Main)[q]
    <3>1. \/ \E i \in 1..total :
              \/ a = Lock("threads_mask_mutex")
              \/ a = TakeBit(g)
              \/ a = Unlock("threads_mask_mutex")
              \/ a = Create(i)
              \/ a = Join(i)
          \/ q = 5 * total + 1
      BY <1>1, BitmaskAt
    <3>2. a.op = "free"
      BY <2>1
    <3> HIDE DEF a
    <3> QED
      BY <3>1, <3>2 DEF Lock, TakeBit, Unlock, Create, Join
  <2>3. CASE t \in Threads
    BY <1>1, <1>2, <1>3, <2>1, <2>2, <2>3
  <2>4. CASE t = Main
    BY <1>1, <1>4, <2>1, <2>2, <2>4
  <2> QED
    BY <2>3, <2>4, <1>1, Numbers
<1>9. ~Beyond
  <2> SUFFICES ASSUME NEW t \in Threads, NEW x \in Accesses(t), Here(t).op = "write_at"
      PROVE x[2] < total
    BY DEF Beyond, Accesses
  <2>1. Ready(t) /\ pc[t] = 1 /\ x[2] = local[t]
    BY <1>2
  <2>2. t \in Holders
    BY <1>6, <2>1
  <2>3. local[t] \in 0..total - 1
    BY <2>2 DEF OtherInv, BitsApart
  <2> QED
    BY <1>1, <2>1, <2>3
<1> QED
  BY <1>7, <1>8, <1>9

\* value-barrier.c.
LEMMA BarrierSafe ==
    ASSUME OtherInv, prog = "value_barrier"
    PROVE  ~Race /\ ~Reuse /\ ~Beyond
<1> DEFINE r == Global("ready")
<1>1. /\ Base /\ Placed /\ OtherTypes /\ total \in Nat /\ total \in 0..N /\ pc[Main] \in Nat
      /\ Main \in All0 /\ Main \notin Threads /\ Threads \subseteq All0
      /\ \A t \in Threads : t \in Nat /\ (Ready(t) => t \in 1..total)
  BY Settled
<1>2. ASSUME NEW t \in Threads
      PROVE  /\ Writes(t) = {}
             /\ \A x \in Accesses(t) : Ready(t) /\ ((pc[t] = 2 /\ x = r) \/ (pc[t] = 4 /\ x = data))
  <2>1. CASE Accesses(t) = {}
    BY <2>1 DEF Accesses
  <2>2. CASE Accesses(t) # {}
    <3>1. ~AtEnd(t) /\ Ready(t) /\ Here(t).op \notin {"lock", "unlock"}
      BY <2>2, OpAccess
    <3>2. \/ pc[t] = 2 /\ Here(t) = Await(r, 1, "ready_cond", "ready_mutex")
          \/ pc[t] = 4 /\ Here(t) = Read(data)
      BY <1>1, <3>1, BarrierThreadHere DEF Lock, Unlock
    <3>3. /\ Here(t).op \in {"await", "read"}
          /\ (pc[t] = 2 /\ Here(t).x = r) \/ (pc[t] = 4 /\ Here(t).x = data)
      BY <3>2 DEF Await, Read
    <3> QED
      BY <3>1, <3>3, OpAccess
  <2> QED
    BY <2>1, <2>2
<1>3. ASSUME NEW t \in Threads, pc[Main] > 2 * total + 5 PROVE ~Ready(t)
  <2> SUFFICES ASSUME t \in 1..total PROVE ~Ready(t)
    BY <1>1
  <2> DEFINE q == total + 5 + t
  <2>1. q \in 1..Len(C(Main)) /\ C(Main)[q] = Join(t) /\ q < pc[Main]
    <3>1. Len(C(Main)) = 2 * total + 6 /\ C(Main)[q] = Join(t)
      BY <1>1, BarrierMain
    <3>2. q \in 1..2 * total + 6 /\ q < pc[Main]
      BY <1>1, <1>3
    <3> QED
      BY <3>1, <3>2
  <2> HIDE DEF q
  <2> QED
    BY <1>1, <2>1, JoinedIdle
<1>4. ASSUME NEW x \in Accesses(Main)
      PROVE  /\ pc[Main] <= 2 * total + 6 /\ Ready(Main)
             /\ \/ x[1] = "tids" \/ pc[Main] = 2 * total + 6
                \/ x = data /\ pc[Main] = total + 1
                \/ x = r /\ pc[Main] = total + 3
  <2>1. ~AtEnd(Main) /\ Ready(Main) /\ Here(Main).op \notin {"lock", "unlock", "broadcast"}
    BY <1>4, OpAccess
  <2>2. \/ \E i \in 1..total :
              \/ pc[Main] = i /\ Here(Main) = Create(i)
              \/ pc[Main] = total + 5 + i /\ Here(Main) = Join(i)
        \/ pc[Main] = total + 1 /\ Here(Main) = Write(data)
        \/ pc[Main] = total + 3 /\ Here(Main) = Set(r, 1)
        \/ pc[Main] = 2 * total + 6
    BY <1>1, <2>1, BarrierMainHere DEF Lock, Unlock, Broadcast
  <2>3. CASE pc[Main] = total + 1 /\ Here(Main) = Write(data)
    <3>1. x = data
      BY <1>4, <2>3, OpAccess DEF Write
    <3> QED
      BY <1>1, <2>1, <2>3, <3>1
  <2>4. ASSUME NEW i \in 1..total, pc[Main] = i \/ pc[Main] = total + 5 + i,
               Here(Main) = Create(i) \/ Here(Main) = Join(i)
        PROVE  x[1] = "tids" /\ pc[Main] <= 2 * total + 6
    <3>1. x[1] = "tids"
      BY <1>4, <2>4, OpAccess DEF Create, Join
    <3> QED
      BY <1>1, <2>4, <3>1
  <2>5. CASE pc[Main] = total + 3 /\ Here(Main) = Set(r, 1)
    <3>1. x = r
      BY <1>4, <2>5, OpAccess DEF Set
    <3> QED
      BY <1>1, <2>1, <2>5, <3>1
  <2>6. CASE pc[Main] = 2 * total + 6
    BY <1>1, <2>1, <2>6
  <2> QED
    BY <2>1, <2>2, <2>3, <2>4, <2>5, <2>6
<1>5. ~Race
  <2>1. ASSUME NEW t \in Threads, NEW x \in Accesses(Main), x \in Accesses(t) PROVE FALSE
    <3>1. Ready(t) /\ x[1] # "tids" /\ ((pc[t] = 2 /\ x = r) \/ (pc[t] = 4 /\ x = data)) /\ r # data
      BY <1>2, <2>1 DEF Global, data
    <3>2. pc[Main] # 2 * total + 6
      BY <1>1, <1>3, <3>1
    <3>3. CASE pc[t] = 4 /\ x = data
      <4>1. pc[Main] = total + 1
        BY <1>4, <2>1, <3>1, <3>2, <3>3
      <4>2. mem[Global("ready")] = 1
        BY <3>3 DEF OtherInv, ReadyLast
      <4>3. pc[Main] > total + 3
        BY <4>2 DEF OtherInv, ReadyLast
      <4> QED
        BY <1>1, <4>1, <4>3
    <3>4. CASE pc[t] = 2 /\ x = r
      <4>1. pc[Main] = total + 3 /\ Ready(Main)
        BY <1>4, <2>1, <3>1, <3>2, <3>4
      <4>2. pc[Main] - total = 3
        BY <1>1, <4>1
      <4>3. Section(Main, pc[Main]) = "ready_mutex" /\ Section(t, pc[t]) = "ready_mutex"
        BY <1>1, <3>4, <4>2 DEF Section, SectionOf
      <4>4. Main # t /\ t \in All0
        BY <1>1
      <4> QED
        BY <1>1, <3>1, <4>1, <4>3, <4>4, SectionsApart
    <3> QED
      BY <3>1, <3>3, <3>4
  <2> QED
    BY <1>1, <1>2, <2>1, RaceOf DEF Accesses
<1>6. ~Reuse
  <2> SUFFICES ASSUME NEW t \in All0, NEW x \in Accesses(t), x \in freed PROVE FALSE
    BY DEF Reuse
  <2>1. PICK q \in 1..Len(C(Main)) :
              q \in Nat /\ q < pc[Main] /\ C(Main)[q].op = "free" /\ x \in C(Main)[q].xs
    BY <1>1, FreedBefore
  <2>2. q = 2 * total + 6
    <3> DEFINE a == C(Main)[q]
    <3>1. \/ \E i \in 1..total : a = Create(i) \/ a = Join(i)
          \/ a = Write(data) \/ a = Lock("ready_mutex") \/ a = Set(Global("ready"), 1)
          \/ a = Broadcast("ready_cond") \/ a = Unlock("ready_mutex")
          \/ q = 2 * total + 6
      BY <1>1, BarrierAt
    <3>2. a.op = "free"
      BY <2>1
    <3> HIDE DEF a
    <3> QED
      BY <3>1, <3>2 DEF Lock, Set, Unlock, Create, Join, Write, Broadcast
  <2>3. CASE t \in Threads
    BY <1>1, <1>2, <1>3, <2>1, <2>2, <2>3
  <2>4. CASE t = Main
    BY <1>1, <1>4, <2>1, <2>2, <2>4
  <2> QED
    BY <2>3, <2>4, <1>1, Numbers
<1>7. ~Beyond
  BY <1>2 DEF Beyond
<1> QED
  BY <1>5, <1>6, <1>7

\* thread-join-counter-outer.c.
LEMMA OuterSafe ==
    ASSUME OtherInv, prog = "thread_join_counter_outer"
    PROVE  ~Race /\ ~Reuse /\ ~Beyond
<1> DEFINE m == "threads_alive_mutex"
<1>1. /\ Base /\ Placed /\ OtherTypes /\ total \in Nat /\ total \in 0..N /\ pc[Main] \in Nat
      /\ Main \in All0 /\ Main \notin Threads /\ Threads \subseteq All0
      /\ \A t \in Threads : t \in Nat /\ (Ready(t) => t \in 1..total)
  BY Settled
<1>2. ASSUME NEW t \in Threads, NEW x \in Accesses(t)
      PROVE  /\ Ready(t) /\ Here(t).op # "write_at"
             /\ \/ pc[t] = 2 /\ x = data
                \/ pc[t] = 5 /\ x = alive
  <2>1. ~AtEnd(t) /\ Ready(t) /\ Here(t).op \notin {"lock", "unlock", "signal"}
    BY <1>2, OpAccess
  <2>2. \/ pc[t] = 2 /\ Here(t) = Write(data)
        \/ pc[t] = 5 /\ Here(t) = Dec(alive)
    BY <1>1, <2>1, OuterThreadHere DEF Lock, Unlock, Signal
  <2>3. /\ Here(t).op \in {"write", "dec"}
        /\ (pc[t] = 2 /\ Here(t).x = data) \/ (pc[t] = 5 /\ Here(t).x = alive)
    BY <2>2 DEF Write, Dec
  <2> QED
    BY <1>2, <2>1, <2>3, OpAccess
<1>3. ASSUME NEW x \in Accesses(Main)
      PROVE  /\ Ready(Main)
             /\ \/ x[1] = "tids"
                \/ x = alive /\ Section(Main, pc[Main]) = m
                \/ x = data /\ pc[Main] > 5 * total + 2
  <2>1. ~AtEnd(Main) /\ Ready(Main) /\ Here(Main).op \notin {"lock", "unlock"}
    BY <1>3, OpAccess
  <2>2. \/ \E i \in 1..total :
              \/ pc[Main] = 5 * i - 3 /\ Here(Main) = Inc(alive)
              \/ Here(Main) = Create(i)
              \/ Here(Main) = Detach(i)
        \/ pc[Main] = 5 * total + 2 /\ Here(Main) = Await(alive, 0, "threads_alive_cond", m)
        \/ pc[Main] = 5 * total + 4 /\ Here(Main) = Read(data)
    BY <1>1, <2>1, OuterMainHere DEF Lock, Unlock
  <2>3. ASSUME NEW i \in 1..total, pc[Main] = 5 * i - 3, Here(Main) = Inc(alive)
        PROVE  x = alive /\ Section(Main, pc[Main]) = m
    <3>1. x = alive
      BY <1>3, <2>3, OpAccess DEF Inc
    <3>2. pc[Main] % 5 = 2
      BY <1>1, <2>3
    <3> QED
      BY <3>1, <3>2 DEF Section, SectionOf
  <2>4. ASSUME NEW i \in 1..total, Here(Main) = Create(i) \/ Here(Main) = Detach(i)
        PROVE  x[1] = "tids"
    BY <1>3, <2>4, OpAccess DEF Create, Detach
  <2>5. CASE pc[Main] = 5 * total + 2 /\ Here(Main) = Await(alive, 0, "threads_alive_cond", m)
    <3>1. x = alive
      BY <1>3, <2>5, OpAccess DEF Await
    <3>2. pc[Main] % 5 = 2
      BY <1>1, <2>5
    <3>3. Section(Main, pc[Main]) = m
      BY <3>2 DEF Section, SectionOf
    <3> QED
      BY <2>1, <3>1, <3>3
  <2>6. CASE pc[Main] = 5 * total + 4 /\ Here(Main) = Read(data)
    <3>1. x = data
      BY <1>3, <2>6, OpAccess DEF Read
    <3> QED
      BY <1>1, <2>1, <2>6, <3>1
  <2> QED
    BY <2>1, <2>2, <2>3, <2>4, <2>5, <2>6
<1>4. ASSUME NEW t \in Threads, Ready(t)
      PROVE  /\ pc[t] = 2 => Section(t, pc[t]) = "data_mutex"
             /\ pc[t] = 5 => Section(t, pc[t]) = m
  BY <1>1, <1>4 DEF Section, SectionOf
<1>5. data # alive /\ data[1] # "tids" /\ alive[1] # "tids"
  BY DEF data, alive, Global
<1>6. ~Race
  <2>1. ASSUME NEW t \in Threads, NEW x \in Accesses(Main), x \in Accesses(t) PROVE FALSE
    <3>1. Ready(t) /\ t \in 1..total /\ Main # t /\ t \in All0 /\ Ready(Main)
      BY <1>1, <1>2, <1>3, <2>1
    <3>2. CASE pc[t] = 2 /\ x = data
      <4>1. pc[Main] > 5 * total + 2
        BY <1>3, <1>5, <2>1, <3>2
      <4>2. pc[t] > 5
        BY <3>1, <4>1 DEF OtherInv, CountedOut
      <4> QED
        BY <3>2, <4>2
    <3>3. CASE pc[t] = 5 /\ x = alive
      <4>1. Section(Main, pc[Main]) = m
        BY <1>3, <1>5, <2>1, <3>3
      <4>2. Section(t, pc[t]) = m
        BY <1>4, <3>1, <3>3
      <4> QED
        BY <1>1, <3>1, <4>1, <4>2, SectionsApart
    <3> QED
      BY <1>2, <2>1, <3>2, <3>3
  <2>2. ASSUME NEW t \in Threads, NEW u \in Threads, t # u, NEW x \in Accesses(t), x \in Accesses(u)
        PROVE  FALSE
    <3>1. Ready(t) /\ Ready(u) /\ t \in All0 /\ u \in All0
      BY <1>1, <1>2, <2>2
    <3>2. (pc[t] = 2 /\ pc[u] = 2) \/ (pc[t] = 5 /\ pc[u] = 5)
      BY <1>2, <1>5, <2>2
    <3>3. Section(t, pc[t]) = Section(u, pc[u]) /\ Section(t, pc[t]) # "none"
      BY <1>4, <3>1, <3>2
    <3> QED
      BY <1>1, <2>2, <3>1, <3>3, SectionsApart
  <2> QED
    BY <1>1, <2>1, <2>2, RaceOf DEF Accesses
<1>7. ~Reuse
  <2> SUFFICES ASSUME NEW x \in freed PROVE FALSE
    BY DEF Reuse
  <2>1. PICK q \in 1..Len(C(Main)) : C(Main)[q].op = "free"
    BY <1>1, FreedBefore
  <2> DEFINE a == C(Main)[q]
  <2>2. \/ \E i \in 1..total :
              a = Lock(m) \/ a = Inc(alive) \/ a = Unlock(m) \/ a = Create(i) \/ a = Detach(i)
        \/ a = Lock(m) \/ a = Await(alive, 0, "threads_alive_cond", m) \/ a = Unlock(m)
             \/ a = Read(data)
    BY <1>1, OuterAt
  <2>3. a.op = "free"
    BY <2>1
  <2> HIDE DEF a
  <2> QED
    BY <2>2, <2>3 DEF Lock, Inc, Unlock, Create, Detach, Await, Read
<1>8. ~Beyond
  BY <1>2 DEF Beyond, Accesses
<1> QED
  BY <1>6, <1>7, <1>8

\* thread-join-counter-inner.c.
LEMMA InnerSafe ==
    ASSUME OtherInv, prog = "thread_join_counter_inner"
    PROVE  ~Race /\ ~Reuse /\ ~Beyond
<1> DEFINE m == "threads_alive_mutex"
           k == Global("keep_alive")
<1>1. /\ Base /\ Placed /\ OtherTypes /\ total \in Nat /\ total \in 0..N /\ pc[Main] \in Nat
      /\ Main \in All0 /\ Main \notin Threads /\ Threads \subseteq All0
      /\ \A t \in Threads : t \in Nat /\ (Ready(t) => t \in 1..total)
  BY Settled
<1>2. ASSUME NEW t \in Threads, NEW x \in Accesses(t)
      PROVE  /\ Ready(t) /\ Here(t).op # "write_at"
             /\ \/ pc[t] \in {2, 15} /\ x = alive
                \/ pc[t] \in {6, 12} /\ x = k
                \/ pc[t] = 9 /\ x = data
  <2>1. ~AtEnd(t) /\ Ready(t) /\ Here(t).op \notin {"lock", "unlock", "signal"}
    BY <1>2, OpAccess
  <2>2. \/ pc[t] \in {2, 15} /\ (Here(t) = Inc(alive) \/ Here(t) = Dec(alive))
        \/ pc[t] \in {6, 12} /\ (Here(t) = Unless(k, 1, 6) \/ Here(t) = Repeat(k, 1, 5))
        \/ pc[t] = 9 /\ Here(t) = Write(data)
    BY <1>1, <2>1, InnerThreadHere DEF Lock, Unlock, Signal
  <2>3. /\ Here(t).op \in {"write", "inc", "dec", "unless", "repeat"}
        /\ \/ pc[t] \in {2, 15} /\ Here(t).x = alive
           \/ pc[t] \in {6, 12} /\ Here(t).x = k
           \/ pc[t] = 9 /\ Here(t).x = data
    BY <2>2 DEF Write, Inc, Dec, Unless, Repeat
  <2> QED
    BY <1>2, <2>1, <2>3, OpAccess
<1>3. ASSUME NEW x \in Accesses(Main)
      PROVE  /\ Ready(Main)
             /\ \/ x[1] = "tids"
                \/ x = alive /\ Section(Main, pc[Main]) = m
                \/ x = k /\ Section(Main, pc[Main]) = "keep_alive_mutex"
                \/ x = data /\ pc[Main] > 2 * total + 8
  <2>1. ~AtEnd(Main) /\ Ready(Main) /\ Here(Main).op \notin {"lock", "unlock"}
    BY <1>3, OpAccess
  <2>2. \/ \E i \in 1..total : Here(Main) = Create(i) \/ Here(Main) = Detach(i)
        \/ pc[Main] = 2 * total + 2 /\ Here(Main) = Await(alive, total, "threads_alive_cond", m)
        \/ pc[Main] = 2 * total + 5 /\ Here(Main) = Set(k, 0)
        \/ pc[Main] = 2 * total + 8 /\ Here(Main) = Await(alive, 0, "threads_alive_cond", m)
        \/ pc[Main] = 2 * total + 10 /\ Here(Main) = Read(data)
    BY <1>1, <2>1, InnerMainHere DEF Lock, Unlock
  <2>3. ASSUME NEW i \in 1..total, Here(Main) = Create(i) \/ Here(Main) = Detach(i)
        PROVE  x[1] = "tids"
    BY <1>3, <2>3, OpAccess DEF Create, Detach
  <2>4. ASSUME pc[Main] - 2 * total \in {2, 8}, NEW n,
               Here(Main) = Await(alive, n, "threads_alive_cond", m)
        PROVE  x = alive /\ Section(Main, pc[Main]) = m
    <3>1. x = alive
      BY <1>3, <2>4, OpAccess DEF Await
    <3>2. Section(Main, pc[Main]) = m
      BY <2>4 DEF Section, SectionOf
    <3> QED
      BY <3>1, <3>2
  <2>5. ASSUME pc[Main] - 2 * total = 5, Here(Main) = Set(k, 0)
        PROVE  x = k /\ Section(Main, pc[Main]) = "keep_alive_mutex"
    <3>1. x = k
      BY <1>3, <2>5, OpAccess DEF Set
    <3>2. Section(Main, pc[Main]) = "keep_alive_mutex"
      BY <2>5 DEF Section, SectionOf
    <3> QED
      BY <3>1, <3>2
  <2>6. CASE pc[Main] = 2 * total + 10 /\ Here(Main) = Read(data)
    <3>1. x = data
      BY <1>3, <2>6, OpAccess DEF Read
    <3> QED
      BY <1>1, <2>1, <2>6, <3>1
  <2>7. \A j \in {2, 5, 8} : pc[Main] = 2 * total + j => pc[Main] - 2 * total = j
    BY <1>1
  <2> QED
    BY <2>1, <2>2, <2>3, <2>4, <2>5, <2>6, <2>7
<1>4. ASSUME NEW t \in Threads, Ready(t)
      PROVE  /\ pc[t] = 9 => Section(t, pc[t]) = "data_mutex"
             /\ pc[t] \in {2, 15} => Section(t, pc[t]) = m
             /\ pc[t] \in {6, 12} => Section(t, pc[t]) = "keep_alive_mutex"
  BY <1>1, <1>4 DEF Section, SectionOf
<1>5. /\ data # alive /\ data # k /\ alive # k
      /\ data[1] # "tids" /\ alive[1] # "tids" /\ k[1] # "tids"
  BY DEF data, alive, Global
<1> HIDE DEF k
<1>6. ~Race
  <2>1. ASSUME NEW t \in Threads, NEW x \in Accesses(Main), x \in Accesses(t) PROVE FALSE
    <3>1. Ready(t) /\ t \in 1..total /\ Main # t /\ t \in All0 /\ Ready(Main)
      BY <1>1, <1>2, <1>3, <2>1
    <3>2. CASE pc[t] = 9 /\ x = data
      <4>1. pc[Main] > 2 * total + 8
        BY <1>3, <1>5, <2>1, <3>2
      <4>2. pc[t] >= 16
        BY <3>1, <4>1 DEF OtherInv, CountedInOut
      <4> QED
        BY <3>2, <4>2
    <3>3. CASE \/ pc[t] \in {2, 15} /\ x = alive
               \/ pc[t] \in {6, 12} /\ x = k
      <4>1. Section(Main, pc[Main]) = Section(t, pc[t]) /\ Section(t, pc[t]) # "none"
        BY <1>3, <1>4, <1>5, <2>1, <3>1, <3>3
      <4> QED
        BY <1>1, <3>1, <4>1, SectionsApart
    <3> QED
      BY <1>2, <2>1, <3>2, <3>3
  <2>2. ASSUME NEW t \in Threads, NEW u \in Threads, t # u, NEW x \in Accesses(t), x \in Accesses(u)
        PROVE  FALSE
    <3>1. Ready(t) /\ Ready(u) /\ t \in All0 /\ u \in All0
      BY <1>1, <1>2, <2>2
    <3>2. \/ pc[t] = 9 /\ pc[u] = 9
          \/ pc[t] \in {2, 15} /\ pc[u] \in {2, 15}
          \/ pc[t] \in {6, 12} /\ pc[u] \in {6, 12}
      BY <1>2, <1>5, <2>2
    <3>3. Section(t, pc[t]) = Section(u, pc[u]) /\ Section(t, pc[t]) # "none"
      BY <1>4, <3>1, <3>2
    <3> QED
      BY <1>1, <2>2, <3>1, <3>3, SectionsApart
  <2> QED
    BY <1>1, <2>1, <2>2, RaceOf DEF Accesses
<1>7. ~Reuse
  <2> SUFFICES ASSUME NEW x \in freed PROVE FALSE
    BY DEF Reuse
  <2>1. PICK q \in 1..Len(C(Main)) : C(Main)[q].op = "free"
    BY <1>1, FreedBefore
  <2> DEFINE a == C(Main)[q]
  <2>2. \/ \E i \in 1..total : a = Create(i) \/ a = Detach(i)
        \/ a = Lock(m) \/ a = Unlock(m) \/ a = Lock("keep_alive_mutex")
             \/ a = Unlock("keep_alive_mutex")
        \/ a = Await(alive, total, "threads_alive_cond", m)
             \/ a = Await(alive, 0, "threads_alive_cond", m)
        \/ a = Set(k, 0) \/ a = Read(data)
    BY <1>1, InnerAt DEF k
  <2>3. a.op = "free"
    BY <2>1
  <2> HIDE DEF a
  <2> QED
    BY <2>2, <2>3 DEF Lock, Unlock, Create, Detach, Await, Set, Read
<1>8. ~Beyond
  BY <1>2 DEF Beyond, Accesses
<1> QED
  BY <1>6, <1>7, <1>8

\* simple.c frees nothing and has no array.
LEMMA SimpleSafe ==
    ASSUME OtherInv, prog = "simple"
    PROVE  ~Reuse /\ ~Beyond
<1>1. /\ Base /\ Placed /\ OtherTypes /\ prog \in Others /\ total \in 0..N
      /\ Main \notin Threads /\ Threads \subseteq All0
  BY Settled DEF OtherTypes
<1>2. ~Reuse
  <2> SUFFICES ASSUME NEW x \in freed PROVE FALSE
    BY DEF Reuse
  <2>1. PICK q \in 1..Len(C(Main)) : C(Main)[q].op = "free"
    BY <1>1, FreedBefore
  <2> DEFINE a == C(Main)[q]
  <2>2. \E i \in 1..total : a = Create(i) \/ a = Join(i)
    BY <1>1, SimpleAt
  <2>3. a.op = "free"
    BY <2>1
  <2> HIDE DEF a
  <2> QED
    BY <2>2, <2>3 DEF Create, Join
<1>3. ~Beyond
  <2> SUFFICES ASSUME NEW t \in Threads, NEW x \in Writes(t), Here(t).op = "write_at" PROVE FALSE
    BY DEF Beyond
  <2>1. ~AtEnd(t)
    BY OpAccess DEF Accesses
  <2>2. pc[t] \in 1..Len(C(t)) /\ Here(t) = C(t)[pc[t]]
    BY <1>1, <2>1, HereIs
  <2>3. CASE t = 1
    <3>1. C(t) = <<Inc(Global("value")), AtomicSet(Global("flag"), 1)>>
      BY <1>1, <2>3, ShortThreads
    <3>2. Here(t) = Inc(Global("value")) \/ Here(t) = AtomicSet(Global("flag"), 1)
      BY <2>2, <3>1
    <3> QED
      BY <2>1, <3>2 DEF Inc, AtomicSet
  <2>4. CASE t # 1
    <3>1. C(t) = <<Spin(Global("flag"), 1), Inc(Global("value"))>>
      BY <1>1, <2>4, ShortThreads
    <3>2. Here(t) = Spin(Global("flag"), 1) \/ Here(t) = Inc(Global("value"))
      BY <2>2, <3>1
    <3> QED
      BY <2>1, <3>2 DEF Inc, Spin
  <2> QED
    BY <2>3, <2>4
<1> QED
  BY <1>2, <1>3

\* Where main of thread-join-binomial.c is.
LEMMA BinomialMainHere ==
    ASSUME OtherTypes, prog = "thread_join_binomial", ~AtEnd(Main)
    PROVE  \/ \E i \in 1..total : pc[Main] = total + 1 - i /\ Here(Main) = Create(i)
           \/ pc[Main] = total + 1 /\ Here(Main) = Join(1)
           \/ pc[Main] = total + 2 /\ Here(Main) = Free(All("tids", total))
           \/ pc[Main] = total + 3 /\ Here(Main) = Read(data)
<1> DEFINE q == pc[Main]
<1>1. total \in 0..N /\ Placed /\ Main \in All0
  BY OthersPlaced, Numbers, NAssumption DEF OtherTypes, Totals
<1>2. q \in 1..Len(C(Main)) /\ Here(Main) = C(Main)[q]
  BY <1>1, HereIs
<1> HIDE DEF q
<1>3. \/ \E i \in 1..total : q = total + 1 - i /\ C(Main)[q] = Create(i)
      \/ q = total + 1 /\ C(Main)[q] = Join(1)
      \/ q = total + 2 /\ C(Main)[q] = Free(All("tids", total))
      \/ q = total + 3 /\ C(Main)[q] = Read(data)
  BY <1>1, <1>2, BinomialAt
<1> QED
  BY <1>2, <1>3 DEF q

\* Where a thread of it is.
LEMMA BinomialThreadHere ==
    ASSUME OtherTypes, prog = "thread_join_binomial", NEW t \in Threads, ~AtEnd(t)
    PROVE  \/ pc[t] = 1 /\ Here(t) = Lock("data_mutex")
           \/ pc[t] = 2 /\ Here(t) = Write(data)
           \/ pc[t] = 3 /\ Here(t) = Unlock("data_mutex")
           \/ \E u \in 1..total : u > t /\ Here(t) = Join(u)
<1> DEFINE q == pc[t]
<1>1. total \in 0..N /\ Placed /\ t \in All0
  BY OthersPlaced, Numbers, NAssumption DEF OtherTypes, Totals
<1>2. q \in 1..Len(C(t)) /\ Here(t) = C(t)[q]
  BY <1>1, HereIs
<1> HIDE DEF q
<1>3. \/ q = 1 /\ C(t)[q] = Lock("data_mutex")
      \/ q = 2 /\ C(t)[q] = Write(data)
      \/ q = 3 /\ C(t)[q] = Unlock("data_mutex")
      \/ q > 3 /\ \E u \in 1..total : u > t /\ C(t)[q] = Join(u)
  BY <1>1, <1>2, BinomialThreadAt
<1> QED
  BY <1>2, <1>3 DEF q

\* When main has joined the first thread, every thread has ended: by induction
\* along the tree, each is joined by one before it, which has ended.
LEMMA TreeEnded ==
    ASSUME OtherInv, prog = "thread_join_binomial", Uncreated = {}, pc[Main] > total + 1,
           NEW u \in 1..total
    PROVE  status[u] = "ended"
<1>1. /\ Base /\ OtherTypes /\ total \in Nat /\ total \in 0..N /\ pc[Main] \in Nat
      /\ Main \in All0 /\ Threads \subseteq All0 /\ 1..total \subseteq Threads
      /\ \A t \in All0 : pc[t] \in Nat
  BY Settled, Numbers
<1>2. ASSUME NEW t \in All0, NEW q \in 1..Len(C(t)), q < pc[t], NEW v \in 1..total,
             C(t)[q] = Join(v)
      PROVE  status[v] = "ended"
  <2>1. C(t)[q].op = "join" /\ C(t)[q].t = v
    BY <1>2 DEF Join
  <2>2. status[v] \in {"ended", "failed"}
    BY <1>1, <1>2, <2>1 DEF Base, JoinsPassed
  <2>3. status[v] # "failed"
    BY <1>1 DEF Uncreated
  <2> QED
    BY <2>2, <2>3
<1> DEFINE S == {m \in Nat : \A v \in 1..m : v <= total => status[v] = "ended"}
<1>3. 0 \in S
  OBVIOUS
<1>4. ASSUME NEW m \in 0..total - 1, m \in S PROVE m + 1 \in S
  <2>1. status[m + 1] = "ended"
    <3>1. CASE m = 0
      <4> DEFINE q == total + 1
      <4>1. Len(C(Main)) = total + 3 /\ C(Main)[q] = Join(1)
        BY <1>1, BinomialMain
      <4>2. q \in 1..total + 3 /\ q < pc[Main] /\ 1 \in 1..total
        BY <1>1
      <4> HIDE DEF q
      <4>3. status[1] = "ended"
        BY <1>1, <1>2, <4>1, <4>2
      <4> QED
        BY <3>1, <4>3
    <3>2. CASE m # 0
      <4>1. m \in 1..total - 1
        BY <1>1, <3>2
      <4>2. PICK i \in 0..m - 1, k \in Nat : m = i + 2^k /\ \A r \in 0..k : Fans(i, total, r)
        BY <1>1, <4>1, JoinedBy
      <4> DEFINE t == i + 1
      <4>3. t \in 1..m /\ t <= total /\ t \in 1..total /\ t - 1 = i
        BY <1>1, <4>1
      <4>4. t \in Threads /\ t \in All0 /\ status[t] = "ended"
        BY <1>1, <1>4, <4>3
      <4> HIDE DEF t
      <4>5. PICK l : BinomialCode(t, l)
        BY <1>1, <4>4, BinomialThread
      <4>6. l \in Nat /\ k < l
        <5>1. l \in Nat /\ ~Fans(i, total, l)
          BY <1>1, <4>3, <4>5 DEF BinomialCode
        <5>2. l \notin 0..k
          BY <4>2, <5>1
        <5> QED
          BY <5>1, <5>2
      <4> DEFINE s == k + 1
                 q == 3 + s
      <4>7. C(t)[q] = Join(m + 1)
        <5>1. s \in 1..l /\ s - 1 = k
          BY <4>6
        <5>2. C(t)[3 + s] = Join(t + 2^(s - 1))
          <6> HIDE DEF s
          <6> QED
            BY <4>5, <5>1 DEF BinomialCode
        <5> DEFINE P == 2^k
        <5>3. P \in Nat
          BY SubsetsOf
        <5>4. m = i + P /\ C(t)[q] = Join(t + P)
          BY <4>2, <5>1, <5>2
        <5> HIDE DEF P
        <5>5. t + P = m + 1
          BY <4>3, <5>3, <5>4
        <5> QED
          BY <5>4, <5>5
      <4>8. q \in 1..Len(C(t)) /\ q < pc[t]
        <5>1. Len(C(t)) = 3 + l
          BY <4>5 DEF BinomialCode
        <5>2. pc[t] > 3 + l
          <6>1. AtEnd(t)
            BY <1>1, <4>4 DEF Base, EndedAtEnd
          <6> QED
            BY <5>1, <6>1 DEF AtEnd, C
        <5>3. pc[t] \in Nat
          BY <1>1, <4>4
        <5> QED
          BY <4>6, <5>1, <5>2, <5>3
      <4>9. m + 1 \in 1..total
        BY <1>1
      <4> HIDE DEF q
      <4> QED
        BY <1>2, <4>4, <4>7, <4>8, <4>9
    <3> QED
      BY <3>1, <3>2
  <2>2. \A v \in 1..m + 1 : v \in 1..m \/ v = m + 1
    OBVIOUS
  <2> QED
    BY <1>4, <2>1, <2>2
<1>5. 0..total \subseteq S
  <2> HIDE DEF S
  <2> QED
    BY <1>1, <1>3, <1>4, UpTo
<1>6. total \in S
  BY <1>1, <1>5
<1> QED
  BY <1>6

\* thread-join-binomial.c.
LEMMA BinomialSafe ==
    ASSUME OtherInv, prog = "thread_join_binomial", Uncreated = {}
    PROVE  ~Race /\ ~Reuse /\ ~Beyond
<1>1. /\ Base /\ Placed /\ OtherTypes /\ total \in Nat /\ total \in 0..N /\ pc[Main] \in Nat
      /\ Main \in All0 /\ Main \notin Threads /\ Threads \subseteq All0
      /\ \A t \in Threads : t \in Nat /\ (Ready(t) => t \in 1..total /\ pc[Main] > total + 1 - t)
  BY Settled DEF Creation, CreationOf
<1>2. ASSUME NEW t \in Threads, NEW x \in Accesses(t)
      PROVE  /\ Ready(t) /\ Here(t).op # "write_at"
             /\ \/ pc[t] = 2 /\ x = data
                \/ Writes(t) = {} /\ \E u \in 1..total : u > t /\ x = <<"tids", u>>
  <2>1. ~AtEnd(t) /\ Ready(t) /\ Here(t).op \notin {"lock", "unlock"}
    BY <1>2, OpAccess
  <2>2. \/ pc[t] = 2 /\ Here(t) = Write(data)
        \/ \E u \in 1..total : u > t /\ Here(t) = Join(u)
    BY <1>1, <2>1, BinomialThreadHere DEF Lock, Unlock
  <2>3. CASE pc[t] = 2 /\ Here(t) = Write(data)
    BY <1>2, <2>1, <2>3, OpAccess DEF Write
  <2>4. ASSUME NEW u \in 1..total, u > t, Here(t) = Join(u)
        PROVE  Here(t).op # "write_at" /\ Writes(t) = {} /\ x = <<"tids", u>>
    BY <1>2, <2>4, OpAccess DEF Join
  <2> QED
    BY <2>1, <2>2, <2>3, <2>4
<1>3. ASSUME NEW t \in Threads, Ready(t) PROVE pc[Main] <= total + 1
  <2>1. t \in 1..total /\ status[t] = "running"
    BY <1>1, <1>3 DEF Ready
  <2> SUFFICES ASSUME pc[Main] > total + 1 PROVE FALSE
    BY <1>1
  <2>2. status[t] = "ended"
    BY <2>1, TreeEnded
  <2> QED
    BY <2>1, <2>2
<1>4. ASSUME NEW x \in Accesses(Main)
      PROVE  \/ \E i \in 1..total : pc[Main] = total + 1 - i /\ x = <<"tids", i>>
             \/ pc[Main] = total + 1 /\ Writes(Main) = {} /\ x[1] = "tids"
             \/ pc[Main] = total + 2 /\ x[1] = "tids"
             \/ pc[Main] = total + 3 /\ x = data
  <2>1. ~AtEnd(Main)
    BY <1>4, OpAccess
  <2>2. \/ \E i \in 1..total : pc[Main] = total + 1 - i /\ Here(Main) = Create(i)
        \/ pc[Main] = total + 1 /\ Here(Main) = Join(1)
        \/ pc[Main] = total + 2 /\ Here(Main) = Free(All("tids", total))
        \/ pc[Main] = total + 3 /\ Here(Main) = Read(data)
    BY <1>1, <2>1, BinomialMainHere
  <2>3. ASSUME NEW i \in 1..total, Here(Main) = Create(i) PROVE x = <<"tids", i>>
    BY <1>4, <2>3, OpAccess DEF Create
  <2>4. ASSUME Here(Main) = Join(1) PROVE Writes(Main) = {} /\ x[1] = "tids"
    BY <1>4, <2>4, OpAccess DEF Join
  <2>5. ASSUME Here(Main) = Free(All("tids", total)) PROVE x[1] = "tids"
    BY <1>4, <2>5, OpAccess DEF Free, All
  <2>6. ASSUME Here(Main) = Read(data) PROVE x = data
    BY <1>4, <2>6, OpAccess DEF Read
  <2> QED
    BY <2>2, <2>3, <2>4, <2>5, <2>6
<1>5. data[1] # "tids"
  BY DEF data, Global
<1>6. ~Race
  <2>1. ASSUME NEW t \in Threads, NEW x \in Accesses(Main), x \in Accesses(t)
        PROVE  Writes(t) = {} /\ Writes(Main) = {}
    <3>1. Ready(t) /\ pc[Main] <= total + 1
      BY <1>2, <1>3, <2>1
    <3>2. t \in 1..total /\ pc[Main] > total + 1 - t
      BY <1>1, <3>1
    <3>3. x[1] = "tids"
      <4>1. ~(pc[Main] = total + 3)
        BY <1>1, <3>1
      <4> QED
        BY <1>4, <2>1, <4>1
    <3>4. PICK u \in 1..total : u > t /\ x = <<"tids", u>>
      BY <1>2, <1>5, <2>1, <3>3
    <3>5. Writes(t) = {}
      BY <1>2, <1>5, <2>1, <3>3
    <3>6. \A i \in 1..total : pc[Main] = total + 1 - i => i < t
      BY <1>1, <3>2
    <3>7. \A i \in 1..total : x = <<"tids", i>> => i = u
      BY <3>4
    <3>8. ~(\E i \in 1..total : pc[Main] = total + 1 - i /\ x = <<"tids", i>>)
      BY <1>1, <3>4, <3>6, <3>7
    <3>9. ~(pc[Main] = total + 2) /\ ~(pc[Main] = total + 3)
      BY <1>1, <3>1
    <3> QED
      BY <1>4, <2>1, <3>5, <3>8, <3>9
  <2>2. ASSUME NEW t \in Threads, NEW u \in Threads, t # u, NEW x \in Writes(t), x \in Accesses(u)
        PROVE  FALSE
    <3>1. pc[t] = 2 /\ x = data /\ Ready(t)
      BY <1>2, <2>2 DEF Accesses
    <3>2. Ready(u) /\ pc[u] = 2
      BY <1>2, <1>5, <2>2, <3>1
    <3>3. Section(t, pc[t]) = "data_mutex" /\ Section(u, pc[u]) = "data_mutex"
      BY <1>1, <3>1, <3>2 DEF Section, SectionOf
    <3> QED
      BY <1>1, <2>2, <3>1, <3>2, <3>3, SectionsApart
  <2>3. \A t \in Threads : Writes(Main) \cap Accesses(t) = {} /\ Writes(t) \cap Accesses(Main) = {}
    BY <2>1 DEF Accesses
  <2>4. \A t, u \in Threads : t # u => Writes(t) \cap Accesses(u) = {}
    BY <2>2
  <2> QED
    BY <1>1, <2>3, <2>4, RaceOf
<1>7. ~Reuse
  <2> SUFFICES ASSUME NEW t \in All0, NEW x \in Accesses(t), x \in freed PROVE FALSE
    BY DEF Reuse
  <2>1. PICK q \in 1..Len(C(Main)) :
              q \in Nat /\ q < pc[Main] /\ C(Main)[q].op = "free" /\ x \in C(Main)[q].xs
    BY <1>1, FreedBefore
  <2>2. q = total + 2 /\ x[1] = "tids"
    <3> DEFINE a == C(Main)[q]
    <3>1. \/ \E i \in 1..total : q = total + 1 - i /\ a = Create(i)
          \/ q = total + 1 /\ a = Join(1)
          \/ q = total + 2 /\ a = Free(All("tids", total))
          \/ q = total + 3 /\ a = Read(data)
      BY <1>1, BinomialAt
    <3>2. a.op = "free" /\ x \in a.xs
      BY <2>1
    <3> HIDE DEF a
    <3>3. ASSUME a = Free(All("tids", total)) PROVE x[1] = "tids"
      BY <3>2, <3>3 DEF Free, All
    <3> QED
      BY <3>1, <3>2, <3>3 DEF Create, Join, Read
  <2>3. pc[Main] > total + 2
    BY <2>1, <2>2
  <2>4. CASE t \in Threads
    <3>1. pc[Main] <= total + 1
      BY <1>2, <1>3, <2>4
    <3> QED
      BY <1>1, <2>3, <3>1
  <2>5. CASE t = Main
    <3>1. ASSUME NEW i \in 1..total PROVE pc[Main] # total + 1 - i
      BY <1>1, <2>3
    <3>2. x = data
      <4>1. pc[Main] # total + 1 /\ pc[Main] # total + 2
        BY <1>1, <2>3
      <4> QED
        BY <1>4, <2>5, <3>1, <4>1
    <3> QED
      BY <1>5, <2>2, <3>2
  <2> QED
    BY <1>1, <2>4, <2>5, Numbers
<1>8. ~Beyond
  BY <1>2 DEF Beyond, Accesses
<1> QED
  BY <1>6, <1>7, <1>8

-----------------------------------------------------------------------------
(* All examples.                                                           *)

\* Each of them is of one kind or the other.
LEMMA TwoKinds == Names = PoolPrograms \cup Others
BY DEF Names, PoolPrograms, WritesLocked, WritesOwn, Others

\* What they keep true.
IInv == PoolInv \/ OtherInv

\* The invariant of the examples, for any number of threads: who holds which
\* mutex, who has been created, joined or has ended, what is freed, and what
\* each program's counters, indices, bits and flags say of where its threads are.
THEOREM ExamplesInvariant == Spec => []IInv
<1>1. Init => IInv
  <2> SUFFICES ASSUME Init PROVE IInv
    OBVIOUS
  <2>1. prog \in Names
    BY ProgramsAssumption DEF Init
  <2> QED
    BY <2>1, TwoKinds, PoolInit, OthersInit DEF IInv
<1>2. IInv /\ [Next]_vars => IInv'
  BY PoolNext, OthersNext DEF IInv
<1> QED
  BY <1>1, <1>2, PTL DEF Spec

\* What the invariant of the other programs says, for each.
LEMMA OthersSafe ==
    ASSUME OtherInv, Uncreated = {}
    PROVE  /\ prog # "simple" => ~Race
           /\ ~Reuse /\ ~Beyond
<1>1. prog \in Others
  BY DEF OtherInv, Base, OtherTypes
<1> QED
  BY <1>1, StructTidSafe, ArrayInitSafe, BitmaskSafe, BarrierSafe, OuterSafe, InnerSafe,
     BinomialSafe,
     SimpleSafe DEF Others

\* The comments "NORACE" of the examples, for any number of threads: no two
\* threads are ever about to access the same location, one of them to write it,
\* unless both do so atomically.
THEOREM ExamplesAreRaceFree == Spec => []NoRace
<1>1. OtherInv => NoRace
  BY OthersSafe DEF NoRace, Race, Accesses
<1>2. IInv => NoRace
  BY <1>1, PoolNoRace DEF IInv
<1> QED
  BY <1>2, ExamplesInvariant, PTL

\* No assertion of the examples ever fails, and no thread is joined or detached
\* that was not created, if every one is created.
THEOREM ExamplesNeverFail == Spec => []NeverFails
<1>1. IInv => NeverFails
  BY DEF IInv, PoolInv, OtherInv, Base, Unfailed, NeverFails
<1> QED
  BY <1>1, ExamplesInvariant, PTL

\* Nothing in the examples is used after it is freed, or freed twice, in whatever
\* order the threads end; and the indices that per-thread-index-inc.c and
\* per-thread-index-bitmask.c hand from thread to thread are those of the array.
THEOREM ExamplesAreMemorySafe == Spec => []MemorySafe
<1>1. OtherInv => MemorySafe
  BY OthersSafe DEF MemorySafe, Reuse, Beyond, Accesses
<1>2. IInv => MemorySafe
  BY <1>1, PoolMemorySafe DEF IInv
<1> QED
  BY <1>2, ExamplesInvariant, PTL
=============================================================================
