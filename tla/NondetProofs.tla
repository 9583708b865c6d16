---------------------------- MODULE NondetProofs ----------------------------
(***************************************************************************)
(* Where the bytes of the input go, for any threads, any types, any input  *)
(* and any number of calls.                                                *)
(***************************************************************************)
EXTENDS Nondet, FlattenTheorems

-----------------------------------------------------------------------------
(* The invariant.                                                          *)

\* A unit begins at every fourth offset, unless the input is at its end.
Aligned == pos % Unit = 0 \/ pos = input

\* What has been drawn has been read, and garbage is not drawn before the end.
DrawnIsRead ==
    \A t \in Threads : \A i \in 1..Len(Taken(t)) :
        Taken(t)[i] < pos /\ (Taken(t)[i] = Garbage => pos = input)

\* Between two calls no value is under way.
NoValueLeft == \A t \in Threads : call[t] = "none" => value[t] = <<>>

IInv == TypeOK /\ Aligned /\ NoValueLeft /\ DrawnIsRead /\ UnitsUsedOnce /\ InOrder

\* What is drawn of a value is a sequence of bytes.
LEMMA TakenType ==
    ASSUME TypeOK, NEW t \in Threads
    PROVE  /\ Taken(t) \in Seq(Bytes) /\ Len(Taken(t)) \in Nat
           /\ \A i \in 1..Len(Taken(t)) : Taken(t)[i] \in Bytes /\ Taken(t)[i] \in Int
<1>1. FlattenSeq(drawn[t]) \in Seq(Bytes)
  BY FlattenType DEF TypeOK
<1>2. Taken(t) \in Seq(Bytes)
  BY <1>1, ConcatProperties DEF Taken, TypeOK
<1>3. Bytes \subseteq Int
  BY BoundsAssumption DEF Bytes, Garbage
<1> QED
  BY <1>2, <1>3, LenProperties, ElementOfSeq

\* A place is a thread and an index in what it has taken.
LEMMA PlacesOf ==
    ASSUME NEW b
    PROVE  /\ \A t \in Threads : \A i \in 1..Len(Taken(t)) :
                  Taken(t)[i] = b => <<t, i>> \in Places(b)
           /\ \A p \in Places(b) : \E t \in Threads : \E i \in 1..Len(Taken(t)) :
                  p = <<t, i>> /\ Taken(t)[i] = b
BY DEF Places

\* Two units of four bytes that share a byte are one.
LEMMA UnitArithmetic ==
    ASSUME NEW p \in Nat, p % Unit = 0
    PROVE  /\ (p + Unit) % Unit = 0
           /\ \A b \in Nat : b % Unit = 0 /\ p <= b /\ b < p + Unit => b = p
BY DEF Unit

\* What one fread hands over.
LEMMA ReadUnit ==
    ASSUME TypeOK
    PROVE  /\ Read \in Seq(Bytes) /\ Len(Read) = Unit /\ Head(Read) = Read[1]
           /\ \A k \in 1..Unit : Read[k] = IF pos + k <= input THEN pos + k - 1 ELSE Garbage
<1>1. \A k \in 1..Unit : (IF pos + k <= input THEN pos + k - 1 ELSE Garbage) \in Bytes
  BY BoundsAssumption DEF TypeOK, Bytes, Unit
<1>2. Unit \in Nat
  BY DEF Unit
<1>3. Read \in Seq(Bytes)
  BY <1>1, <1>2 DEF Read
<1>4. DOMAIN Read = 1..Unit
  BY DEF Read
<1>5. Len(Read) = Unit
  BY <1>2, <1>3, <1>4, LenProperties
<1>6. Read # <<>>
  BY <1>5, EmptySeq DEF Unit
<1>7. \A k \in 1..Unit : Read[k] = IF pos + k <= input THEN pos + k - 1 ELSE Garbage
  BY DEF Read
<1>8. Head(Read) = Read[1]
  <2> HIDE DEF Read
  <2> QED
    BY <1>3, <1>5, <1>6
<1> QED
  BY <1>3, <1>5, <1>7, <1>8

LEMMA InitSafe == Init => IInv
<1> SUFFICES ASSUME Init PROVE IInv
  OBVIOUS
<1>1. TypeOK
  BY BoundsAssumption, EmptySeq DEF Init, TypeOK
<1>2. ASSUME NEW t \in Threads PROVE Taken(t) = <<>> /\ Len(Taken(t)) = 0
  <2>1. drawn[t] = <<>> /\ value[t] = <<>>
    BY DEF Init
  <2>2. <<>> \o <<>> = <<>>
    BY EmptySeq, ConcatEmptySeq
  <2> QED
    BY <2>1, <2>2, FlattenEmpty, EmptySeq DEF Taken
<1>3. Aligned /\ NoValueLeft /\ pos = 0
  BY DEF Init, Aligned, NoValueLeft, Unit
<1>4. \A b : Places(b) = {}
  BY <1>2, PlacesOf
<1> QED
  BY <1>1, <1>2, <1>3, <1>4, BoundsAssumption DEF IInv, DrawnIsRead, UnitsUsedOnce, InOrder

\* Where nobody has taken more, and nothing is read.
LEMMA NothingTaken ==
    ASSUME IInv, TypeOK', UNCHANGED <<input, pos>>, NoValueLeft',
           \A t \in Threads : Taken(t)' = Taken(t)
    PROVE  IInv'
<1>1. \A b : Places(b)' = Places(b)
  BY DEF Places
<1>2. Aligned' /\ DrawnIsRead' /\ InOrder'
  BY DEF IInv, Aligned, DrawnIsRead, InOrder
<1>3. UnitsUsedOnce'
  BY <1>1 DEF IInv, UnitsUsedOnce
<1> QED
  BY <1>1, <1>2, <1>3 DEF IInv

LEMMA CallSafe ==
    ASSUME IInv, NEW t \in Threads, NEW type \in Types, Call(t, type)
    PROVE  IInv'
<1>1. TypeOK'
  BY EmptySeq DEF IInv, TypeOK, Call
<1>2. value' = value
  BY DEF IInv, TypeOK, NoValueLeft, Call
<1>3. NoValueLeft'
  BY <1>2 DEF IInv, TypeOK, NoValueLeft, Call
<1>4. \A u \in Threads : Taken(u)' = Taken(u)
  BY <1>2 DEF Taken, Call
<1> QED
  BY <1>1, <1>3, <1>4, NothingTaken DEF Call

LEMMA ReturnSafe ==
    ASSUME IInv, NEW t \in Threads, Return(t)
    PROVE  IInv'
<1>1. TypeOK'
  BY EmptySeq, AppendProperties DEF IInv, TypeOK, Return
<1>2. NoValueLeft'
  BY DEF IInv, TypeOK, NoValueLeft, Return
<1>3. Taken(t)' = Taken(t)
  <2>1. drawn[t] \in Seq(Seq(Bytes)) /\ value[t] \in Seq(Bytes)
    BY DEF IInv, TypeOK
  <2>2. drawn'[t] = Append(drawn[t], value[t]) /\ value'[t] = <<>>
    BY DEF Return, IInv, TypeOK
  <2>3. FlattenSeq(Append(drawn[t], value[t])) = FlattenSeq(drawn[t]) \o value[t]
    BY <2>1, FlattenAppend
  <2>4. FlattenSeq(drawn[t]) \o value[t] \in Seq(Bytes)
    BY <2>1, FlattenType, ConcatProperties
  <2> QED
    BY <2>2, <2>3, <2>4, ConcatEmptySeq DEF Taken
<1>4. ASSUME NEW u \in Threads, u # t PROVE Taken(u)' = Taken(u)
  BY <1>4 DEF Return, Taken, IInv, TypeOK
<1> QED
  BY <1>1, <1>2, <1>3, <1>4, NothingTaken DEF Return

\* A unit read, or its beginning.
ReadOf(new) == Len(new) \in 1..Unit /\ \A k \in 1..Len(new) : new[k] = Read[k]

\* A draw appends what it reads of the next unit, or the first byte of it.
LEMMA DrawAppends ==
    ASSUME IInv, NEW t \in Threads, Draw(t)
    PROVE  /\ TypeOK' /\ NoValueLeft'
           /\ \A u \in Threads \ {t} : Taken(u)' = Taken(u)
           /\ \E new \in Seq(Bytes) : ReadOf(new) /\ Taken(t)' = Taken(t) \o new
<1> USE DEF IInv
<1> DEFINE first == Head(Read)
<1>1. Read \in Seq(Bytes) /\ Len(Read) = Unit /\ first = Read[1] /\ first \in Bytes
  BY ReadUnit, ElementOfSeq DEF Unit
<1>2. drawn' = drawn /\ value[t] \in Seq(Bytes) /\ FlattenSeq(drawn[t]) \in Seq(Bytes)
  BY FlattenType DEF Draw, TypeOK
<1> DEFINE mine == IF call[t] = "rand" THEN Read ELSE Append(value[t], first)
<1>3. value' = [value EXCEPT ![t] = mine] /\ mine \in Seq(Bytes)
  BY <1>1, <1>2, AppendProperties DEF Draw
<1>4. TypeOK'
  <2>1. pos' \in 0..input
    BY DEF Draw, Advance, TypeOK, Unit
  <2> QED
    BY <1>3, <2>1 DEF Draw, TypeOK
<1>5. NoValueLeft'
  BY <1>3 DEF Draw, NoValueLeft, TypeOK
<1>6. \A u \in Threads \ {t} : Taken(u)' = Taken(u)
  BY <1>2, <1>3 DEF Taken, TypeOK
<1>7. value'[t] = mine
  BY <1>3 DEF TypeOK
<1>8. CASE call[t] = "rand"
  <2>1. Len(value[t]) < 1
    BY <1>8 DEF Draw, Size
  <2>2. value[t] = <<>>
    BY <1>2, <2>1, EmptySeq
  <2>3. Taken(t)' = Taken(t) \o Read
    BY <1>2, <1>7, <1>8, <2>2, ConcatEmptySeq DEF Taken
  <2>4. ReadOf(Read)
    BY <1>1 DEF ReadOf, Unit
  <2> QED
    BY <1>1, <1>4, <1>5, <1>6, <2>3, <2>4, Zenon
<1>9. CASE call[t] # "rand"
  <2> DEFINE one == <<first>>
  <2>1. one \in Seq(Bytes) /\ Len(one) = 1 /\ one[1] = first
    BY <1>1
  <2>2. Append(value[t], first) = value[t] \o one
    BY <1>1, <1>2, AppendIsConcat
  <2>3. ReadOf(one)
    BY <1>1, <2>1 DEF ReadOf, Unit
  <2>4. Taken(t)' = FlattenSeq(drawn[t]) \o (value[t] \o one)
    BY <1>2, <1>7, <1>9, <2>2 DEF Taken
  <2> HIDE DEF one
  <2>5. (FlattenSeq(drawn[t]) \o value[t]) \o one = FlattenSeq(drawn[t]) \o (value[t] \o one)
    <3> DEFINE before == FlattenSeq(drawn[t])
               mid    == value[t]
    <3>1. before \in Seq(Bytes) /\ mid \in Seq(Bytes)
      BY <1>2
    <3> HIDE DEF before, mid
    <3>2. (before \o mid) \o one = before \o (mid \o one)
      BY <2>1, <3>1, ConcatAssociative
    <3> QED
      BY <3>2 DEF before, mid
  <2>6. Taken(t)' = Taken(t) \o one
    BY <2>4, <2>5 DEF Taken
  <2> QED
    BY <1>4, <1>5, <1>6, <2>1, <2>3, <2>6, Zenon
<1> QED
  BY <1>8, <1>9

\* The bytes a draw hands over lie between the input read before it and that
\* read after it, the first of them at the beginning of a unit.
LEMMA DrawReads ==
    ASSUME IInv, NEW t \in Threads, Draw(t), NEW new \in Seq(Bytes), ReadOf(new)
    PROVE  /\ Aligned' /\ input' = input /\ pos \in Nat /\ pos' \in Nat /\ input \in Nat
           /\ pos <= pos' /\ pos' <= input
           /\ pos = input => pos' = pos /\ \A k \in 1..Len(new) : new[k] = Garbage
           /\ pos # input => /\ pos % Unit = 0 /\ pos < pos' /\ pos' <= pos + Unit
                             /\ new[1] = pos
           /\ \A k \in 1..Len(new) :
                  \/ new[k] = pos + k - 1 /\ pos <= new[k] /\ new[k] < pos'
                  \/ new[k] = Garbage /\ pos' = input /\ pos + k > input
<1> USE DEF IInv
<1>1. /\ pos \in Nat /\ input \in Nat /\ pos <= input /\ input' = input
      /\ pos' = IF pos + Unit <= input THEN pos + Unit ELSE input
  BY BoundsAssumption DEF TypeOK, Draw, Advance
<1>2. \A k \in 1..Len(new) : k \in 1..4 /\ new[k] = IF pos + k <= input THEN pos + k - 1 ELSE Garbage
  BY ReadUnit DEF ReadOf, Unit
<1>3. Aligned'
  <2>1. CASE pos + Unit <= input
    <3>1. pos % Unit = 0
      BY <1>1, <2>1 DEF Aligned, Unit
    <3>2. pos' = pos + Unit
      BY <1>1, <2>1
    <3> QED
      BY <1>1, <3>1, <3>2, UnitArithmetic DEF Aligned
  <2>2. CASE ~(pos + Unit <= input)
    BY <1>1, <2>2 DEF Aligned
  <2> QED
    BY <2>1, <2>2
<1>4. \A k \in 1..Len(new) :
          \/ new[k] = pos + k - 1 /\ pos <= new[k] /\ new[k] < pos'
          \/ new[k] = Garbage /\ pos' = input /\ pos + k > input
  BY <1>1, <1>2 DEF Unit
<1>5. pos = input => pos' = pos /\ \A k \in 1..Len(new) : new[k] = Garbage
  BY <1>1, <1>2 DEF Unit
<1>6. pos # input => pos % Unit = 0 /\ pos < pos' /\ pos' <= pos + Unit /\ new[1] = pos
  <2>1. 1 \in 1..Len(new)
    BY DEF ReadOf
  <2> QED
    BY <1>1, <1>2, <2>1 DEF Unit, Aligned
<1> QED
  BY <1>1, <1>3, <1>4, <1>5, <1>6

LEMMA DrawSafe ==
    ASSUME IInv, NEW t \in Threads, Draw(t)
    PROVE  IInv'
<1>1. PICK new \in Seq(Bytes) : ReadOf(new) /\ Taken(t)' = Taken(t) \o new
  BY DrawAppends
<1> DEFINE n == Len(Taken(t))
           m == Len(new)
<1>2. /\ n \in Nat /\ m \in 1..Unit /\ Taken(t) \in Seq(Bytes) /\ Len(Taken(t)') = n + m
      /\ \A i \in 1..n : Taken(t)'[i] = Taken(t)[i]
      /\ \A k \in 1..m : Taken(t)'[n + k] = new[k]
      /\ \A i \in 1..n + m : i \in 1..n \/ i - n \in 1..m
  <2>1. Taken(t) \in Seq(Bytes) /\ n \in Nat /\ m \in 1..Unit
    BY <1>1, TakenType DEF IInv, ReadOf
  <2>2. /\ Len(Taken(t) \o new) = n + m
        /\ \A i \in 1..n + m : (Taken(t) \o new)[i] = IF i <= n THEN Taken(t)[i] ELSE new[i - n]
    BY <2>1, ConcatProperties
  <2> HIDE DEF n, m
  <2>3. m \in Nat
    BY <2>1 DEF Unit
  <2>4. \A k \in 1..m : n + k \in 1..n + m /\ ~(n + k <= n) /\ (n + k) - n = k
    BY <2>1, <2>3
  <2> QED
    BY <1>1, <2>1, <2>2, <2>3, <2>4 DEF n
<1>3. \A u \in Threads \ {t} : Taken(u)' = Taken(u)
  BY DrawAppends
<1>4. /\ Aligned' /\ input' = input /\ pos \in Nat /\ pos' \in Nat /\ input \in Nat
      /\ pos <= pos' /\ pos' <= input
      /\ pos = input => pos' = pos /\ \A k \in 1..m : new[k] = Garbage
      /\ pos # input => pos % Unit = 0 /\ pos < pos' /\ pos' <= pos + Unit /\ new[1] = pos
      /\ \A k \in 1..m :
             \/ new[k] = pos + k - 1 /\ pos <= new[k] /\ new[k] < pos'
             \/ new[k] = Garbage /\ pos' = input /\ pos + k > input
  BY <1>1, DrawReads
<1>5. \A u \in Threads : \A i \in 1..Len(Taken(u)) : Taken(u)[i] \in Int
  BY TakenType DEF IInv
<1> HIDE DEF n, m
<1>6. DrawnIsRead'
  <2>1. ASSUME NEW i \in 1..n + m
        PROVE  Taken(t)'[i] < pos' /\ (Taken(t)'[i] = Garbage => pos' = input')
    <3>1. CASE i \in 1..n
      BY SMTT(30), <1>2, <1>4, <1>5, <3>1 DEF IInv, DrawnIsRead, n
    <3>2. CASE i - n \in 1..m
      <4>1. Taken(t)'[i] = new[i - n]
        BY <1>2, <3>2
      <4> QED
        BY <1>4, <3>2, <4>1 DEF Garbage
    <3> QED
      BY <1>2, <3>1, <3>2
  <2>2. ASSUME NEW u \in Threads, u # t, NEW i \in 1..Len(Taken(u))
        PROVE  Taken(u)[i] < pos' /\ (Taken(u)[i] = Garbage => pos' = input')
    BY <1>4, <1>5, <2>2 DEF IInv, DrawnIsRead
  <2> QED
    BY <1>2, <1>3, <2>1, <2>2 DEF DrawnIsRead
<1>7. InOrder'
  <2>1. ASSUME NEW i \in 1..n + m, NEW j \in 1..n + m, i < j, Taken(t)'[j] # Garbage
        PROVE  Taken(t)'[i] # Garbage /\ Taken(t)'[i] < Taken(t)'[j]
    <3>1. CASE j \in 1..n
      <4>1. i \in 1..n
        BY <1>2, <2>1, <3>1
      <4> QED
        BY <1>2, <2>1, <3>1, <4>1 DEF IInv, InOrder, n
    <3>2. CASE j - n \in 1..m
      <4>1. Taken(t)'[j] = new[j - n]
        BY <1>2, <3>2
      <4>2. pos <= new[j - n] /\ new[j - n] = pos + (j - n) - 1 /\ pos # input
        BY <1>4, <2>1, <3>2, <4>1
      <4>3. CASE i \in 1..n
        <5>1. Taken(t)[i] < pos /\ Taken(t)[i] # Garbage /\ Taken(t)[i] \in Int
          BY <1>5, <4>2, <4>3 DEF IInv, DrawnIsRead, n
        <5> QED
          BY <1>2, <1>4, <4>1, <4>2, <4>3, <5>1
      <4>4. CASE i - n \in 1..m
        <5>1. Taken(t)'[i] = new[i - n] /\ i - n < j - n
          BY <1>2, <2>1, <4>4
        <5>2. new[i - n] = pos + (i - n) - 1
          <6>1. ~(pos + (i - n) > input)
            <7>1. new[j - n] < pos'
              BY <1>4, <2>1, <3>2, <4>1
            <7> QED
              BY <1>2, <1>4, <4>2, <5>1, <7>1
          <6> QED
            BY <1>4, <4>4, <6>1
        <5> QED
          BY <1>2, <1>4, <4>1, <4>2, <4>4, <5>1, <5>2 DEF Garbage
      <4> QED
        BY <1>2, <4>3, <4>4
    <3> QED
      BY <1>2, <3>1, <3>2
  <2> QED
    BY <1>2, <1>3, <2>1 DEF IInv, InOrder
<1>8. ASSUME NEW b \in 0..MaxInput - 1
      PROVE  /\ b < pos => Places(b)' = Places(b)
             /\ b >= pos' => Places(b)' = {}
             /\ b = pos /\ pos # input => Places(b)' = {<<t, n + 1>>}
  <2>1. b # Garbage
    BY BoundsAssumption DEF Garbage
  <2>2. ASSUME b < pos PROVE Places(b)' = Places(b)
    <3>1. \A k \in 1..m : new[k] # b
      BY <1>4, <2>1, <2>2
    <3>2. ASSUME NEW p \in Places(b) PROVE p \in Places(b)'
      <4>1. PICK u \in Threads : \E i \in 1..Len(Taken(u)) : p = <<u, i>> /\ Taken(u)[i] = b
        BY <3>2, PlacesOf
      <4>9. PICK i \in 1..Len(Taken(u)) : p = <<u, i>> /\ Taken(u)[i] = b
        BY <4>1
      <4>2. i \in 1..Len(Taken(u)') /\ Taken(u)'[i] = b
        BY <1>2, <1>3, <4>9 DEF n
      <4> QED
        BY <4>9, <4>2 DEF Places
    <3>3. ASSUME NEW p \in Places(b)' PROVE p \in Places(b)
      <4>1. PICK u \in Threads : \E i \in 1..Len(Taken(u)') : p = <<u, i>> /\ Taken(u)'[i] = b
        BY <3>3 DEF Places
      <4>9. PICK i \in 1..Len(Taken(u)') : p = <<u, i>> /\ Taken(u)'[i] = b
        BY <4>1
      <4>2. i \in 1..Len(Taken(u)) /\ Taken(u)[i] = b
        <5>1. CASE u # t
          BY <1>3, <4>9, <5>1
        <5>2. CASE u = t
          <6>1. i \in 1..n + m /\ (i - n \in 1..m => Taken(t)'[n + (i - n)] = new[i - n])
            BY <1>2, <4>9, <5>2
          <6>2. i - n \in 1..m => n + (i - n) = i
            BY <1>2 DEF Unit
          <6>3. i \in 1..n
            BY <1>2, <3>1, <4>9, <5>2, <6>1, <6>2
          <6> QED
            BY <1>2, <4>9, <5>2, <6>3 DEF n
        <5> QED
          BY <5>1, <5>2
      <4> QED
        BY <4>9, <4>2, PlacesOf
    <3> QED
      BY <3>2, <3>3
  <2>3. ASSUME b >= pos, NEW p \in Places(b)' PROVE \E k \in 1..m : p = <<t, n + k>> /\ new[k] = b
    <3>1. PICK u \in Threads : \E i \in 1..Len(Taken(u)') : p = <<u, i>> /\ Taken(u)'[i] = b
      BY <2>3 DEF Places
    <3>9. PICK i \in 1..Len(Taken(u)') : p = <<u, i>> /\ Taken(u)'[i] = b
      BY <3>1
    <3>2. ASSUME NEW w \in Threads, NEW j \in 1..Len(Taken(w)) PROVE Taken(w)[j] # b
      BY <1>4, <1>5, <2>3, <3>2 DEF IInv, DrawnIsRead
    <3>3. u = t
      BY <1>3, <3>9, <3>2
    <3>4. i - n \in 1..m
      BY <1>2, <3>9, <3>2, <3>3 DEF n
    <3>5. n + (i - n) = i
      BY <1>2, <3>4 DEF Unit
    <3> QED
      BY <1>2, <3>9, <3>3, <3>4, <3>5
  <2>4. ASSUME b >= pos' PROVE Places(b)' = {}
    BY <1>4, <2>1, <2>3, <2>4
  <2>5. ASSUME b = pos, pos # input PROVE Places(b)' = {<<t, n + 1>>}
    <3>1. ASSUME NEW p \in Places(b)' PROVE p = <<t, n + 1>>
      <4>1. PICK k \in 1..m : p = <<t, n + k>> /\ new[k] = b
        BY <1>4, <2>3, <2>5, <3>1
      <4>2. k = 1
        BY SMTT(30), <1>2, <1>4, <2>1, <2>5, <4>1 DEF Unit
      <4> QED
        BY <4>1, <4>2
    <3>2. n + 1 \in 1..Len(Taken(t)') /\ Taken(t)'[n + 1] = b
      BY <1>2, <1>4, <2>5 DEF Unit
    <3>3. <<t, n + 1>> \in Places(b)'
      BY <3>2 DEF Places
    <3> QED
      BY <3>1, <3>3
  <2> QED
    BY <2>2, <2>4, <2>5
<1>9. UnitsUsedOnce'
  <2>1. ASSUME NEW b \in 0..MaxInput - 1, b % Unit = 0, b < pos'
        PROVE  \E p \in Places(b)' : Places(b)' = {p}
    <3>1. CASE b < pos
      BY <1>8, <2>1, <3>1 DEF IInv, UnitsUsedOnce
    <3>2. CASE b >= pos
      <4>1. pos # input
        BY <1>4, <2>1, <3>2
      <4>2. pos % Unit = 0 /\ b \in Nat /\ b < pos + Unit
        BY <1>4, <2>1, <4>1, BoundsAssumption DEF Unit
      <4>3. b = pos
        BY <1>4, <2>1, <3>2, <4>2, UnitArithmetic
      <4> QED
        BY <1>8, <4>1, <4>3
    <3> QED
      BY <1>4, <3>1, <3>2, BoundsAssumption
  <2>2. ASSUME NEW b \in 0..MaxInput - 1, b >= pos' PROVE Places(b)' = {}
    BY <1>8, <2>2
  <2> QED
    BY <2>1, <2>2 DEF UnitsUsedOnce
<1> QED
  BY <1>4, <1>6, <1>7, <1>9, DrawAppends DEF IInv

LEMMA NextSafe == IInv /\ [Next]_vars => IInv'
<1> SUFFICES ASSUME IInv, [Next]_vars PROVE IInv'
  OBVIOUS
<1>1. CASE UNCHANGED vars
  <2>1. TypeOK' /\ NoValueLeft' /\ \A t \in Threads : Taken(t)' = Taken(t)
    BY <1>1 DEF vars, IInv, TypeOK, NoValueLeft, Taken
  <2> QED
    BY <1>1, <2>1, NothingTaken DEF vars
<1> QED
  BY <1>1, CallSafe, DrawSafe, ReturnSafe DEF Next, Over

\* Type correctness of the drawing, for any threads and any types with a size.
THEOREM NondetTypeCorrect == Spec => []TypeOK
<1>1. IInv => TypeOK
  BY DEF IInv
<1> QED
  BY <1>1, InitSafe, NextSafe, PTL DEF Spec

\* However many threads draw whatever values from whatever input, no unit that
\* has been read is lost or used twice, and none is used before it is read.
THEOREM UnitsAreUsedOnce == Spec => []UnitsUsedOnce
<1>1. IInv => UnitsUsedOnce
  BY DEF IInv
<1> QED
  BY <1>1, InitSafe, NextSafe, PTL DEF Spec

\* The bytes of a thread's values are in the order of the input, and those of
\* uninitialised memory come last.
THEOREM BytesAreInOrder == Spec => []InOrder
<1>1. IInv => InOrder
  BY DEF IInv
<1> QED
  BY <1>1, InitSafe, NextSafe, PTL DEF Spec
=============================================================================
