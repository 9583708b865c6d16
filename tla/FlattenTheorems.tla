-------------------------- MODULE FlattenTheorems --------------------------
(***************************************************************************)
(* What FlattenSeq returns, for sequences of any length.  The function it  *)
(* is defined with is followed from left to right, by the least index at   *)
(* which a claim about it could fail.  And what sequences put together are *)
(* made of.                                                                *)
(***************************************************************************)
EXTENDS Integers, Sequences, SequencesExt, SequenceTheorems, WellFoundedInduction, TLAPS

\* Induction up to n, from the smallest number that is no member of a set.
LEMMA UpTo ==
    ASSUME NEW n \in Nat, NEW S, 0 \in S, \A m \in 0..n - 1 : m \in S => m + 1 \in S
    PROVE  0..n \subseteq S
<1> DEFINE T == {m \in 0..n : m \notin S}
<1> SUFFICES ASSUME T # {} PROVE FALSE
  OBVIOUS
<1>1. PICK m \in T : \A k \in T : ~(<<k, m>> \in OpToRel(<, Nat))
  <2>1. T \subseteq Nat
    OBVIOUS
  <2> QED
    BY <2>1, NatLessThanWellFounded, WFMin
<1>2. m \in 0..n /\ m \notin S /\ m # 0
  BY <1>1
<1>3. m - 1 \in 0..n - 1 /\ (m - 1) + 1 = m
  BY <1>2
<1>4. m - 1 \in T
  BY <1>2, <1>3
<1>5. <<m - 1, m>> \in Nat \X Nat /\ <<m - 1, m>>[1] = m - 1 /\ <<m - 1, m>>[2] = m /\ m - 1 < m
  BY <1>2
<1> QED
  BY <1>1, <1>4, <1>5 DEF OpToRel

-----------------------------------------------------------------------------
(* FlattenSeq, by the equation of the function it is defined with.         *)

\* What is so defined: the beginnings of the sequence, flattened.
Flattens(f, seqs, n) ==
    f = [i \in 1..n |-> IF i = 1 THEN seqs[i] ELSE f[i - 1] \o seqs[i]]

\* The equation, at one index.
LEMMA FlattensStep ==
    ASSUME NEW f, NEW seqs, NEW n, Flattens(f, seqs, n), NEW i \in 1..n
    PROVE  f[i] = IF i = 1 THEN seqs[i] ELSE f[i - 1] \o seqs[i]
<1> DEFINE g == [j \in 1..n |-> IF j = 1 THEN seqs[j] ELSE f[j - 1] \o seqs[j]]
<1>1. f = g
  BY DEF Flattens
<1>2. g[i] = IF i = 1 THEN seqs[i] ELSE f[i - 1] \o seqs[i]
  OBVIOUS
<1> HIDE DEF g
<1> QED
  BY <1>1, <1>2

\* Such a function exists; it is built up from left to right.
LEMMA FlattensExists ==
    ASSUME NEW seqs, NEW n \in Nat
    PROVE  \E f : Flattens(f, seqs, n)
<1> DEFINE S == {m \in Nat : \E f : Flattens(f, seqs, m)}
<1>1. 0 \in S
  <2> DEFINE f == [i \in 1..0 |-> 0]
  <2>1. f = [i \in 1..0 |-> IF i = 1 THEN seqs[i] ELSE f[i - 1] \o seqs[i]]
    OBVIOUS
  <2> QED
    BY <2>1 DEF Flattens
<1>2. ASSUME NEW m \in 0..n - 1, m \in S PROVE m + 1 \in S
  <2>1. PICK f : Flattens(f, seqs, m)
    BY <1>2
  <2> DEFINE x == IF m = 0 THEN seqs[1] ELSE f[m] \o seqs[m + 1]
             g == [i \in 1..m + 1 |-> IF i = m + 1 THEN x ELSE f[i]]
  <2>2. ASSUME NEW i \in 1..m + 1
        PROVE  g[i] = IF i = 1 THEN seqs[i] ELSE g[i - 1] \o seqs[i]
    <3>1. CASE i = m + 1
      BY <3>1
    <3>2. CASE i \in 1..m
      <4>1. f[i] = IF i = 1 THEN seqs[i] ELSE f[i - 1] \o seqs[i]
        BY <2>1, <3>2 DEF Flattens
      <4>2. g[i] = f[i] /\ (i # 1 => g[i - 1] = f[i - 1])
        BY <3>2
      <4> QED
        BY <4>1, <4>2
    <3> QED
      BY <3>1, <3>2
  <2>3. Flattens(g, seqs, m + 1)
    BY <2>2 DEF Flattens
  <2> QED
    BY <2>3
<1>3. 0..n \subseteq S
  <2> HIDE DEF S
  <2> QED
    BY <1>1, <1>2, UpTo
<1> QED
  BY <1>3

\* Two of them agree on what their sequences have in common.
LEMMA FlattensAgree ==
    ASSUME NEW n \in Nat \ {0}, NEW m \in Nat, n <= m,
           NEW s, NEW t, \A i \in 1..n : s[i] = t[i],
           NEW f, Flattens(f, s, n), NEW g, Flattens(g, t, m)
    PROVE  f[n] = g[n]
<1> DEFINE S == {k \in 0..n : \A i \in 1..k : f[i] = g[i]}
<1>1. 0 \in S
  OBVIOUS
<1>2. ASSUME NEW k \in 0..n - 1, k \in S PROVE k + 1 \in S
  <2>1. /\ f[k + 1] = IF k + 1 = 1 THEN s[k + 1] ELSE f[(k + 1) - 1] \o s[k + 1]
        /\ g[k + 1] = IF k + 1 = 1 THEN t[k + 1] ELSE g[(k + 1) - 1] \o t[k + 1]
    <3>1. k + 1 \in 1..n /\ k + 1 \in 1..m
      OBVIOUS
    <3> QED
      BY <3>1, FlattensStep
  <2>2. k # 0 => f[(k + 1) - 1] = g[(k + 1) - 1]
    BY <1>2
  <2>3. s[k + 1] = t[k + 1]
    OBVIOUS
  <2>4. f[k + 1] = g[k + 1]
    BY <2>1, <2>2, <2>3
  <2> QED
    BY <1>2, <2>4
<1>3. 0..n \subseteq S
  <2> HIDE DEF S
  <2> QED
    BY <1>1, <1>2, UpTo
<1> QED
  BY <1>3

\* FlattenSeq is the last of the beginnings.
LEMMA FlattenLast ==
    ASSUME NEW S, NEW s \in Seq(S), s # <<>>
    PROVE  \E f : Flattens(f, s, Len(s)) /\ FlattenSeq(s) = f[Len(s)]
<1>1. Len(s) \in Nat /\ Len(s) # 0
  BY EmptySeq
<1> DEFINE flatten == CHOOSE f : f = [i \in 1..Len(s) |-> IF i = 1 THEN s[i] ELSE f[i - 1] \o s[i]]
<1>2. Flattens(flatten, s, Len(s))
  <2>1. \E f : f = [i \in 1..Len(s) |-> IF i = 1 THEN s[i] ELSE f[i - 1] \o s[i]]
    BY <1>1, FlattensExists DEF Flattens
  <2> QED
    BY <2>1 DEF Flattens
<1>3. FlattenSeq(s) = flatten[Len(s)]
  BY <1>1 DEF FlattenSeq
<1> QED
  BY <1>2, <1>3

\* Nothing flattens to nothing.
LEMMA FlattenEmpty == FlattenSeq(<<>>) = <<>>
  BY EmptySeq DEF FlattenSeq

\* What is appended comes last, however long the sequence.
LEMMA FlattenAppend ==
    ASSUME NEW S, NEW s \in Seq(Seq(S)), NEW x \in Seq(S)
    PROVE  FlattenSeq(Append(s, x)) = FlattenSeq(s) \o x
<1> DEFINE n == Len(s)
           t == Append(s, x)
<1>1. n \in Nat /\ Len(t) = n + 1 /\ t \in Seq(Seq(S)) /\ t # <<>>
      /\ t[n + 1] = x /\ \A i \in 1..n : t[i] = s[i]
  BY AppendProperties
<1> HIDE DEF t
<1>2. PICK g : Flattens(g, t, n + 1) /\ FlattenSeq(t) = g[n + 1]
  BY <1>1, FlattenLast
<1>3. FlattenSeq(t) = IF n = 0 THEN x ELSE g[n] \o x
  <2>1. g[n + 1] = IF n + 1 = 1 THEN t[n + 1] ELSE g[(n + 1) - 1] \o t[n + 1]
    <3>1. n + 1 \in 1..n + 1
      BY <1>1
    <3> QED
      BY <1>2, <3>1, FlattensStep
  <2> QED
    BY <1>1, <1>2, <2>1
<1>4. CASE n = 0
  <2>1. s = <<>>
    BY <1>4, EmptySeq
  <2> QED
    BY <1>3, <1>4, <2>1, FlattenEmpty DEF t
<1>5. CASE n # 0
  <2>1. s # <<>>
    BY <1>5, EmptySeq
  <2>2. PICK f : Flattens(f, s, n) /\ FlattenSeq(s) = f[n]
    BY <2>1, FlattenLast
  <2>3. f[n] = g[n]
    <3>1. n \in Nat \ {0} /\ n + 1 \in Nat /\ n <= n + 1 /\ \A i \in 1..n : s[i] = t[i]
      BY <1>1, <1>5
    <3>2. Flattens(f, s, n) /\ Flattens(g, t, n + 1)
      BY <1>2, <2>2
    <3> HIDE DEF n
    <3> QED
      BY ONLY <3>1, <3>2, FlattensAgree
  <2> QED
    BY <1>3, <1>5, <2>2, <2>3 DEF t
<1> QED
  BY <1>4, <1>5

\* Sequences over S flatten to a sequence over S.
LEMMA FlattenType ==
    ASSUME NEW S, NEW s \in Seq(Seq(S))
    PROVE  FlattenSeq(s) \in Seq(S)
<1>1. CASE s = <<>>
  BY <1>1, FlattenEmpty, EmptySeq
<1>2. CASE s # <<>>
  <2>1. PICK f : Flattens(f, s, Len(s)) /\ FlattenSeq(s) = f[Len(s)]
    BY <1>2, FlattenLast
  <2>2. Len(s) \in Nat /\ Len(s) # 0 /\ \A i \in 1..Len(s) : s[i] \in Seq(S)
    BY <1>2, EmptySeq, ElementOfSeq
  <2> DEFINE T == {k \in Nat : k \in 1..Len(s) => f[k] \in Seq(S)}
  <2>3. 0 \in T
    OBVIOUS
  <2>4. ASSUME NEW k \in 0..Len(s) - 1, k \in T PROVE k + 1 \in T
    <3>1. f[k + 1] = IF k + 1 = 1 THEN s[k + 1] ELSE f[(k + 1) - 1] \o s[k + 1]
      <4>1. k + 1 \in 1..Len(s)
        BY <2>2
      <4> QED
        BY <2>1, <4>1, FlattensStep
    <3>2. s[k + 1] \in Seq(S)
      BY <2>2
    <3>3. k # 0 => f[k] \o s[k + 1] \in Seq(S)
      BY <2>4, <3>2, ConcatProperties
    <3>4. k \in Nat /\ k + 1 \in Nat /\ (k + 1) - 1 = k /\ (k = 0 <=> k + 1 = 1)
      OBVIOUS
    <3> QED
      BY <3>1, <3>2, <3>3, <3>4
  <2>5. 0..Len(s) \subseteq T
    <3> HIDE DEF T
    <3> QED
      BY <2>2, <2>3, <2>4, UpTo
  <2> QED
    BY <2>1, <2>2, <2>5
<1> QED
  BY <1>1, <1>2

-----------------------------------------------------------------------------
(* Sequences put together of several, or of blocks of one length.          *)

\* The steps before block i.
StepsBefore(i, b) == (i - 1) * b

\* Blocks of the same length, one after the other.
Blocked(S, b, f) == f \in Seq(Seq(S)) /\ b \in Nat /\ \A i \in 1..Len(f) : Len(f[i]) = b

\* Step k of block i is where it belongs.
LEMMA Blocks ==
    ASSUME NEW S, NEW b, NEW f, Blocked(S, b, f)
    PROVE  /\ FlattenSeq(f) \in Seq(S) /\ Len(FlattenSeq(f)) = Len(f) * b
           /\ \A i \in 1..Len(f) : \A k \in 1..b : FlattenSeq(f)[StepsBefore(i, b) + k] = f[i][k]
<1> b \in Nat
  BY DEF Blocked
<1> DEFINE n == Len(f)
<1>1. b \in Nat /\ n \in Nat /\ f \in [1..n -> Seq(S)] /\ \A i \in 1..n : Len(f[i]) = b
  BY DEF Blocked
<1> HIDE DEF n
<1> DEFINE g(m) == [i \in 1..m |-> f[i]]
           s(m) == FlattenSeq(g(m))
           M == {m \in 0..n : /\ s(m) \in Seq(S) /\ Len(s(m)) = m * b
                              /\ \A i \in 1..m : \A k \in 1..b : s(m)[(i - 1) * b + k] = f[i][k]}
<1>2. 0 \in M
  <2>1. g(0) = <<>>
    OBVIOUS
  <2>2. s(0) = <<>>
    BY <2>1, FlattenEmpty
  <2>3. 0 * b = 0
    OBVIOUS
  <2>4. <<>> \in Seq(S) /\ Len(<<>>) = 0
    BY EmptySeq
  <2> DEFINE z == s(0)
  <2>5. z \in Seq(S) /\ Len(z) = 0 * b
    BY <2>2, <2>3, <2>4
  <2>6. \A i \in 1..0 : \A k \in 1..b : z[(i - 1) * b + k] = f[i][k]
    OBVIOUS
  <2> HIDE DEF s
  <2> QED
    BY <1>1, <2>5, <2>6 DEF z
<1>3. ASSUME NEW m \in 0..n - 1, m \in M PROVE m + 1 \in M
  <2>1. g(m) \in Seq(Seq(S)) /\ f[m + 1] \in Seq(S) /\ Len(f[m + 1]) = b
    BY <1>1
  <2>2. g(m + 1) = Append(g(m), f[m + 1])
    <3> DEFINE u == g(m)
               v == g(m + 1)
               w == Append(u, f[m + 1])
    <3>1. /\ Len(u) = m /\ u \in Seq(Seq(S)) /\ \A i \in 1..m : u[i] = f[i]
          /\ Len(v) = m + 1 /\ v \in Seq(Seq(S)) /\ \A i \in 1..m + 1 : v[i] = f[i]
      BY <1>1
    <3> HIDE DEF u, v
    <3>2. /\ w \in Seq(Seq(S)) /\ Len(w) = m + 1 /\ w[m + 1] = f[m + 1]
          /\ \A i \in 1..m : w[i] = u[i]
      BY <2>1, <3>1, AppendProperties
    <3>3. \A i \in 1..m + 1 : v[i] = w[i]
      BY <1>1, <3>1, <3>2
    <3> HIDE DEF w
    <3>4. v = w
      BY <3>1, <3>2, <3>3, SeqEqual
    <3> QED
      BY <3>4 DEF u, v, w
  <2>3. s(m + 1) = s(m) \o f[m + 1]
    BY <2>1, <2>2, FlattenAppend
  <2>4. /\ s(m) \in Seq(S) /\ Len(s(m)) = m * b
        /\ \A i \in 1..m : \A k \in 1..b : s(m)[(i - 1) * b + k] = f[i][k]
    BY <1>3
  <2> DEFINE l == m * b
  <2>5. l \in Nat /\ (m + 1) * b = l + b /\ \A i \in 1..m : (i - 1) * b \in Nat
          /\ (i - 1) * b + b <= l
    <3>1. m \in Nat /\ m * b \in Nat /\ (m + 1) * b = m * b + b
      BY <1>1
    <3>2. ASSUME NEW i \in 1..m PROVE (i - 1) * b \in Nat /\ (i - 1) * b + b <= m * b
      <4>1. i - 1 \in Nat /\ m - i \in Nat
        OBVIOUS
      <4>2. m * b = (i - 1) * b + b + (m - i) * b
        BY <4>1
      <4>3. (i - 1) * b \in Nat /\ (m - i) * b \in Nat
        BY <4>1
      <4> QED
        BY <4>2, <4>3
    <3> QED
      BY <3>1, <3>2
  <2> DEFINE u == s(m)
             v == f[m + 1]
  <2>6. /\ u \o v \in Seq(S) /\ Len(u \o v) = l + b
        /\ \A j \in 1..l + b : (u \o v)[j] = IF j <= l THEN u[j] ELSE v[j - l]
    <3>1. u \in Seq(S) /\ v \in Seq(S) /\ Len(u) = l /\ Len(v) = b
      BY <2>1, <2>4
    <3> HIDE DEF u, v, l
    <3> QED
      BY <3>1, ConcatProperties
  <2>7. s(m + 1) = u \o v
    BY <2>3
  <2>8. ASSUME NEW i \in 1..m + 1, NEW k \in 1..b PROVE s(m + 1)[(i - 1) * b + k] = f[i][k]
    <3>1. CASE i <= m
      <4> DEFINE j == (i - 1) * b
      <4>1. i \in 1..m /\ j \in Nat /\ j + b <= l
        BY <2>5, <3>1
      <4>2. u[j + k] = f[i][k]
        BY <2>4, <4>1
      <4> HIDE DEF j, l, s, u, v
      <4>3. j + k \in 1..l + b /\ j + k <= l
        BY <2>5, <4>1
      <4>4. s(m + 1)[j + k] = u[j + k]
        BY <2>6, <2>7, <4>3
      <4> QED
        BY <4>2, <4>4 DEF j
    <3>2. CASE i = m + 1
      <4>1. (i - 1) * b = l
        BY <3>2
      <4> HIDE DEF l, s, u, v
      <4>2. l + k \in 1..l + b /\ ~(l + k <= l) /\ (l + k) - l = k
        BY <2>5
      <4>3. s(m + 1)[l + k] = v[k]
        BY <2>6, <2>7, <4>2
      <4> QED
        BY <3>2, <4>1, <4>3 DEF v
    <3> QED
      BY <3>1, <3>2
  <2>9. s(m + 1) \in Seq(S) /\ Len(s(m + 1)) = (m + 1) * b
    BY <2>5, <2>6, <2>7
  <2>10. m + 1 \in 0..n
    BY <1>1
  <2> HIDE DEF s, l, u, v
  <2> QED
    BY <2>8, <2>9, <2>10
<1>4. n \in M
  <2> HIDE DEF M
  <2>1. 0..n \subseteq M
    BY <1>1, <1>2, <1>3, UpTo
  <2> QED
    BY <1>1, <2>1
<1>5. g(n) = f
  BY <1>1
<1> QED
  BY <1>4, <1>5 DEF n, StepsBefore

\* One sequence behind the other.
LEMMA InTwoParts ==
    ASSUME NEW S, NEW u \in Seq(S), NEW v \in Seq(S), NEW m, NEW n, Len(u) = m, Len(v) = n
    PROVE  /\ u \o v \in Seq(S) /\ Len(u \o v) = m + n
           /\ \A i \in 1..m : (u \o v)[i] = u[i]
           /\ \A i \in m + 1..m + n : (u \o v)[i] = v[i - m]
           /\ \A i \in 1..n : (u \o v)[m + i] = v[i]
<1> DEFINE w == u \o v
<1>1. /\ w \in Seq(S) /\ Len(w) = m + n /\ m \in Nat /\ n \in Nat
      /\ \A i \in 1..m + n : w[i] = IF i <= m THEN u[i] ELSE v[i - m]
  BY ConcatProperties, LenProperties
<1> HIDE DEF w
<1>2. /\ \A i \in 1..m : w[i] = u[i]
      /\ \A i \in m + 1..m + n : w[i] = v[i - m]
  BY <1>1
<1>3. ASSUME NEW i \in 1..n PROVE w[m + i] = v[i]
  <2>1. m + i \in m + 1..m + n /\ (m + i) - m = i
    BY <1>1
  <2> QED
    BY <1>2, <2>1
<1> QED
  BY <1>1, <1>2, <1>3 DEF w

\* Blocks of two.
LEMMA BlocksOfTwo ==
    ASSUME NEW S, NEW f, Blocked(S, 2, f)
    PROVE  /\ FlattenSeq(f) \in Seq(S) /\ Len(FlattenSeq(f)) = 2 * Len(f)
           /\ \A i \in 1..Len(f) : FlattenSeq(f)[2 * i - 1] = f[i][1]
                /\ FlattenSeq(f)[2 * i] = f[i][2]
<1> DEFINE l == 2
<1>1. l = 2 /\ l \in Nat /\ Len(f) \in Nat
  BY DEF Blocked
<1> HIDE DEF l
<1>2. Blocked(S, l, f)
  BY DEF l
<1>3. FlattenSeq(f) \in Seq(S) /\ Len(FlattenSeq(f)) = Len(f) * l
  BY <1>2, Blocks
<1>4. ASSUME NEW i \in 1..Len(f), NEW k \in 1..l
      PROVE  FlattenSeq(f)[StepsBefore(i, l) + k] = f[i][k]
  BY <1>2, Blocks
<1>5. ASSUME NEW i \in 1..Len(f), NEW k \in 1..2 PROVE FlattenSeq(f)[2 * i - 2 + k] = f[i][k]
  <2>1. StepsBefore(i, l) + k = 2 * i - 2 + k
    BY <1>1 DEF StepsBefore
  <2> QED
    BY <1>1, <1>4, <2>1
<1>6. Len(FlattenSeq(f)) = 2 * Len(f)
  BY <1>1, <1>3
<1>7. ASSUME NEW i \in 1..Len(f)
      PROVE  /\ FlattenSeq(f)[2 * i - 1] = f[i][1]
             /\ FlattenSeq(f)[2 * i] = f[i][2]
  <2>1. 1 \in 1..2 /\ 2 * i - 2 + 1 = 2 * i - 1
    BY <1>1
  <2>2. 2 \in 1..2 /\ 2 * i - 2 + 2 = 2 * i
    BY <1>1
  <2> QED
    BY <1>5, <2>1, <2>2
<1> QED
  BY <1>3, <1>6, <1>7

\* Blocks of four.
LEMMA BlocksOfFour ==
    ASSUME NEW S, NEW f, Blocked(S, 4, f)
    PROVE  /\ FlattenSeq(f) \in Seq(S) /\ Len(FlattenSeq(f)) = 4 * Len(f)
           /\ \A i \in 1..Len(f) :
                /\ FlattenSeq(f)[4 * i - 3] = f[i][1]
                /\ FlattenSeq(f)[4 * i - 2] = f[i][2]
                /\ FlattenSeq(f)[4 * i - 1] = f[i][3]
                /\ FlattenSeq(f)[4 * i] = f[i][4]
<1> DEFINE l == 4
<1>1. l = 4 /\ l \in Nat /\ Len(f) \in Nat
  BY DEF Blocked
<1> HIDE DEF l
<1>2. Blocked(S, l, f)
  BY DEF l
<1>3. FlattenSeq(f) \in Seq(S) /\ Len(FlattenSeq(f)) = Len(f) * l
  BY <1>2, Blocks
<1>4. ASSUME NEW i \in 1..Len(f), NEW k \in 1..l
      PROVE  FlattenSeq(f)[StepsBefore(i, l) + k] = f[i][k]
  BY <1>2, Blocks
<1>5. ASSUME NEW i \in 1..Len(f), NEW k \in 1..4 PROVE FlattenSeq(f)[4 * i - 4 + k] = f[i][k]
  <2>1. StepsBefore(i, l) + k = 4 * i - 4 + k
    BY <1>1 DEF StepsBefore
  <2> QED
    BY <1>1, <1>4, <2>1
<1>6. Len(FlattenSeq(f)) = 4 * Len(f)
  BY <1>1, <1>3
<1>7. ASSUME NEW i \in 1..Len(f)
      PROVE  /\ FlattenSeq(f)[4 * i - 3] = f[i][1]
             /\ FlattenSeq(f)[4 * i - 2] = f[i][2]
             /\ FlattenSeq(f)[4 * i - 1] = f[i][3]
             /\ FlattenSeq(f)[4 * i] = f[i][4]
  <2>1. 1 \in 1..4 /\ 4 * i - 4 + 1 = 4 * i - 3
    BY <1>1
  <2>2. 2 \in 1..4 /\ 4 * i - 4 + 2 = 4 * i - 2
    BY <1>1
  <2>3. 3 \in 1..4 /\ 4 * i - 4 + 3 = 4 * i - 1
    BY <1>1
  <2>4. 4 \in 1..4 /\ 4 * i - 4 + 4 = 4 * i
    BY <1>1
  <2> QED
    BY <1>5, <2>1, <2>2, <2>3, <2>4
<1> QED
  BY <1>3, <1>6, <1>7

\* Blocks of five.
LEMMA BlocksOfFive ==
    ASSUME NEW S, NEW f, Blocked(S, 5, f)
    PROVE  /\ FlattenSeq(f) \in Seq(S) /\ Len(FlattenSeq(f)) = 5 * Len(f)
           /\ \A i \in 1..Len(f) :
                /\ FlattenSeq(f)[5 * i - 4] = f[i][1]
                /\ FlattenSeq(f)[5 * i - 3] = f[i][2]
                /\ FlattenSeq(f)[5 * i - 2] = f[i][3]
                /\ FlattenSeq(f)[5 * i - 1] = f[i][4]
                /\ FlattenSeq(f)[5 * i] = f[i][5]
<1> DEFINE l == 5
<1>1. l = 5 /\ l \in Nat /\ Len(f) \in Nat
  BY DEF Blocked
<1> HIDE DEF l
<1>2. Blocked(S, l, f)
  BY DEF l
<1>3. FlattenSeq(f) \in Seq(S) /\ Len(FlattenSeq(f)) = Len(f) * l
  BY <1>2, Blocks
<1>4. ASSUME NEW i \in 1..Len(f), NEW k \in 1..l
      PROVE  FlattenSeq(f)[StepsBefore(i, l) + k] = f[i][k]
  BY <1>2, Blocks
<1>5. ASSUME NEW i \in 1..Len(f), NEW k \in 1..5 PROVE FlattenSeq(f)[5 * i - 5 + k] = f[i][k]
  <2>1. StepsBefore(i, l) + k = 5 * i - 5 + k
    BY <1>1 DEF StepsBefore
  <2> QED
    BY <1>1, <1>4, <2>1
<1>6. Len(FlattenSeq(f)) = 5 * Len(f)
  BY <1>1, <1>3
<1>7. ASSUME NEW i \in 1..Len(f)
      PROVE  /\ FlattenSeq(f)[5 * i - 4] = f[i][1]
             /\ FlattenSeq(f)[5 * i - 3] = f[i][2]
             /\ FlattenSeq(f)[5 * i - 2] = f[i][3]
             /\ FlattenSeq(f)[5 * i - 1] = f[i][4]
             /\ FlattenSeq(f)[5 * i] = f[i][5]
  <2>1. 1 \in 1..5 /\ 5 * i - 5 + 1 = 5 * i - 4
    BY <1>1
  <2>2. 2 \in 1..5 /\ 5 * i - 5 + 2 = 5 * i - 3
    BY <1>1
  <2>3. 3 \in 1..5 /\ 5 * i - 5 + 3 = 5 * i - 2
    BY <1>1
  <2>4. 4 \in 1..5 /\ 5 * i - 5 + 4 = 5 * i - 1
    BY <1>1
  <2>5. 5 \in 1..5 /\ 5 * i - 5 + 5 = 5 * i
    BY <1>1
  <2> QED
    BY <1>5, <2>1, <2>2, <2>3, <2>4, <2>5
<1> QED
  BY <1>3, <1>6, <1>7

\* r is made of p, of length m, and q behind it, of length n.
Parts(S, p, q, r, m, n) ==
    /\ p \in Seq(S) /\ q \in Seq(S) /\ r \in Seq(S)
    /\ Len(p) = m /\ Len(q) = n /\ Len(r) = m + n
    /\ \A z \in 1..m : r[z] = p[z]
    /\ \A z \in m + 1..m + n : r[z] = q[z - m]

\* Two sequences so described are r.
LEMMA Glued ==
    ASSUME NEW S, NEW p, NEW q, NEW r, NEW m, NEW n, Parts(S, p, q, r, m, n)
    PROVE  p \o q = r
<1> DEFINE w == p \o q
<1>1. /\ w \in Seq(S) /\ Len(w) = m + n /\ m \in Nat /\ n \in Nat
      /\ \A z \in 1..m : w[z] = p[z]
      /\ \A z \in m + 1..m + n : w[z] = q[z - m]
  BY InTwoParts, LenProperties DEF Parts
<1> HIDE DEF w
<1>2. \A z \in 1..m + n : w[z] = r[z]
  BY <1>1 DEF Parts
<1>3. r \in Seq(S) /\ Len(r) = m + n
  BY DEF Parts
<1>4. w \in Seq(S) /\ Len(w) = Len(r) /\ \A z \in 1..Len(w) : w[z] = r[z]
  BY <1>1, <1>2, <1>3
<1>5. w = r
  BY ONLY <1>3, <1>4, SeqEqual
<1> QED
  BY <1>5 DEF w

\* One element and two.
LEMMA OneAndTwo ==
    ASSUME NEW a, NEW b, NEW c
    PROVE  <<a>> \o <<b, c>> = <<a, b, c>>
<1> DEFINE S == {a, b, c}
           p == <<a>>
           q == <<b, c>>
           r == <<a, b, c>>
           m == 1
           n == 2
<1>1. /\ p \in Seq(S) /\ Len(p) = 1 /\ p[1] = a
      /\ q \in Seq(S) /\ Len(q) = 2 /\ q[1] = b /\ q[2] = c
      /\ r \in Seq(S) /\ Len(r) = 3 /\ r[1] = a /\ r[2] = b /\ r[3] = c
  OBVIOUS
<1> HIDE DEF S, p, q, r
<1>2. /\ p \in Seq(S) /\ q \in Seq(S) /\ r \in Seq(S)
      /\ Len(p) = m /\ Len(q) = n /\ Len(r) = m + n
  BY <1>1
<1>3. \A z \in 1..m : r[z] = p[z]
  BY <1>1
<1>4. \A z \in m + 1..m + n : r[z] = q[z - m]
  BY <1>1
<1> HIDE DEF m, n
<1>5. Parts(S, p, q, r, m, n)
  BY <1>2, <1>3, <1>4 DEF Parts
<1>6. p \o q = r
  BY <1>5, Glued
<1> QED
  BY <1>6 DEF p, q, r

\* One and three.
LEMMA OneAndThree ==
    ASSUME NEW a, NEW b, NEW c, NEW d
    PROVE  <<a>> \o <<b, c, d>> = <<a, b, c, d>>
<1> DEFINE S == {a, b, c, d}
           p == <<a>>
           q == <<b, c, d>>
           r == <<a, b, c, d>>
           m == 1
           n == 3
<1>1. /\ p \in Seq(S) /\ Len(p) = 1 /\ p[1] = a
      /\ q \in Seq(S) /\ Len(q) = 3 /\ q[1] = b /\ q[2] = c /\ q[3] = d
      /\ r \in Seq(S) /\ Len(r) = 4 /\ r[1] = a /\ r[2] = b /\ r[3] = c /\ r[4] = d
  OBVIOUS
<1> HIDE DEF S, p, q, r
<1>2. /\ p \in Seq(S) /\ q \in Seq(S) /\ r \in Seq(S)
      /\ Len(p) = m /\ Len(q) = n /\ Len(r) = m + n
  BY <1>1
<1>3. \A z \in 1..m : r[z] = p[z]
  BY <1>1
<1>4. \A z \in m + 1..m + n : r[z] = q[z - m]
  BY <1>1
<1> HIDE DEF m, n
<1>5. Parts(S, p, q, r, m, n)
  BY <1>2, <1>3, <1>4 DEF Parts
<1>6. p \o q = r
  BY <1>5, Glued
<1> QED
  BY <1>6 DEF p, q, r

\* Three and one.
LEMMA ThreeAndOne ==
    ASSUME NEW a, NEW b, NEW c, NEW d
    PROVE  <<a, b, c>> \o <<d>> = <<a, b, c, d>>
<1> DEFINE S == {a, b, c, d}
           p == <<a, b, c>>
           q == <<d>>
           r == <<a, b, c, d>>
           m == 3
           n == 1
<1>1. /\ p \in Seq(S) /\ Len(p) = 3 /\ p[1] = a /\ p[2] = b /\ p[3] = c
      /\ q \in Seq(S) /\ Len(q) = 1 /\ q[1] = d
      /\ r \in Seq(S) /\ Len(r) = 4 /\ r[1] = a /\ r[2] = b /\ r[3] = c /\ r[4] = d
  OBVIOUS
<1> HIDE DEF S, p, q, r
<1>2. /\ p \in Seq(S) /\ q \in Seq(S) /\ r \in Seq(S)
      /\ Len(p) = m /\ Len(q) = n /\ Len(r) = m + n
  BY <1>1
<1>3. \A z \in 1..m : r[z] = p[z]
  BY <1>1
<1>4. \A z \in m + 1..m + n : r[z] = q[z - m]
  BY <1>1
<1> HIDE DEF m, n
<1>5. Parts(S, p, q, r, m, n)
  BY <1>2, <1>3, <1>4 DEF Parts
<1>6. p \o q = r
  BY <1>5, Glued
<1> QED
  BY <1>6 DEF p, q, r

\* Three and two.
LEMMA ThreeAndTwo ==
    ASSUME NEW a, NEW b, NEW c, NEW d, NEW e
    PROVE  <<a, b, c>> \o <<d, e>> = <<a, b, c, d, e>>
<1> DEFINE S == {a, b, c, d, e}
           p == <<a, b, c>>
           q == <<d, e>>
           r == <<a, b, c, d, e>>
           m == 3
           n == 2
<1>1. /\ p \in Seq(S) /\ Len(p) = 3 /\ p[1] = a /\ p[2] = b /\ p[3] = c
      /\ q \in Seq(S) /\ Len(q) = 2 /\ q[1] = d /\ q[2] = e
      /\ r \in Seq(S) /\ Len(r) = 5 /\ r[1] = a /\ r[2] = b /\ r[3] = c /\ r[4] = d /\ r[5] = e
  OBVIOUS
<1> HIDE DEF S, p, q, r
<1>2. /\ p \in Seq(S) /\ q \in Seq(S) /\ r \in Seq(S)
      /\ Len(p) = m /\ Len(q) = n /\ Len(r) = m + n
  BY <1>1
<1>3. \A z \in 1..m : r[z] = p[z]
  BY <1>1
<1>4. \A z \in m + 1..m + n : r[z] = q[z - m]
  BY <1>1
<1> HIDE DEF m, n
<1>5. Parts(S, p, q, r, m, n)
  BY <1>2, <1>3, <1>4 DEF Parts
<1>6. p \o q = r
  BY <1>5, Glued
<1> QED
  BY <1>6 DEF p, q, r

\* Three and three.
LEMMA ThreeAndThree ==
    ASSUME NEW a, NEW b, NEW c, NEW d, NEW e, NEW f
    PROVE  <<a, b, c>> \o <<d, e, f>> = <<a, b, c, d, e, f>>
<1> DEFINE S == {a, b, c, d, e, f}
           p == <<a, b, c>>
           q == <<d, e, f>>
           r == <<a, b, c, d, e, f>>
           m == 3
           n == 3
<1>1. /\ p \in Seq(S) /\ Len(p) = 3 /\ p[1] = a /\ p[2] = b /\ p[3] = c
      /\ q \in Seq(S) /\ Len(q) = 3 /\ q[1] = d /\ q[2] = e /\ q[3] = f
      /\ r \in Seq(S) /\ Len(r) = 6 /\ r[1] = a /\ r[2] = b /\ r[3] = c /\ r[4] = d /\ r[5] = e
           /\ r[6] = f
  OBVIOUS
<1> HIDE DEF S, p, q, r
<1>2. /\ p \in Seq(S) /\ q \in Seq(S) /\ r \in Seq(S)
      /\ Len(p) = m /\ Len(q) = n /\ Len(r) = m + n
  BY <1>1
<1>3. \A z \in 1..m : r[z] = p[z]
  BY <1>1
<1>4. \A z \in m + 1..m + n : r[z] = q[z - m]
  BY <1>1
<1> HIDE DEF m, n
<1>5. Parts(S, p, q, r, m, n)
  BY <1>2, <1>3, <1>4 DEF Parts
<1>6. p \o q = r
  BY <1>5, Glued
<1> QED
  BY <1>6 DEF p, q, r

\* Three and four.
LEMMA ThreeAndFour ==
    ASSUME NEW a, NEW b, NEW c, NEW d, NEW e, NEW f, NEW g
    PROVE  <<a, b, c>> \o <<d, e, f, g>> = <<a, b, c, d, e, f, g>>
<1> DEFINE S == {a, b, c, d, e, f, g}
           p == <<a, b, c>>
           q == <<d, e, f, g>>
           r == <<a, b, c, d, e, f, g>>
           m == 3
           n == 4
<1>1. /\ p \in Seq(S) /\ Len(p) = 3 /\ p[1] = a /\ p[2] = b /\ p[3] = c
      /\ q \in Seq(S) /\ Len(q) = 4 /\ q[1] = d /\ q[2] = e /\ q[3] = f /\ q[4] = g
      /\ r \in Seq(S) /\ Len(r) = 7 /\ r[1] = a /\ r[2] = b /\ r[3] = c /\ r[4] = d /\ r[5] = e
           /\ r[6] = f /\ r[7] = g
  OBVIOUS
<1> HIDE DEF S, p, q, r
<1>2. /\ p \in Seq(S) /\ q \in Seq(S) /\ r \in Seq(S)
      /\ Len(p) = m /\ Len(q) = n /\ Len(r) = m + n
  BY <1>1
<1>3. \A z \in 1..m : r[z] = p[z]
  BY <1>1
<1>4. \A z \in m + 1..m + n : r[z] = q[z - m]
  BY <1>1
<1> HIDE DEF m, n
<1>5. Parts(S, p, q, r, m, n)
  BY <1>2, <1>3, <1>4 DEF Parts
<1>6. p \o q = r
  BY <1>5, Glued
<1> QED
  BY <1>6 DEF p, q, r

\* Six and three.
LEMMA SixAndThree ==
    ASSUME NEW a, NEW b, NEW c, NEW d, NEW e, NEW f, NEW g, NEW h, NEW i
    PROVE  <<a, b, c, d, e, f>> \o <<g, h, i>> = <<a, b, c, d, e, f, g, h, i>>
<1> DEFINE S == {a, b, c, d, e, f, g, h, i}
           p == <<a, b, c, d, e, f>>
           q == <<g, h, i>>
           r == <<a, b, c, d, e, f, g, h, i>>
           m == 6
           n == 3
<1>1. /\ p \in Seq(S) /\ Len(p) = 6 /\ p[1] = a /\ p[2] = b /\ p[3] = c /\ p[4] = d /\ p[5] = e
           /\ p[6] = f
      /\ q \in Seq(S) /\ Len(q) = 3 /\ q[1] = g /\ q[2] = h /\ q[3] = i
      /\ r \in Seq(S) /\ Len(r) = 9 /\ r[1] = a /\ r[2] = b /\ r[3] = c /\ r[4] = d /\ r[5] = e
           /\ r[6] = f /\ r[7] = g /\ r[8] = h /\ r[9] = i
  OBVIOUS
<1> HIDE DEF S, p, q, r
<1>2. /\ p \in Seq(S) /\ q \in Seq(S) /\ r \in Seq(S)
      /\ Len(p) = m /\ Len(q) = n /\ Len(r) = m + n
  BY <1>1
<1>3. \A z \in 1..m : r[z] = p[z]
  BY <1>1
<1>4. \A z \in m + 1..m + n : r[z] = q[z - m]
  BY <1>1
<1> HIDE DEF m, n
<1>5. Parts(S, p, q, r, m, n)
  BY <1>2, <1>3, <1>4 DEF Parts
<1>6. p \o q = r
  BY <1>5, Glued
<1> QED
  BY <1>6 DEF p, q, r

\* Four and nine.
LEMMA FourAndNine ==
    ASSUME NEW x1, NEW x2, NEW x3, NEW x4, NEW x5, NEW x6, NEW x7, NEW x8, NEW x9, NEW x10,
           NEW x11, NEW x12, NEW x13
    PROVE  <<x1, x2, x3, x4>> \o <<x5, x6, x7, x8, x9, x10, x11, x12, x13>> = <<x1, x2, x3, x4,
                                                                                x5, x6, x7, x8, x9, x10, x11, x12, x13>>
<1> DEFINE S == {x1, x2, x3, x4, x5, x6, x7, x8, x9, x10, x11, x12, x13}
           p == <<x1, x2, x3, x4>>
           q == <<x5, x6, x7, x8, x9, x10, x11, x12, x13>>
           r == <<x1, x2, x3, x4, x5, x6, x7, x8, x9, x10, x11, x12, x13>>
           m == 4
           n == 9
<1>1. /\ p \in Seq(S) /\ Len(p) = 4 /\ p[1] = x1 /\ p[2] = x2 /\ p[3] = x3 /\ p[4] = x4
      /\ q \in Seq(S) /\ Len(q) = 9 /\ q[1] = x5 /\ q[2] = x6 /\ q[3] = x7 /\ q[4] = x8
           /\ q[5] = x9 /\ q[6] = x10 /\ q[7] = x11 /\ q[8] = x12 /\ q[9] = x13
      /\ r \in Seq(S) /\ Len(r) = 13 /\ r[1] = x1 /\ r[2] = x2 /\ r[3] = x3 /\ r[4] = x4
           /\ r[5] = x5 /\ r[6] = x6 /\ r[7] = x7 /\ r[8] = x8 /\ r[9] = x9 /\ r[10] = x10
                /\ r[11] = x11 /\ r[12] = x12 /\ r[13] = x13
  OBVIOUS
<1> HIDE DEF S, p, q, r
<1>2. /\ p \in Seq(S) /\ q \in Seq(S) /\ r \in Seq(S)
      /\ Len(p) = m /\ Len(q) = n /\ Len(r) = m + n
  BY <1>1
<1>3. \A z \in 1..m : r[z] = p[z]
  BY <1>1
<1>4. \A z \in m + 1..m + n : r[z] = q[z - m]
  BY <1>1
<1> HIDE DEF m, n
<1>5. Parts(S, p, q, r, m, n)
  BY <1>2, <1>3, <1>4 DEF Parts
<1>6. p \o q = r
  BY <1>5, Glued
<1> QED
  BY <1>6 DEF p, q, r

\* Thirteen and four.
LEMMA ThirteenAndFour ==
    ASSUME NEW x1, NEW x2, NEW x3, NEW x4, NEW x5, NEW x6, NEW x7, NEW x8, NEW x9, NEW x10,
           NEW x11, NEW x12, NEW x13, NEW x14, NEW x15, NEW x16, NEW x17
    PROVE  <<x1, x2, x3, x4, x5, x6, x7, x8, x9, x10, x11, x12, x13>>
             \o <<x14, x15, x16, x17>> = <<x1, x2, x3, x4, x5, x6, x7, x8, x9, x10, x11, x12,
                                           x13, x14, x15, x16, x17>>
<1> DEFINE S == {x1, x2, x3, x4, x5, x6, x7, x8, x9, x10, x11, x12, x13, x14, x15, x16, x17}
           p == <<x1, x2, x3, x4, x5, x6, x7, x8, x9, x10, x11, x12, x13>>
           q == <<x14, x15, x16, x17>>
           r == <<x1, x2, x3, x4, x5, x6, x7, x8, x9, x10, x11, x12, x13, x14, x15, x16, x17>>
           m == 13
           n == 4
<1>1. /\ p \in Seq(S) /\ Len(p) = 13 /\ p[1] = x1 /\ p[2] = x2 /\ p[3] = x3 /\ p[4] = x4
           /\ p[5] = x5 /\ p[6] = x6 /\ p[7] = x7 /\ p[8] = x8 /\ p[9] = x9 /\ p[10] = x10
                /\ p[11] = x11 /\ p[12] = x12 /\ p[13] = x13
      /\ q \in Seq(S) /\ Len(q) = 4 /\ q[1] = x14 /\ q[2] = x15 /\ q[3] = x16 /\ q[4] = x17
      /\ r \in Seq(S) /\ Len(r) = 17 /\ r[1] = x1 /\ r[2] = x2 /\ r[3] = x3 /\ r[4] = x4
           /\ r[5] = x5 /\ r[6] = x6 /\ r[7] = x7 /\ r[8] = x8 /\ r[9] = x9 /\ r[10] = x10
                /\ r[11] = x11 /\ r[12] = x12 /\ r[13] = x13 /\ r[14] = x14 /\ r[15] = x15
                     /\ r[16] = x16 /\ r[17] = x17
  OBVIOUS
<1> HIDE DEF S, p, q, r
<1>2. /\ p \in Seq(S) /\ q \in Seq(S) /\ r \in Seq(S)
      /\ Len(p) = m /\ Len(q) = n /\ Len(r) = m + n
  BY <1>1
<1>3. \A z \in 1..m : r[z] = p[z]
  BY <1>1
<1>4. \A z \in m + 1..m + n : r[z] = q[z - m]
  <2>1. \A z \in m + 1..m + n : z = 14 \/ z = 15 \/ z = 16 \/ z = 17
    OBVIOUS
  <2>2. r[14] = q[1] /\ r[15] = q[2] /\ r[16] = q[3] /\ r[17] = q[4]
    BY <1>1
  <2> QED
    BY ONLY <2>1, <2>2 DEF m
<1> HIDE DEF m, n
<1>5. Parts(S, p, q, r, m, n)
  BY <1>2, <1>3, <1>4 DEF Parts
<1>6. p \o q = r
  BY <1>5, Glued
<1> QED
  BY <1>6 DEF p, q, r

\* v lies in s, behind n elements.
LiesAt(s, n, v) == \A i \in 1..Len(v) : s[n + i] = v[i]

\* Three parts, one behind the other.
LEMMA ThreeParts ==
    ASSUME NEW S, NEW u \in Seq(S), NEW v \in Seq(S), NEW w \in Seq(S)
    PROVE  LET c == (u \o v) \o w IN
           /\ c \in Seq(S) /\ Len(c) = Len(u) + Len(v) + Len(w)
           /\ LiesAt(c, 0, u) /\ LiesAt(c, Len(u), v) /\ LiesAt(c, Len(u) + Len(v), w)
<1> DEFINE k == Len(u)
           l == Len(v)
           m == Len(w)
<1>1. k \in Nat /\ l \in Nat /\ m \in Nat /\ Len(u) = k /\ Len(v) = l /\ Len(w) = m
  BY LenProperties
<1> HIDE DEF k, l, m
<1> DEFINE c == u \o v
           n == k + l
<1>2. /\ c \in Seq(S) /\ Len(c) = n
      /\ \A i \in 1..k : c[i] = u[i]
      /\ \A i \in 1..l : c[k + i] = v[i]
  <2>1. u \in Seq(S) /\ Len(u) = k /\ v \in Seq(S) /\ Len(v) = l
    BY <1>1
  <2> QED
    BY ONLY <2>1, InTwoParts
<1> DEFINE d == c \o w
<1> HIDE DEF c, n
<1>3. /\ d \in Seq(S) /\ Len(d) = n + m
      /\ \A i \in 1..n : d[i] = c[i]
      /\ \A i \in 1..m : d[n + i] = w[i]
  <2>1. c \in Seq(S) /\ Len(c) = n /\ w \in Seq(S) /\ Len(w) = m
    BY <1>1, <1>2
  <2> QED
    BY ONLY <2>1, InTwoParts
<1> HIDE DEF d
<1>4. ASSUME NEW i \in 1..k PROVE d[0 + i] = u[i]
  BY <1>1, <1>2, <1>3 DEF n
<1>5. ASSUME NEW i \in 1..l PROVE d[k + i] = v[i]
  <2>1. k + i \in 1..n
    BY <1>1 DEF n
  <2> QED
    BY <1>2, <1>3, <2>1
<1>6. LiesAt(d, 0, u) /\ LiesAt(d, k, v) /\ LiesAt(d, k + l, w)
  BY <1>1, <1>3, <1>4, <1>5 DEF n, LiesAt
<1> QED
  BY <1>3, <1>6 DEF c, d, n, k, l, m

\* What lies in a part lies in the whole.
LEMMA LiesWithin ==
    ASSUME NEW s, NEW c, NEW v, NEW n \in Nat, NEW k \in Nat, Len(c) = k, Len(v) \in Nat,
           n + Len(v) <= k, LiesAt(s, 0, c), LiesAt(c, n, v)
    PROVE  LiesAt(s, n, v)
<1> SUFFICES ASSUME NEW i \in 1..Len(v) PROVE s[n + i] = v[i]
  BY DEF LiesAt
<1>1. n + i \in 1..k /\ 0 + (n + i) = n + i
  OBVIOUS
<1>2. s[0 + (n + i)] = c[n + i]
  BY <1>1 DEF LiesAt
<1> QED
  BY <1>1, <1>2 DEF LiesAt

\* Five parts.
LEMMA FiveParts ==
    ASSUME NEW S, NEW u \in Seq(S), NEW v \in Seq(S), NEW w \in Seq(S), NEW x \in Seq(S),
           NEW y \in Seq(S)
    PROVE  LET s == (((u \o v) \o w) \o x) \o y IN
           /\ s \in Seq(S) /\ Len(s) = Len(u) + Len(v) + Len(w) + Len(x) + Len(y)
           /\ LiesAt(s, 0, u) /\ LiesAt(s, Len(u), v) /\ LiesAt(s, Len(u) + Len(v), w)
           /\ LiesAt(s, Len(u) + Len(v) + Len(w), x)
           /\ LiesAt(s, Len(u) + Len(v) + Len(w) + Len(x), y)
<1> DEFINE c == (u \o v) \o w
           k == Len(u)
           l == k + Len(v)
           m == l + Len(w)
           s == (c \o x) \o y
<1>1. k \in Nat /\ l \in Nat /\ m \in Nat /\ Len(v) \in Nat /\ Len(w) \in Nat
  BY LenProperties
<1>2. c \in Seq(S) /\ Len(c) = m /\ LiesAt(c, 0, u) /\ LiesAt(c, k, v) /\ LiesAt(c, l, w)
  BY ThreeParts
<1> HIDE DEF c
<1>3. /\ s \in Seq(S) /\ Len(s) = Len(c) + Len(x) + Len(y)
      /\ LiesAt(s, 0, c) /\ LiesAt(s, Len(c), x) /\ LiesAt(s, Len(c) + Len(x), y)
  <2>1. c \in Seq(S) /\ x \in Seq(S) /\ y \in Seq(S)
    BY <1>2
  <2> QED
    BY ONLY <2>1, ThreeParts
<1> HIDE DEF s
<1>4. LiesAt(s, 0, u) /\ LiesAt(s, k, v) /\ LiesAt(s, l, w)
  BY <1>1, <1>2, <1>3, LiesWithin
<1> QED
  BY <1>2, <1>3, <1>4 DEF c, s
=============================================================================
