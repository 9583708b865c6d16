------------------------ MODULE WitnessInjectProofs ------------------------
(***************************************************************************)
(* First the search and the injector, for every well-formed translation    *)
(* unit: the search yields a node of the unit, the outermost one at the    *)
(* start of a statement, and what an invariant inserts is a sequence of    *)
(* insertions.  Then the safety of a run of witness_inject, for any number *)
(* of source files, any units in them and witnesses of any length, and     *)
(* that it implements the atomic injection.                                *)
(***************************************************************************)
EXTENDS WitnessInject, TLAPS, WellFoundedInduction, SequenceTheorems

\* A set of natural numbers that has an element has a smallest one.
LEMMA MinInSet ==
    ASSUME NEW S \in SUBSET Nat, S # {}
    PROVE  Min(S) \in S /\ \A y \in S : Min(S) <= y
<1>1. PICK x \in S : \A y \in S : ~(<<y, x>> \in OpToRel(<, Nat))
  BY NatLessThanWellFounded, WFMin
<1>2. ASSUME NEW y \in S PROVE x <= y
  <2>1. <<y, x>> \in Nat \X Nat /\ <<y, x>>[1] = y /\ <<y, x>>[2] = x
    OBVIOUS
  <2>2. ~(y < x)
    BY <1>1, <2>1 DEF OpToRel
  <2> QED
    BY <2>1, <2>2
<1> QED
  BY <1>2 DEF Min

\* A set of numbers up to n that has an element has a largest one.
LEMMA MaxInSet ==
    ASSUME NEW n \in Nat, NEW S \in SUBSET (1..n), S # {}
    PROVE  Max(S) \in S /\ \A y \in S : Max(S) >= y
<1> DEFINE T == {n - s : s \in S}
<1>1. T \in SUBSET Nat /\ T # {}
  <2>1. \A s \in S : n - s \in Nat /\ n - s \in T
    OBVIOUS
  <2> QED
    BY <2>1
<1>2. \A s \in S : n - s \in T
  OBVIOUS
<1>3. \A t \in T : \E s \in S : t = n - s
  OBVIOUS
<1> HIDE DEF T
<1>5. Min(T) \in T /\ \A t \in T : Min(T) <= t
  BY <1>1, MinInSet
<1>6. PICK m \in S : Min(T) = n - m
  BY <1>3, <1>5
<1>7. \A y \in S : n - m <= n - y
  BY <1>2, <1>5, <1>6
<1>4. \A y \in S : m >= y
  BY <1>7
<1> QED
  BY <1>4 DEF Max

-----------------------------------------------------------------------------
\* The nodes of a unit, with 0 for none.
LEMMA NodeDomain ==
    ASSUME NEW p \in TranslationUnits
    PROVE  /\ Len(p.node) \in Nat /\ DOMAIN p.node = 1..Len(p.node)
           /\ \A n \in 1..Len(p.node) : p.node[n] \in AstNodes
BY LenProperties, ElementOfSeq DEF TranslationUnits

LEMMA SmallestContainerIsNode ==
    ASSUME NEW p \in TranslationUnits, NEW loc \in Nat
    PROVE  SmallestContainerAtPos(p, loc) \in 0..Len(p.node)
<1> DEFINE C    == Containers(p, loc)
           best == {n \in C : \A m \in C : length(p, n) <= length(p, m)}
<1>1. best \in SUBSET (1..Len(p.node))
  BY NodeDomain DEF Containers
<1>2. CASE best = {}
  BY <1>2, NodeDomain DEF SmallestContainerAtPos, NoNode
<1>3. CASE best # {}
  <2>1. Min(best) \in best
    <3> HIDE DEF best
    <3>1. best \in SUBSET Nat
      BY <1>1, NodeDomain
    <3> QED
      BY <1>3, <3>1, MinInSet
  <2> QED
    BY <1>1, <1>3, <2>1, NodeDomain DEF SmallestContainerAtPos
<1> QED
  BY <1>2, <1>3

LEMMA AncestorsAreNodes ==
    ASSUME NEW p \in TranslationUnits, WellFormed(p), NEW n \in 1..Len(p.node)
    PROVE  /\ AncestorsOrSelf(p, n) \subseteq 1..n
           /\ n \in AncestorsOrSelf(p, n)
BY NodeDomain DEF AncestorsOrSelf, WellFormed, AstNodes

LEMMA StartingAtIsNode ==
    ASSUME NEW p \in TranslationUnits, WellFormed(p), NEW n \in 1..Len(p.node),
           NEW loc \in Nat
    PROVE  StartingAt(p, n, loc) \in 1..Len(p.node)
<1> DEFINE A == {a \in AncestorsOrSelf(p, n) : p.node[a].begin = loc}
<1>1. A \in SUBSET (1..Len(p.node))
  BY AncestorsAreNodes, NodeDomain
<1>2. CASE A = {}
  BY <1>2 DEF StartingAt
<1>3. CASE A # {}
  <2>1. Max(A) \in A
    <3> HIDE DEF A
    <3> QED
      BY <1>1, <1>3, MaxInSet, NodeDomain
  <2> QED
    BY <1>1, <1>3, <2>1 DEF StartingAt
<1> QED
  BY <1>2, <1>3

LEMMA ClimbIsNode ==
    ASSUME NEW p \in TranslationUnits, WellFormed(p), NEW n \in 1..Len(p.node),
           NEW loc \in Nat
    PROVE  Climb(p, n, loc) \in 1..n
<1> DEFINE A == AncestorsOrSelf(p, n)
           climbs(m) == p.node[m].begin = loc \/ p.node[m].kind = "Expr"
           T == {a \in A : \A m \in A : a <= m /\ m < n => climbs(m)}
<1>1. T \in SUBSET (1..n)
  BY AncestorsAreNodes
<1>2. n \in T
  BY AncestorsAreNodes, NodeDomain
<1>3. Min(T) \in T
  <2> HIDE DEF T
  <2>1. T \in SUBSET Nat
    BY <1>1, NodeDomain
  <2> QED
    BY <1>2, <2>1, MinInSet
<1> QED
  BY <1>1, <1>3 DEF Climb

\* util.cpp:115-152: the search ends at a node of the translation unit, or at
\* none, wherever the witness's position is.
THEOREM SearchIsNode ==
    ASSUME NEW p \in TranslationUnits, WellFormed(p), NEW loc \in Nat
    PROVE  largestASTNodeStartingAt(p, loc) \in 0..Len(p.node)
<1>1. tokenBegin(p, loc) \in Nat
  <2> DEFINE T == {p.eof} \cup {p.tok[i].at : i \in {j \in DOMAIN p.tok : p.tok[j].at > loc}}
  <2>1. \A i \in DOMAIN p.tok : p.tok[i] \in Tokens
    BY LenProperties, ElementOfSeq DEF TranslationUnits
  <2>2. T \in SUBSET Nat /\ T # {}
    BY <2>1 DEF TranslationUnits, Tokens
  <2>3. Min(T) \in Nat
    <3> HIDE DEF T
    <3> QED
      BY <2>2, MinInSet
  <2> QED
    BY <2>3 DEF tokenBegin
<1> DEFINE beginLoc == tokenBegin(p, loc)
           found    == SmallestContainerAtPos(p, beginLoc)
<1>2. found \in 0..Len(p.node)
  BY <1>1, SmallestContainerIsNode
<1>3. CASE found = NoNode
  BY <1>3, NodeDomain DEF largestASTNodeStartingAt, NoNode
<1>4. CASE found # NoNode
  <2>1. found \in 1..Len(p.node)
    BY <1>2, <1>4, NodeDomain DEF NoNode
  <2>2. StartingAt(p, found, beginLoc) \in 1..Len(p.node)
    BY <1>1, <2>1, StartingAtIsNode
  <2>3. Climb(p, StartingAt(p, found, beginLoc), beginLoc) \in 1..Len(p.node)
    BY <1>1, <2>2, ClimbIsNode, NodeDomain
  <2> QED
    BY <1>4, <2>3, NodeDomain DEF largestASTNodeStartingAt
<1> QED
  BY <1>3, <1>4

-----------------------------------------------------------------------------
(* The search at the start of a statement.                                 *)

\* The nodes that start at a position are nested in each other.
LEMMA NodesAtNested ==
    ASSUME NEW p \in TranslationUnits, SourceOrdered(p), NEW loc \in Nat,
           NEW m \in NodesAt(p, loc), NEW n \in NodesAt(p, loc), m <= n
    PROVE  m \in AncestorsOrSelf(p, n)
<1>1. /\ m \in 1..Len(p.node) /\ n \in 1..Len(p.node)
      /\ p.node[m].begin = loc /\ p.node[n].begin = loc
      /\ p.node[m].last \in Nat /\ p.node[m].seen \in Nat
  BY NodeDomain DEF NodesAt, AstNodes
<1>2. ~(p.node[m].last < n)
  <2>1. p.node[m].last < n => p.node[m].seen < p.node[n].begin
    BY <1>1, NodeDomain DEF SourceOrdered
  <2>2. p.node[m].begin <= p.node[m].seen
    BY <1>1, NodeDomain DEF SourceOrdered
  <2> QED
    BY <1>1, <2>1, <2>2
<1> QED
  BY <1>1, <1>2, NodeDomain DEF AncestorsOrSelf

\* Every node that holds the position is around the innermost one starting there.
LEMMA ContainersAreAround ==
    ASSUME NEW p \in TranslationUnits, SourceOrdered(p), NEW loc \in Nat,
           NodesAt(p, loc) # {}, NEW c \in Containers(p, loc)
    PROVE  c \in AncestorsOrSelf(p, Max(NodesAt(p, loc)))
<1> DEFINE d == Max(NodesAt(p, loc))
<1>1. d \in NodesAt(p, loc) /\ \A n \in NodesAt(p, loc) : n <= d
  <2>1. NodesAt(p, loc) \in SUBSET (1..Len(p.node)) /\ Len(p.node) \in Nat
    BY NodeDomain DEF NodesAt
  <2>2. d \in NodesAt(p, loc) /\ \A n \in NodesAt(p, loc) : d >= n
    BY <2>1, MaxInSet
  <2> QED
    BY <2>1, <2>2
<1> HIDE DEF d
<1>2. /\ c \in 1..Len(p.node) /\ d \in 1..Len(p.node)
      /\ p.node[c].begin \in Nat /\ p.node[c].seen \in Nat /\ p.node[c].last \in Nat
      /\ p.node[d].seen \in Nat /\ p.node[d].last \in Nat
      /\ p.node[c].begin <= loc /\ loc <= p.node[c].seen /\ p.node[d].begin = loc
  BY <1>1, NodeDomain DEF Containers, NodesAt, AstNodes
<1>3. CASE c <= d
  <2>1. ~(p.node[c].last < d)
    <3>1. p.node[c].last < d => p.node[c].seen < p.node[d].begin
      BY <1>2, NodeDomain DEF SourceOrdered
    <3> QED
      BY <1>2, <3>1
  <2> QED
    BY <1>2, <1>3, <2>1, NodeDomain DEF AncestorsOrSelf, d
<1>4. CASE d < c
  <2>1. c <= p.node[d].last
    <3>1. p.node[d].last < c => p.node[d].seen < p.node[c].begin
      BY <1>2, NodeDomain DEF SourceOrdered
    <3>2. p.node[d].begin <= p.node[d].seen
      BY <1>2, NodeDomain DEF SourceOrdered
    <3> QED
      BY <1>2, <3>1, <3>2
  <2>2. d \in AncestorsOrSelf(p, c)
    BY <1>2, <1>4, <2>1, NodeDomain DEF AncestorsOrSelf
  <2>3. p.node[d].begin <= p.node[c].begin
    BY <1>2, <2>2, NodeDomain DEF SourceOrdered
  <2>4. c \in NodesAt(p, loc)
    BY <1>2, <2>3, NodeDomain DEF NodesAt
  <2> QED
    BY <1>1, <1>2, <1>4, <2>4
<1> QED
  BY <1>2, <1>3, <1>4

\* The smallest container of a position where a node starts starts there too.
LEMMA SmallestStartsThere ==
    ASSUME NEW p \in TranslationUnits, SourceOrdered(p), NEW loc \in Nat,
           NodesAt(p, loc) # {}
    PROVE  SmallestContainerAtPos(p, loc) \in NodesAt(p, loc)
<1> DEFINE C    == Containers(p, loc)
           best == {n \in C : \A m \in C : length(p, n) <= length(p, m)}
           d    == Max(NodesAt(p, loc))
<1>1. d \in NodesAt(p, loc)
  <2>1. NodesAt(p, loc) \in SUBSET (1..Len(p.node)) /\ Len(p.node) \in Nat
    BY NodeDomain DEF NodesAt
  <2> QED
    BY <2>1, MaxInSet
<1>2. \A c \in C : c \in AncestorsOrSelf(p, d)
  BY ContainersAreAround
<1> HIDE DEF d
<1>3. d \in 1..Len(p.node) /\ p.node[d].begin = loc /\ p.node[d].seen \in Nat
  BY <1>1, NodeDomain DEF NodesAt, AstNodes
<1>4. \A c \in C : /\ c \in 1..Len(p.node)
                   /\ p.node[c].begin \in Nat /\ p.node[c].seen \in Nat
                   /\ p.node[c].begin <= loc /\ p.node[d].seen <= p.node[c].seen
  BY <1>2, <1>3, NodeDomain DEF SourceOrdered, Containers, AstNodes
<1>5. d \in C
  BY <1>3, NodeDomain DEF Containers, SourceOrdered
<1>6. d \in best
  <2>1. \A c \in C : length(p, d) <= length(p, c)
    BY <1>3, <1>4 DEF length
  <2> QED
    BY <1>5, <2>1
<1>7. best \in SUBSET Nat
  BY <1>4, NodeDomain
<1>8. \A b \in best : b \in NodesAt(p, loc)
  <2> SUFFICES ASSUME NEW b \in best PROVE b \in NodesAt(p, loc)
    OBVIOUS
  <2>1. b \in C /\ length(p, b) <= length(p, d)
    BY <1>5
  <2>2. p.node[b].begin = loc
    BY <1>3, <1>4, <2>1 DEF length
  <2> QED
    BY <1>4, <2>1, <2>2, NodeDomain DEF NodesAt
<1>9. SmallestContainerAtPos(p, loc) = Min(best)
  BY <1>6 DEF SmallestContainerAtPos
<1>10. Min(best) \in best
  <2> HIDE DEF best
  <2> QED
    BY <1>6, <1>7, MinInSet
<1> QED
  BY <1>8, <1>9, <1>10

\* The climb goes from any node that starts at a statement's start to the
\* outermost one, and not beyond.
LEMMA ClimbsToOutermost ==
    ASSUME NEW p \in TranslationUnits, WellFormed(p), SourceOrdered(p), NEW loc \in Nat,
           StatementStart(p, loc), NEW n \in NodesAt(p, loc)
    PROVE  Climb(p, n, loc) = Min(NodesAt(p, loc))
<1> DEFINE A == AncestorsOrSelf(p, n)
           climbs(m) == p.node[m].begin = loc \/ p.node[m].kind = "Expr"
           T == {a \in A : \A m \in A : a <= m /\ m < n => climbs(m)}
           o == Min(NodesAt(p, loc))
           outer == AncestorsOrSelf(p, o) \ {o}
<1>1. o \in NodesAt(p, loc) /\ \A m \in NodesAt(p, loc) : o <= m
  <2>1. NodesAt(p, loc) \in SUBSET Nat
    BY NodeDomain DEF NodesAt
  <2> QED
    BY <2>1, MinInSet
<1>2. outer # {} => p.node[Max(outer)].kind # "Expr"
  BY DEF StatementStart
<1> HIDE DEF o
<1>3. /\ o \in 1..Len(p.node) /\ n \in 1..Len(p.node) /\ Len(p.node) \in Nat
      /\ p.node[o].begin = loc /\ p.node[n].begin = loc
      /\ p.node[o].last \in Nat
  BY <1>1, NodeDomain DEF NodesAt, AstNodes
<1>4. o \in A
  BY <1>1, NodesAtNested
<1>5. A \subseteq 1..n
  BY <1>3, AncestorsAreNodes
<1>6. \A m \in A : /\ m \in 1..Len(p.node)
                   /\ p.node[m].last \in Nat /\ p.node[m].begin \in Nat
                   /\ p.node[m].begin <= loc /\ n <= p.node[m].last
  BY <1>3, <1>5, NodeDomain DEF SourceOrdered, AstNodes, AncestorsOrSelf
<1>7. o \in T
  <2> SUFFICES ASSUME NEW m \in A, o <= m, m < n PROVE climbs(m)
    BY <1>4
  <2>1. o \in AncestorsOrSelf(p, m)
    BY <1>3, <1>4, <1>6, NodeDomain DEF AncestorsOrSelf
  <2>2. loc <= p.node[m].begin
    BY <1>3, <1>6, <2>1, NodeDomain DEF SourceOrdered
  <2> QED
    BY <1>3, <1>6, <2>2
<1>8. \A a \in T : o <= a
  <2> SUFFICES ASSUME NEW a \in T, a < o PROVE FALSE
    BY <1>3, <1>5
  <2>1. a \in outer
    BY <1>3, <1>4, <1>5, <1>6, NodeDomain DEF AncestorsOrSelf
  <2> DEFINE q == Max(outer)
  <2>2. q \in outer /\ a <= q
    <3>1. outer \in SUBSET (1..o) /\ o \in Nat
      BY <1>3, AncestorsAreNodes
    <3>2. q \in outer /\ \A y \in outer : q >= y
      <4> HIDE DEF outer
      <4> QED
        BY <2>1, <3>1, MaxInSet
    <3> QED
      BY <2>1, <3>1, <3>2
  <2>3. q \in AncestorsOrSelf(p, o) /\ q # o
    BY <2>2
  <2>4. p.node[q].kind # "Expr"
    BY <1>2, <2>1
  <2> HIDE DEF q, outer
  <2>5. q \in 1..Len(p.node) /\ q < o /\ p.node[q].last \in Nat
    <3>1. q \in 1..o
      BY <1>3, <2>3, AncestorsAreNodes
    <3>2. q \in 1..Len(p.node) /\ q < o
      BY <1>3, <2>3, <3>1
    <3>3. p.node[q] \in AstNodes
      BY <3>2, NodeDomain
    <3> QED
      BY <3>2, <3>3 DEF AstNodes
  <2>6. p.node[o].last <= p.node[q].last
    BY <1>3, <2>3, <2>5, NodeDomain DEF SourceOrdered
  <2>7. q \in A
    BY <1>1, <1>3, <1>4, <1>6, <2>5, <2>6, NodeDomain DEF AncestorsOrSelf
  <2>8. q < n
    BY <1>1, <1>3, <2>5
  <2>9. climbs(q)
    BY <2>2, <2>7, <2>8
  <2>10. q \in NodesAt(p, loc)
    BY <2>4, <2>5, <2>9, NodeDomain DEF NodesAt
  <2> QED
    BY <1>1, <1>3, <2>5, <2>10
<1>9. T \in SUBSET Nat
  BY <1>5, <1>3
<1>10. Climb(p, n, loc) = Min(T)
  BY DEF Climb
<1>11. Min(T) \in T /\ Min(T) <= o
  <2> HIDE DEF T
  <2> QED
    BY <1>7, <1>9, MinInSet
<1> HIDE DEF T
<1>12. o <= Min(T) /\ Min(T) \in Nat
  BY <1>8, <1>9, <1>11
<1> QED
  BY <1>3, <1>10, <1>11, <1>12 DEF o

\* util.cpp:115-152: in any unit whose ranges nest and whose tokens white space
\* separates, the search finds the outermost node that starts at the start of a
\* statement, however many nodes start there.
THEOREM SearchIsOutermost ==
    ASSUME NEW p \in TranslationUnits, WellFormed(p), SourceOrdered(p), NEW loc \in Nat,
           StatementStart(p, loc)
    PROVE  largestASTNodeStartingAt(p, loc) = Min(NodesAt(p, loc))
<1> DEFINE found == SmallestContainerAtPos(p, loc)
<1>1. tokenBegin(p, loc) = loc /\ NodesAt(p, loc) # {}
  BY DEF StatementStart
<1>2. found \in NodesAt(p, loc)
  BY <1>1, SmallestStartsThere
<1> HIDE DEF found
<1>3. found \in 1..Len(p.node) /\ p.node[found].begin = loc
  BY <1>2, NodeDomain DEF NodesAt
<1>4. StartingAt(p, found, loc) = found
  <2> DEFINE A == {a \in AncestorsOrSelf(p, found) : p.node[a].begin = loc}
  <2>1. A \in SUBSET (1..found) /\ found \in A /\ found \in Nat
    BY <1>3, AncestorsAreNodes, NodeDomain
  <2>2. Max(A) \in A /\ Max(A) >= found
    <3> HIDE DEF A
    <3> QED
      BY <2>1, MaxInSet
  <2>3. Max(A) \in 1..found
    BY <2>1, <2>2
  <2>4. A # {} /\ StartingAt(p, found, loc) = IF A = {} THEN found ELSE Max(A)
    BY <2>1 DEF StartingAt
  <2> HIDE DEF A
  <2> QED
    BY <2>1, <2>2, <2>3, <2>4
<1>5. Climb(p, found, loc) = Min(NodesAt(p, loc))
  BY <1>2, ClimbsToOutermost
<1>6. found # NoNode
  BY <1>3, NodeDomain DEF NoNode
<1> QED
  BY <1>1, <1>4, <1>5, <1>6 DEF largestASTNodeStartingAt, found

-----------------------------------------------------------------------------
LEMMA InsertTextType ==
    ASSUME NEW loc \in Nat, NEW text \in Texts, NEW inv \in Nat
    PROVE  InsertText(loc, text, inv) \in Seq(Edits)
<1>1. CASE loc = NoLoc
  BY <1>1, EmptySeq DEF InsertText
<1>2. CASE loc # NoLoc
  <2>1. [at |-> loc, text |-> text, inv |-> inv] \in Edits
    BY <1>2 DEF Edits
  <2> QED
    BY <1>2, <2>1 DEF InsertText
<1> QED
  BY <1>1, <1>2

LEMMA BracesType ==
    ASSUME NEW p \in TranslationUnits, NEW n \in 1..Len(p.node), NEW inv \in Nat
    PROVE  Begin(p, n) \in Nat /\ Braces(p, n, inv) \in Seq(Edits)
<1>1. Begin(p, n) \in Nat /\ p.node[n].end \in Nat
  BY NodeDomain DEF Begin, AstNodes, NoLoc
<1>2. /\ InsertText(Begin(p, n), "{", inv) \in Seq(Edits)
      /\ InsertText(p.node[n].end, ";}", inv) \in Seq(Edits)
  BY <1>1, InsertTextType DEF Texts
<1> QED
  BY <1>1, <1>2, ConcatProperties DEF Braces

LEMMA InjectInvariantAtType ==
    ASSUME NEW p \in TranslationUnits, NEW n \in 0..Len(p.node), NEW inv \in Nat,
           NEW loc, n # NoNode => loc \in Nat
    PROVE  InjectInvariantAt(p, loc, n, inv) \in Seq(Edits)
<1>1. CASE n = NoNode
  BY <1>1, EmptySeq DEF InjectInvariantAt, IsStmt, IsDecl
<1>2. CASE n # NoNode
  <2>1. n \in 1..Len(p.node)
    BY <1>2, NodeDomain DEF NoNode
  <2>2. InsertText(loc, "assert;", inv) \in Seq(Edits)
    BY <1>2, InsertTextType DEF Texts
  <2>3. Braces(p, n, inv) \in Seq(Edits)
    BY <2>1, BracesType
  <2>4. Braces(p, n, inv) \o InsertText(loc, "assert;", inv) \in Seq(Edits)
    BY <2>2, <2>3, ConcatProperties
  <2>5. CASE IsStmt(p, n) /\ insertSeqStmt(p, n)
    <3>1. ~((IsStmt(p, n) /\ ~insertSeqStmt(p, n)) \/ IsDecl(p, n))
      BY <2>5 DEF IsStmt, IsDecl, StmtKinds, DeclKinds
    <3> QED
      BY <2>4, <2>5, <3>1 DEF InjectInvariantAt
  <2>6. CASE (IsStmt(p, n) /\ ~insertSeqStmt(p, n)) \/ IsDecl(p, n)
    <3>1. ~(IsStmt(p, n) /\ insertSeqStmt(p, n))
      BY <2>6 DEF IsStmt, IsDecl, StmtKinds, DeclKinds
    <3> QED
      BY <2>2, <2>6, <3>1 DEF InjectInvariantAt
  <2>7. CASE ~IsStmt(p, n) /\ ~IsDecl(p, n)
    BY <2>7, EmptySeq DEF InjectInvariantAt
  <2> QED
    BY <2>5, <2>6, <2>7
<1> QED
  BY <1>1, <1>2

LEMMA InjectLocationInvariantType ==
    ASSUME NEW p \in TranslationUnits, WellFormed(p), NEW loc \in Nat,
           NEW inv \in Nat, NEW skip \in BOOLEAN
    PROVE  InjectLocationInvariant(p, loc, inv, skip) \in Seq(Edits)
<1> DEFINE n == largestASTNodeStartingAt(p, loc)
<1>1. n \in 0..Len(p.node)
  BY SearchIsNode
<1> HIDE DEF n
<1>2. CASE n = NoNode \/ (skip /\ kind(p, n) \in {"Case", "Default"})
  <2>1. kind(p, n) # "Compound"
    BY <1>2 DEF kind
  <2> QED
    BY <1>2, <2>1, EmptySeq DEF InjectLocationInvariant, n
<1>3. CASE ~(n = NoNode \/ (skip /\ kind(p, n) \in {"Case", "Default"}))
  <2>1. n \in 1..Len(p.node)
    BY <1>1, <1>3, NodeDomain DEF NoNode
  <2>2. /\ InjectInvariantAt(p, loc, n, inv) \in Seq(Edits)
        /\ InjectInvariantAt(p, Begin(p, n), n, inv) \in Seq(Edits)
    BY <1>1, <2>1, BracesType, InjectInvariantAtType
  <2> QED
    BY <1>3, <2>2 DEF InjectLocationInvariant, n
<1> QED
  BY <1>2, <1>3

LEMMA InjectLoopInvariantAtType ==
    ASSUME NEW p \in TranslationUnits, NEW body \in 0..Len(p.node), NEW inv \in Nat
    PROVE  InjectLoopInvariantAt(p, body, inv) \in Seq(Edits)
<1>1. CASE kind(p, body) = "Compound"
  <2>1. body \in 1..Len(p.node)
    BY <1>1, NodeDomain DEF kind, NoNode
  <2>2. p.node[body].brace \in Nat
    BY <2>1, NodeDomain DEF AstNodes
  <2> QED
    BY <1>1, <2>2, InsertTextType DEF InjectLoopInvariantAt, Texts
<1>2. CASE kind(p, body) # "Compound"
  <2>1. body # NoNode => p.node[body].end \in Nat
    BY NodeDomain DEF AstNodes, NoNode
  <2> QED
    BY <1>2, <2>1, InjectInvariantAtType DEF InjectLoopInvariantAt
<1> QED
  BY <1>1, <1>2

LEMMA InjectLoopInvariantType ==
    ASSUME NEW p \in TranslationUnits, WellFormed(p), NEW loc \in Nat, NEW inv \in Nat
    PROVE  InjectLoopInvariant(p, loc, inv) \in Seq(Edits)
<1> DEFINE n == largestASTNodeStartingAt(p, loc)
<1>1. n \in 0..Len(p.node)
  BY SearchIsNode
<1> HIDE DEF n
<1>2. CASE kind(p, n) = "For"
  <2>1. n \in 1..Len(p.node)
    BY <1>1, <1>2, NodeDomain DEF kind, NoNode
  <2>2. p.node[n].paren \in Nat
    BY <2>1, NodeDomain DEF AstNodes
  <2>3. /\ InsertText(p.node[n].paren, "assert", inv) \in Seq(Edits)
        /\ InsertText(p.node[n].paren, ",", inv) \in Seq(Edits)
    BY <2>2, InsertTextType DEF Texts
  <2>4. (IF p.node[n].inc THEN InsertText(p.node[n].paren, ",", inv) ELSE <<>>) \in Seq(Edits)
    BY <2>3, EmptySeq
  <2>5. (IF p.node[n].inc THEN InsertText(p.node[n].paren, ",", inv) ELSE <<>>)
           \o InsertText(p.node[n].paren, "assert", inv) \in Seq(Edits)
    BY <2>3, <2>4, ConcatProperties
  <2> QED
    BY <1>2, <2>5 DEF InjectLoopInvariant, n
<1>3. CASE kind(p, n) \in {"While", "Do"}
  <2>1. n \in 1..Len(p.node)
    BY <1>1, <1>3, NodeDomain DEF kind, NoNode
  <2>2. p.node[n].body \in 0..Len(p.node)
    BY <2>1, NodeDomain DEF AstNodes, WellFormed
  <2>3. /\ InjectLoopInvariantAt(p, p.node[n].body, inv) \in Seq(Edits)
        /\ InjectInvariantAt(p, Begin(p, n), n, inv) \in Seq(Edits)
    BY <1>1, <2>1, <2>2, InjectLoopInvariantAtType, InjectInvariantAtType, BracesType
  <2>4. InjectLoopInvariantAt(p, p.node[n].body, inv)
           \o InjectInvariantAt(p, Begin(p, n), n, inv) \in Seq(Edits)
    BY <2>3, ConcatProperties
  <2>5. kind(p, n) # "For"
    BY <1>3
  <2> QED
    BY <1>3, <2>4, <2>5 DEF InjectLoopInvariant, n
<1>4. CASE kind(p, n) \notin {"For", "While", "Do"}
  BY <1>4, EmptySeq DEF InjectLoopInvariant, n
<1> QED
  BY <1>2, <1>3, <1>4

\* inject.cpp:47-139: whatever the witness names, what an invariant inserts is
\* a sequence of insertions at places of the file.
THEOREM InjectType ==
    ASSUME NEW p \in TranslationUnits, WellFormed(p), NEW type, NEW loc \in Nat,
           NEW inv \in Nat, NEW skip \in BOOLEAN
    PROVE  Inject(p, type, loc, inv, skip) \in Seq(Edits)
BY InjectLocationInvariantType, InjectLoopInvariantType DEF Inject

-----------------------------------------------------------------------------
(* A run.                                                                  *)

\* Until the witness is complete no file is looked at, let alone written.
NothingYet ==
    phase \in {"start", "read"} => source = 1 /\ \A f \in Files : disk[f] = Original

\* A file is being processed: it is one of the command line's.
FileAtHand == phase = "ast" => source <= Len(Sources)

\* While a file is processed, its Rewriter holds what the invariants handled so
\* far insert into this file, and nothing else.
LogOfThisFile ==
    phase = "ast" => edits = [k \in 1..(cursor - 1) |-> EditsFor(Sources[source], k)]

\* Unless a failure is recorded, each file passed is written if it need be.
PassedAreWritten ==
    phase \in {"file", "ast"} /\ ~failed =>
        \A i \in 1..(source - 1) : HasInsertions(Sources[i]) => disk[Sources[i]] # Original

StatusOnlyAtExit == phase # "exited" => status = NoStatus

\* The inductive invariant: what the properties say of a finished run, and what
\* is true of a run on the way there.
IInv ==
    /\ TypeOK /\ FileAtHand
    /\ NothingYet /\ LogOfThisFile /\ WholeOrUntouched
    /\ PassedAreWritten /\ StatusOnlyAtExit /\ ZeroMeansWritten

-----------------------------------------------------------------------------
LEMMA SourcesFacts ==
    /\ Len(Sources) \in Nat
    /\ \A i \in 1..Len(Sources) : Sources[i] \in Files /\ Sources[i] \in AbsoluteNames
BY SourcesAssumption, LenProperties, ElementOfSeq DEF Files

LEMMA EditsOfType ==
    ASSUME TypeOK, NEW w \in Seq(Invariants), NEW f \in Files, NEW k \in 1..Len(w)
    PROVE  EditsOf(w, f, k) \in Seq(Edits)
<1>1. prog[f] \in TranslationUnits /\ WellFormed(prog[f])
  BY ProgramsAssumption DEF TypeOK
<1>2. w[k] \in Invariants /\ k \in Nat
  BY ElementOfSeq, LenProperties
<1>3. Inject(prog[f], w[k].type, w[k].loc, k, skipSwitchcases) \in Seq(Edits)
  BY <1>1, <1>2, InjectType DEF TypeOK, Invariants
<1> QED
  BY <1>3, EmptySeq DEF EditsOf

LEMMA EditsForType ==
    ASSUME TypeOK, NEW f \in Files, NEW k \in 1..Len(witness)
    PROVE  EditsFor(f, k) \in Seq(Edits)
BY EditsOfType DEF EditsFor, TypeOK

LEMMA InsertionsOfType ==
    ASSUME TypeOK, NEW w \in Seq(Invariants), NEW f \in Files
    PROVE  InsertionsOf(w, f) \in Seq(Seq(Edits))
<1>1. DOMAIN w = 1..Len(w) /\ Len(w) \in Nat
  BY LenProperties
<1> DEFINE e(k) == EditsOf(w, f, k)
<1>2. \A k \in 1..Len(w) : e(k) \in Seq(Edits)
  BY EditsOfType
<1> HIDE DEF e
<1>3. [k \in 1..Len(w) |-> e(k)] \in Seq(Seq(Edits))
  BY <1>1, <1>2
<1> QED
  BY <1>1, <1>3, EmptySeq DEF InsertionsOf, Original, e

LEMMA WitnessDomain ==
    TypeOK => Len(witness) \in Nat /\ DOMAIN witness = 1..Len(witness)
BY LenProperties DEF TypeOK

\* A step that leaves the configuration and the witness alone leaves what the
\* invariants insert alone.
LEMMA EditsForStable ==
    ASSUME UNCHANGED <<prog, skipSwitchcases, witness>>
    PROVE  /\ \A f, k : EditsFor(f, k)' = EditsFor(f, k)
           /\ \A f : Insertions(f)' = Insertions(f)
           /\ \A f : HasInsertions(f)' = HasInsertions(f)
BY DEF EditsFor, EditsOf, Insertions, HasInsertions

\* A complete log is the file's insertions.
LEMMA CompleteLog ==
    ASSUME TypeOK, LogOfThisFile, phase = "ast", cursor > Len(witness)
    PROVE  edits = Insertions(Sources[source])
<1>1. 1..(cursor - 1) = DOMAIN witness
  BY WitnessDomain DEF TypeOK
<1>2. edits = [k \in 1..(cursor - 1) |-> EditsFor(Sources[source], k)]
  BY DEF LogOfThisFile
<1> QED
  BY <1>1, <1>2 DEF Insertions

LEMMA KeptType ==
    ASSUME NEW item \in Items, NEW anyLoc \in Nat
    PROVE  Kept(item, anyLoc) \in Seq(Invariants)
<1> DEFINE name  == IF item.flaw \in {"type", "file_name"} THEN NoName ELSE item.name
           loc   == IF item.flaw \in {"line", "column"} THEN anyLoc ELSE item.loc
           type  == IF item.flaw = "type" THEN "location_invariant" ELSE item.type
           value == item.flaw \in {"none", "format"}
           kept  == [type |-> type, name |-> name, loc |-> loc, value |-> value]
<1>1. kept \in Invariants
  BY DEF Items, Invariants, Names, Types
<1>2. <<kept>> \in Seq(Invariants)
  BY <1>1
<1> QED
  BY <1>2, EmptySeq DEF Kept

LEMMA ResolvedType ==
    ASSUME NEW inv \in Invariants
    PROVE  [inv EXCEPT !.name = Resolve(@)] \in Invariants
BY NamesAssumption DEF Resolve, Invariants

-----------------------------------------------------------------------------
LEMMA TypeInit == Init => TypeOK /\ FileAtHand
<1> SUFFICES ASSUME Init PROVE TypeOK /\ FileAtHand
  OBVIOUS
<1>1. doc \in Seq(Items) /\ witness \in Seq(Invariants) /\ edits \in Seq(Seq(Edits))
  BY EmptySeq DEF Init
<1>2. disk \in [Files -> Seq(Seq(Edits))] /\ asked \in [Files -> Seq(Seq(Edits))]
  BY EmptySeq DEF Init, Original
<1>3. source \in 1..Len(Sources) + 1 /\ cursor \in 1..Len(witness) + 1
  BY SourcesFacts, EmptySeq DEF Init
<1> QED
  BY <1>1, <1>2, <1>3 DEF Init, TypeOK, FileAtHand, Phases, NoStatus

LEMMA TypeNext == TypeOK /\ FileAtHand /\ [Next]_vars => TypeOK' /\ FileAtHand'
<1> SUFFICES ASSUME TypeOK, FileAtHand, [Next]_vars PROVE TypeOK' /\ FileAtHand'
  OBVIOUS
<1> USE DEF TypeOK, FileAtHand, config, reading, running, Phases, NoStatus
<1>1. CASE OpenFails
  BY <1>1 DEF OpenFails
<1>2. CASE Open
  BY <1>2 DEF Open
<1>3. CASE ReadAnItem
  <2>1. PICK name \in Names, type \in Types, flaw \in Flaws \cup {"none"} :
          \E loc, anyLoc \in PositionsIn(Resolve(name)) :
             ReadItem([type |-> type, name |-> name, loc |-> loc, flaw |-> flaw], anyLoc)
    BY <1>3 DEF ReadAnItem
  <2>2. PositionsIn(Resolve(name)) \subseteq Nat
    BY ProgramsAssumption DEF PositionsIn, TranslationUnits
  <2>3. PICK loc \in Nat, anyLoc \in Nat :
             ReadItem([type |-> type, name |-> name, loc |-> loc, flaw |-> flaw], anyLoc)
    BY <2>1, <2>2
  <2> DEFINE item == [type |-> type, name |-> name, loc |-> loc, flaw |-> flaw]
  <2>4. item \in Items
    BY DEF Items
  <2>5. /\ phase = "read"
        /\ doc' = Append(doc, item)
        /\ witness' = IF yamlError THEN witness ELSE witness \o Kept(item, anyLoc)
        /\ yamlError' = (yamlError \/ item.flaw # "none")
        /\ UNCHANGED <<config, phase, running, status, asked>>
    BY <2>3 DEF ReadItem
  <2> HIDE DEF item
  <2>6. doc' \in Seq(Items) /\ yamlError' \in BOOLEAN
    BY <2>4, <2>5
  <2>7. witness' \in Seq(Invariants) /\ Len(witness') >= Len(witness)
    <3>1. Kept(item, anyLoc) \in Seq(Invariants)
      BY <2>4, KeptType
    <3>2. /\ witness \o Kept(item, anyLoc) \in Seq(Invariants)
          /\ Len(witness \o Kept(item, anyLoc)) >= Len(witness)
      BY <3>1, ConcatProperties, LenProperties
    <3> QED
      BY <2>5, <3>2, LenProperties
  <2>8. cursor \in 1..Len(witness') + 1
    BY <2>7, LenProperties
  <2> QED
    BY <2>5, <2>6, <2>7, <2>8
<1>4. CASE EndRead
  <2>1. \A k \in 1..Len(witness) : [witness[k] EXCEPT !.name = Resolve(@)] \in Invariants
    BY ResolvedType, ElementOfSeq
  <2>2. witness' = [k \in 1..Len(witness) |-> [witness[k] EXCEPT !.name = Resolve(@)]]
    BY <1>4, LenProperties DEF EndRead
  <2>3. witness' \in Seq(Invariants) /\ Len(witness') = Len(witness)
    BY <2>1, <2>2, LenProperties
  <2>4. asked' = [f \in Files |-> InsertionsOf(witness', f)]
    BY <1>4 DEF EndRead
  <2>5. asked' \in [Files -> Seq(Seq(Edits))]
    BY <2>3, <2>4, InsertionsOfType
  <2> QED
    BY <1>4, <2>3, <2>5 DEF EndRead
<1>5. CASE SyntaxError
  BY <1>5 DEF SyntaxError
<1>6. CASE RealPathFails
  BY <1>6 DEF RealPathFails
<1>7. CASE SkipSource
  BY <1>7, SourcesFacts DEF SkipSource
<1>8. ASSUME NEW e \in BOOLEAN, BeginSource(e) PROVE TypeOK' /\ FileAtHand'
  <2>1. 1 \in 1..Len(witness) + 1 /\ <<>> \in Seq(Seq(Edits))
    BY LenProperties, EmptySeq
  <2> QED
    BY <1>8, <2>1 DEF BeginSource
<1>9. CASE HandleInvariant
  <2>1. source \in 1..Len(Sources) /\ cursor \in 1..Len(witness)
    BY <1>9, SourcesFacts, LenProperties DEF HandleInvariant
  <2>2. EditsFor(Sources[source], cursor) \in Seq(Edits)
    BY <2>1, SourcesFacts, EditsForType
  <2>3. edits' \in Seq(Seq(Edits))
    BY <1>9, <2>2, AppendProperties DEF HandleInvariant
  <2>4. cursor' \in 1..Len(witness) + 1
    BY <1>9, <2>1, LenProperties DEF HandleInvariant
  <2> QED
    BY <1>9, <2>3, <2>4 DEF HandleInvariant
<1>10. ASSUME NEW w \in BOOLEAN, EndSourceFileAction(w) PROVE TypeOK' /\ FileAtHand'
  <2>1. source \in 1..Len(Sources)
    BY <1>10, SourcesFacts DEF EndSourceFileAction
  <2>2. source' \in 1..Len(Sources) + 1
    BY <1>10, <2>1, SourcesFacts DEF EndSourceFileAction
  <2>3. disk' \in [Files -> Seq(Seq(Edits))] /\ failed' \in BOOLEAN
    BY <1>10, <2>1, SourcesFacts DEF EndSourceFileAction
  <2> QED
    BY <1>10, <2>2, <2>3 DEF EndSourceFileAction
<1>11. CASE Exit
  BY <1>11 DEF Exit
<1>12. CASE Kill
  BY <1>12 DEF Kill
<1>13. CASE UNCHANGED vars
  BY <1>13 DEF vars
<1> QED
  BY <1>1, <1>2, <1>3, <1>4, <1>5, <1>6, <1>7, <1>8, <1>9, <1>10, <1>11, <1>12, <1>13
  DEF Next, Over
-----------------------------------------------------------------------------
LEMMA SafeInit == Init => IInv
<1> SUFFICES ASSUME Init PROVE IInv
  OBVIOUS
<1>1. \A f \in Files : disk[f] = Original
  BY DEF Init
<1>2. TypeOK /\ FileAtHand
  BY TypeInit
<1>3. NothingYet /\ WholeOrUntouched
  BY <1>1 DEF Init, NothingYet, WholeOrUntouched
<1> QED
  BY <1>2, <1>3 DEF Init, IInv, LogOfThisFile, PassedAreWritten, StatusOnlyAtExit,
                    ZeroMeansWritten, NoStatus

\* What the steps that end the process or read the witness keep: no file has
\* been touched, and there is no status to answer for.
LEMMA ReadingIsSafe ==
    ASSUME IInv, phase \in {"start", "read"}, UNCHANGED disk, status' # 0
    PROVE  /\ \A f \in Files : disk'[f] = Original
           /\ WholeOrUntouched' /\ ZeroMeansWritten'
BY DEF IInv, NothingYet, WholeOrUntouched, ZeroMeansWritten

\* A step that writes no file and leaves the witness alone.
LEMMA NoWriteIsSafe ==
    ASSUME WholeOrUntouched, UNCHANGED <<prog, skipSwitchcases, witness, disk>>
    PROVE  WholeOrUntouched'
BY EditsForStable DEF WholeOrUntouched

\* Handling one invariant more makes the log one entry longer.
LEMMA HandleExtendsLog ==
    ASSUME IInv, HandleInvariant
    PROVE  LogOfThisFile'
<1> DEFINE e(k) == EditsFor(Sources[source], k)
           X    == Seq(Seq(Edits))
<1>1. /\ phase = "ast" /\ cursor \in 1..Len(witness) /\ Len(witness) \in Nat
      /\ source \in 1..Len(Sources)
  BY WitnessDomain, SourcesFacts DEF HandleInvariant, IInv, TypeOK, FileAtHand
<1>2. edits = [k \in 1..(cursor - 1) |-> e(k)]
  BY <1>1 DEF IInv, LogOfThisFile
<1>3. \A k \in 1..Len(witness) : e(k) \in Seq(Edits)
  BY <1>1, SourcesFacts, EditsForType DEF IInv
<1>4. \A k : e(k)' = e(k)
  BY EditsForStable DEF HandleInvariant, config, reading
<1> HIDE DEF e
<1>5. edits \in Seq(Seq(Edits)) /\ Len(edits) = cursor - 1
  BY <1>1, <1>2, <1>3, LenProperties
<1>6. edits' = Append(edits, e(cursor)) /\ cursor' = cursor + 1
  BY DEF HandleInvariant, e
<1>7. edits' = [k \in 1..cursor |-> e(k)]
  <2>1. /\ edits' \in Seq(Seq(Edits)) /\ Len(edits') = cursor
        /\ \A k \in 1..(cursor - 1) : edits'[k] = edits[k]
        /\ edits'[cursor] = e(cursor)
    BY <1>1, <1>3, <1>5, <1>6, AppendProperties
  <2>2. DOMAIN edits' = 1..cursor /\ edits' = [k \in DOMAIN edits' |-> edits'[k]]
    BY <2>1, LenProperties
  <2>3. \A k \in 1..cursor : edits'[k] = e(k)
    BY <1>1, <1>2, <2>1
  <2> QED
    BY <2>2, <2>3
<1>8. cursor' - 1 = cursor
  BY <1>1, <1>6
<1>9. edits' = [k \in 1..(cursor' - 1) |-> e(k)']
  BY <1>4, <1>7, <1>8
<1> QED
  BY <1>9 DEF LogOfThisFile, e

\* Finishing a file writes all that the witness inserts into it, or nothing, and
\* then records the failure.
LEMMA EndSourceIsSafe ==
    ASSUME IInv, NEW w \in BOOLEAN, EndSourceFileAction(w)
    PROVE  WholeOrUntouched' /\ PassedAreWritten'
<1> DEFINE file == Sources[source]
           changed == \E k \in DOMAIN edits : edits[k] # <<>>
<1>1. /\ phase = "ast" /\ cursor > Len(witness)
      /\ source \in 1..Len(Sources) /\ source' = source + 1 /\ file \in Files
  BY SourcesFacts DEF EndSourceFileAction, IInv, TypeOK, FileAtHand
<1>2. edits = Insertions(file)
  BY <1>1, CompleteLog DEF IInv
<1>3. /\ disk' = IF changed /\ w THEN [disk EXCEPT ![file] = edits] ELSE disk
      /\ failed' = (failed \/ (changed /\ ~w))
  BY DEF EndSourceFileAction
<1>4. /\ \A f : Insertions(f)' = Insertions(f)
      /\ \A f : HasInsertions(f)' = HasInsertions(f)
  BY EditsForStable DEF EndSourceFileAction, config, reading
<1>5. changed <=> HasInsertions(file)
  BY <1>2 DEF Insertions, HasInsertions
<1>6. changed => edits # Original
  BY EmptySeq DEF Original
<1>7. disk \in [Files -> Seq(Seq(Edits))]
  BY DEF IInv, TypeOK
<1> HIDE DEF changed, file
<1>8. \A f \in Files : disk'[f] = IF changed /\ w /\ f = file THEN edits ELSE disk[f]
  BY <1>3, <1>7
<1>9. WholeOrUntouched'
  BY <1>2, <1>4, <1>8 DEF IInv, WholeOrUntouched
<1>10. PassedAreWritten'
  <2> SUFFICES ASSUME ~failed', NEW i \in 1..source, HasInsertions(Sources[i])
               PROVE  disk'[Sources[i]] # Original
    BY <1>1, <1>4 DEF PassedAreWritten
  <2>1. ~failed /\ (changed => w)
    BY <1>3
  <2>2. Sources[i] \in Files
    BY <1>1, SourcesFacts
  <2>3. CASE i = source
    BY <1>5, <1>6, <1>8, <2>1, <2>2, <2>3 DEF file
  <2>4. CASE i # source
    <3>1. i \in 1..(source - 1)
      BY <1>1, <2>4
    <3>2. disk[Sources[i]] # Original
      BY <1>1, <2>1, <3>1 DEF IInv, PassedAreWritten
    <3> QED
      BY <1>1, <1>6, <1>8, <2>2, <3>2
  <2> QED
    BY <2>3, <2>4
<1> QED
  BY <1>9, <1>10

LEMMA SafeNext == IInv /\ [Next]_vars => IInv'
<1> SUFFICES ASSUME IInv, [Next]_vars PROVE IInv'
  OBVIOUS
<1> DEFINE Rest == /\ NothingYet /\ LogOfThisFile /\ WholeOrUntouched
                   /\ PassedAreWritten /\ StatusOnlyAtExit /\ ZeroMeansWritten
<1>1. TypeOK' /\ FileAtHand'
  BY TypeNext DEF IInv
<1>2. NothingYet /\ StatusOnlyAtExit /\ WholeOrUntouched
  BY DEF IInv
<1> SUFFICES Rest'
  BY <1>1 DEF IInv
<1> USE DEF config, reading, running, NoStatus
<1>3. CASE OpenFails
  <2>1. phase = "start" /\ phase' = "exited" /\ status' = 1 /\ UNCHANGED disk
    BY <1>3 DEF OpenFails
  <2>2. WholeOrUntouched' /\ ZeroMeansWritten'
    BY <2>1, ReadingIsSafe
  <2> QED
    BY <2>1, <2>2 DEF NothingYet, LogOfThisFile, PassedAreWritten, StatusOnlyAtExit
<1>4. ASSUME phase \in {"start", "read"}, phase' = "read", UNCHANGED <<source, disk, status>>
      PROVE  Rest'
  <2>1. status' = 2
    BY <1>2, <1>4 DEF StatusOnlyAtExit
  <2>2. WholeOrUntouched' /\ ZeroMeansWritten' /\ \A f \in Files : disk'[f] = Original
    BY <1>4, <2>1, ReadingIsSafe
  <2>3. source' = 1
    BY <1>2, <1>4 DEF NothingYet
  <2> QED
    BY <1>4, <2>1, <2>2, <2>3 DEF NothingYet, LogOfThisFile, PassedAreWritten, StatusOnlyAtExit
<1>5. ASSUME phase = "read", phase' \in {"file", "aborted"},
             UNCHANGED <<source, disk, status>>
      PROVE  Rest'
  <2>1. status' = 2
    BY <1>2, <1>5 DEF StatusOnlyAtExit
  <2>2. WholeOrUntouched' /\ ZeroMeansWritten'
    BY <1>5, <2>1, ReadingIsSafe
  <2>3. source' = 1
    BY <1>2, <1>5 DEF NothingYet
  <2> QED
    BY <1>5, <2>1, <2>2, <2>3 DEF NothingYet, LogOfThisFile, PassedAreWritten, StatusOnlyAtExit
<1>6. CASE SkipSource
  <2>1. phase = "file" /\ phase' = "file" /\ failed' = TRUE /\ status' = 2
    BY <1>2, <1>6 DEF SkipSource, StatusOnlyAtExit
  <2>2. WholeOrUntouched'
    BY <1>2, <1>6, NoWriteIsSafe DEF SkipSource
  <2> QED
    BY <2>1, <2>2 DEF NothingYet, LogOfThisFile, PassedAreWritten, StatusOnlyAtExit, ZeroMeansWritten
<1>7. ASSUME NEW e \in BOOLEAN, BeginSource(e) PROVE Rest'
  <2>1. /\ phase = "file" /\ phase' = "ast" /\ status' = 2
        /\ cursor' = 1 /\ edits' = <<>> /\ (failed => failed')
        /\ UNCHANGED <<prog, skipSwitchcases, witness, source, disk>>
    BY <1>2, <1>7 DEF BeginSource, StatusOnlyAtExit
  <2>2. WholeOrUntouched'
    BY <1>2, <2>1, NoWriteIsSafe
  <2>3. LogOfThisFile'
    BY <2>1 DEF LogOfThisFile
  <2>4. PassedAreWritten'
    BY <2>1, EditsForStable DEF IInv, PassedAreWritten
  <2> QED
    BY <2>1, <2>2, <2>3, <2>4 DEF NothingYet, StatusOnlyAtExit, ZeroMeansWritten
<1>8. CASE HandleInvariant
  <2>1. /\ phase = "ast" /\ phase' = "ast" /\ status' = 2
        /\ UNCHANGED <<prog, skipSwitchcases, witness, source, disk, failed>>
    BY <1>2, <1>8 DEF HandleInvariant, StatusOnlyAtExit
  <2>2. WholeOrUntouched'
    BY <1>2, <2>1, NoWriteIsSafe
  <2>3. LogOfThisFile'
    BY <1>8, HandleExtendsLog
  <2>4. PassedAreWritten'
    BY <2>1, EditsForStable DEF IInv, PassedAreWritten
  <2> QED
    BY <2>1, <2>2, <2>3, <2>4 DEF NothingYet, StatusOnlyAtExit, ZeroMeansWritten
<1>9. ASSUME NEW w \in BOOLEAN, EndSourceFileAction(w) PROVE Rest'
  <2>1. phase = "ast" /\ phase' = "file" /\ status' = 2
    BY <1>2, <1>9 DEF EndSourceFileAction, StatusOnlyAtExit
  <2>2. WholeOrUntouched' /\ PassedAreWritten'
    BY <1>9, EndSourceIsSafe
  <2> QED
    BY <2>1, <2>2 DEF NothingYet, LogOfThisFile, StatusOnlyAtExit, ZeroMeansWritten
<1>10. CASE Exit
  <2>1. /\ phase = "file" /\ source > Len(Sources) /\ phase' = "exited"
        /\ status' = IF failed THEN 1 ELSE 0
        /\ UNCHANGED <<prog, skipSwitchcases, witness, disk>>
    BY <1>10 DEF Exit
  <2>2. WholeOrUntouched'
    BY <1>2, <2>1, NoWriteIsSafe
  <2>3. ZeroMeansWritten'
    <3> SUFFICES ASSUME ~failed, NEW f \in Files, HasInsertions(f)
                 PROVE  disk[f] # Original
      BY <2>1, EditsForStable DEF ZeroMeansWritten, HasInsertions
    <3>1. PICK i \in 1..Len(Sources) : f = Sources[i]
      BY DEF Files
    <3>2. i \in 1..(source - 1)
      BY <2>1, SourcesFacts DEF IInv, TypeOK
    <3> QED
      BY <2>1, <3>1, <3>2 DEF IInv, PassedAreWritten
  <2> QED
    BY <2>1, <2>2, <2>3 DEF NothingYet, LogOfThisFile, PassedAreWritten, StatusOnlyAtExit
<1>11. CASE Kill
  <2>1. /\ phase' = "killed" /\ status' = 2
        /\ UNCHANGED <<prog, skipSwitchcases, witness, disk>>
    BY <1>2, <1>11 DEF Kill, StatusOnlyAtExit
  <2>2. WholeOrUntouched'
    BY <1>2, <2>1, NoWriteIsSafe
  <2> QED
    BY <2>1, <2>2 DEF NothingYet, LogOfThisFile, PassedAreWritten, StatusOnlyAtExit, ZeroMeansWritten
<1>12. CASE UNCHANGED vars
  <2>1. /\ UNCHANGED <<prog, skipSwitchcases, phase, witness, source, cursor, edits,
                       disk, failed, status>>
    BY <1>12 DEF vars
  <2>2. WholeOrUntouched'
    BY <1>2, <2>1, NoWriteIsSafe
  <2>3. LogOfThisFile' /\ PassedAreWritten' /\ ZeroMeansWritten'
    BY <2>1, EditsForStable
    DEF IInv, LogOfThisFile, PassedAreWritten, ZeroMeansWritten
  <2> QED
    BY <1>2, <2>1, <2>2, <2>3 DEF NothingYet, StatusOnlyAtExit
<1>13. CASE Open
  BY <1>4, <1>13 DEF Open
<1>14. CASE ReadAnItem
  BY <1>4, <1>14 DEF ReadAnItem, ReadItem
<1>15. CASE EndRead
  BY <1>5, <1>15 DEF EndRead
<1>16. CASE SyntaxError \/ RealPathFails
  BY <1>5, <1>16 DEF SyntaxError, RealPathFails
<1> QED
  BY <1>3, <1>6, <1>7, <1>8, <1>9, <1>10, <1>11, <1>12, <1>13, <1>14, <1>15, <1>16
  DEF Next, Over

LEMMA Safe == Spec => []IInv
BY SafeInit, SafeNext, PTL DEF Spec

\* The variables stay in their domains: in particular the position in the
\* command line and in the witness, which the code indexes with, and what the
\* injector hands to the Rewriter for whatever position the witness names.
THEOREM TypeCorrect == Spec => []TypeOK
<1>1. IInv => TypeOK
  BY DEF IInv
<1> QED
  BY <1>1, Safe, PTL

\* However a run ends, each source file is as it was or holds exactly the
\* insertions of the invariants that name it, in the witness's order
\* (EndSourceFileAction and the action of its own that each file has).
THEOREM FilesWholeOrUntouched == Spec => []WholeOrUntouched
<1>1. IInv => WholeOrUntouched
  BY DEF IInv
<1> QED
  BY <1>1, Safe, PTL

\* Exit status 0 means that each file the witness has an insertion for was
\* overwritten (the statuses that ClangTool::run adds up, and main returns).
THEOREM ZeroExitWritten == Spec => []ZeroMeansWritten
<1>1. IInv => ZeroMeansWritten
  BY DEF IInv
<1> QED
  BY <1>1, Safe, PTL

\* util.cpp:115-152: for any units laid out with white space between the tokens
\* and any starts of statements in them, whatever the run does, the search finds
\* the outermost node that starts at the position the witness names.
THEOREM OutermostIsFound ==
    ASSUME StatementsNamed
    PROVE  Spec => []SearchFindsOutermost
<1>1. TypeOK => SearchFindsOutermost
  <2> SUFFICES ASSUME TypeOK, NEW f \in Files, NEW loc \in prog[f].witnessed
               PROVE  largestASTNodeStartingAt(prog[f], loc) = Min(NodesAt(prog[f], loc))
    BY DEF SearchFindsOutermost
  <2>1. prog[f] \in Programs
    BY DEF TypeOK
  <2>2. prog[f] \in TranslationUnits /\ WellFormed(prog[f])
    BY <2>1, ProgramsAssumption
  <2>3. loc \in Nat
    BY <2>2 DEF TranslationUnits
  <2>4. SourceOrdered(prog[f]) /\ StatementStart(prog[f], loc)
    BY <2>1 DEF StatementsNamed
  <2> QED
    BY <2>2, <2>3, <2>4, SearchIsOutermost
<1> QED
  BY <1>1, TypeCorrect, PTL

-----------------------------------------------------------------------------
(* A run of witness_inject is an atomic injection, and what it writes is   *)
(* what the document states.                                               *)

\* Before the first item there is nothing.
FreshReader == phase = "start" => doc = <<>> /\ witness = <<>> /\ yamlError = FALSE

\* The k-th invariant kept is the document's k-th item, and none before it is
\* flawed; with a flaw in its type or its file name it names no file.
Stated(k) ==
    /\ k \in DOMAIN doc
    /\ \A j \in 1..(k - 1) : doc[j].flaw = "none"
    /\ IF doc[k].flaw \in {"type", "file_name"}
       THEN witness[k].name = NoName
       ELSE /\ witness[k].type = doc[k].type
            /\ witness[k].name = IF phase = "read" THEN doc[k].name ELSE Resolve(doc[k].name)
            /\ doc[k].flaw \in {"line", "column"} \/ witness[k].loc = doc[k].loc

WitnessIsDocument ==
    /\ phase \in {"read", "file", "ast"} => \A k \in DOMAIN witness : Stated(k)
    /\ phase = "read" /\ ~yamlError =>
           Len(witness) = Len(doc) /\ \A j \in DOMAIN doc : doc[j].flaw = "none"

AskedOfWitness ==
    /\ phase \in {"start", "read"} => asked = [f \in Files |-> Original]
    /\ phase \in {"file", "ast"} => \A f \in Files : asked[f] = InsertionsOf(witness, f)

\* The files still to come are as they were.
RestUntouched ==
    phase \in {"file", "ast"} => \A i \in source..Len(Sources) : disk[Sources[i]] = Original

OnlyAsked == \A f \in Files : disk[f] # Original => disk[f] = asked[f]

\* What is known besides IInv.
AInv ==
    /\ FreshReader /\ WitnessIsDocument /\ AskedOfWitness
    /\ RestUntouched /\ OnlyAsked /\ InjectedAsStated

LEMMA AtomicInit == Init => AInv
BY EmptySeq DEF Init, AInv, FreshReader, WitnessIsDocument, AskedOfWitness, RestUntouched,
                OnlyAsked, InjectedAsStated, Original

\* While the witness is read no file is written.
LEMMA NoFileYet ==
    ASSUME IInv, phase \in {"start", "read"}, UNCHANGED <<disk, source>>
    PROVE  OnlyAsked' /\ InjectedAsStated' /\ RestUntouched'
<1>1. \A f \in Files : disk'[f] = Original
  BY DEF IInv, NothingYet
<1>2. OnlyAsked'
  BY <1>1 DEF OnlyAsked
<1>3. InjectedAsStated'
  <2>1. \A f \in Files : DOMAIN disk'[f] = {}
    BY <1>1, EmptySeq DEF Original
  <2> QED
    BY <2>1 DEF InjectedAsStated
<1>4. RestUntouched'
  <2>1. source \in Nat \ {0}
    BY SourcesFacts DEF IInv, TypeOK
  <2> QED
    BY <1>1, <2>1, SourcesFacts DEF RestUntouched
<1> QED
  BY <1>2, <1>3, <1>4

\* Once it is read, a step that writes no file and goes on to no earlier one.
LEMMA NoFileNow ==
    ASSUME IInv, AInv, phase \in {"file", "ast"},
           phase' \in {"file", "ast", "exited", "killed"},
           UNCHANGED <<prog, skipSwitchcases, doc, yamlError, witness, disk, asked>>,
           source' \in {source, source + 1}
    PROVE  AInv'
<1>1. \A f : InsertionsOf(witness, f)' = InsertionsOf(witness, f)
  BY DEF InsertionsOf, EditsOf
<1>2. \A k : (Stated(k) /\ phase' \in {"file", "ast"}) => Stated(k)'
  BY DEF Stated
<1>3. WitnessIsDocument'
  BY <1>2 DEF AInv, WitnessIsDocument
<1>4. AskedOfWitness'
  BY <1>1 DEF AInv, AskedOfWitness
<1>5. RestUntouched'
  <2>1. source \in Nat /\ Len(Sources) \in Nat
    BY SourcesFacts DEF IInv, TypeOK
  <2> QED
    BY <2>1 DEF AInv, RestUntouched
<1> QED
  BY <1>3, <1>4, <1>5 DEF AInv, FreshReader, OnlyAsked, InjectedAsStated

\* Another item leaves what the earlier ones have become.
LEMMA StatedStays ==
    ASSUME IInv, NEW item \in Items, phase = "read", UNCHANGED phase,
           doc' = Append(doc, item), NEW k \in DOMAIN witness, Stated(k),
           witness'[k] = witness[k]
    PROVE  Stated(k)'
<1>1. /\ \A j \in DOMAIN doc : j \in DOMAIN doc' /\ doc'[j] = doc[j]
      /\ DOMAIN doc = 1..Len(doc) /\ Len(doc) \in Nat
  BY AppendProperties, LenProperties DEF IInv, TypeOK
<1>2. k \in 1..Len(doc) /\ \A j \in 1..(k - 1) : j \in DOMAIN doc
  BY <1>1, LenProperties DEF Stated, IInv, TypeOK
<1> QED
  BY <1>1, <1>2 DEF Stated

LEMMA ReadIsStated ==
    ASSUME IInv, AInv, NEW item \in Items, NEW anyLoc \in Nat, ReadItem(item, anyLoc)
    PROVE  WitnessIsDocument'
<1> PICK n \in Nat : n = Len(doc)
  BY LenProperties DEF IInv, TypeOK
<1> DEFINE kept == Kept(item, anyLoc)
<1>1. /\ phase = "read" /\ phase' = "read" /\ doc' = Append(doc, item)
      /\ witness' = IF yamlError THEN witness ELSE witness \o kept
      /\ yamlError' = (yamlError \/ item.flaw # "none")
  BY DEF ReadItem
<1>2. /\ n \in Nat /\ Len(doc') = n + 1 /\ doc'[n + 1] = item
      /\ DOMAIN doc' = 1..(n + 1) /\ DOMAIN doc = 1..n
      /\ \A j \in 1..n : doc'[j] = doc[j]
  BY <1>1, AppendProperties, LenProperties DEF IInv, TypeOK
<1>3. Len(witness) \in Nat /\ DOMAIN witness = 1..Len(witness) /\ witness \in Seq(Invariants)
  BY LenProperties DEF IInv, TypeOK
<1>4. \A k \in DOMAIN witness : Stated(k)
  BY <1>1 DEF AInv, WitnessIsDocument
<1>5. CASE yamlError
  <2>1. witness' = witness /\ yamlError'
    BY <1>1, <1>5
  <2> QED
    BY <1>1, <1>4, <2>1, StatedStays DEF WitnessIsDocument
<1>6. CASE ~yamlError
  <2>1. Len(witness) = n /\ \A j \in 1..n : doc[j].flaw = "none"
    BY <1>1, <1>2, <1>6 DEF AInv, WitnessIsDocument
  <2>2. CASE item.flaw = "entry_type"
    <3>1. kept = <<>> /\ yamlError'
      BY <1>1, <2>2 DEF Kept
    <3>2. witness' = witness
      BY <1>1, <1>3, <1>6, <3>1, ConcatEmptySeq
    <3> QED
      BY <1>1, <1>4, <3>1, <3>2, StatedStays DEF WitnessIsDocument
  <2>3. CASE item.flaw # "entry_type"
    <3> DEFINE inv == [type  |-> IF item.flaw = "type" THEN "location_invariant" ELSE item.type,
                       name  |-> IF item.flaw \in {"type", "file_name"} THEN NoName ELSE item.name,
                       loc   |-> IF item.flaw \in {"line", "column"} THEN anyLoc ELSE item.loc,
                       value |-> item.flaw \in {"none", "format"}]
    <3>1. kept = <<inv>>
      BY <2>3 DEF Kept
    <3>2. kept \in Seq(Invariants)
      BY KeptType
    <3>3. /\ Len(witness') = n + 1 /\ DOMAIN witness' = 1..(n + 1) /\ witness'[n + 1] = inv
          /\ \A k \in 1..n : witness'[k] = witness[k]
      <4>1. Len(kept) = 1 /\ kept[1] = inv
        <5> HIDE DEF inv
        <5> QED
          BY <3>1
      <4> HIDE DEF inv, kept
      <4>2. witness' = witness \o kept
        BY <1>1, <1>6
      <4>3. witness \o kept \in Seq(Invariants) /\ Len(witness \o kept) = n + 1
        <5>1. /\ witness \o kept \in Seq(Invariants)
              /\ Len(witness \o kept) = Len(witness) + Len(kept)
          BY <1>3, <3>2, ConcatProperties
        <5> QED
          BY <2>1, <4>1, <5>1
      <4>4. \A i \in 1..Len(witness) + Len(kept) : (witness \o kept)[i] =
                IF i <= Len(witness) THEN witness[i] ELSE kept[i - Len(witness)]
        BY <1>3, <3>2, ConcatProperties
      <4>5. DOMAIN witness' = 1..(n + 1)
        BY <4>2, <4>3, LenProperties
      <4> QED
        BY <1>2, <2>1, <4>1, <4>2, <4>3, <4>4, <4>5
    <3>4. \A k \in 1..n : Stated(k)'
      BY <1>1, <1>3, <1>4, <2>1, <3>3, StatedStays
    <3>5. Stated(n + 1)'
      <4>1. \A j \in 1..((n + 1) - 1) : doc'[j].flaw = "none"
        BY <1>2, <2>1
      <4> QED
        BY <1>1, <1>2, <3>3, <4>1 DEF Stated
    <3>6. \A k \in DOMAIN witness' : Stated(k)'
      BY <1>2, <3>3, <3>4, <3>5
    <3>7. ASSUME ~yamlError', NEW j \in DOMAIN doc' PROVE doc'[j].flaw = "none"
      <4>1. j \in 1..n \/ j = n + 1
        BY <1>2
      <4>2. item.flaw = "none"
        BY <1>1, <3>7
      <4> QED
        BY <1>2, <2>1, <4>1, <4>2
    <3>8. Len(witness') = Len(doc')
      BY <1>2, <3>3
    <3> QED
      BY <3>6, <3>7, <3>8 DEF WitnessIsDocument
  <2> QED
    BY <2>2, <2>3
<1> QED
  BY <1>5, <1>6

\* The end of the reading: the names are resolved, and what each file is asked to
\* hold is settled.
LEMMA EndReadSettles ==
    ASSUME IInv, AInv, EndRead \/ SyntaxError
    PROVE  WitnessIsDocument' /\ AskedOfWitness'
<1>1. phase = "read" /\ phase' = "file" /\ doc' = doc
  BY DEF EndRead, SyntaxError
<1>2. \A k \in DOMAIN witness : Stated(k)
  BY <1>1 DEF AInv, WitnessIsDocument
<1>3. CASE EndRead
  <2>1. witness' = [k \in DOMAIN witness |-> [witness[k] EXCEPT !.name = Resolve(@)]]
    BY <1>3 DEF EndRead
  <2>2. UNCHANGED <<prog, skipSwitchcases>> /\
        asked' = [f \in Files |-> InsertionsOf(witness', f)]
    BY <1>3 DEF EndRead, config
  <2>3. \A f \in Files : asked'[f] = InsertionsOf(witness, f)'
    BY <2>2 DEF InsertionsOf, EditsOf
  <2>4. ASSUME NEW k \in DOMAIN witness PROVE Stated(k)'
    <3>1. witness[k] \in Invariants /\ Stated(k)
      BY <1>2, <2>4, LenProperties, ElementOfSeq DEF IInv, TypeOK
    <3>2. /\ witness'[k].name = Resolve(witness[k].name)
          /\ witness'[k].type = witness[k].type /\ witness'[k].loc = witness[k].loc
      BY <2>1, <3>1 DEF Invariants
    <3>3. Resolve(NoName) = NoName
      BY NamesAssumption DEF Resolve, Names
    <3> QED
      BY <1>1, <3>1, <3>2, <3>3 DEF Stated
  <2> QED
    BY <1>1, <2>1, <2>3, <2>4 DEF WitnessIsDocument, AskedOfWitness
<1>4. CASE SyntaxError
  <2>1. doc = <<>> /\ UNCHANGED <<prog, skipSwitchcases, witness, asked>>
    BY <1>4 DEF SyntaxError, config
  <2>2. DOMAIN witness = {}
    <3>1. DOMAIN doc = {}
      BY <2>1, EmptySeq
    <3> QED
      BY <1>2, <3>1 DEF Stated
  <2>3. \A f \in Files : asked[f] = Original /\ InsertionsOf(witness, f) = Original
    BY <1>1, <2>2 DEF AInv, AskedOfWitness, InsertionsOf
  <2>4. \A f : InsertionsOf(witness, f)' = InsertionsOf(witness, f)
    BY <2>1 DEF InsertionsOf, EditsOf
  <2> QED
    BY <1>1, <2>1, <2>2, <2>3, <2>4 DEF WitnessIsDocument, AskedOfWitness
<1> QED
  BY <1>3, <1>4

\* A file that is finished is left as it is, or holds what it is asked to.
LEMMA EndSourceWrites ==
    ASSUME IInv, AInv, NEW w \in BOOLEAN, EndSourceFileAction(w)
    PROVE  /\ Sources[source] \in Files /\ disk[Sources[source]] = Original
           /\ \/ UNCHANGED disk
              \/ disk' = [disk EXCEPT ![Sources[source]] = asked[Sources[source]]]
           /\ asked[Sources[source]] # Original =>
                  asked[Sources[source]] = Insertions(Sources[source])
<1> DEFINE file == Sources[source]
           changed == \E k \in DOMAIN edits : edits[k] # <<>>
<1>1. phase = "ast" /\ cursor > Len(witness) /\ source \in 1..Len(Sources) /\ file \in Files
  BY SourcesFacts DEF EndSourceFileAction, IInv, TypeOK, FileAtHand
<1>2. edits = Insertions(file)
  BY <1>1, CompleteLog DEF IInv
<1>3. disk[file] = Original
  BY <1>1 DEF AInv, RestUntouched
<1>4. asked[file] = InsertionsOf(witness, file)
  BY <1>1 DEF AInv, AskedOfWitness
<1>5. changed => asked[file] = edits
  BY <1>2, <1>4 DEF Insertions, InsertionsOf, EditsFor
<1>6. asked[file] # Original => asked[file] = Insertions(file)
  BY <1>4 DEF Insertions, InsertionsOf, EditsFor
<1>7. disk' = IF changed /\ w THEN [disk EXCEPT ![file] = edits] ELSE disk
  BY DEF EndSourceFileAction
<1> QED
  BY <1>1, <1>3, <1>5, <1>6, <1>7

LEMMA EndSourceIsStated ==
    ASSUME IInv, AInv, NEW w \in BOOLEAN, EndSourceFileAction(w)
    PROVE  AInv'
<1> DEFINE file == Sources[source]
<1>1. /\ file \in Files /\ disk[file] = Original
      /\ UNCHANGED disk \/ disk' = [disk EXCEPT ![file] = asked[file]]
      /\ asked[file] # Original => asked[file] = Insertions(file)
  BY EndSourceWrites
<1>2. /\ phase = "ast" /\ phase' = "file" /\ source' = source + 1
      /\ UNCHANGED <<prog, skipSwitchcases, doc, yamlError, witness, asked>>
      /\ source \in 1..Len(Sources)
  BY SourcesFacts DEF EndSourceFileAction, config, reading, IInv, TypeOK, FileAtHand
<1>3. CASE UNCHANGED disk
  BY <1>2, <1>3, NoFileNow
<1>4. CASE disk' = [disk EXCEPT ![file] = asked[file]] /\ asked[file] # Original
  <2>1. \A f \in Files : disk'[f] = IF f = file THEN asked[file] ELSE disk[f]
    BY <1>1, <1>4 DEF IInv, TypeOK
  <2>2. FreshReader' /\ WitnessIsDocument'
    BY <1>2 DEF AInv, FreshReader, WitnessIsDocument, Stated
  <2>3. AskedOfWitness'
    BY <1>2 DEF AInv, AskedOfWitness, InsertionsOf, EditsOf
  <2>4. OnlyAsked'
    BY <1>2, <2>1 DEF AInv, OnlyAsked
  <2>5. RestUntouched'
    <3> SUFFICES ASSUME NEW i \in (source + 1)..Len(Sources)
                 PROVE  disk'[Sources[i]] = Original
      BY <1>2 DEF RestUntouched
    <3>1. i \in source..Len(Sources) /\ i \in 1..Len(Sources) /\ i # source
      BY <1>2, SourcesFacts
    <3>2. Sources[i] \in Files /\ Sources[i] # file
      BY <1>2, <3>1, SourcesFacts, SourcesAssumption
    <3>3. disk[Sources[i]] = Original
      BY <1>2, <3>1 DEF AInv, RestUntouched
    <3> QED
      BY <2>1, <3>2, <3>3
  <2>6. InjectedAsStated'
    <3> SUFFICES ASSUME NEW f \in Files, NEW k \in DOMAIN disk'[f], disk'[f][k] # <<>>
                 PROVE  /\ k \in DOMAIN doc /\ Resolve(doc[k].name) = f
                        /\ witness[k].type = doc[k].type
                        /\ doc[k].flaw \in {"line", "column"} \/ witness[k].loc = doc[k].loc
                        /\ \A j \in 1..(k - 1) : doc[j].flaw = "none"
      BY <1>2 DEF InjectedAsStated
    <3>1. CASE f = file
      <4>1. disk'[f] = Insertions(file)
        BY <1>1, <1>4, <2>1, <3>1
      <4>2. k \in DOMAIN witness /\ EditsFor(file, k) # <<>>
        BY <4>1 DEF Insertions
      <4>3. witness[k].name = f
        BY <3>1, <4>2 DEF EditsFor, EditsOf
      <4>4. Stated(k)
        BY <1>2, <4>2 DEF AInv, WitnessIsDocument
      <4>5. f # NoName
        BY <1>2, <3>1, SourcesFacts, NamesAssumption DEF Names
      <4> QED
        BY <1>2, <4>3, <4>4, <4>5 DEF Stated
    <3>2. CASE f # file
      BY <2>1, <3>2 DEF AInv, InjectedAsStated
    <3> QED
      BY <3>1, <3>2
  <2> QED
    BY <2>2, <2>3, <2>4, <2>5, <2>6 DEF AInv
<1>5. CASE disk' = [disk EXCEPT ![file] = asked[file]] /\ asked[file] = Original
  <2>1. UNCHANGED disk
    BY <1>1, <1>5 DEF IInv, TypeOK
  <2> QED
    BY <1>2, <2>1, NoFileNow
<1> QED
  BY <1>1, <1>3, <1>4, <1>5

-----------------------------------------------------------------------------
LEMMA StatedNext == IInv /\ AInv /\ [Next]_vars => AInv'
<1> SUFFICES ASSUME IInv, AInv, [Next]_vars PROVE AInv'
  OBVIOUS
<1> USE DEF config, reading, running
\* What the steps up to the first file have in common.
<1>1. ASSUME phase \in {"start", "read"}, phase' # "start", UNCHANGED <<disk, source>>,
             WitnessIsDocument', AskedOfWitness'
      PROVE  AInv'
  BY <1>1, NoFileYet DEF AInv, FreshReader
<1>2. CASE OpenFails \/ RealPathFails \/ (Kill /\ phase \in {"start", "read"})
  <2>1. phase' \in {"exited", "aborted", "killed"}
    BY <1>2 DEF OpenFails, RealPathFails, Kill
  <2> QED
    BY <1>1, <1>2, <2>1 DEF OpenFails, RealPathFails, Kill, WitnessIsDocument, AskedOfWitness
<1>3. CASE Open
  <2>1. /\ phase = "start" /\ phase' = "read" /\ UNCHANGED <<disk, source>>
        /\ doc' = <<>> /\ witness' = <<>> /\ asked' = asked
    BY <1>3 DEF Open, AInv, FreshReader
  <2>2. WitnessIsDocument'
    BY <2>1, EmptySeq DEF WitnessIsDocument
  <2>3. AskedOfWitness'
    BY <2>1 DEF AInv, AskedOfWitness
  <2> QED
    BY <1>1, <2>1, <2>2, <2>3
<1>4. CASE ReadAnItem
  <2>1. PICK name \in Names, type \in Types, flaw \in Flaws \cup {"none"} :
          \E loc, anyLoc \in PositionsIn(Resolve(name)) :
             ReadItem([type |-> type, name |-> name, loc |-> loc, flaw |-> flaw], anyLoc)
    BY <1>4 DEF ReadAnItem
  <2>2. PositionsIn(Resolve(name)) \subseteq Nat
    BY ProgramsAssumption DEF IInv, TypeOK, PositionsIn, TranslationUnits
  <2>3. PICK loc \in Nat, anyLoc \in Nat :
             ReadItem([type |-> type, name |-> name, loc |-> loc, flaw |-> flaw], anyLoc)
    BY <2>1, <2>2
  <2> DEFINE item == [type |-> type, name |-> name, loc |-> loc, flaw |-> flaw]
  <2>4. item \in Items
    BY DEF Items
  <2> HIDE DEF item
  <2>5. ReadItem(item, anyLoc)
    BY <2>3 DEF item
  <2>6. WitnessIsDocument'
    BY <2>4, <2>5, ReadIsStated
  <2>7. /\ phase = "read" /\ phase' = "read"
        /\ UNCHANGED <<disk, source, asked>>
    BY <2>5 DEF ReadItem
  <2>8. AskedOfWitness'
    BY <2>7 DEF AInv, AskedOfWitness
  <2> QED
    BY <1>1, <2>6, <2>7, <2>8
<1>5. CASE EndRead \/ SyntaxError
  <2>1. phase = "read" /\ phase' = "file" /\ UNCHANGED <<disk, source>>
    BY <1>5 DEF EndRead, SyntaxError
  <2> QED
    BY <1>1, <1>5, <2>1, EndReadSettles
<1>6. CASE SkipSource \/ (\E e \in BOOLEAN : BeginSource(e)) \/ HandleInvariant \/ Exit
  <2>1. /\ phase \in {"file", "ast"} /\ phase' \in {"file", "ast", "exited"}
        /\ UNCHANGED <<prog, skipSwitchcases, doc, yamlError, witness, disk, asked>>
        /\ source' \in {source, source + 1}
    BY <1>6 DEF SkipSource, BeginSource, HandleInvariant, Exit
  <2> QED
    BY <2>1, NoFileNow
<1>7. CASE Kill /\ phase \in {"file", "ast"}
  <2>1. /\ phase' = "killed" /\ source' = source
        /\ UNCHANGED <<prog, skipSwitchcases, doc, yamlError, witness, disk, asked>>
    BY <1>7 DEF Kill
  <2> QED
    BY <1>7, <2>1, NoFileNow
<1>8. CASE \E w \in BOOLEAN : EndSourceFileAction(w)
  BY <1>8, EndSourceIsStated
<1>9. CASE UNCHANGED vars
  <2>1. UNCHANGED <<prog, skipSwitchcases, phase, doc, yamlError, witness, source, disk, asked>>
    BY <1>9 DEF vars
  <2>2. WitnessIsDocument' /\ FreshReader'
    BY <2>1 DEF AInv, WitnessIsDocument, FreshReader, Stated
  <2>3. AskedOfWitness'
    BY <2>1 DEF AInv, AskedOfWitness, InsertionsOf, EditsOf
  <2> QED
    BY <2>1, <2>2, <2>3 DEF AInv, RestUntouched, OnlyAsked, InjectedAsStated
<1> QED
  BY <1>2, <1>3, <1>4, <1>5, <1>6, <1>7, <1>8, <1>9 DEF Next, Over, Kill

LEMMA Stands == Spec => [](IInv /\ AInv)
BY SafeInit, SafeNext, AtomicInit, StatedNext, PTL DEF Spec

\* Only what the document states is written, and only from in front of its first
\* flaw (Entry::ReadInto, whose errors nobody reads).
THEOREM WrittenAsStated == Spec => []InjectedAsStated
<1>1. AInv => InjectedAsStated
  BY DEF AInv
<1> QED
  BY <1>1, Stands, PTL

-----------------------------------------------------------------------------
\* Exit status 0: each file holds what it is asked to hold.
LEMMA ZeroMeansAll ==
    ASSUME IInv, AInv, Exit, status' = 0
    PROVE  disk = asked
<1>1. phase = "file" /\ source > Len(Sources) /\ ~failed
  BY DEF Exit
<1>2. ASSUME NEW f \in Files PROVE disk[f] = asked[f]
  <2>1. CASE disk[f] # Original
    BY <2>1 DEF AInv, OnlyAsked
  <2>2. CASE disk[f] = Original
    <3>1. PICK i \in 1..Len(Sources) : f = Sources[i]
      BY DEF Files
    <3>2. i \in 1..(source - 1)
      BY <1>1, SourcesFacts DEF IInv, TypeOK
    <3>3. ~HasInsertions(f)
      BY <1>1, <2>2, <3>1, <3>2 DEF IInv, PassedAreWritten
    <3>4. asked[f] = InsertionsOf(witness, f)
      BY <1>1 DEF AInv, AskedOfWitness
    <3> QED
      BY <2>2, <3>3, <3>4 DEF InsertionsOf, HasInsertions, EditsFor
  <2> QED
    BY <2>1, <2>2
<1> QED
  BY <1>2 DEF IInv, TypeOK

LEMMA StepIsAtomic == IInv /\ AInv /\ IInv' /\ [Next]_vars => [Atomic!Next]_(Atomic!vars)
<1> SUFFICES ASSUME IInv, AInv, IInv', [Next]_vars
             PROVE  Atomic!Next \/ UNCHANGED <<asked, disk, status>>
  BY DEF Atomic!vars
<1> USE DEF config, reading, running
<1>1. CASE OpenFails
  <2>1. status = NoStatus /\ status' = 1 /\ UNCHANGED <<asked, disk>>
    BY <1>1 DEF OpenFails, IInv, StatusOnlyAtExit
  <2> QED
    BY <2>1 DEF Atomic!Next, Atomic!Exit
<1>2. CASE EndRead
  <2>1. phase = "read" /\ UNCHANGED <<disk, status>>
    BY <1>2 DEF EndRead
  <2>2. status = NoStatus /\ \A f \in Files : disk[f] = Original
    BY <2>1 DEF IInv, StatusOnlyAtExit, NothingYet
  <2>3. disk = [f \in Files |-> Original] /\ asked = [f \in Files |-> Original]
    BY <2>1, <2>2 DEF IInv, TypeOK, AInv, AskedOfWitness
  <2>4. asked' \in [Files -> Seq(Seq(Edits))]
    BY DEF IInv, TypeOK
  <2> QED
    BY <2>1, <2>2, <2>3, <2>4 DEF Atomic!Next, Atomic!Ask, Atomic!Untouched
<1>3. ASSUME NEW w \in BOOLEAN, EndSourceFileAction(w)
      PROVE  Atomic!Next \/ UNCHANGED <<asked, disk, status>>
  <2>1. /\ Sources[source] \in Files /\ disk[Sources[source]] = Original
        /\ \/ UNCHANGED disk
           \/ disk' = [disk EXCEPT ![Sources[source]] = asked[Sources[source]]]
    BY <1>3, EndSourceWrites
  <2>2. status = NoStatus /\ UNCHANGED <<asked, status>>
    BY <1>3 DEF EndSourceFileAction, IInv, StatusOnlyAtExit
  <2> QED
    BY <2>1, <2>2 DEF Atomic!Next, Atomic!Write
<1>4. CASE Exit
  <2>1. status = NoStatus /\ status' \in {0, 1} /\ UNCHANGED <<asked, disk>>
    BY <1>4 DEF Exit, IInv, StatusOnlyAtExit
  <2>2. status' = 0 => disk = asked
    BY <1>4, ZeroMeansAll
  <2> QED
    BY <2>1, <2>2 DEF Atomic!Next, Atomic!Exit
<1>5. CASE \/ Open \/ ReadAnItem \/ SyntaxError \/ RealPathFails \/ SkipSource
           \/ (\E e \in BOOLEAN : BeginSource(e)) \/ HandleInvariant \/ Kill
  BY ZenonT(30), <1>5 DEF Open, ReadAnItem, ReadItem, SyntaxError, RealPathFails, SkipSource,
              BeginSource, HandleInvariant, Kill
<1>6. CASE UNCHANGED vars
  BY <1>6 DEF vars
<1> QED
  BY <1>1, <1>2, <1>3, <1>4, <1>5, <1>6 DEF Next, Over

\* A run of witness_inject implements the atomic injection: reader, driver loop,
\* Rewriter and failures let nothing be seen but whole files written once, and a
\* status 0 that vouches for all of them.
THEOREM Refinement == Spec => InjectsAtomically
<1>1. Init => Atomic!Init
  BY DEF Init, Atomic!Init, Atomic!Untouched
<1> QED
  BY <1>1, Stands, StepIsAtomic, PTL DEF Spec, InjectsAtomically, Atomic!Spec
=============================================================================
