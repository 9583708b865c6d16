----------------------- MODULE MalformedAssertsProofs -----------------------
(***************************************************************************)
(* What the eraser leaves alone, and where it finds the errors, for any    *)
(* text, any errors and any name; and what it erases, for texts of any     *)
(* number of tokens.                                                       *)
(***************************************************************************)
EXTENDS MCMalformed, FlattenTheorems, FiniteSetTheorems

\* A segment is looked for from its first character on.
ScanInv == pc = "scan" => offset < Size /\ offset <= end_offset

\* What has been written lies before the index.
Behind == \A i \in 1..Len(out) : out[i] < index

IInv == TypeOK /\ ScanInv /\ Behind /\ RestCopied

-----------------------------------------------------------------------------
LEMMA SizeType == TypeOK => Size \in Nat /\ Len(AssertFn) \in Nat \ {0}
  BY AssertFnAssumption DEF TypeOK, Size

LEMMA BeforeType == ASSUME TypeOK, NEW l \in Int PROVE Before(l) \in Nat
<1> DEFINE S == {o \in 0..Size - 1 : Newlines(o) < l - 1}
<1>1. IsFiniteSet(0..Size - 1)
  BY SizeType, FS_Interval
<1>2. IsFiniteSet(S)
  BY <1>1, FS_Subset
<1> QED
  BY <1>2, FS_CardinalityType DEF Before

LEMMA InitSafe == Init => IInv
<1> SUFFICES ASSUME Init PROVE IInv
  OBVIOUS
<1> Size \in Nat
  BY DEF Init, Size
<1>1. TypeOK
  <2>1. segments = [o \in {} |-> 0] /\ DOMAIN segments = {}
    BY DEF Init
  <2> QED
    BY <2>1 DEF Init, TypeOK
<1>2. out = <<>> /\ index = 0 /\ pc # "scan" /\ Len(out) = 0
  BY DEF Init
<1> QED
  BY <1>1, <1>2 DEF IInv, ScanInv, Behind, RestCopied

\* Outside the copying, what is written so far is only in want of segments that
\* are not lost.
LEMMA RestKept ==
    ASSUME IInv, UNCHANGED <<content, index, out>>,
           DOMAIN segments \subseteq DOMAIN segments',
           \A o \in DOMAIN segments : segments[o] <= segments'[o] /\ segments'[o] \in Int
    PROVE  Behind' /\ RestCopied'
<1>1. ASSUME NEW p \in 0..Size - 1, Covered(p) PROVE Covered(p)'
  BY <1>1, SizeType DEF Covered, IInv, TypeOK
<1>2. Size' = Size
  BY DEF Size
<1> QED
  BY <1>1, <1>2 DEF IInv, Behind, RestCopied

LEMMA RecordedSafe ==
    ASSUME IInv, NEW end \in offset + 1..Size + 1, offset < Size, segments' = Recorded(end),
           content' = content
    PROVE  /\ DOMAIN segments' \subseteq 0..Size - 1
           /\ \A o \in DOMAIN segments' : segments'[o] \in o + 1..Size + 1
           /\ DOMAIN segments \subseteq DOMAIN segments'
           /\ \A o \in DOMAIN segments : segments[o] <= segments'[o] /\ segments'[o] \in Int
<1> USE SizeType DEF IInv, TypeOK
<1>1. DOMAIN segments' = DOMAIN segments \cup {offset}
  BY DEF Recorded
<1>2. \A o \in DOMAIN segments' : segments'[o] \in o + 1..Size + 1
  BY <1>1 DEF Recorded
<1>3. \A o \in DOMAIN segments : segments[o] <= segments'[o]
  BY <1>1 DEF Recorded
<1> QED
  BY <1>1, <1>2, <1>3

-----------------------------------------------------------------------------
LEMMA LoadSafe == IInv /\ LoadResult => IInv'
<1> SUFFICES ASSUME IInv, LoadResult PROVE IInv'
  OBVIOUS
<1> DEFINE loc == Location(errors[loaded'])
           o == get_offset_by_loc(loc)
<1> USE SizeType
<1>0. Size' = Size /\ loaded' \in 0..Len(errors)
  BY DEF LoadResult, IInv, TypeOK, Size, given
<1>1. Behind' /\ RestCopied'
  BY RestKept DEF LoadResult, given, IInv, TypeOK
<1>2. CASE ~Valid(loc)
  BY <1>0, <1>1, <1>2 DEF LoadResult, given, scanner, IInv, TypeOK, ScanInv
<1>3. CASE Valid(loc)
  <2>1. loc.line \in Int /\ loc.column \in Nat \ {0}
    <3>1. Cardinality({p \in 0..Size - 1 : Newlines(p) = loc.line - 1}) \in Nat
      <4>1. IsFiniteSet(0..Size - 1)
        BY FS_Interval DEF IInv
      <4>2. IsFiniteSet({p \in 0..Size - 1 : Newlines(p) = loc.line - 1})
        BY <4>1, FS_Subset
      <4> QED
        BY <4>2, FS_CardinalityType
    <3> QED
      BY <1>3, <3>1 DEF Valid, file_map
  <2>2. o \in Nat
    <3> HIDE DEF loc
    <3>1. TypeOK
      BY DEF IInv
    <3>2. Before(loc.line) \in Nat
      BY <2>1, <3>1, BeforeType
    <3> QED
      BY <2>1, <3>2 DEF get_offset_by_loc
  <2>3. CASE ~IsAssert(o)
    BY <1>0, <1>1, <1>3, <2>2, <2>3 DEF LoadResult, given, scanner, IInv, TypeOK, ScanInv
  <2>4. CASE IsAssert(o)
    <3>1. o < Size
      BY <2>2, <2>4 DEF IsAssert, IInv
    <3>2. /\ pc' = "scan" /\ offset' = o /\ end_offset' = o /\ paren_depth' = 0 /\ quote' = None
          /\ UNCHANGED <<given, compiler, segments, index, out>>
      BY <1>3, <2>4 DEF LoadResult
    <3>3. TypeOK'
      BY <1>0, <2>2, <3>1, <3>2 DEF given, IInv, TypeOK
    <3> QED
      BY <1>0, <1>1, <2>2, <3>1, <3>2, <3>3 DEF IInv, ScanInv
  <2> QED
    BY <2>3, <2>4
<1> QED
  BY <1>2, <1>3

LEMMA ScanSafe == IInv /\ Scan => IInv'
<1> SUFFICES ASSUME IInv, Scan PROVE IInv'
  OBVIOUS
<1> USE SizeType
<1>0. /\ Size' = Size /\ pc = "scan" /\ end_offset < Size /\ offset < Size /\ offset <= end_offset
      /\ UNCHANGED <<given, content, compiler, loaded, offset, index, out>>
  BY DEF Scan, Size, given, IInv, ScanInv
<1>1. ASSUME end_offset' \in {end_offset, end_offset + 1, end_offset + 2}, paren_depth' \in Nat,
             quote' \in Quotes \cup {None}, pc' \in {"scan", "load"}, segments' = segments
      PROVE  IInv'
  <2>1. Behind' /\ RestCopied'
    BY <1>0, <1>1, RestKept DEF IInv, TypeOK
  <2>2. TypeOK' /\ ScanInv'
    BY <1>0, <1>1 DEF IInv, TypeOK, ScanInv, given
  <2> QED
    BY <2>1, <2>2 DEF IInv
<1>2. CASE quote = None /\ OpenParen
  BY <1>0, <1>1, <1>2 DEF OpenParen, IInv, TypeOK
<1>3. CASE quote = None /\ CloseParen /\ paren_depth # 1
  BY <1>0, <1>1, <1>3 DEF CloseParen, IInv, TypeOK
<1>4. CASE quote = None /\ CloseParen /\ paren_depth = 1
  <2>1. /\ paren_depth' = 0 /\ end_offset' = end_offset + 1 /\ pc' = "load" /\ quote' = quote
        /\ segments' = Recorded(end_offset')
    BY <1>4 DEF CloseParen, IInv, TypeOK
  <2>2. end_offset' \in offset + 1..Size + 1
    BY <1>0, <2>1 DEF IInv, TypeOK
  <2>3. Behind' /\ RestCopied'
    BY <1>0, <2>1, <2>2, RecordedSafe, RestKept
  <2>4. TypeOK' /\ ScanInv'
    BY <1>0, <2>1, <2>2, RecordedSafe DEF IInv, TypeOK, ScanInv, given
  <2> QED
    BY <2>3, <2>4 DEF IInv
<1>5. CASE quote = None /\ OpenQuote
  BY <1>0, <1>1, <1>5 DEF OpenQuote, IInv, TypeOK
<1>6. CASE quote # None /\ InQuote
  BY <1>0, <1>1, <1>6 DEF InQuote, IInv, TypeOK
<1> QED
  BY <1>2, <1>3, <1>4, <1>5, <1>6 DEF Scan

LEMMA ScanEndsSafe == IInv /\ ScanEnds => IInv'
<1> SUFFICES ASSUME IInv, ScanEnds PROVE IInv'
  OBVIOUS
<1> USE SizeType
<1>0. /\ Size' = Size /\ pc' = "load" /\ end_offset >= Size /\ offset < Size
      /\ UNCHANGED <<given, content, compiler, loaded, offset, scanner, index, out>>
  BY DEF ScanEnds, Size, given, IInv, ScanInv
<1>1. CASE paren_depth = 0
  <2>1. segments' = Recorded(end_offset) /\ end_offset \in offset + 1..Size + 1
    BY <1>0, <1>1 DEF ScanEnds, IInv, TypeOK
  <2>2. Behind' /\ RestCopied'
    BY <1>0, <2>1, RecordedSafe, RestKept
  <2>3. TypeOK' /\ ScanInv'
    BY <1>0, <2>1, RecordedSafe DEF IInv, TypeOK, ScanInv, given, scanner
  <2> QED
    BY <2>2, <2>3 DEF IInv
<1>2. CASE paren_depth # 0
  <2>1. segments' = segments
    BY <1>2 DEF ScanEnds
  <2>2. Behind' /\ RestCopied'
    BY <1>0, <2>1, RestKept DEF IInv, TypeOK
  <2>3. TypeOK' /\ ScanInv'
    BY <1>0, <2>1 DEF IInv, TypeOK, ScanInv, given, scanner
  <2> QED
    BY <2>2, <2>3 DEF IInv
<1> QED
  BY <1>1, <1>2

\* The step that matters: the index passes either the character written or the
\* characters of the segment that starts there.
LEMMA CopySafe == IInv /\ Copy => IInv'
<1> SUFFICES ASSUME IInv, Copy PROVE IInv'
  OBVIOUS
<1> USE SizeType
<1>0. /\ Size' = Size /\ pc' = "copy" /\ index \in 0..Size - 1 /\ segments' = segments
      /\ UNCHANGED <<given, content, compiler, loaded, offset, scanner>>
  BY DEF Copy, Size, given, IInv, TypeOK
<1> DEFINE x == IF index \in DOMAIN segments THEN Skipped ELSE index
<1>1. out' = Append(out, x) /\ x \in {Skipped} \cup 0..Size - 1
  BY <1>0 DEF Copy
<1>2. index' \in index + 1..Size + 1 /\ (x = index => index' = index + 1)
      /\ (x # index => index \in DOMAIN segments /\ index' = segments[index])
  BY <1>0 DEF Copy, IInv, TypeOK, Skipped
<1>3. TypeOK' /\ ScanInv'
  BY <1>0, <1>1, <1>2 DEF IInv, TypeOK, ScanInv, given, scanner
<1>4. /\ Len(out') = Len(out) + 1 /\ Len(out) \in Nat
      /\ \A i \in 1..Len(out) : out'[i] = out[i] /\ out[i] \in Int
      /\ out'[Len(out) + 1] = x
  BY <1>1 DEF IInv, TypeOK, Skipped
<1>5. x < index' /\ x \in Int
  BY <1>0, <1>2 DEF Skipped
<1>6. Behind'
  BY <1>0, <1>2, <1>4, <1>5 DEF Behind, IInv
<1>7. ASSUME NEW i \in 1..Len(out'), NEW j \in 1..Len(out'), i < j, out'[i] # Skipped, out'[j] # Skipped
      PROVE  out'[i] < out'[j]
  <2>1. CASE j <= Len(out)
    BY <1>4, <1>7, <2>1 DEF IInv, RestCopied
  <2>2. CASE j = Len(out) + 1
    BY <1>4, <1>7, <2>2 DEF IInv, Behind
  <2> QED
    BY <1>4, <2>1, <2>2
<1>8. ASSUME NEW p \in 0..Size - 1, p < index'
      PROVE  (\E i \in 1..Len(out') : out'[i] = p) \/ Covered(p)'
  <2>1. CASE p < index
    <3>1. CASE Covered(p)
      BY <1>0, <3>1 DEF Covered
    <3>2. CASE \E i \in 1..Len(out) : out[i] = p
      BY <1>4, <3>2
    <3> QED
      BY <2>1, <3>1, <3>2 DEF IInv, RestCopied
  <2>2. CASE p >= index /\ x = index
    <3>1. p = x
      BY <1>2, <1>8, <2>2, <1>0
    <3> QED
      BY <1>4, <3>1
  <2>3. CASE p >= index /\ x # index
    BY <1>0, <1>2, <1>8, <2>3 DEF Covered
  <2> QED
    BY <1>0, <2>1, <2>2, <2>3
<1>9. RestCopied'
  BY <1>0, <1>7, <1>8 DEF RestCopied
<1> QED
  BY <1>3, <1>6, <1>9 DEF IInv

LEMMA NextSafe == IInv /\ [Next]_vars => IInv'
<1> SUFFICES ASSUME IInv, [Next]_vars PROVE IInv'
  OBVIOUS
<1>1. ASSUME UNCHANGED <<given, loaded, offset, scanner, segments, index, out>>,
             compiler' \in {"running", "exited"},
             pc' \in {"poll", "communicate", "load", "copy", "done", "failed", pc}
      PROVE  IInv'
  <2>1. Size' = Size
    BY <1>1 DEF Size, given
  <2> QED
    BY <1>1, <2>1 DEF given, scanner, IInv, TypeOK, ScanInv, Behind, RestCopied, Covered
<1>2. CASE CompilerExits
  BY <1>1, <1>2 DEF CompilerExits
<1>3. CASE Poll
  BY <1>1, <1>3 DEF Poll, IInv, TypeOK
<1>4. CASE Communicate
  BY <1>1, <1>4 DEF Communicate, IInv, TypeOK
<1>5. CASE AllLoaded
  BY <1>1, <1>5 DEF AllLoaded, IInv, TypeOK
<1>6. CASE Copied
  BY <1>1, <1>6 DEF Copied, IInv, TypeOK
<1>7. CASE UNCHANGED vars
  BY <1>1, <1>7 DEF vars, IInv, TypeOK
<1> QED
  BY <1>2, <1>3, <1>4, <1>5, <1>6, <1>7, LoadSafe, ScanSafe, ScanEndsSafe, CopySafe
  DEF Next, Erase, Over

\* Type correctness of the eraser: the scan never leaves the text by more than
\* the one character an escape steps over, and a segment is never empty, so the
\* copying always goes forward.
THEOREM EraserTypeCorrect == Spec => []TypeOK
<1>1. IInv => TypeOK
  BY DEF IInv
<1> QED
  BY <1>1, InitSafe, NextSafe, PTL DEF Spec

\* For any text, any errors and any name of the assertions, all that is not in a
\* recorded segment is written, once and in order.
THEOREM NothingElseIsLost == Spec => []RestCopied
<1>1. IInv => RestCopied
  BY DEF IInv
<1> QED
  BY <1>1, InitSafe, NextSafe, PTL DEF Spec

-----------------------------------------------------------------------------
\* Every offset is on a line, and every line begins somewhere.
LEMMA LineBegins ==
    ASSUME NEW o \in Nat
    PROVE  \E b \in 0..o : /\ b = 0 \/ content[b] = "\n"
                           /\ \A i \in b + 1..o : content[i] # "\n"
<1> DEFINE S == {d \in 0..o : d = o \/ content[o - d] = "\n"}
<1>1. o \in S /\ S \subseteq Nat
  OBVIOUS
<1>2. PICK d \in S : \A e \in S : ~(<<e, d>> \in OpToRel(<, Nat))
  BY <1>1, NatLessThanWellFounded, WFMin
<1>3. d \in 0..o /\ (d = o \/ content[o - d] = "\n")
  BY <1>2
<1>4. ASSUME NEW i \in o - d + 1..o, content[i] = "\n" PROVE FALSE
  <2>1. o - i \in S /\ o - i < d /\ o - i \in Nat /\ o - (o - i) = i
    BY <1>3, <1>4
  <2>2. <<o - i, d>> \in Nat \X Nat /\ <<o - i, d>>[1] = o - i /\ <<o - i, d>>[2] = d
    BY <1>3, <2>1
  <2> QED
    BY <1>2, <2>1, <2>2 DEF OpToRel
<1> QED
  <2>1. o - d \in 0..o /\ (o - d = 0 \/ content[o - d] = "\n")
    BY <1>3
  <2> QED
    BY <1>4, <2>1

\* The lines before an offset: more of them the farther it is, and one more
\* after each newline.
LEMMA NewlinesCount ==
    ASSUME NEW o \in Nat, NEW p \in 0..o
    PROVE  /\ Newlines(o) \in Nat /\ Newlines(p) \in Nat
           /\ Newlines(p) <= Newlines(o)
           /\ Newlines(p) = Newlines(o) <=> \A i \in p + 1..o : content[i] # "\n"
<1> DEFINE N(q) == {i \in 1..q : content[i] = "\n"}
<1>1. IsFiniteSet(N(o))
  <2>1. IsFiniteSet(1..o)
    BY FS_Interval
  <2> QED
    BY <2>1, FS_Subset
<1>2. N(p) \subseteq N(o) /\ (N(p) = N(o) <=> \A i \in p + 1..o : content[i] # "\n")
  OBVIOUS
<1>3. IsFiniteSet(N(p)) /\ Cardinality(N(p)) <= Cardinality(N(o))
      /\ (Cardinality(N(p)) = Cardinality(N(o)) <=> N(p) = N(o))
  BY <1>1, <1>2, FS_Subset, Zenon
<1>4. Cardinality(N(p)) \in Nat /\ Cardinality(N(o)) \in Nat
  BY <1>1, <1>3, FS_CardinalityType
<1> QED
  BY <1>2, <1>3, <1>4 DEF Newlines
\* The line and column of an offset lead back to it; those of the end of the
\* text lead nowhere.
LEMMA LocationLeadsBack ==
    ASSUME TypeOK, NEW o \in 0..Size
    PROVE  /\ Valid(Location(o)) <=> o < Size
           /\ o < Size => get_offset_by_loc(Location(o)) = o
<1> DEFINE begins(b) == /\ b = 0 \/ content[b] = "\n"
                        /\ \A i \in b + 1..o : content[i] # "\n"
           b    == CHOOSE x \in 0..o : begins(x)
           k    == Newlines(o)
           loc  == [line |-> k + 1, column |-> o - b + 1]
           On   == {p \in 0..Size - 1 : Newlines(p) = k}
           Off  == {p \in 0..Size - 1 : Newlines(p) < k}
<1> USE SizeType
<1>1. b \in 0..o /\ begins(b)
  <2>1. o \in Nat
    OBVIOUS
  <2>2. \E x \in 0..o : begins(x)
    BY <2>1, LineBegins, Zenon
  <2> QED
    BY <2>2
<1>2. Location(o) = loc
  BY DEF Location
<1> HIDE DEF b
<1>3. k \in Nat /\ Newlines(Size) \in Nat /\ k <= Newlines(Size)
  BY NewlinesCount
<1> HIDE DEF k
<1>4. ASSUME NEW p \in b..o PROVE Newlines(p) = k
  <2>1. p \in 0..o /\ \A i \in p + 1..o : content[i] # "\n"
    BY <1>1
  <2> QED
    BY <2>1, NewlinesCount DEF k
<1>5. ASSUME NEW p \in 0..b - 1 PROVE Newlines(p) < k
  <2>1. p \in 0..b /\ b \in Nat /\ b \in p + 1..b /\ content[b] = "\n"
    BY <1>1
  <2>2. Newlines(p) \in Nat /\ Newlines(b) \in Nat /\ Newlines(p) <= Newlines(b)
        /\ Newlines(p) # Newlines(b)
    BY <2>1, NewlinesCount
  <2>3. Newlines(b) = k
    BY <1>1, <1>4
  <2> QED
    BY <2>2, <2>3
<1>6. ASSUME NEW p \in o..Size PROVE Newlines(p) \in Nat /\ k <= Newlines(p)
  BY NewlinesCount DEF k
<1>7. Off = 0..b - 1
  <2>1. ASSUME NEW p \in Off PROVE p \in 0..b - 1
    <3>1. p \in Nat /\ Newlines(p) < k
      BY <2>1
    <3>2. CASE p \in b..o
      BY <1>3, <1>4, <3>1, <3>2
    <3>3. CASE p \in o..Size
      BY <1>3, <1>6, <3>1, <3>3
    <3> QED
      BY <1>1, <2>1, <3>2, <3>3
  <2>2. ASSUME NEW p \in 0..b - 1 PROVE p \in Off
    <3>1. p \in 0..Size - 1
      BY <1>1
    <3> QED
      BY <1>5, <3>1
  <2> QED
    BY <2>1, <2>2
<1>8. Before(k + 1) = b
  <2>1. Cardinality(0..b - 1) = b
    BY <1>1, FS_Interval
  <2>2. Before(k + 1) = Cardinality({p \in 0..Size - 1 : Newlines(p) < (k + 1) - 1})
    BY DEF Before
  <2>3. (k + 1) - 1 = k
    BY <1>3
  <2> QED
    BY <1>7, <2>1, <2>2, <2>3
<1>9. file_map(k + 1) = Cardinality(On) /\ IsFiniteSet(On)
  <2>1. IsFiniteSet(0..Size - 1)
    BY FS_Interval
  <2>2. IsFiniteSet(On)
    BY <2>1, FS_Subset
  <2>3. (k + 1) - 1 = k
    BY <1>3
  <2> QED
    BY <2>2, <2>3 DEF file_map
<1>10. CASE o < Size
  <2>1. b..o \in SUBSET On
    BY <1>1, <1>4, <1>10
  <2>2. Cardinality(b..o) = o - b + 1
    BY <1>1, FS_Interval
  <2>3. Cardinality(b..o) <= Cardinality(On) /\ Cardinality(On) \in Nat
    BY <1>9, <2>1, FS_Subset, FS_CardinalityType
  <2>4. LineCount = Newlines(Size) + 1
    BY <1>10 DEF LineCount, Size
  <2>5. Valid(loc)
    BY <1>1, <1>3, <1>9, <2>2, <2>3, <2>4 DEF Valid
  <2>6. get_offset_by_loc(loc) = o
    BY <1>1, <1>8 DEF get_offset_by_loc
  <2> QED
    BY <1>2, <1>10, <2>5, <2>6
<1>11. CASE o = Size
  <2>1. On \subseteq b..Size - 1
    BY <1>1, <1>3, <1>5, <1>11
  <2>2. IsFiniteSet(b..Size - 1) /\ Cardinality(b..Size - 1) = Size - b
    <3>1. b \in Int /\ Size - 1 \in Int /\ b <= Size
      BY <1>1, <1>11
    <3>2. /\ IsFiniteSet(b..Size - 1)
          /\ Cardinality(b..Size - 1) = IF b > Size - 1 THEN 0 ELSE (Size - 1) - b + 1
      BY <3>1, FS_Interval, Zenon
    <3> QED
      BY <3>1, <3>2
  <2>3. Cardinality(On) <= Size - b
    BY <2>1, <2>2, FS_Subset
  <2>4. Cardinality(On) \in Nat
    BY <1>9, FS_CardinalityType
  <2>5. ~Valid(loc)
    BY <1>1, <1>9, <1>11, <2>3, <2>4 DEF Valid
  <2> QED
    BY <1>2, <1>11, <2>5
<1> QED
  BY <1>10, <1>11

\* Locations are only looked at once the compiler has been read, and the one
\* looked at last is that of its error.
Located == (pc \in {"poll", "communicate"} => loaded = 0) /\ ErrorLocated

\* No error is loaded at first.
LEMMA LocatedInit == Init => Located
  BY DEF Init, Located, ErrorLocated

\* get_offset_by_loc undoes what Location does, where it raises no exception.
LEMMA LocatedLoad == IInv /\ Located /\ LoadResult => Located'
<1> SUFFICES ASSUME IInv, Located, LoadResult PROVE Located'
  OBVIOUS
<1> DEFINE o   == errors[loaded']
           loc == Location(o)
<1>1. TypeOK /\ Size \in Nat
  BY SizeType DEF IInv
<1>2. /\ loaded' > 0 /\ loaded' \in 1..Len(errors)
      /\ errors' = errors /\ content' = content /\ pc = "load"
  BY <1>1 DEF LoadResult, given, TypeOK
<1>3. o \in 0..Size
  BY <1>1, <1>2 DEF TypeOK
<1>4. (Valid(loc) <=> o < Size) /\ (o < Size => get_offset_by_loc(loc) = o)
  BY <1>1, <1>3, LocationLeadsBack
<1> HIDE DEF loc
<1>5. CASE o < Size
  <2>1. offset' = o /\ pc' \in {"load", "scan"}
    BY <1>2, <1>4, <1>5 DEF LoadResult, loc
  <2> QED
    BY <1>2, <1>5, <2>1 DEF Located, ErrorLocated, Size
<1>6. CASE ~(o < Size)
  <2>1. pc' = "failed"
    BY <1>4, <1>6 DEF LoadResult, loc
  <2> QED
    BY <1>2, <1>6, <2>1 DEF Located, ErrorLocated, Size
<1> QED
  BY <1>5, <1>6

\* No other step changes the error at hand.
LEMMA LocatedNext == IInv /\ Located /\ [Next]_vars => Located'
<1> SUFFICES ASSUME IInv, Located, [Next]_vars PROVE Located'
  OBVIOUS
<1>1. ASSUME UNCHANGED <<given, loaded, offset>>, (pc' = "failed" <=> pc = "failed") \/ loaded = 0,
             pc' \in {"poll", "communicate"} => pc \in {"poll", "communicate"}
      PROVE  Located'
  BY <1>1 DEF Located, ErrorLocated, given, Size, IInv, TypeOK
<1>2. CASE CompilerExits
  BY <1>1, <1>2 DEF CompilerExits
<1>3. CASE Poll
  BY <1>1, <1>3 DEF Poll, Located
<1>4. CASE Communicate
  BY <1>1, <1>4 DEF Communicate
<1>5. CASE Scan
  BY <1>1, <1>5 DEF Scan, OpenParen, CloseParen, OpenQuote, InQuote
<1>6. CASE ScanEnds
  BY <1>1, <1>6 DEF ScanEnds
<1>7. CASE AllLoaded
  BY <1>1, <1>7 DEF AllLoaded
<1>8. CASE Copy
  BY <1>1, <1>8 DEF Copy
<1>9. CASE Copied
  BY <1>1, <1>9 DEF Copied
<1>10. CASE UNCHANGED vars
  BY <1>1, <1>10 DEF vars
<1> QED
  BY LocatedLoad, <1>2, <1>3, <1>4, <1>5, <1>6, <1>7, <1>8, <1>9, <1>10 DEF Next, Erase, Over

\* For any text and any errors, the line and column the compiler gives one lead
\* back to its offset, and one at the end of the text makes the script fail.
THEOREM ErrorsAreFound == Spec => []ErrorLocated
<1>1. Located => ErrorLocated
  BY DEF Located
<1> QED
  BY <1>1, InitSafe, NextSafe, LocatedInit, LocatedNext, PTL DEF Spec

-----------------------------------------------------------------------------
(* The eraser on texts made of tokens.  Errors are located at tokens; a scan *)
(* that begins at a name goes from token to token, and its depth is that of  *)
(* the tokens between; so what is recorded of a call ends where the call     *)
(* does, and what is recorded of anything else closes what it opens.         *)

DoubleQuote == "\""
TokenChars  == {"a", "x", "(", ")", "\n", "'", DoubleQuote, "\\", "/"}
n == Len(tokens)

\* What the script is given.
Laid == tokens \in Seq(Tokens) /\ content = FlattenSeq(tokens)

Weight(k) == IF tokens[k] = <<"(">> THEN 1 ELSE IF tokens[k] = <<")">> THEN -1 ELSE 0

-----------------------------------------------------------------------------
\* A literal with an escaped quote and a parenthesis.
LEMMA QuotedIs ==
    /\ Quoted = <<DoubleQuote, "\\", DoubleQuote, "(", DoubleQuote>>
    /\ Quotes = {"'", DoubleQuote}
    /\ DoubleQuote \notin {"a", "x", "(", ")", "\n", "'", "\\", "/", "none"}
  BY DEF Quoted, Quotes, DoubleQuote

\* What the tokens look like.
LEMMA TokenFacts ==
    ASSUME NEW t \in Tokens
    PROVE  /\ t \in Seq(TokenChars) /\ Len(t) \in 1..5
           /\ t = <<"(">> <=> t[1] = "("
           /\ t = <<")">> <=> t[1] = ")"
           /\ t \in {Name, Longer} <=> t[1] = "a"
           /\ t[1] \in {"(", ")"} => Len(t) = 1
<1> USE DEF TokenChars
<1>1. CASE t = Name
  BY <1>1 DEF Name, Longer
<1>2. CASE t = Longer
  BY <1>2 DEF Name, Longer
<1>3. CASE t = <<"(">>
  BY <1>3 DEF Name, Longer
<1>4. CASE t = <<")">>
  BY <1>4 DEF Name, Longer
<1>5. CASE t = <<"\n">>
  BY <1>5 DEF Name, Longer
<1>6. CASE t = Literal
  BY <1>6 DEF Name, Longer, Literal
<1>7. CASE t = Quoted
  BY <1>7, QuotedIs DEF Name, Longer
<1>8. CASE t = Comment
  BY <1>8 DEF Name, Longer, Comment
<1> QED
  BY <1>1, <1>2, <1>3, <1>4, <1>5, <1>6, <1>7, <1>8 DEF Tokens

\* The beginning of the text up to a token.
LEMMA UpToToken ==
    ASSUME Laid, NEW i \in 1..n
    PROVE  /\ FlattenSeq(SubSeq(tokens, 1, i - 1)) \in Seq(TokenChars)
           /\ FlattenSeq(SubSeq(tokens, 1, i)) = FlattenSeq(SubSeq(tokens, 1, i - 1)) \o tokens[i]
<1> DEFINE s == SubSeq(tokens, 1, i - 1)
<1>1. tokens \in Seq(Seq(TokenChars)) /\ n \in Nat /\ tokens[i] \in Seq(TokenChars)
  <2>1. n \in Nat /\ tokens \in [1..n -> Tokens]
    BY DEF Laid, n
  <2>2. tokens \in [1..n -> Seq(TokenChars)]
    BY <2>1, TokenFacts
  <2> QED
    BY <2>1, <2>2
<1>2. s \in Seq(Seq(TokenChars))
  <2>1. \A k \in 1..i - 1 : tokens[k] \in Seq(TokenChars)
    BY <1>1 DEF n
  <2> QED
    BY <1>1, <2>1, SubSeqProperties
<1>3. SubSeq(tokens, 1, i) = Append(s, tokens[i])
  <2>1. SubSeq(tokens, 1, i) = s \o <<tokens[i]>>
    <3>1. 1 \in 1..Len(tokens) /\ i \in 1..Len(tokens)
      BY <1>1 DEF n
    <3> QED
      BY <1>1, <3>1, SubSeqRecursiveSecond
  <2> QED
    BY <1>1, <1>2, <2>1, AppendIsConcat
<1> HIDE DEF s
<1>4. FlattenSeq(Append(s, tokens[i])) = FlattenSeq(s) \o tokens[i] /\ FlattenSeq(s) \in Seq(TokenChars)
  BY <1>1, <1>2, FlattenAppend, FlattenType
<1> QED
  BY <1>3, <1>4 DEF s

\* Where the tokens are, and what is there.
LEMMA Layout ==
    ASSUME Laid
    PROVE  /\ n \in Nat /\ Size \in Nat
           /\ Begin(1) = 0 /\ Begin(n + 1) = Size
           /\ \A i \in 1..n + 1 : Begin(i) \in 0..Size
           /\ \A i \in 1..n : /\ tokens[i] \in Tokens
                              /\ Len(tokens[i]) \in 1..5
                              /\ Begin(i + 1) = Begin(i) + Len(tokens[i])
                              /\ \A k \in 1..Len(tokens[i]) : content[Begin(i) + k] = tokens[i][k]
<1> DEFINE P(i) == FlattenSeq(SubSeq(tokens, 1, i))
<1>1. n \in Nat /\ \A i \in 1..n : tokens[i] \in Tokens
  BY DEF Laid, n
<1>2. \A i \in 1..n : tokens[i] \in Seq(TokenChars) /\ Len(tokens[i]) \in 1..5
  BY <1>1, TokenFacts
<1>3. \A i \in 1..n : P(i - 1) \in Seq(TokenChars) /\ P(i) = P(i - 1) \o tokens[i]
  BY UpToToken
<1>4. P(0) = <<>> /\ P(n) = content
  <2>1. SubSeq(tokens, 1, 0) = <<>>
    BY SubSeqEmpty
  <2>2. SubSeq(tokens, 1, n) = tokens
    BY SubSeqFull DEF Laid, n
  <2> QED
    BY <2>1, <2>2, FlattenEmpty DEF Laid
<1>5. \A i \in 1..n + 1 : Begin(i) = Len(P(i - 1))
  BY DEF Begin
<1> HIDE DEF P
<1>6. \A i \in 0..n : P(i) \in Seq(TokenChars)
  <2>1. P(0) \in Seq(TokenChars)
    BY <1>4, EmptySeq
  <2>2. ASSUME NEW i \in 1..n PROVE P(i) \in Seq(TokenChars)
    <3>1. P(i - 1) \in Seq(TokenChars) /\ tokens[i] \in Seq(TokenChars) /\ P(i) = P(i - 1) \o tokens[i]
      BY <1>2, <1>3
    <3> QED
      BY <3>1, ConcatProperties
  <2> QED
    BY <1>1, <2>1, <2>2
<1>7. ASSUME NEW i \in 1..n
      PROVE  /\ Len(P(i)) = Len(P(i - 1)) + Len(tokens[i]) /\ Len(P(i - 1)) \in Nat
             /\ \A k \in 1..Len(tokens[i]) : P(i)[Len(P(i - 1)) + k] = tokens[i][k]
             /\ \A k \in 1..Len(P(i - 1)) : P(i)[k] = P(i - 1)[k]
  <2>1. P(i - 1) \in Seq(TokenChars) /\ tokens[i] \in Seq(TokenChars) /\ P(i) = P(i - 1) \o tokens[i]
    BY <1>2, <1>3
  <2> DEFINE q == P(i - 1)
             r == P(i)
  <2>2. q \in Seq(TokenChars) /\ r = q \o tokens[i]
    BY <2>1
  <2> HIDE DEF q, r
  <2>3. /\ Len(r) = Len(q) + Len(tokens[i]) /\ Len(q) \in Nat
        /\ \A k \in 1..Len(tokens[i]) : r[Len(q) + k] = tokens[i][k]
        /\ \A k \in 1..Len(q) : r[k] = q[k]
    BY <2>1, <2>2
  <2> QED
    BY <2>3 DEF q, r
<1>8. ASSUME NEW i \in 0..n
      PROVE  Len(P(i)) \in 0..Size /\ \A k \in 1..Len(P(i)) : content[k] = P(i)[k]
  <2> DEFINE S == {m \in 0..n - i : /\ Len(P(i)) \in 0..Len(P(i + m))
                                    /\ \A k \in 1..Len(P(i)) : P(i + m)[k] = P(i)[k]}
  <2>1. 0 \in S
    BY <1>1, <1>6
  <2>2. ASSUME NEW m \in 0..(n - i) - 1, m \in S PROVE m + 1 \in S
    <3>1. i + m + 1 \in 1..n /\ (i + m + 1) - 1 = i + m /\ i + (m + 1) = i + m + 1
      BY <1>1
    <3>2. /\ Len(P(i + m + 1)) = Len(P(i + m)) + Len(tokens[i + m + 1]) /\ Len(P(i + m)) \in Nat
          /\ Len(tokens[i + m + 1]) \in 1..5
          /\ \A k \in 1..Len(P(i + m)) : P(i + m + 1)[k] = P(i + m)[k]
      BY <1>2, <1>7, <3>1
    <3>3. Len(P(i)) \in 0..Len(P(i + m)) /\ \A k \in 1..Len(P(i)) : P(i + m)[k] = P(i)[k]
      BY <2>2
    <3>4. Len(P(i)) \in 0..Len(P(i + m + 1)) /\ \A k \in 1..Len(P(i)) : P(i + m + 1)[k] = P(i)[k]
      <4> DEFINE a == Len(P(i))
                 b == Len(P(i + m))
                 c == Len(P(i + m + 1))
                 d == Len(tokens[i + m + 1])
      <4>0. c = b + d /\ b \in Nat /\ d \in 1..5 /\ a \in 0..b
        BY <3>2, <3>3
      <4>1. a \in 0..b /\ b \in Nat /\ c \in b..c
        <5> HIDE DEF a, b, c, d
        <5> QED
          BY <4>0
      <4>2. a \in 0..c /\ \A k \in 1..a : k \in 1..b
        <5> HIDE DEF a, b, c
        <5> QED
          BY <4>1
      <4>3. ASSUME NEW k \in 1..a PROVE P(i + m + 1)[k] = P(i)[k]
        BY <3>2, <3>3, <4>2
      <4> QED
        BY <4>2, <4>3
    <3>5. m + 1 \in 0..n - i
      BY <1>1
    <3> QED
      BY <3>1, <3>4, <3>5
  <2>3. 0..n - i \subseteq S
    <3>1. n - i \in Nat
      BY <1>1
    <3> HIDE DEF S
    <3> QED
      BY <2>1, <2>2, <3>1, UpTo
  <2>4. n - i \in S /\ i + (n - i) = n
    BY <1>1, <2>3
  <2> QED
    BY <1>4, <2>4 DEF Size
<1>9. Size \in Nat
  BY <1>1, <1>4, <1>6 DEF Size
<1>10. \A i \in 1..n + 1 : i - 1 \in 0..n /\ (i + 1) - 1 = i
  BY <1>1
<1>11. ASSUME NEW i \in 1..n, NEW k \in 1..Len(tokens[i]) PROVE content[Begin(i) + k] = tokens[i][k]
  <2>1. /\ i \in 1..n + 1 /\ Begin(i) = Len(P(i - 1)) /\ Len(P(i - 1)) \in Nat
        /\ Len(tokens[i]) \in 1..5 /\ Len(P(i)) = Len(P(i - 1)) + Len(tokens[i])
    <3>1. i \in 1..n + 1
      BY <1>1
    <3>2. Len(tokens[i]) \in 1..5
      BY <1>2
    <3>3. Len(P(i)) = Len(P(i - 1)) + Len(tokens[i]) /\ Len(P(i - 1)) \in Nat
      BY <1>7
    <3> QED
      BY <1>5, <3>1, <3>2, <3>3
  <2>2. P(i)[Begin(i) + k] = tokens[i][k]
    BY <1>7, <2>1
  <2>3. Begin(i) + k \in 1..Len(P(i)) /\ i \in 0..n
    BY <1>1, <2>1
  <2> QED
    BY <1>8, <2>2, <2>3
<1>12. ASSUME NEW i \in 1..n PROVE Begin(i + 1) = Begin(i) + Len(tokens[i])
  <2>1. i \in 1..n + 1 /\ i + 1 \in 1..n + 1 /\ (i + 1) - 1 = i
    BY <1>1
  <2>2. Begin(i) = Len(P(i - 1)) /\ Begin(i + 1) = Len(P(i))
    BY <1>5, <2>1
  <2> QED
    BY <1>7, <2>2
<1>13. Begin(1) = 0 /\ Begin(n + 1) = Size
  BY <1>1, <1>4, <1>5 DEF Size
<1> QED
  BY <1>1, <1>2, <1>5, <1>8, <1>9, <1>10, <1>11, <1>12, <1>13

\* They are in order, and there is nothing else.
LEMMA TokensInOrder ==
    ASSUME Laid
    PROVE  /\ \A i, j \in 1..n + 1 : i < j <=> Begin(i) < Begin(j)
           /\ \A p \in 0..Size - 1 : \E i \in 1..n : Begin(i) <= p /\ p < Begin(i + 1)
<1>0. /\ n \in Nat /\ Size \in Nat /\ Begin(1) = 0 /\ Begin(n + 1) = Size
      /\ \A i \in 1..n + 1 : Begin(i) \in Int
      /\ \A i \in 1..n : Begin(i) < Begin(i + 1)
  <2>1. /\ n \in Nat /\ Size \in Nat /\ Begin(1) = 0 /\ Begin(n + 1) = Size
        /\ \A i \in 1..n + 1 : Begin(i) \in 0..Size
    BY Layout
  <2>2. \A i \in 1..n : Len(tokens[i]) \in 1..5 /\ Begin(i + 1) = Begin(i) + Len(tokens[i])
    BY Layout
  <2>3. ASSUME NEW i \in 1..n PROVE Begin(i) < Begin(i + 1)
    <3>1. i \in 1..n + 1 /\ Begin(i) \in Int
      BY <2>1
    <3> QED
      BY <2>2, <3>1, SMTT(30)
  <2>4. ASSUME NEW i \in 1..n + 1 PROVE Begin(i) \in Int
    BY <2>1
  <2> QED
    BY <2>1, <2>3, <2>4
<1>1. ASSUME NEW i \in 1..n + 1, NEW j \in 1..n + 1, i < j PROVE Begin(i) < Begin(j)
  <2> DEFINE S == {m \in 0..n - i : Begin(i) < Begin(i + 1 + m)}
  <2>1. 0 \in S
    <3>1. i \in 1..n /\ i + 1 + 0 = i + 1 /\ 0 \in 0..n - i
      BY <1>0, <1>1
    <3> QED
      BY <1>0, <3>1
  <2>2. ASSUME NEW m \in 0..(n - i) - 1, m \in S PROVE m + 1 \in S
    <3>1. i + 1 + m \in 1..n /\ i + 1 + m + 1 = i + 1 + (m + 1) /\ m + 1 \in 0..n - i
          /\ i + 1 + (m + 1) \in 1..n + 1
      BY <1>0
    <3>2. Begin(i + 1 + m) < Begin(i + 1 + (m + 1))
      BY <1>0, <3>1
    <3>3. Begin(i) \in Int /\ Begin(i + 1 + m) \in Int /\ Begin(i + 1 + (m + 1)) \in Int
      BY <1>0, <3>1
    <3> QED
      BY <2>2, <3>1, <3>2, <3>3
  <2>3. 0..n - i \subseteq S
    <3>1. n - i \in Nat
      BY <1>0, <1>1
    <3> HIDE DEF S
    <3> QED
      BY <2>1, <2>2, <3>1, UpTo
  <2>4. j - i - 1 \in S /\ i + 1 + (j - i - 1) = j
    <3>1. j - i - 1 \in 0..n - i /\ i + 1 + (j - i - 1) = j
      BY <1>0, <1>1
    <3> QED
      BY <2>3, <3>1
  <2> QED
    BY <2>4
<1>2. ASSUME NEW p \in 0..Size - 1 PROVE \E i \in 1..n : Begin(i) <= p /\ p < Begin(i + 1)
  <2> SUFFICES ASSUME \A i \in 1..n : ~(Begin(i) <= p /\ p < Begin(i + 1)) PROVE FALSE
    OBVIOUS
  <2> DEFINE S == {m \in 0..n : Begin(m + 1) <= p}
  <2>1. 0 \in S
    BY <1>0
  <2>2. ASSUME NEW m \in 0..n - 1, m \in S PROVE m + 1 \in S
    <3>1. m + 1 \in 1..n /\ m + 1 \in 0..n /\ m + 1 + 1 \in 1..n + 1 /\ (m + 1) + 1 = m + 1 + 1
      BY <1>0
    <3>2. Begin(m + 1 + 1) \in Int
      BY <1>0, <3>1
    <3>3. ~(p < Begin(m + 1 + 1))
      BY <2>2, <3>1
    <3> QED
      BY <3>1, <3>2, <3>3
  <2>3. 0..n \subseteq S
    <3> HIDE DEF S
    <3> QED
      BY <1>0, <2>1, <2>2, UpTo
  <2>4. n \in S
    BY <1>0, <2>3
  <2> QED
    BY <1>0, <2>4
<1> QED
  <2>1. ASSUME NEW i \in 1..n + 1, NEW j \in 1..n + 1 PROVE i < j <=> Begin(i) < Begin(j)
    <3>1. i = j \/ i < j \/ j < i
      BY <1>0
    <3>2. Begin(i) \in Int /\ Begin(j) \in Int
      BY <1>0
    <3> QED
      BY <1>0, <1>1, <3>1, <3>2
  <2> QED
    BY <1>2, <2>1

-----------------------------------------------------------------------------
\* One more token.
LEMMA CountStep ==
    ASSUME NEW i \in Int, NEW j \in Int, i <= j + 1, NEW t
    PROVE  /\ Cardinality({k \in i..j : tokens[k] = t}) \in Nat
           /\ Cardinality({k \in i..j + 1 : tokens[k] = t})
                = Cardinality({k \in i..j : tokens[k] = t}) + (IF tokens[j + 1] = t THEN 1 ELSE 0)
<1> DEFINE C(m) == {k \in i..m : tokens[k] = t}
<1>1. IsFiniteSet(C(j))
  <2>1. IsFiniteSet(i..j)
    BY FS_Interval
  <2> QED
    BY <2>1, FS_Subset
<1>2. C(j + 1) = IF tokens[j + 1] = t THEN C(j) \cup {j + 1} ELSE C(j)
  OBVIOUS
<1>3. j + 1 \notin C(j)
  OBVIOUS
<1> HIDE DEF C
<1>4. Cardinality(C(j)) \in Nat
  BY <1>1, FS_CardinalityType
<1>5. Cardinality(C(j) \cup {j + 1}) = Cardinality(C(j)) + 1
  BY <1>1, <1>3, FS_AddElement
<1>6. Cardinality(C(j + 1)) = Cardinality(C(j)) + (IF tokens[j + 1] = t THEN 1 ELSE 0)
  BY <1>2, <1>4, <1>5
<1> QED
  BY <1>4, <1>6 DEF C

\* How deep the parentheses are, token by token.
LEMMA DepthStep ==
    ASSUME NEW i \in Int, NEW j \in Int, i <= j + 1
    PROVE  /\ Depth(i, j) \in Int /\ Depth(i, i - 1) = 0
           /\ Depth(i, j + 1) = Depth(i, j) + Weight(j + 1)
<1>1. <<"(">> # <<")">>
  OBVIOUS
<1>2. \A t : /\ Cardinality({k \in i..j : tokens[k] = t}) \in Nat
             /\ Cardinality({k \in i..j + 1 : tokens[k] = t})
                  = Cardinality({k \in i..j : tokens[k] = t}) + (IF tokens[j + 1] = t THEN 1 ELSE 0)
  BY CountStep
<1>3. Depth(i, j) \in Int /\ Depth(i, j + 1) = Depth(i, j) + Weight(j + 1)
  <2> DEFINE o == Cardinality({k \in i..j : tokens[k] = <<"(">>})
             c == Cardinality({k \in i..j : tokens[k] = <<")">>})
             p == Cardinality({k \in i..j + 1 : tokens[k] = <<"(">>})
             d == Cardinality({k \in i..j + 1 : tokens[k] = <<")">>})
  <2>1. /\ o \in Nat /\ c \in Nat
        /\ p = o + (IF tokens[j + 1] = <<"(">> THEN 1 ELSE 0)
        /\ d = c + (IF tokens[j + 1] = <<")">> THEN 1 ELSE 0)
    BY <1>2, Zenon
  <2>2. Depth(i, j) = o - c /\ Depth(i, j + 1) = p - d
    BY DEF Depth
  <2> HIDE DEF o, c, p, d
  <2> QED
    BY <1>1, <2>1, <2>2 DEF Weight
<1>4. Depth(i, i - 1) = 0
  <2>1. i..i - 1 = {}
    OBVIOUS
  <2>2. \A t : {k \in i..i - 1 : tokens[k] = t} = {}
    BY <2>1
  <2>3. Depth(i, i - 1) = Cardinality({}) - Cardinality({})
    BY <2>2, Zenon DEF Depth
  <2> QED
    BY <2>3, FS_EmptySet
<1> QED
  BY <1>3, <1>4

\* In two parts.
LEMMA DepthSplit ==
    ASSUME NEW i \in Int, NEW m \in Int, NEW j \in Int, i <= m + 1, m <= j
    PROVE  Depth(i, j) = Depth(i, m) + Depth(m + 1, j)
<1> DEFINE S == {q \in 0..j - m : Depth(i, m + q) = Depth(i, m) + Depth(m + 1, m + q)}
<1>1. 0 \in S
  <2>1. Depth(m + 1, (m + 1) - 1) = 0 /\ (m + 1) - 1 = m + 0 /\ m + 0 = m /\ Depth(i, m) \in Int
    BY DepthStep
  <2> QED
    BY <2>1
<1>2. ASSUME NEW q \in 0..(j - m) - 1, q \in S PROVE q + 1 \in S
  <2> DEFINE r == m + q
  <2>1. r \in Int /\ i <= r + 1 /\ m + 1 <= r + 1 /\ m + (q + 1) = r + 1 /\ q + 1 \in 0..j - m
    OBVIOUS
  <2>2. Depth(i, r) = Depth(i, m) + Depth(m + 1, r)
    BY <1>2
  <2> HIDE DEF r
  <2>3. /\ Depth(i, r + 1) = Depth(i, r) + Weight(r + 1)
        /\ Depth(m + 1, r + 1) = Depth(m + 1, r) + Weight(r + 1) /\ Depth(m + 1, r) \in Int
    BY <2>1, DepthStep
  <2>4. Depth(i, m) \in Int /\ Weight(r + 1) \in Int
    BY DepthStep DEF Weight
  <2>5. Depth(i, r + 1) = Depth(i, m) + Depth(m + 1, r + 1)
    BY <2>2, <2>3, <2>4
  <2> QED
    BY <2>1, <2>5
<1>3. 0..j - m \subseteq S
  <2>1. j - m \in Nat
    OBVIOUS
  <2> HIDE DEF S
  <2> QED
    BY <1>1, <1>2, <2>1, UpTo
<1>4. j - m \in S /\ m + (j - m) = j
  BY <1>3
<1> QED
  BY <1>4

\* A call begins with a name and a parenthesis, and ends with the parenthesis
\* that closes it.
LEMMA CallIs ==
    ASSUME Laid, NEW h \in 1..n, Close(h) # 0
    PROVE  /\ tokens[h] \in {Name, Longer} /\ tokens[h + 1] = <<"(">>
           /\ Close(h) \in h + 2..n /\ Depth(h, Close(h)) = 0
           /\ \A m \in h + 1..Close(h) - 1 : Depth(h, m) >= 1
           /\ tokens[Close(h)] = <<")">>
<1> DEFINE ends == {j \in h + 2..Len(tokens) : Depth(h, j) = 0}
           c    == Close(h)
<1>0. n \in Nat
  BY Layout
<1>1. /\ tokens[h] \in {Name, Longer} /\ tokens[h + 1] = <<"(">> /\ ends # {}
      /\ c = CHOOSE j \in ends : \A k \in ends : j <= k
  BY DEF Close
<1>2. \E j \in ends : \A k \in ends : j <= k
  <2>1. ends \subseteq Nat
    BY <1>0
  <2>2. PICK j \in ends : \A k \in ends : ~(<<k, j>> \in OpToRel(<, Nat))
    BY <1>1, <2>1, NatLessThanWellFounded, WFMin
  <2>3. ASSUME NEW k \in ends PROVE j <= k
    <3>1. j \in Nat /\ k \in Nat /\ <<k, j>> \in Nat \X Nat /\ <<k, j>>[1] = k /\ <<k, j>>[2] = j
      BY <2>1
    <3> QED
      BY <2>2, <3>1 DEF OpToRel
  <2> QED
    BY <2>3
<1>3. c \in ends /\ \A k \in ends : c <= k
  <2> HIDE DEF ends
  <2> QED
    BY <1>1, <1>2
<1>4. c \in h + 2..n /\ Depth(h, c) = 0 /\ \A k \in h + 2..c - 1 : Depth(h, k) # 0
  BY <1>0, <1>3 DEF n
<1> HIDE DEF c, ends
<1>5. Depth(h, h + 1) = 1
  <2>1. tokens[h] # <<"(">> /\ tokens[h] # <<")">> /\ <<"(">> # <<")">>
    BY <1>1 DEF Name, Longer
  <2>2. Weight(h) = 0 /\ Weight(h + 1) = 1
    BY <1>1, <2>1 DEF Weight
  <2>3. Depth(h, h - 1) = 0 /\ (h - 1) + 1 = h
    BY DepthStep
  <2>4. Depth(h, (h - 1) + 1) = Depth(h, h - 1) + Weight((h - 1) + 1)
    BY DepthStep
  <2>5. Depth(h, h + 1) = Depth(h, h) + Weight(h + 1)
    BY DepthStep
  <2> QED
    BY <2>2, <2>3, <2>4, <2>5
<1>6. ASSUME NEW m \in h + 1..c - 1 PROVE Depth(h, m) >= 1
  <2> DEFINE S == {q \in 0..(c - 1) - (h + 1) : Depth(h, h + 1 + q) >= 1}
  <2>1. 0 \in S
    BY <1>0, <1>4, <1>5
  <2>2. ASSUME NEW q \in 0..((c - 1) - (h + 1)) - 1, q \in S PROVE q + 1 \in S
    <3> DEFINE r == h + 1 + q
    <3>1. r \in Int /\ h <= r + 1 /\ h + 1 + (q + 1) = r + 1 /\ r + 1 \in h + 2..c - 1
          /\ q + 1 \in 0..(c - 1) - (h + 1)
      BY <1>0, <1>4
    <3>2. Depth(h, r) >= 1
      BY <2>2
    <3> HIDE DEF r
    <3>3. Depth(h, r + 1) = Depth(h, r) + Weight(r + 1) /\ Depth(h, r) \in Int
      BY <3>1, DepthStep
    <3>4. Depth(h, r + 1) # 0 /\ Weight(r + 1) \in {-1, 0, 1}
      BY <1>4, <3>1 DEF Weight
    <3>5. Depth(h, r + 1) >= 1
      BY <3>2, <3>3, <3>4
    <3> QED
      BY <3>1, <3>5
  <2>3. 0..(c - 1) - (h + 1) \subseteq S
    <3>1. (c - 1) - (h + 1) \in Nat
      BY <1>0, <1>4
    <3> HIDE DEF S
    <3> QED
      BY <2>1, <2>2, <3>1, UpTo
  <2>4. m - (h + 1) \in 0..(c - 1) - (h + 1) /\ h + 1 + (m - (h + 1)) = m
    BY <1>0, <1>4
  <2>5. m - (h + 1) \in S
    BY <2>3, <2>4
  <2> QED
    BY <2>4, <2>5
<1>7. tokens[c] = <<")">>
  <2>1. c - 1 \in h + 1..c - 1 /\ (c - 1) + 1 = c /\ c - 1 \in Int /\ h <= (c - 1) + 1
    BY <1>0, <1>4
  <2>2. Depth(h, c - 1) >= 1 /\ Depth(h, c - 1) \in Int
    BY <1>6, <2>1, DepthStep
  <2>3. Depth(h, (c - 1) + 1) = Depth(h, c - 1) + Weight((c - 1) + 1)
    BY <2>1, DepthStep
  <2>4. Weight(c) < 0
    BY <1>4, <2>1, <2>2, <2>3 DEF Weight
  <2> QED
    BY <2>4 DEF Weight
<1> QED
  BY <1>1, <1>4, <1>6, <1>7 DEF c

\* A call that begins within another ends within it.
LEMMA CallsNest ==
    ASSUME Laid, NEW h \in 1..n, Close(h) # 0, NEW g \in h..Close(h), Close(g) # 0
    PROVE  Close(g) <= Close(h)
<1> DEFINE c == Close(h)
           d == Close(g)
<1>1. n \in Nat /\ c \in h + 2..n /\ g \in 1..n
  BY Layout, CallIs
<1>2. d \in g + 2..n /\ tokens[g] \in {Name, Longer} /\ Depth(g, d) = 0
      /\ \A m \in g + 1..d - 1 : Depth(g, m) >= 1
  BY <1>1, CallIs
<1>3. Depth(h, c) = 0 /\ (\A m \in h + 1..c - 1 : Depth(h, m) >= 1)
      /\ tokens[h + 1] = <<"(">> /\ tokens[c] = <<")">>
  BY CallIs
<1>4. g # h + 1 /\ g # c
  BY <1>2, <1>3 DEF Name, Longer
<1> HIDE DEF c, d
<1>5. CASE g = h
  BY <1>1, <1>5 DEF c, d
<1>6. CASE g # h
  <2>1. g - 1 \in h + 1..c - 1 /\ (g - 1) + 1 = g /\ h <= (g - 1) + 1 /\ g - 1 <= c /\ g - 1 \in Int
        /\ c \in Int /\ d \in Int
    BY <1>1, <1>2, <1>4, <1>6 DEF c
  <2>2. Depth(h, c) = Depth(h, g - 1) + Depth((g - 1) + 1, c)
    BY <2>1, DepthSplit
  <2>3. Depth(h, g - 1) >= 1 /\ Depth(h, g - 1) \in Int /\ Depth(g, c) \in Int
    BY <1>3, <2>1, DepthStep
  <2>4. Depth(g, c) < 0
    BY <1>3, <2>1, <2>2, <2>3
  <2>5. c \notin g + 1..d
    BY <1>1, <1>2, <2>1, <2>3, <2>4
  <2> QED
    BY <1>1, <1>2, <1>4, <2>1, <2>5 DEF c, d
<1> QED
  BY <1>5, <1>6 DEF c, d

-----------------------------------------------------------------------------
\* No comment is in what a name begins.
Clean(h) == \A i \in h..(IF Close(h) # 0 THEN Close(h) ELSE n) : tokens[i] # Comment

\* What is said of the tokens stays.
LEMMA Static ==
    ASSUME tokens' = tokens, content' = content, errors' = errors
    PROVE  /\ n' = n /\ Size' = Size /\ Heads' = Heads
           /\ \A i : Begin(i)' = Begin(i) /\ Close(i)' = Close(i) /\ (Clean(i)' <=> Clean(i))
           /\ \A i, j : Depth(i, j)' = Depth(i, j)
<1>1. n' = n /\ Size' = Size
  BY DEF n, Size
<1>2. \A i : Begin(i)' = Begin(i)
  BY DEF Begin
<1>3. \A i, j : Depth(i, j)' = Depth(i, j)
  BY DEF Depth
<1>4. ASSUME NEW i PROVE Close(i)' = Close(i)
  <2> DEFINE ends == {j \in i + 2..Len(tokens) : Depth(i, j) = 0}
  <2>1. ends' = ends
    BY <1>3
  <2>2. Close(i) = IF /\ tokens[i] \in {Name, Longer} /\ i < Len(tokens) /\ tokens[i + 1] = <<"(">>
                      /\ ends # {}
                   THEN CHOOSE j \in ends : \A k \in ends : j <= k ELSE 0
    BY DEF Close
  <2>3. Close(i)' = IF /\ tokens'[i] \in {Name, Longer} /\ i < Len(tokens') /\ tokens'[i + 1] = <<"(">>
                       /\ ends' # {}
                    THEN CHOOSE j \in ends' : \A k \in ends' : j <= k ELSE 0
    BY DEF Close
  <2> HIDE DEF ends
  <2> QED
    BY <2>1, <2>2, <2>3
<1>5. Heads' = Heads
  BY <1>2 DEF Heads
<1>6. \A i : Clean(i)' <=> Clean(i)
  BY <1>1, <1>4 DEF Clean
<1> QED
  BY <1>1, <1>2, <1>3, <1>4, <1>5, <1>6

\* The characters of the longer tokens.
LEMMA LongerTokens ==
    /\ Len(Name) = 1 /\ Name[1] = "a"
    /\ Len(Longer) = 2 /\ Longer[1] = "a" /\ Longer[2] = "x"
    /\ Len(Literal) = 3 /\ Literal[1] = "'" /\ Literal[2] = ")" /\ Literal[3] = "'"
    /\ Len(Quoted) = 5 /\ Quoted[1] = DoubleQuote /\ Quoted[2] = "\\" /\ Quoted[4] = "("
    /\ Quoted[5] = DoubleQuote
<1>1. /\ Len(Name) = 1 /\ Name[1] = "a"
      /\ Len(Longer) = 2 /\ Longer[1] = "a" /\ Longer[2] = "x"
      /\ Len(Literal) = 3 /\ Literal[1] = "'" /\ Literal[2] = ")" /\ Literal[3] = "'"
  BY DEF Name, Longer, Literal
<1>2. /\ Len(Quoted) = 5 /\ Quoted[1] = DoubleQuote /\ Quoted[2] = "\\" /\ Quoted[4] = "("
      /\ Quoted[5] = DoubleQuote
  BY QuotedIs
<1> QED
  BY <1>1, <1>2

\* Where the scan of the assertion that token h begins is: before character k + 1
\* of token j.  A comment could have put it anywhere.
ScanAt(h, j, k) ==
    /\ j \in h..n + 1 /\ k \in 0..4 /\ end_offset = Begin(j) + k
    /\ \/ k = 0 /\ quote = None
       \/ j <= n /\ tokens[j] = Longer /\ k = 1 /\ quote = None
       \/ j <= n /\ tokens[j] = Literal /\ k \in {1, 2} /\ quote = "'"
       \/ j <= n /\ tokens[j] = Quoted /\ k \in {1, 3, 4} /\ quote = DoubleQuote
    /\ paren_depth = Depth(h, j - 1)
    /\ Close(h) # 0 => j <= Close(h)

\* What is recorded of it ends at token e.
Segment(h, e) == e \in h..n /\ Depth(h, e) = 0 /\ (Close(h) # 0 => e = Close(h))

\* On to the next token.
LEMMA ScanOn ==
    ASSUME Laid, tokens' = tokens, content' = content, errors' = errors,
           NEW h \in 1..n, NEW j \in h..n, Close(h) # 0 => j <= Close(h),
           tokens[j] # <<")">> \/ Depth(h, j) # 0,
           paren_depth' = Depth(h, j), end_offset' = Begin(j) + Len(tokens[j]), quote' = None
    PROVE  ScanAt(h, j + 1, 0)'
<1>1. n \in Nat /\ j \in 1..n /\ j + 1 \in h..n + 1 /\ (j + 1) - 1 = j
  BY Layout
<1>2. end_offset' = Begin(j + 1) + 0
  <2>1. Begin(j + 1) = Begin(j) + Len(tokens[j]) /\ Begin(j + 1) \in Int
    <3>1. j + 1 \in 1..n + 1
      BY <1>1
    <3> QED
      BY <1>1, <3>1, Layout
  <2> QED
    BY <2>1
<1>3. Close(h) # 0 => j + 1 <= Close(h)
  <2>1. Close(h) # 0 => j # Close(h) /\ Close(h) \in Int
    BY <1>1, CallIs
  <2> QED
    BY <1>1, <2>1
<1> QED
  BY <1>1, <1>2, <1>3, Static DEF ScanAt

\* The scan takes a token as it stands: parentheses count, and those in literals
\* do not; it ends with the call, if it is one.
LEMMA ScanToken ==
    ASSUME Laid, tokens' = tokens, Scan, NEW h \in 1..n, tokens[h] \in {Name, Longer}, Clean(h),
           NEW j, NEW k, ScanAt(h, j, k)
    PROVE  \/ pc' = "scan" /\ segments' = segments /\ \E i, m : ScanAt(h, i, m)'
           \/ pc' = "load" /\ segments' = segments /\ Close(h) = 0
           \/ pc' = "load" /\ \E e : Segment(h, e) /\ segments' = Recorded(Begin(e + 1))
<1>1. n \in Nat /\ Size \in Nat /\ Begin(n + 1) = Size
      /\ pc = "scan" /\ end_offset < Size /\ content' = content /\ errors' = errors
  BY Layout DEF Scan, given
<1>2. j \in h..n + 1 /\ k \in 0..4 /\ end_offset = Begin(j) + k /\ paren_depth = Depth(h, j - 1)
      /\ (Close(h) # 0 => j <= Close(h))
  BY DEF ScanAt
<1>3. j \in 1..n /\ j \in h..n
  <2>1. j # n + 1
    BY <1>1, <1>2
  <2> QED
    BY <1>1, <1>2, <2>1
<1>4. /\ tokens[j] \in Tokens \ {Comment} /\ Begin(j) \in Nat
      /\ \A q \in 1..Len(tokens[j]) : content[Begin(j) + q] = tokens[j][q]
  <2>1. tokens[j] # Comment
    BY <1>1, <1>2, <1>3, CallIs DEF Clean
  <2>2. j \in 1..n + 1
    BY <1>1, <1>3
  <2> QED
    BY <1>3, <2>1, <2>2, Layout
<1>5. /\ Depth(h, j - 1) \in Int /\ Depth(h, j) \in Int
      /\ Depth(h, j) = Depth(h, j - 1) + Weight(j)
  <2>1. h \in Int /\ j - 1 \in Int /\ j \in Int /\ h <= (j - 1) + 1 /\ (j - 1) + 1 = j /\ h <= j + 1
    BY <1>3
  <2> QED
    BY <2>1, DepthStep
<1>6. ASSUME NEW t \in {Name, Longer, Literal, Quoted, <<"\n">>}, tokens[j] = t
      PROVE  tokens[j] # <<"(">> /\ tokens[j] # <<")">> /\ Weight(j) = 0
  <2>1. t[1] \in {"a", "'", DoubleQuote, "\n"}
    BY LongerTokens
  <2>2. t # <<"(">> /\ t # <<")">>
    BY <2>1, QuotedIs
  <2> QED
    BY <1>6, <2>2 DEF Weight
<1> DEFINE c == content[end_offset + 1]
<1>7. ASSUME paren_depth' = paren_depth, end_offset' = Begin(j) + Len(tokens[j]), quote' = None,
             NEW t \in {Name, Longer, Literal, Quoted, <<"\n">>}, tokens[j] = t
      PROVE  \E i, m : ScanAt(h, i, m)'
  <2>1. tokens[j] # <<")">> /\ Weight(j) = 0
    BY <1>6, <1>7
  <2>2. paren_depth' = Depth(h, j)
    BY <1>2, <1>5, <1>7, <2>1
  <2>3. ScanAt(h, j + 1, 0)'
    BY <1>1, <1>2, <1>3, <1>7, <2>1, <2>2, ScanOn
  <2> QED
    BY <2>3
<1>8. ASSUME paren_depth' = paren_depth, NEW m \in 1..4, end_offset' = Begin(j) + m,
             \/ tokens[j] = Longer /\ m = 1 /\ quote' = None
             \/ tokens[j] = Literal /\ m \in {1, 2} /\ quote' = "'"
             \/ tokens[j] = Quoted /\ m \in {1, 3, 4} /\ quote' = DoubleQuote
      PROVE  \E i, q : ScanAt(h, i, q)'
  <2>1. /\ Depth(h, j - 1)' = Depth(h, j - 1) /\ Close(h)' = Close(h) /\ Begin(j)' = Begin(j) /\ n' = n
    BY <1>1, Static
  <2>2. j \in h..n' + 1 /\ m \in 0..4 /\ end_offset' = Begin(j)' + m /\ paren_depth' = Depth(h, j - 1)'
        /\ (Close(h)' # 0 => j <= Close(h)') /\ j <= n'
    BY <1>1, <1>2, <1>3, <1>8, <2>1
  <2>3. ScanAt(h, j, m)'
    BY <1>8, <2>2 DEF ScanAt
  <2> QED
    BY <2>3
<1>9. CASE k = 0 /\ quote = None /\ tokens[j] = <<"(">>
  <2>1. c = "(" /\ Len(tokens[j]) = 1
    BY <1>2, <1>4, <1>9
  <2>2. paren_depth' = paren_depth + 1 /\ end_offset' = end_offset + 1 /\ quote' = quote
        /\ pc' = pc /\ segments' = segments
    BY <1>9, <2>1 DEF Scan, OpenParen, CloseParen, OpenQuote, Char
  <2>3. Depth(h, j) = Depth(h, j - 1) + 1 /\ tokens[j] # <<")">>
    BY <1>5, <1>9 DEF Weight
  <2>4. paren_depth' = Depth(h, j) /\ end_offset' = Begin(j) + Len(tokens[j]) /\ quote' = None
    BY <1>2, <1>4, <1>5, <1>9, <2>1, <2>2, <2>3
  <2>5. ScanAt(h, j + 1, 0)'
    BY <1>1, <1>2, <1>3, <2>3, <2>4, ScanOn
  <2> QED
    BY <1>1, <2>2, <2>5
<1>10. CASE k = 0 /\ quote = None /\ tokens[j] = <<")">>
  <2>1. c = ")" /\ Len(tokens[j]) = 1
    BY <1>2, <1>4, <1>10
  <2>2. Depth(h, j) = Depth(h, j - 1) - 1
    BY <1>5, <1>10 DEF Weight
  <2>3. CloseParen
    BY <1>10, <2>1 DEF Scan, OpenParen, CloseParen, OpenQuote, Char
  <2>4. CASE paren_depth = 0
    <3>1. pc' = "load" /\ segments' = segments
      BY <2>3, <2>4 DEF CloseParen
    <3>2. ASSUME Close(h) # 0 PROVE FALSE
      <4>1. /\ j <= Close(h) /\ Close(h) \in h + 2..n /\ tokens[h + 1] = <<"(">>
            /\ \A m \in h + 1..Close(h) - 1 : Depth(h, m) >= 1
        BY <1>2, <3>2, CallIs
      <4>2. j # h /\ j # h + 1
        BY <1>10, <4>1 DEF Name, Longer
      <4>3. j - 1 \in h + 1..Close(h) - 1
        BY <1>3, <4>1, <4>2
      <4>4. Depth(h, j - 1) >= 1
        BY <4>1, <4>3
      <4> QED
        BY <1>2, <2>4, <4>4
    <3> QED
      BY <3>1, <3>2
  <2>5. CASE paren_depth = 1
    <3>1. pc' = "load" /\ segments' = Recorded(end_offset') /\ end_offset' = end_offset + 1
      BY <2>3, <2>5 DEF CloseParen
    <3>2. end_offset' = Begin(j + 1)
      <4>1. end_offset' = Begin(j) + 1
        BY <1>2, <1>4, <1>10, <3>1
      <4> QED
        BY <1>3, <2>1, <4>1, Layout
    <3>3. Depth(h, j) = 0
      BY <1>2, <2>2, <2>5
    <3>4. Close(h) # 0 => j = Close(h)
      <4> SUFFICES ASSUME Close(h) # 0 PROVE j = Close(h)
        OBVIOUS
      <4>1. /\ j <= Close(h) /\ Close(h) \in h + 2..n /\ tokens[h + 1] = <<"(">>
            /\ \A m \in h + 1..Close(h) - 1 : Depth(h, m) >= 1
        BY <1>2, CallIs
      <4>2. j # h
        BY <1>10 DEF Name, Longer
      <4>3. j \notin h + 1..Close(h) - 1
        BY <3>3, <4>1
      <4>4. j \in Int /\ h \in Int /\ h <= j /\ Close(h) \in Int
        BY <1>1, <1>3, <4>1
      <4> QED
        BY <4>1, <4>2, <4>3, <4>4
    <3>5. Segment(h, j)
      BY <1>3, <3>3, <3>4 DEF Segment
    <3> QED
      BY <3>1, <3>2, <3>5
  <2>6. CASE paren_depth # 0 /\ paren_depth # 1
    <3>1. /\ paren_depth' = paren_depth - 1 /\ end_offset' = end_offset + 1 /\ quote' = quote
          /\ pc' = pc /\ segments' = segments
      BY <2>3, <2>6 DEF CloseParen
    <3>2. Depth(h, j) # 0 /\ paren_depth' = Depth(h, j)
      BY <1>2, <1>5, <2>2, <2>6, <3>1
    <3>3. end_offset' = Begin(j) + Len(tokens[j]) /\ quote' = None
      BY <1>2, <1>4, <1>10, <2>1, <3>1
    <3>4. ScanAt(h, j + 1, 0)'
      BY <1>1, <1>2, <1>3, <3>2, <3>3, ScanOn
    <3> QED
      BY <1>1, <3>1, <3>4
  <2> QED
    BY <2>4, <2>5, <2>6
<1>11. ASSUME quote = None, c \notin {"(", ")"}
       PROVE  /\ quote' = (IF c \in {"'", DoubleQuote} THEN c ELSE None)
              /\ end_offset' = end_offset + 1
              /\ pc' = pc /\ paren_depth' = paren_depth /\ segments' = segments
  BY <1>11, QuotedIs DEF Scan, OpenParen, CloseParen, OpenQuote, Char
<1>12. ASSUME quote # None
       PROVE  /\ quote' = (IF c = quote THEN None ELSE quote)
              /\ end_offset' = end_offset + (IF c = "\\" THEN 2 ELSE 1)
              /\ pc' = pc /\ paren_depth' = paren_depth /\ segments' = segments
  BY <1>12 DEF Scan, InQuote, Char
<1>13. Char = c /\ c = content[end_offset + 1]
  BY DEF Char
<1> HIDE DEF c
<1>14. ASSUME NEW l \in 1..5, Len(tokens[j]) = l, k < l PROVE c = tokens[j][k + 1]
  <2>1. k + 1 \in 1..Len(tokens[j]) /\ end_offset + 1 = Begin(j) + (k + 1)
    BY <1>2, <1>4, <1>14
  <2> QED
    BY <1>4, <1>13, <1>14, <2>1
<1>15. CASE k = 0 /\ quote = None /\ tokens[j] \in {Name, <<"\n">>}
  <2>0. Len(tokens[j]) = 1 /\ tokens[j][1] \in {"a", "\n"}
    BY <1>15, LongerTokens
  <2>1. c \in {"a", "\n"} /\ Len(tokens[j]) = 1
    BY <1>14, <1>15, <2>0
  <2>2. quote' = None /\ end_offset' = Begin(j) + Len(tokens[j]) /\ pc' = pc
        /\ paren_depth' = paren_depth /\ segments' = segments
    BY <1>2, <1>4, <1>11, <1>15, <2>1, QuotedIs
  <2> QED
    BY <1>1, <1>7, <1>15, <2>2
<1>16. CASE k = 0 /\ quote = None /\ tokens[j] \in {Longer, Literal, Quoted}
  <2>0. Len(tokens[j]) \in {2, 3, 5}
    BY <1>16, LongerTokens
  <2>1. c = tokens[j][1]
    BY <1>14, <1>16, <2>0
  <2>2. /\ tokens[j] = Longer => c = "a"
        /\ tokens[j] = Literal => c = "'"
        /\ tokens[j] = Quoted => c = DoubleQuote
    BY <2>1, LongerTokens
  <2>3. quote' = (IF c \in {"'", DoubleQuote} THEN c ELSE None) /\ end_offset' = Begin(j) + 1
        /\ pc' = pc /\ paren_depth' = paren_depth /\ segments' = segments
    BY <1>2, <1>4, <1>11, <1>16, <2>2, QuotedIs
  <2>4. \/ tokens[j] = Longer /\ quote' = None
        \/ tokens[j] = Literal /\ quote' = "'"
        \/ tokens[j] = Quoted /\ quote' = DoubleQuote
    BY <1>16, <2>2, <2>3, QuotedIs
  <2> QED
    BY <1>1, <1>8, <2>3, <2>4
<1>17. CASE tokens[j] = Longer /\ k = 1 /\ quote = None
  <2>0. Len(tokens[j]) = 2 /\ tokens[j][2] = "x"
    BY <1>17, LongerTokens
  <2>1. c = "x" /\ Len(tokens[j]) = 2
    BY <1>14, <1>17, <2>0
  <2>2. quote' = None /\ end_offset' = Begin(j) + Len(tokens[j]) /\ pc' = pc
        /\ paren_depth' = paren_depth /\ segments' = segments
    BY <1>2, <1>4, <1>11, <1>17, <2>1, QuotedIs
  <2> QED
    BY <1>1, <1>7, <1>17, <2>2
<1>18. CASE tokens[j] = Literal /\ k \in {1, 2} /\ quote = "'"
  <2>0. quote # None /\ Len(tokens[j]) = 3
    BY <1>18, LongerTokens DEF None
  <2>1. c = (IF k = 1 THEN ")" ELSE "'")
    <3>1. c = tokens[j][k + 1]
      BY <1>14, <1>18, <2>0
    <3>2. tokens[j][2] = ")" /\ tokens[j][3] = "'"
      BY <1>18, LongerTokens
    <3> QED
      BY <1>18, <3>1, <3>2
  <2>2. quote' = (IF k = 1 THEN "'" ELSE None) /\ end_offset' = Begin(j) + (k + 1) /\ pc' = pc
        /\ paren_depth' = paren_depth /\ segments' = segments
    BY <1>2, <1>4, <1>12, <1>18, <2>0, <2>1
  <2>3. CASE k = 1
    BY <1>1, <1>8, <1>18, <2>2, <2>3
  <2>4. CASE k = 2
    BY <1>1, <1>7, <1>18, <2>0, <2>2, <2>4
  <2> QED
    BY <1>18, <2>3, <2>4
<1>19. CASE tokens[j] = Quoted /\ k \in {1, 3, 4} /\ quote = DoubleQuote
  <2>0. quote # None /\ Len(tokens[j]) = 5
    BY <1>19, LongerTokens, QuotedIs DEF None
  <2>1. c = (IF k = 1 THEN "\\" ELSE IF k = 3 THEN "(" ELSE DoubleQuote)
    <3>1. c = tokens[j][k + 1]
      BY <1>14, <1>19, <2>0
    <3>2. tokens[j][2] = "\\" /\ tokens[j][4] = "(" /\ tokens[j][5] = DoubleQuote
      BY <1>19, LongerTokens
    <3> QED
      BY <1>19, <3>1, <3>2
  <2>2. quote' = (IF k = 4 THEN None ELSE DoubleQuote)
        /\ end_offset' = Begin(j) + (IF k = 1 THEN 3 ELSE k + 1) /\ pc' = pc
        /\ paren_depth' = paren_depth /\ segments' = segments
    BY <1>2, <1>4, <1>12, <1>19, <2>0, <2>1, QuotedIs
  <2>3. CASE k = 1
    BY <1>1, <1>8, <1>19, <2>2, <2>3
  <2>4. CASE k = 3
    BY <1>1, <1>8, <1>19, <2>2, <2>4
  <2>5. CASE k = 4
    BY <1>1, <1>7, <1>19, <2>0, <2>2, <2>5
  <2> QED
    BY <1>19, <2>3, <2>4, <2>5
<1> QED
  <2>1. tokens[j] \in {Name, Longer, <<"(">>, <<")">>, <<"\n">>, Literal, Quoted}
    BY <1>4 DEF Tokens
  <2>2. \/ k = 0 /\ quote = None
        \/ tokens[j] = Longer /\ k = 1 /\ quote = None
        \/ tokens[j] = Literal /\ k \in {1, 2} /\ quote = "'"
        \/ tokens[j] = Quoted /\ k \in {1, 3, 4} /\ quote = DoubleQuote
    BY DEF ScanAt
  <2> QED
    BY <1>9, <1>10, <1>15, <1>16, <1>17, <1>18, <1>19, <2>1, <2>2

-----------------------------------------------------------------------------
\* Segments are recorded at heads, each up to the end of a token.
SegmentsOfHeads ==
    /\ DOMAIN segments \subseteq {Begin(h) : h \in Heads}
    /\ \A h \in Heads : Clean(h) /\ Begin(h) \in DOMAIN segments =>
          \E e : Segment(h, e) /\ segments[Begin(h)] = Begin(e + 1)

ScannedFromHead ==
    pc = "scan" => \E h \in Heads : /\ offset = Begin(h)
                                    /\ Clean(h) => \E j, k : ScanAt(h, j, k)

\* A call that was loaded is recorded, or about to be.
CallsRecorded ==
    \A k \in 1..loaded : \A h \in Heads :
        errors[k] = Begin(h) /\ Close(h) # 0 /\ Clean(h) =>
            Begin(h) \in DOMAIN segments \/ (pc = "scan" /\ offset = Begin(h))

\* Nothing is copied before everything is loaded.
LoadedThenCopied ==
    IF pc \in {"copy", "done"} THEN loaded = Len(errors) ELSE index = 0 /\ out = <<>>

AtTokens == \A k \in 1..Len(errors) : \E i \in 1..n + 1 : errors[k] = Begin(i)

ScanTokens == Laid /\ AtTokens /\ SegmentsOfHeads /\ ScannedFromHead /\ CallsRecorded /\ LoadedThenCopied

\* Heads are names, at different places.
LEMMA HeadsAre ==
    ASSUME Laid
    PROVE  /\ \A h \in Heads : h \in 1..n /\ tokens[h] \in {Name, Longer} /\ Begin(h) \in 0..Size - 1
           /\ \A h, g \in 1..n + 1 : Begin(h) = Begin(g) => h = g
<1>1. \A i, j \in 1..n + 1 : i < j <=> Begin(i) < Begin(j)
  BY TokensInOrder
<1>2. n \in Nat /\ Size \in Nat /\ Begin(n + 1) = Size /\ \A i \in 1..n + 1 : Begin(i) \in 0..Size
  BY Layout
<1>3. ASSUME NEW h \in Heads PROVE h \in 1..n /\ tokens[h] \in {Name, Longer} /\ Begin(h) \in 0..Size - 1
  <2>1. h \in 1..n /\ tokens[h] \in {Name, Longer}
    BY DEF Heads, n
  <2>2. h \in 1..n + 1 /\ n + 1 \in 1..n + 1 /\ h < n + 1
    BY <1>2, <2>1
  <2>3. Begin(h) < Size
    BY <1>1, <1>2, <2>2
  <2> QED
    BY <1>2, <2>1, <2>2, <2>3
<1>4. ASSUME NEW h \in 1..n + 1, NEW g \in 1..n + 1, Begin(h) = Begin(g) PROVE h = g
  <2>1. ~(h < g) /\ ~(g < h)
    BY <1>1, <1>2, <1>4
  <2> QED
    BY <1>2, <2>1
<1> QED
  BY <1>3, <1>4

\* The assertions are where names are.
LEMMA NamesAreAsserts ==
    ASSUME Laid, TypeOK, AssertFn = Name, NEW i \in 1..n + 1
    PROVE  IsAssert(Begin(i)) <=> i \in 1..n /\ tokens[i] \in {Name, Longer}
<1>1. n \in Nat /\ Size \in Nat /\ Begin(n + 1) = Size /\ Begin(i) \in 0..Size
  BY Layout
<1>2. Len(AssertFn) = 1 /\ AssertFn = <<"a">>
  BY DEF Name
<1>3. CASE i = n + 1
  BY <1>1, <1>2, <1>3 DEF IsAssert
<1>4. CASE i \in 1..n
  <2>1. /\ tokens[i] \in Tokens /\ Len(tokens[i]) \in 1..5 /\ content[Begin(i) + 1] = tokens[i][1]
        /\ Begin(i + 1) = Begin(i) + Len(tokens[i]) /\ Begin(i + 1) \in 0..Size
    <3>1. tokens[i] \in Tokens /\ Len(tokens[i]) \in 1..5 /\ Begin(i + 1) = Begin(i) + Len(tokens[i])
      BY <1>4, Layout
    <3>2. content[Begin(i) + 1] = tokens[i][1]
      <4> DEFINE l == Len(tokens[i])
      <4>1. l \in 1..5
        BY <3>1
      <4> HIDE DEF l
      <4>2. 1 \in 1..l
        BY <4>1
      <4> QED
        BY <1>4, <4>2, Layout DEF l
    <3>3. i + 1 \in 1..n + 1
      BY ONLY <1>4, <1>1
    <3>4. Begin(i + 1) \in 0..Size
      BY <3>3, Layout
    <3> QED
      BY <3>1, <3>2, <3>4
  <2>2. Begin(i) + 1 <= Size
    BY <1>1, <2>1
  <2>3. SubSeq(content, Begin(i) + 1, Begin(i) + 1) = <<content[Begin(i) + 1]>>
    <3>1. content \in Seq(Chars) /\ Begin(i) + 1 \in 1..Len(content)
      BY <1>1, <2>2 DEF TypeOK, Size
    <3> DEFINE b == Begin(i) + 1
               s == SubSeq(content, b, b)
    <3>2. b \in Int /\ \A k \in b..b : content[k] \in Chars
      BY <3>1
    <3> HIDE DEF b
    <3>3. s \in Seq(Chars) /\ Len(s) = 1 /\ s[1] = content[b]
      BY <3>2, SubSeqProperties
    <3> HIDE DEF s
    <3>4. s = <<content[b]>>
      BY <3>3
    <3> QED
      BY <3>4 DEF s, b
  <2>4. IsAssert(Begin(i)) <=> <<content[Begin(i) + 1]>> = <<"a">>
    BY <1>2, <2>2, <2>3 DEF IsAssert
  <2>5. tokens[i] \in {Name, Longer} <=> tokens[i][1] = "a"
    BY <2>1, TokenFacts
  <2> QED
    BY <1>4, <2>1, <2>4, <2>5
<1> QED
  BY <1>1, <1>3, <1>4

\* What the script is given has that form.
LEMMA TokensInit == MCInit => ScanTokens
<1> SUFFICES ASSUME MCInit PROVE ScanTokens
  OBVIOUS
<1>1. tokens \in Seq(Tokens)
  <2>1. \A m \in Nat : SeqOf(Tokens, m) \subseteq Seq(Tokens)
    BY DEF SeqOf
  <2>2. {Name, Longer, <<"(">>, <<")">>} \subseteq Tokens
    BY DEF Tokens
  <2>3. CASE tokens \in SeqOf(Tokens, MaxTokens)
    BY <2>1, <2>3, MaxAssumption
  <2>4. ASSUME NEW h \in {Name, Longer}, NEW s \in SeqOf(Tokens, MaxArgs), NEW t \in SeqOf(Tokens, 1),
               tokens = <<h, <<"(">>>> \o s \o <<<<")">>>> \o t
        PROVE  tokens \in Seq(Tokens)
    <3>1. s \in Seq(Tokens) /\ t \in Seq(Tokens)
      BY <2>1, MaxAssumption
    <3>2. <<h, <<"(">>>> \in Seq(Tokens) /\ <<<<")">>>> \in Seq(Tokens)
      BY <2>2
    <3> QED
      BY <2>4, <3>1, <3>2, ConcatProperties
  <2> DEFINE Text(h, s, t) == <<h, <<"(">>>> \o s \o <<<<")">>>> \o t
  <2>5. Texts = {Text(h, s, t) : h \in {Name, Longer}, s \in SeqOf(Tokens, MaxArgs), t \in SeqOf(Tokens, 1)}
                \cup SeqOf(Tokens, MaxTokens)
    BY DEF Texts
  <2> HIDE DEF Text
  <2>7. tokens \in Texts
    BY DEF MCInit
  <2>6. \/ tokens \in SeqOf(Tokens, MaxTokens)
        \/ \E h \in {Name, Longer}, s \in SeqOf(Tokens, MaxArgs), t \in SeqOf(Tokens, 1) :
              tokens = Text(h, s, t)
    BY <2>5, <2>7
  <2> QED
    BY <2>3, <2>4, <2>6 DEF Text
<1>2. Laid
  BY <1>1 DEF MCInit, Laid
<1>3. AtTokens
  <2>1. errors \in Seq({Begin(i) : i \in 1..n + 1})
    BY MaxAssumption DEF MCInit, SeqOf, n
  <2>2. \A k \in 1..Len(errors) : errors[k] \in {Begin(i) : i \in 1..n + 1}
    BY <2>1
  <2> QED
    BY <2>2 DEF AtTokens
<1>4. segments = [o \in {} |-> 0] /\ DOMAIN segments = {} /\ pc \in {"poll", "load"}
      /\ index = 0 /\ out = <<>> /\ loaded = 0
  BY DEF MCInit, Init
<1> QED
  BY <1>2, <1>3, <1>4 DEF ScanTokens, SegmentsOfHeads, ScannedFromHead, CallsRecorded, LoadedThenCopied

\* What is recorded of a head.
LEMMA RecordedHead ==
    ASSUME ScanTokens, tokens' = tokens, content' = content, errors' = errors,
           NEW h \in Heads, offset = Begin(h), NEW end, segments' = Recorded(end),
           Clean(h) => \E e : Segment(h, e) /\ end = Begin(e + 1)
    PROVE  SegmentsOfHeads' /\ DOMAIN segments' = DOMAIN segments \cup {offset}
<1>1. /\ DOMAIN segments' = DOMAIN segments \cup {offset}
      /\ \A o \in DOMAIN segments : o # offset => segments'[o] = segments[o]
      /\ segments'[offset] = end \/ (offset \in DOMAIN segments /\ segments'[offset] = segments[offset])
  BY DEF Recorded
<1>2. DOMAIN segments' \subseteq {Begin(g) : g \in Heads}
  BY <1>1 DEF ScanTokens, SegmentsOfHeads
<1>3. ASSUME NEW g \in Heads, Clean(g), Begin(g) \in DOMAIN segments'
      PROVE  \E e : Segment(g, e) /\ segments'[Begin(g)] = Begin(e + 1)
  <2>1. CASE Begin(g) \in DOMAIN segments /\ segments'[Begin(g)] = segments[Begin(g)]
    BY <1>3, <2>1 DEF ScanTokens, SegmentsOfHeads
  <2>2. CASE Begin(g) = offset /\ segments'[offset] = end
    <3>1. g = h
      <4>1. Laid /\ g \in 1..n + 1 /\ h \in 1..n + 1
        BY HeadsAre, Layout DEF ScanTokens
      <4> QED
        BY <2>2, <4>1, HeadsAre
    <3> QED
      BY <1>3, <2>2, <3>1
  <2> QED
    BY <1>1, <1>3, <2>1, <2>2
<1>4. \A e, g : Segment(g, e)' <=> Segment(g, e)
  BY Static DEF Segment
<1>5. SegmentsOfHeads'
  BY <1>2, <1>3, <1>4, Static DEF SegmentsOfHeads
<1> QED
  BY <1>1, <1>5

\* An error is loaded: its place is where a token begins, and if that is a name,
\* the scan is about to begin there.
LEMMA TokensLoad ==
    ASSUME IInv, Located, ScanTokens, AssertFn = Name, tokens' = tokens, LoadResult
    PROVE  ScanTokens'
<1>1. Located' /\ TypeOK /\ Size \in Nat
  BY LocatedLoad, SizeType DEF IInv
<1>2. /\ pc = "load" /\ loaded' = loaded + 1 /\ loaded \in Nat /\ loaded' \in 1..Len(errors)
      /\ content' = content /\ errors' = errors /\ segments' = segments /\ index' = index /\ out' = out
      /\ Len(errors) \in Nat
  BY <1>1 DEF LoadResult, given, TypeOK
<1>3. \/ pc' = "failed"
      \/ pc' = "load" /\ ~IsAssert(offset')
      \/ pc' = "scan" /\ IsAssert(offset') /\ end_offset' = offset' /\ paren_depth' = 0 /\ quote' = None
  BY <1>2 DEF LoadResult
<1>4. Laid /\ AtTokens /\ SegmentsOfHeads
  BY DEF ScanTokens
<1>5. PICK i \in 1..n + 1 : errors[loaded'] = Begin(i)
  BY <1>2, <1>4 DEF AtTokens
<1>6. pc' # "failed" => offset' = Begin(i)
  BY <1>1, <1>2, <1>5 DEF Located, ErrorLocated
<1>7. pc' = "failed" => ~(Begin(i) < Size)
  <2>1. Size' = Size
    BY <1>2, Static
  <2> QED
    BY <1>1, <1>2, <1>5, <2>1 DEF Located, ErrorLocated
<1>8. IsAssert(Begin(i)) <=> i \in 1..n /\ tokens[i] \in {Name, Longer}
  BY <1>1, <1>4, NamesAreAsserts
<1>9. pc' = "scan" => i \in Heads
  BY <1>2, <1>3, <1>5, <1>6, <1>8 DEF Heads, n
<1>10. Laid' /\ AtTokens' /\ SegmentsOfHeads'
  <2>1. Laid' /\ AtTokens'
    BY <1>2, <1>4, Static DEF Laid, AtTokens
  <2>2. \A e, g : Segment(g, e)' <=> Segment(g, e)
    BY <1>2, Static DEF Segment
  <2>3. SegmentsOfHeads'
    BY <1>2, <1>4, <2>2, Static DEF SegmentsOfHeads
  <2> QED
    BY <2>1, <2>3
<1>11. ScannedFromHead'
  <2> SUFFICES ASSUME pc' = "scan" PROVE ScannedFromHead'
    BY DEF ScannedFromHead
  <2>1. i \in Heads /\ i \in 1..n /\ n \in Nat /\ Begin(i) \in Int
    BY <1>4, <1>9, HeadsAre, Layout
  <2>2. ScanAt(i, i, 0)'
    <3>1. Depth(i, i - 1) = 0
      BY <2>1, DepthStep
    <3>2. Close(i) # 0 => i <= Close(i)
      BY <1>4, <2>1, CallIs
    <3>3. end_offset' = Begin(i) + 0 /\ paren_depth' = 0 /\ quote' = None
      BY <1>3, <1>6, <2>1
    <3>4. i \in i..n + 1 /\ 0 \in 0..4
      BY <2>1
    <3>5. n' = n /\ Begin(i)' = Begin(i) /\ Depth(i, i - 1)' = Depth(i, i - 1) /\ Close(i)' = Close(i)
      BY <1>2, Static
    <3> QED
      BY <3>1, <3>2, <3>3, <3>4, <3>5 DEF ScanAt
  <2> QED
    <3>1. Heads' = Heads /\ Begin(i)' = Begin(i) /\ offset' = Begin(i)
      BY <1>2, <1>6, Static
    <3> QED
      BY <2>1, <2>2, <3>1 DEF ScannedFromHead
<1>12. CallsRecorded'
  <2>1. ASSUME NEW k \in 1..loaded', NEW h \in Heads, errors[k] = Begin(h), Close(h) # 0, Clean(h)
        PROVE  Begin(h) \in DOMAIN segments \/ (pc' = "scan" /\ offset' = Begin(h))
    <3>1. CASE k \in 1..loaded
      BY <1>2, <2>1, <3>1 DEF ScanTokens, CallsRecorded
    <3>2. CASE k = loaded'
      <4>1. h \in 1..n /\ tokens[h] \in {Name, Longer} /\ Begin(h) < Size /\ Begin(h) = Begin(i)
            /\ h \in 1..n + 1
        BY <1>1, <1>4, <1>5, <2>1, <3>2, HeadsAre, Layout
      <4>2. h = i
        BY <1>4, <4>1, HeadsAre
      <4> QED
        BY <1>3, <1>6, <1>7, <1>8, <4>1, <4>2
    <3> QED
      BY <1>2, <3>1, <3>2
  <2> QED
    BY <1>2, <2>1, Static DEF CallsRecorded
<1>13. LoadedThenCopied'
  BY <1>2, <1>3 DEF ScanTokens, LoadedThenCopied
<1> QED
  BY <1>10, <1>11, <1>12, <1>13 DEF ScanTokens

\* What the scan of an assertion may change.
LEMMA ScanEffect ==
    ASSUME TypeOK, Scan \/ ScanEnds
    PROVE  /\ pc = "scan" /\ pc' \in {"scan", "load"}
           /\ content' = content /\ errors' = errors /\ loaded' = loaded /\ offset' = offset
           /\ index' = index /\ out' = out
           /\ segments' = segments \/ (pc' = "load" /\ \E end : segments' = Recorded(end))
<1>1. CASE Scan
  <2>1. CASE OpenParen \/ OpenQuote \/ InQuote
    BY <1>1, <2>1 DEF Scan, given, OpenParen, OpenQuote, InQuote
  <2>2. CASE CloseParen
    BY <1>1, <2>2 DEF Scan, given, CloseParen
  <2> QED
    BY <1>1, <2>1, <2>2 DEF Scan
<1>2. CASE ScanEnds
  BY <1>2 DEF ScanEnds, given
<1> QED
  BY <1>1, <1>2

\* The scan of a head records a segment for it, if any; a call is not given up.
LEMMA TokensScan ==
    ASSUME IInv, ScanTokens, tokens' = tokens, Scan \/ ScanEnds
    PROVE  ScanTokens'
<1>1. /\ pc = "scan" /\ pc' \in {"scan", "load"}
      /\ content' = content /\ errors' = errors /\ loaded' = loaded /\ offset' = offset
      /\ index' = index /\ out' = out
      /\ segments' = segments \/ (pc' = "load" /\ \E end : segments' = Recorded(end))
  BY ScanEffect DEF IInv
<1>2. Laid /\ AtTokens /\ SegmentsOfHeads /\ CallsRecorded
  BY DEF ScanTokens
<1>3. PICK h \in Heads : offset = Begin(h) /\ (Clean(h) => \E j, k : ScanAt(h, j, k))
  BY <1>1 DEF ScanTokens, ScannedFromHead
<1>4. h \in 1..n /\ tokens[h] \in {Name, Longer}
  BY <1>2, HeadsAre
<1>5. ASSUME Clean(h)
      PROVE  \/ pc' = "scan" /\ segments' = segments /\ \E i, m : ScanAt(h, i, m)'
             \/ pc' = "load" /\ segments' = segments /\ Close(h) = 0
             \/ pc' = "load" /\ \E e : Segment(h, e) /\ segments' = Recorded(Begin(e + 1))
  <2>1. PICK j, k : ScanAt(h, j, k)
    BY <1>3, <1>5
  <2>2. CASE Scan
    BY <1>2, <1>4, <1>5, <2>1, <2>2, ScanToken
  <2>3. CASE ScanEnds
    <3>1. n \in Nat /\ Size \in Nat /\ end_offset >= Size /\ pc' = "load"
          /\ segments' = IF paren_depth = 0 THEN Recorded(end_offset) ELSE segments
      BY <1>2, <2>3, Layout DEF ScanEnds
    <3>2. j = n + 1 /\ k = 0
      <4>1. j \in h..n + 1 /\ end_offset = Begin(j) + k /\ k \in 0..4
            /\ (k # 0 => j <= n)
        BY <2>1 DEF ScanAt
      <4>2. ASSUME j \in 1..n PROVE FALSE
        <5>1. k < Len(tokens[j])
          <6>1. \/ k = 0
                \/ tokens[j] = Longer /\ k = 1
                \/ tokens[j] = Literal /\ k \in {1, 2}
                \/ tokens[j] = Quoted /\ k \in {1, 3, 4}
            BY <2>1 DEF ScanAt
          <6> DEFINE l == Len(tokens[j])
          <6>2. l \in 1..5
            BY <1>2, <4>2, Layout
          <6>3. /\ tokens[j] = Longer => l = 2
                /\ tokens[j] = Literal => l = 3
                /\ tokens[j] = Quoted => l = 5
            BY LongerTokens
          <6> HIDE DEF l
          <6>4. k < l
            BY <6>1, <6>2, <6>3
          <6> QED
            BY <6>4 DEF l
        <5>2. Begin(j + 1) = Begin(j) + Len(tokens[j]) /\ Len(tokens[j]) \in 1..5
          BY <1>2, <4>2, Layout
        <5>3. j \in 1..n + 1 /\ j + 1 \in 1..n + 1
          BY <3>1, <4>2
        <5>4. Begin(j) \in 0..Size /\ Begin(j + 1) \in 0..Size
          BY <1>2, <5>3, Layout
        <5> QED
          BY <3>1, <4>1, <5>1, <5>2, <5>4
      <4>3. j = n + 1
        BY <1>4, <3>1, <4>1, <4>2
      <4> QED
        BY <3>1, <4>1, <4>3
    <3>3. end_offset = Begin(n + 1) /\ paren_depth = Depth(h, n)
          /\ Close(h) = 0
      <4>1. end_offset = Begin(n + 1) + 0 /\ paren_depth = Depth(h, (n + 1) - 1)
            /\ (Close(h) # 0 => n + 1 <= Close(h))
        BY <2>1, <3>2 DEF ScanAt
      <4>2. Begin(n + 1) = Size /\ (n + 1) - 1 = n
        BY <1>2, <3>1, Layout
      <4>3. Close(h) # 0 => Close(h) \in h + 2..n
        BY <1>2, <1>4, CallIs
      <4> QED
        BY <1>4, <3>1, <4>1, <4>2, <4>3
    <3>4. CASE paren_depth = 0
      <4>1. Segment(h, n)
        BY <1>4, <3>1, <3>3, <3>4 DEF Segment
      <4> QED
        BY <3>1, <3>3, <3>4, <4>1
    <3>5. CASE paren_depth # 0
      BY <3>1, <3>3, <3>5
    <3> QED
      BY <3>4, <3>5
  <2> QED
    BY <2>2, <2>3
<1>6. Laid' /\ AtTokens'
  BY <1>1, <1>2, Static DEF Laid, AtTokens
<1>7. SegmentsOfHeads' /\ DOMAIN segments \subseteq DOMAIN segments'
      /\ (Clean(h) /\ Close(h) # 0 /\ pc' = "load" => Begin(h) \in DOMAIN segments')
  <2>1. CASE segments' = segments
    <3>1. \A e, g : Segment(g, e)' <=> Segment(g, e)
      BY <1>1, Static DEF Segment
    <3>2. SegmentsOfHeads'
      BY <1>1, <1>2, <2>1, <3>1, Static DEF SegmentsOfHeads
    <3>3. ASSUME Clean(h), Close(h) # 0, pc' = "load" PROVE Begin(h) \in DOMAIN segments'
      <4>1. PICK e : Segment(h, e) /\ segments' = Recorded(Begin(e + 1))
        BY <1>5, <3>3
      <4> QED
        BY <1>3, <4>1 DEF Recorded
    <3> QED
      BY <2>1, <3>2, <3>3
  <2>2. CASE segments' # segments
    <3>1. \E end : segments' = Recorded(end) /\ (Clean(h) => \E e : Segment(h, e) /\ end = Begin(e + 1))
      BY <1>1, <1>5, <2>2
    <3>2. SegmentsOfHeads' /\ DOMAIN segments' = DOMAIN segments \cup {offset}
      BY <1>1, <1>3, <3>1, RecordedHead
    <3> QED
      BY <1>3, <3>2
  <2> QED
    BY <2>1, <2>2
<1>8. ScannedFromHead'
  <2> SUFFICES ASSUME pc' = "scan" PROVE ScannedFromHead'
    BY DEF ScannedFromHead
  <2>1. Heads' = Heads /\ offset' = Begin(h)' /\ (Clean(h)' <=> Clean(h))
    BY <1>1, <1>3, Static
  <2>2. Clean(h) => \E j, k : ScanAt(h, j, k)'
    BY <1>5
  <2> QED
    BY <2>1, <2>2 DEF ScannedFromHead
<1>9. CallsRecorded'
  <2>1. ASSUME NEW k \in 1..loaded, NEW g \in Heads, errors[k] = Begin(g), Close(g) # 0, Clean(g)
        PROVE  Begin(g) \in DOMAIN segments' \/ (pc' = "scan" /\ offset' = Begin(g))
    <3>1. CASE Begin(g) \in DOMAIN segments
      BY <1>7, <3>1
    <3>2. CASE offset = Begin(g)
      <4>1. g = h
        <5>1. g \in 1..n + 1 /\ h \in 1..n + 1
          BY <1>2, HeadsAre, Layout
        <5> QED
          BY <1>2, <1>3, <3>2, <5>1, HeadsAre
      <4> QED
        BY <1>1, <1>7, <2>1, <3>2, <4>1
    <3> QED
      BY <1>2, <2>1, <3>1, <3>2 DEF CallsRecorded
  <2> QED
    BY <1>1, <2>1, Static DEF CallsRecorded
<1>10. LoadedThenCopied'
  BY <1>1 DEF ScanTokens, LoadedThenCopied
<1> QED
  BY <1>6, <1>7, <1>8, <1>9, <1>10 DEF ScanTokens

\* No other step touches what was scanned.
LEMMA TokensStay ==
    ASSUME ScanTokens, tokens' = tokens, UNCHANGED <<given, loaded, offset, scanner, segments>>,
           pc' = "scan" <=> pc = "scan", LoadedThenCopied'
    PROVE  ScanTokens'
<1>1. /\ content' = content /\ errors' = errors /\ loaded' = loaded /\ offset' = offset
      /\ segments' = segments
      /\ end_offset' = end_offset /\ paren_depth' = paren_depth /\ quote' = quote
  BY DEF given, scanner
<1>2. Laid /\ AtTokens /\ SegmentsOfHeads /\ ScannedFromHead /\ CallsRecorded
  BY DEF ScanTokens
<1>3. Laid' /\ AtTokens'
  BY <1>1, <1>2, Static DEF Laid, AtTokens
<1>4. \A e, g : Segment(g, e)' <=> Segment(g, e)
  BY <1>1, Static DEF Segment
<1>5. SegmentsOfHeads'
  BY <1>1, <1>2, <1>4, Static DEF SegmentsOfHeads
<1>6. \A h, j, k : ScanAt(h, j, k)' <=> ScanAt(h, j, k)
  BY <1>1, Static DEF ScanAt
<1>7. ScannedFromHead'
  BY <1>1, <1>2, <1>6, Static DEF ScannedFromHead
<1>8. CallsRecorded'
  BY <1>1, <1>2, Static DEF CallsRecorded
<1> QED
  BY <1>3, <1>5, <1>7, <1>8 DEF ScanTokens

\* Each step keeps to the tokens.
LEMMA TokensNext ==
    ASSUME IInv, Located, ScanTokens, AssertFn = Name, tokens' = tokens, [Next]_vars
    PROVE  ScanTokens'
<1>1. CASE CompilerExits
  BY <1>1, TokensStay DEF CompilerExits, ScanTokens, LoadedThenCopied, given
<1>2. CASE Poll
  BY <1>2, TokensStay DEF Poll, ScanTokens, LoadedThenCopied, given
<1>3. CASE Communicate
  BY <1>3, TokensStay DEF Communicate, ScanTokens, LoadedThenCopied, given
<1>4. CASE AllLoaded
  BY <1>4, TokensStay DEF AllLoaded, ScanTokens, LoadedThenCopied, given
<1>5. CASE Copy
  BY <1>5, TokensStay DEF Copy, ScanTokens, LoadedThenCopied, given
<1>6. CASE Copied
  BY <1>6, TokensStay DEF Copied, ScanTokens, LoadedThenCopied, given
<1>7. CASE UNCHANGED vars
  BY <1>7, TokensStay DEF vars, ScanTokens, LoadedThenCopied, given
<1> QED
  BY TokensLoad, TokensScan, <1>1, <1>2, <1>3, <1>4, <1>5, <1>6, <1>7 DEF Next, Erase, Over

-----------------------------------------------------------------------------
(* What is copied, where all that is in error are calls.                   *)

Calls == \A h \in Heads : Close(h) # 0 /\ ~\E i \in h..Close(h) : tokens[i] = Comment
End(h) == Begin(Close(h) + 1)
Erased(p) == \E h \in Heads : Begin(h) <= p /\ p < End(h)
Outer == {h \in Heads : h = 1 \/ \A g \in Heads : g < h => Close(g) < h}

\* The copying is at no place within a call; what is written is what no call
\* covers; and each of the outermost calls that were passed is marked.
CallsCopied ==
    pc \in {"copy", "done"} /\ Calls =>
        /\ \A h \in Heads : ~(Begin(h) < index /\ index < End(h))
        /\ \A p \in 0..Size - 1 : (\E i \in 1..Len(out) : out[i] = p) <=> p < index /\ ~Erased(p)
        /\ Cardinality({i \in 1..Len(out) : out[i] = Skipped}) = Cardinality({h \in Outer : Begin(h) < index})
        /\ pc = "done" => index >= Size

\* Calls are apart or one within the other.
LEMMA CallPlaces ==
    ASSUME Laid, Calls, NEW h \in Heads
    PROVE  /\ h \in 1..n /\ Close(h) \in h + 2..n /\ Begin(h) \in 0..Size /\ End(h) \in 0..Size
           /\ Begin(h) < End(h) /\ Begin(h) < Size
           /\ \A i \in 1..n + 1 : /\ i <= Close(h) <=> Begin(i) < End(h)
                                  /\ h < i <=> Begin(h) < Begin(i)
           /\ \A g \in Heads : h < g /\ Begin(g) < End(h) => End(g) <= End(h)
<1>1. n \in Nat /\ Size \in Nat /\ \A i \in 1..n + 1 : Begin(i) \in 0..Size
  BY Layout
<1>2. \A i, j \in 1..n + 1 : i < j <=> Begin(i) < Begin(j)
  BY TokensInOrder
<1>3. ASSUME NEW g \in Heads PROVE g \in 1..n /\ Close(g) \in g + 2..n /\ Close(g) # 0 /\ Begin(g) \in 0..Size - 1
  <2>1. g \in 1..n /\ Close(g) # 0 /\ Begin(g) \in 0..Size - 1
    BY HeadsAre DEF Calls
  <2> QED
    BY <2>1, CallIs
<1>4. ASSUME NEW g \in Heads PROVE Close(g) + 1 \in 1..n + 1 /\ g \in 1..n + 1 /\ End(g) \in 0..Size
  <2>1. Close(g) + 1 \in 1..n + 1 /\ g \in 1..n + 1
    BY <1>1, <1>3
  <2> QED
    BY <1>1, <2>1 DEF End
<1>5. ASSUME NEW g \in Heads, NEW i \in 1..n + 1 PROVE i <= Close(g) <=> Begin(i) < End(g)
  <2>1. i < Close(g) + 1 <=> Begin(i) < Begin(Close(g) + 1)
    BY <1>2, <1>4
  <2>2. i \in Int /\ Close(g) \in Int
    BY <1>1, <1>3
  <2> QED
    BY <2>1, <2>2 DEF End
<1>6. ASSUME NEW g \in Heads, h < g, Begin(g) < End(h) PROVE End(g) <= End(h)
  <2>1. g <= Close(h)
    BY <1>4, <1>5, <1>6
  <2>2. g \in h..Close(h)
    BY <1>1, <1>3, <1>6, <2>1
  <2>3. Close(g) <= Close(h)
    BY <1>3, <2>2, CallsNest
  <2>4. Close(h) + 1 \in 1..n + 1 /\ Close(g) + 1 \in 1..n + 1 /\ ~(Close(h) + 1 < Close(g) + 1)
    BY <1>3, <1>4, <2>3
  <2>5. ~(Begin(Close(h) + 1) < Begin(Close(g) + 1))
    BY <1>2, <2>4
  <2> QED
    BY <1>1, <2>4, <2>5 DEF End
<1>7. Begin(h) < End(h)
  <2>1. h <= Close(h)
    BY <1>1, <1>3
  <2> QED
    BY <1>4, <1>5, <2>1
<1> QED
  BY <1>1, <1>2, <1>3, <1>4, <1>5, <1>6, <1>7

\* All of them were recorded, and nothing else.
LEMMA CallSegments ==
    ASSUME ScanTokens, Calls, pc \in {"copy", "done"}
    PROVE  /\ DOMAIN segments = {Begin(h) : h \in Heads}
           /\ \A h \in Heads : segments[Begin(h)] = End(h)
<1>1. Laid /\ SegmentsOfHeads /\ CallsRecorded /\ loaded = Len(errors)
  BY DEF ScanTokens, LoadedThenCopied
<1>2. ASSUME NEW h \in Heads PROVE Begin(h) \in DOMAIN segments /\ segments[Begin(h)] = End(h)
  <2>1. Close(h) # 0 /\ Clean(h)
    BY DEF Calls, Clean
  <2>2. PICK k \in 1..Len(errors) : errors[k] = Begin(h)
    BY DEF Heads
  <2>3. Begin(h) \in DOMAIN segments
    BY <1>1, <2>1, <2>2 DEF CallsRecorded
  <2>4. PICK e : Segment(h, e) /\ segments[Begin(h)] = Begin(e + 1)
    BY <1>1, <2>1, <2>3 DEF SegmentsOfHeads
  <2> QED
    BY <2>1, <2>3, <2>4 DEF Segment, End
<1> QED
  BY <1>1, <1>2 DEF SegmentsOfHeads

\* What is said of the calls stays.
LEMMA CallsStatic ==
    ASSUME tokens' = tokens, content' = content, errors' = errors
    PROVE  /\ Heads' = Heads /\ Size' = Size /\ Outer' = Outer /\ (Calls' <=> Calls)
           /\ \A h : End(h)' = End(h) /\ Begin(h)' = Begin(h)
           /\ \A p : Erased(p)' <=> Erased(p)
<1>1. Heads' = Heads /\ Size' = Size /\ \A i : Begin(i)' = Begin(i) /\ Close(i)' = Close(i)
  BY Static
<1>2. \A h : End(h)' = End(h)
  BY <1>1 DEF End
<1>3. \A p : Erased(p)' <=> Erased(p)
  BY <1>1, <1>2 DEF Erased
<1>4. Outer' = Outer
  BY <1>1 DEF Outer
<1>5. Calls' <=> Calls
  BY <1>1 DEF Calls
<1> QED
  BY <1>1, <1>2, <1>3, <1>4, <1>5

\* One character, or one call, is passed.
LEMMA CallsCopiedCopy ==
    ASSUME IInv, ScanTokens, CallsCopied, Calls, tokens' = tokens, Copy
    PROVE  CallsCopied'
<1> DEFINE skips == {i \in 1..Len(out) : out[i] = Skipped}
           passed == {h \in Outer : Begin(h) < index}
<1>1. /\ pc = "copy" /\ pc' = "copy" /\ index \in 0..Size - 1 /\ segments' = segments
      /\ content' = content /\ errors' = errors /\ Size \in Nat
  BY SizeType DEF Copy, IInv, TypeOK, given
<1>2. Laid
  BY DEF ScanTokens
<1>3. /\ \A h \in Heads : ~(Begin(h) < index /\ index < End(h))
      /\ \A p \in 0..Size - 1 : (\E i \in 1..Len(out) : out[i] = p) <=> p < index /\ ~Erased(p)
      /\ Cardinality(skips) = Cardinality(passed)
  BY <1>1 DEF CallsCopied
<1>4. /\ DOMAIN segments = {Begin(h) : h \in Heads}
      /\ \A h \in Heads : segments[Begin(h)] = End(h)
  BY <1>1, CallSegments
<1>5. /\ \A h \in Heads : End(h)' = End(h) /\ Begin(h)' = Begin(h)
      /\ \A p : Erased(p)' <=> Erased(p)
      /\ Outer' = Outer /\ Heads' = Heads /\ Size' = Size
  BY <1>1, CallsStatic
<1> DEFINE x == IF index \in DOMAIN segments THEN Skipped ELSE index
<1>6. out' = Append(out, x) /\ x \in {Skipped} \cup 0..Size - 1
  BY <1>1 DEF Copy
<1>7. /\ Len(out') = Len(out) + 1 /\ Len(out) \in Nat
      /\ \A i \in 1..Len(out) : out'[i] = out[i]
      /\ out'[Len(out) + 1] = x
  BY <1>6 DEF IInv, TypeOK
<1>8. IsFiniteSet(skips) /\ Len(out) + 1 \notin skips
  <2>1. IsFiniteSet(1..Len(out))
    BY <1>7, FS_Interval
  <2>2. IsFiniteSet(skips)
    BY <2>1, FS_Subset
  <2> QED
    BY <1>7, <2>2
<1>9. IsFiniteSet(passed)
  <2>1. n \in Nat /\ IsFiniteSet(1..n)
    BY <1>2, Layout, FS_Interval
  <2>2. passed \subseteq 1..n
    BY <1>2, HeadsAre DEF Outer
  <2> QED
    BY <2>1, <2>2, FS_Subset
<1> DEFINE skips2 == {i \in 1..Len(out') : out'[i] = Skipped}
           passed2 == {h \in Outer : Begin(h) < index'}
<1>10. ASSUME /\ \A h \in Heads : ~(Begin(h) < index' /\ index' < End(h))
              /\ \A p \in 0..Size - 1 : (\E i \in 1..Len(out') : out'[i] = p) <=> p < index' /\ ~Erased(p)
              /\ Cardinality(skips2) = Cardinality(passed2)
       PROVE  CallsCopied'
  <2>1. {h \in Outer' : Begin(h)' < index'} = passed2
    BY <1>5 DEF Outer
  <2>2. \A h \in Heads' : ~(Begin(h)' < index' /\ index' < End(h)')
    BY <1>5, <1>10
  <2>3. \A p \in 0..Size' - 1 : (\E i \in 1..Len(out') : out'[i] = p) <=> p < index' /\ ~Erased(p)'
    BY <1>5, <1>10
  <2>4. Cardinality({i \in 1..Len(out') : out'[i] = Skipped})
          = Cardinality({h \in Outer' : Begin(h)' < index'})
    BY <1>10, <2>1
  <2> QED
    BY <1>1, <2>2, <2>3, <2>4 DEF CallsCopied
<1>11. ASSUME NEW p \in 0..Size - 1
       PROVE  (\E i \in 1..Len(out') : out'[i] = p) <=> (p < index /\ ~Erased(p)) \/ x = p
  <2>1. (\E i \in 1..Len(out) : out[i] = p) <=> p < index /\ ~Erased(p)
    BY <1>3
  <2> QED
    BY <1>7, <2>1
<1>12. CASE index \notin DOMAIN segments
  <2>1. index' = index + 1 /\ x = index /\ x # Skipped
    BY <1>1, <1>12 DEF Copy, Skipped
  <2>2. ASSUME NEW h \in Heads PROVE Begin(h) \in Int /\ End(h) \in Int /\ Begin(h) # index
    BY <1>2, <1>4, <1>12, CallPlaces
  <2>3. ~Erased(index)
    <3>1. ASSUME NEW h \in Heads, Begin(h) <= index, index < End(h) PROVE FALSE
      BY <1>1, <1>3, <2>2, <3>1
    <3> QED
      BY <3>1 DEF Erased
  <2>4. \A h \in Heads : ~(Begin(h) < index' /\ index' < End(h))
    <3>1. ASSUME NEW h \in Heads, Begin(h) < index + 1, index + 1 < End(h) PROVE FALSE
      BY <1>1, <1>3, <2>2, <3>1
    <3> QED
      BY <2>1, <3>1
  <2>5. ASSUME NEW p \in 0..Size - 1
        PROVE  (\E i \in 1..Len(out') : out'[i] = p) <=> p < index' /\ ~Erased(p)
    BY <1>1, <1>11, <2>1, <2>3
  <2>6. skips2 = skips
    BY <1>7, <2>1
  <2>7. passed2 = passed
    BY <1>1, <2>1, <2>2 DEF Outer
  <2> QED
    BY <1>3, <1>10, <2>4, <2>5, <2>6, <2>7, Zenon
<1>13. CASE index \in DOMAIN segments
  <2>1. PICK g \in Heads : Begin(g) = index
    BY <1>4, <1>13
  <2>2. index' = End(g) /\ x = Skipped
    BY <1>4, <1>13, <2>1 DEF Copy
  <2>3. /\ g \in 1..n /\ Begin(g) \in Int /\ End(g) \in 0..Size /\ Begin(g) < End(g)
        /\ \A i \in 1..n + 1 : (i <= Close(g) <=> Begin(i) < End(g)) /\ (g < i <=> Begin(g) < Begin(i))
        /\ \A h \in Heads : g < h /\ Begin(h) < End(g) => End(h) <= End(g)
    BY <1>2, CallPlaces
  <2>4. ASSUME NEW h \in Heads
        PROVE  /\ h \in 1..n /\ h \in 1..n + 1 /\ Begin(h) \in Int /\ End(h) \in Int
               /\ Close(h) \in Int
               /\ \A i \in 1..n + 1 : (i <= Close(h) <=> Begin(i) < End(h)) /\ (h < i <=> Begin(h) < Begin(i))
    <3>1. n \in Nat
      BY <1>2, Layout
    <3> QED
      BY <1>2, <3>1, CallPlaces
  <2>5. \A h \in Heads : ~(Begin(h) < index' /\ index' < End(h))
    <3>1. ASSUME NEW h \in Heads, Begin(h) < End(g), End(g) < End(h) PROVE FALSE
      <4>1. CASE g < h
        BY <2>3, <2>4, <3>1, <4>1
      <4>2. CASE g = h
        BY <2>3, <3>1, <4>2
      <4>3. CASE h < g
        <5>1. Begin(h) < Begin(g)
          BY <2>4, <4>3
        <5> QED
          BY <1>3, <2>1, <2>3, <2>4, <3>1, <5>1
      <4> QED
        BY <2>3, <2>4, <4>1, <4>2, <4>3
    <3> QED
      BY <2>2, <3>1
  <2>6. ASSUME NEW p \in 0..Size - 1
        PROVE  (\E i \in 1..Len(out') : out'[i] = p) <=> p < index' /\ ~Erased(p)
    <3>1. x # p
      BY <2>2 DEF Skipped
    <3>2. p < index => p < index'
      BY <1>1, <2>1, <2>2, <2>3
    <3>3. p < index' /\ ~(p < index) => Erased(p)
      BY <1>1, <2>1, <2>2, <2>3 DEF Erased
    <3> QED
      BY <1>11, <3>1, <3>2, <3>3
  <2>7. skips2 = skips \cup {Len(out) + 1}
    BY <1>7, <2>2
  <2>8. g \in Outer
    <3>1. ASSUME NEW h \in Heads, h < g PROVE Close(h) < g
      <4>1. Begin(h) < Begin(g)
        BY <2>3, <2>4, <3>1
      <4>2. ~(Begin(g) < End(h))
        BY <1>3, <2>1, <4>1
      <4>3. ~(g <= Close(h)) /\ g \in Int
        BY <2>4, <4>2
      <4> QED
        BY <2>4, <4>3
    <3> QED
      BY <3>1 DEF Outer
  <2>9. passed2 = passed \cup {g}
    <3>1. ASSUME NEW h \in Outer PROVE Begin(h) < End(g) <=> Begin(h) < Begin(g) \/ h = g
      <4>1. h \in Heads
        BY DEF Outer
      <4>2. ASSUME Begin(h) < End(g), ~(Begin(h) < Begin(g)), h # g PROVE FALSE
        <5>1. h <= Close(g)
          BY <2>3, <2>4, <4>1, <4>2
        <5>2. g < h
          BY <2>3, <2>4, <4>1, <4>2
        <5>3. h # 1
          BY <2>3, <5>2
        <5>4. Close(g) < h
          BY <5>2, <5>3 DEF Outer
        <5> QED
          BY <2>4, <4>1, <5>1, <5>4
      <4> QED
        BY <2>3, <2>4, <4>1, <4>2
    <3> QED
      BY <2>1, <2>2, <2>8, <3>1
  <2>10. g \notin passed
    BY <2>1, <2>3
  <2>11. Cardinality(skips2) = Cardinality(skips) + 1
    BY <1>8, <2>7, FS_AddElement
  <2>12. Cardinality(passed2) = Cardinality(passed) + 1
    BY <1>9, <2>9, <2>10, FS_AddElement
  <2> QED
    BY <1>3, <1>10, <2>5, <2>6, <2>11, <2>12, Zenon
<1> QED
  BY <1>12, <1>13

\* No other step disturbs what is copied of the calls.
LEMMA CallsCopiedNext ==
    ASSUME IInv, ScanTokens, CallsCopied, tokens' = tokens, [Next]_vars
    PROVE  CallsCopied'
<1>1. ASSUME pc' \notin {"copy", "done"} PROVE CallsCopied'
  BY <1>1 DEF CallsCopied
<1>2. Laid /\ LoadedThenCopied /\ content' = content /\ errors' = errors
  <2>1. Laid /\ LoadedThenCopied
    BY DEF ScanTokens
  <2>2. content' = content /\ errors' = errors
    <3>1. UNCHANGED given
      BY DEF Next, CompilerExits, Poll, Communicate, Erase, LoadResult, Scan, ScanEnds, AllLoaded, Copy,
             Copied, Over, vars
    <3> QED
      BY <3>1 DEF given
  <2> QED
    BY <2>1, <2>2
<1>3. /\ Heads' = Heads /\ Size' = Size /\ Outer' = Outer /\ (Calls' <=> Calls)
      /\ \A h : End(h)' = End(h) /\ Begin(h)' = Begin(h)
      /\ \A p : Erased(p)' <=> Erased(p)
  BY <1>2, CallsStatic
<1>4. ASSUME UNCHANGED <<index, out>>, pc \in {"copy", "done"}, pc' = "done" => pc = "done" \/ index >= Size
      PROVE  CallsCopied'
  BY <1>3, <1>4 DEF CallsCopied
<1>5. CASE AllLoaded
  <2>1. pc' = "copy" /\ index' = 0 /\ out' = <<>> /\ Len(out') = 0
    BY <1>2, <1>5 DEF AllLoaded, LoadedThenCopied
  <2>2. \A h \in Heads : Begin(h) \in Nat
    BY <1>2, HeadsAre
  <2>3. \A h \in Heads' : ~(Begin(h)' < index' /\ index' < End(h)')
    BY <1>3, <2>1, <2>2
  <2>4. \A p \in 0..Size' - 1 : (\E i \in 1..Len(out') : out'[i] = p) <=> p < index' /\ ~Erased(p)'
    BY <2>1
  <2>5. {i \in 1..Len(out') : out'[i] = Skipped} = {}
    BY <2>1
  <2>6. {h \in Outer' : Begin(h)' < index'} = {}
    BY <1>3, <2>1, <2>2 DEF Outer
  <2> QED
    BY <2>1, <2>3, <2>4, <2>5, <2>6 DEF CallsCopied
<1>6. CASE Copy
  <2>1. CASE Calls
    BY <1>6, <2>1, CallsCopiedCopy
  <2>2. CASE ~Calls
    BY <1>3, <2>2 DEF CallsCopied
  <2> QED
    BY <2>1, <2>2
<1>7. CASE Copied
  BY <1>4, <1>7 DEF Copied
<1>8. CASE UNCHANGED vars
  BY <1>1, <1>4, <1>8 DEF vars
<1>9. CASE CompilerExits
  BY <1>1, <1>4, <1>9 DEF CompilerExits
<1>10. CASE Poll \/ Communicate \/ LoadResult \/ Scan \/ ScanEnds
  <2>1. CASE Poll \/ Communicate
    BY <1>1, <2>1 DEF Poll, Communicate
  <2>2. CASE LoadResult
    BY <1>1, <2>2 DEF LoadResult
  <2>3. CASE Scan \/ ScanEnds
    BY <1>1, <2>3, ScanEffect DEF IInv
  <2> QED
    BY <1>10, <2>1, <2>2, <2>3
<1> QED
  BY <1>5, <1>6, <1>7, <1>8, <1>9, <1>10 DEF Next, Erase, Over

\* What is left is what no call covers, token by token.
LEMMA CopiedIsErased ==
    ASSUME IInv, ScanTokens, CallsCopied
    PROVE  CallsErased
<1> SUFFICES ASSUME pc = "done", Calls
             PROVE  /\ {out[i] : i \in 1..Len(out)} \ {Skipped} = UNION {Begin(i)..Begin(i + 1) - 1 : i \in Kept}
                    /\ Cardinality({i \in 1..Len(out) : out[i] = Skipped}) = Cardinality(Outer)
  BY DEF CallsErased, Calls, Outer
<1>1. /\ \A p \in 0..Size - 1 : (\E i \in 1..Len(out) : out[i] = p) <=> p < index /\ ~Erased(p)
      /\ Cardinality({i \in 1..Len(out) : out[i] = Skipped}) = Cardinality({h \in Outer : Begin(h) < index})
      /\ index >= Size
  BY DEF CallsCopied
<1>2. Laid
  BY DEF ScanTokens
<1>3. /\ n \in Nat /\ Size \in Nat /\ index \in Int
      /\ \A i \in 1..n + 1 : Begin(i) \in 0..Size
  BY <1>2, Layout DEF IInv, TypeOK
<1>4. {h \in Outer : Begin(h) < index} = Outer
  BY <1>1, <1>2, <1>3, HeadsAre DEF Outer
<1>5. ASSUME NEW p PROVE p \in {out[i] : i \in 1..Len(out)} \ {Skipped} <=> p \in 0..Size - 1 /\ ~Erased(p)
  <2>1. \A i \in 1..Len(out) : out[i] \in {Skipped} \cup 0..Size - 1
    BY DEF IInv, TypeOK
  <2>2. Skipped \notin 0..Size - 1
    BY DEF Skipped
  <2>3. p \in 0..Size - 1 => p < index
    BY <1>1, <1>3
  <2> QED
    BY <1>1, <2>1, <2>2, <2>3
<1>6. ASSUME NEW i \in 1..n, NEW p \in 0..Size - 1, Begin(i) <= p, p < Begin(i + 1)
      PROVE  Erased(p) <=> \E h \in Heads : h <= i /\ i <= Close(h)
  <2>1. i \in 1..n + 1 /\ i + 1 \in 1..n + 1
    BY <1>3
  <2>2. ASSUME NEW h \in Heads PROVE (Begin(h) <= p /\ p < End(h)) <=> (h <= i /\ i <= Close(h))
    <3>1. /\ h \in 1..n /\ Close(h) \in h + 2..n /\ Begin(h) \in Int /\ End(h) \in Int
          /\ \A j \in 1..n + 1 : (j <= Close(h) <=> Begin(j) < End(h)) /\ (h < j <=> Begin(h) < Begin(j))
      BY <1>2, CallPlaces
    <3>2. Begin(i) \in Int /\ Begin(i + 1) \in Int
      BY <1>3, <2>1
    <3>3. ASSUME Begin(h) <= p, p < End(h) PROVE h <= i /\ i <= Close(h)
      <4>1. Begin(h) < Begin(i + 1) /\ Begin(i) < End(h)
        BY <1>6, <3>1, <3>2, <3>3
      <4>2. h < i + 1 /\ i <= Close(h)
        BY <2>1, <3>1, <4>1
      <4> QED
        BY <3>1, <4>2
    <3>4. ASSUME h <= i, i <= Close(h) PROVE Begin(h) <= p /\ p < End(h)
      <4>1. Begin(h) <= Begin(i)
        <5>1. h = i \/ h < i
          BY <3>1, <3>4
        <5> QED
          BY <2>1, <3>1, <3>2, <5>1
      <4>2. Begin(i + 1) <= End(h)
        <5>1. i + 1 <= Close(h) \/ i = Close(h)
          BY <3>1, <3>4
        <5> QED
          BY <2>1, <3>1, <3>2, <5>1 DEF End
      <4> QED
        BY <1>6, <3>1, <3>2, <4>1, <4>2
    <3> QED
      BY <3>3, <3>4
  <2> QED
    BY <2>2 DEF Erased
<1>7. ASSUME NEW p
      PROVE  p \in UNION {Begin(i)..Begin(i + 1) - 1 : i \in Kept} <=> p \in 0..Size - 1 /\ ~Erased(p)
  <2>1. Kept \subseteq 1..n /\ \A i \in 1..n : i \in Kept <=> \A h \in Heads : ~(h <= i /\ i <= Close(h))
    BY DEF Kept, n
  <2>2. ASSUME NEW i \in Kept, p \in Begin(i)..Begin(i + 1) - 1 PROVE p \in 0..Size - 1 /\ ~Erased(p)
    <3>1. i \in 1..n /\ Begin(i) \in 0..Size /\ Begin(i + 1) \in 0..Size
      <4>1. i \in 1..n /\ i \in 1..n + 1 /\ i + 1 \in 1..n + 1
        BY <1>3, <2>1
      <4> QED
        BY <1>3, <4>1
    <3>2. p \in 0..Size - 1 /\ Begin(i) <= p /\ p < Begin(i + 1)
      BY <1>3, <2>2, <3>1
    <3> QED
      BY <1>6, <2>1, <3>1, <3>2
  <2>3. ASSUME p \in 0..Size - 1, ~Erased(p) PROVE \E i \in Kept : p \in Begin(i)..Begin(i + 1) - 1
    <3>1. PICK i \in 1..n : Begin(i) <= p /\ p < Begin(i + 1)
      BY <1>2, <2>3, TokensInOrder
    <3>2. i \in Kept
      BY <1>6, <2>1, <2>3, <3>1
    <3>3. Begin(i) \in Int /\ Begin(i + 1) \in Int
      <4>1. i \in 1..n + 1 /\ i + 1 \in 1..n + 1
        BY <1>3
      <4> QED
        BY <1>3, <4>1
    <3>4. p \in Begin(i)..Begin(i + 1) - 1
      BY <2>3, <3>1, <3>3
    <3> QED
      BY <3>2, <3>4
  <2> QED
    BY <2>2, <2>3
<1> QED
  BY <1>1, <1>4, <1>5, <1>7

-----------------------------------------------------------------------------
(* How deep the parentheses are that are left, where there are no comments. *)

DepthOf(ts, j) ==
    Cardinality({k \in ts : k <= j /\ tokens[k] = <<"(">>})
    - Cardinality({k \in ts : k <= j /\ tokens[k] = <<")">>})

Written == {TokenAt(out[i]) : i \in {j \in 1..Len(out) : out[j] # Skipped}}

\* The copying is before character k + 1 of token t; as many parentheses are
\* open in what is written as in all that was passed.
DepthIsKept(t, k) ==
    /\ t \in 1..n + 1 /\ k \in 0..4 /\ index = Begin(t) + k
    /\ k # 0 => t <= n /\ k < Len(tokens[t]) /\ t \in Written
    /\ Written \subseteq 1..n /\ \A j \in Written : j < t \/ (k # 0 /\ j = t)
    /\ DepthOf(Written, n) = Depth(1, t - 1)
    /\ \A j \in Written : DepthOf(Written, j) = Depth(1, j)

DepthKept ==
    pc \in {"copy", "done"} /\ Comment \notin Range(tokens) =>
        (pc = "done" => index >= Size) /\ \E t, k : DepthIsKept(t, k)

\* Of all tokens, this is the depth of the text.
LEMMA DepthOfAll ==
    ASSUME NEW j \in 1..n, n \in Nat
    PROVE  DepthOf(1..n, j) = Depth(1, j)
<1>1. \A x : {k \in 1..n : k <= j /\ tokens[k] = x} = {k \in 1..j : tokens[k] = x}
  OBVIOUS
<1> QED
  BY <1>1 DEF DepthOf, Depth

\* One more token after the others.
LEMMA CountLater ==
    ASSUME NEW ts \in SUBSET (1..n), n \in Nat, NEW t \in 1..n, \A j \in ts : j < t, NEW x
    PROVE  LET C(s, j) == Cardinality({k \in s : k <= j /\ tokens[k] = x})
           IN  /\ C(ts, n) \in Nat
               /\ \A j \in {n, t} : C(ts \cup {t}, j) = C(ts, n) + (IF tokens[t] = x THEN 1 ELSE 0)
               /\ \A j \in ts : C(ts \cup {t}, j) = C(ts, j)
<1> DEFINE S(s, j) == {k \in s : k <= j /\ tokens[k] = x}
<1>1. \A j \in ts : S(ts \cup {t}, j) = S(ts, j)
  OBVIOUS
<1>2. t \notin S(ts, n)
  OBVIOUS
<1>3. ASSUME NEW j \in {n, t}
      PROVE  S(ts \cup {t}, j) = IF tokens[t] = x THEN S(ts, n) \cup {t} ELSE S(ts, n)
  <2>1. \A k \in ts \cup {t} : k <= j /\ k <= n
    BY <1>3
  <2>2. S(ts \cup {t}, j) = {k \in ts \cup {t} : tokens[k] = x} /\ S(ts, n) = {k \in ts : tokens[k] = x}
    BY <2>1
  <2> QED
    BY <2>2
<1>4. IsFiniteSet(S(ts, n))
  <2>1. IsFiniteSet(1..n)
    BY FS_Interval
  <2> QED
    BY <2>1, FS_Subset
<1> HIDE DEF S
<1>5. Cardinality(S(ts, n)) \in Nat /\ Cardinality(S(ts, n) \cup {t}) = Cardinality(S(ts, n)) + 1
  BY <1>2, <1>4, FS_AddElement, FS_CardinalityType
<1>6. \A j \in {n, t} : Cardinality(S(ts \cup {t}, j)) = Cardinality(S(ts, n)) + (IF tokens[t] = x THEN 1 ELSE 0)
  BY <1>3, <1>5
<1>7. \A j \in ts : Cardinality(S(ts \cup {t}, j)) = Cardinality(S(ts, j))
  BY <1>1
<1> QED
  BY <1>5, <1>6, <1>7 DEF S

\* The depth after one more token is its own more.
LEMMA DepthLater ==
    ASSUME NEW ts \in SUBSET (1..n), n \in Nat, NEW t \in 1..n, \A j \in ts : j < t
    PROVE  /\ DepthOf(ts, n) \in Int
           /\ DepthOf(ts \cup {t}, n) = DepthOf(ts, n) + Weight(t)
           /\ DepthOf(ts \cup {t}, t) = DepthOf(ts, n) + Weight(t)
           /\ \A j \in ts : DepthOf(ts \cup {t}, j) = DepthOf(ts, j)
<1> DEFINE C(s, j, x) == Cardinality({k \in s : k <= j /\ tokens[k] = x})
           u == ts \cup {t}
<1>1. \A x : /\ C(ts, n, x) \in Nat
             /\ \A j \in {n, t} : C(u, j, x) = C(ts, n, x) + (IF tokens[t] = x THEN 1 ELSE 0)
             /\ \A j \in ts : C(u, j, x) = C(ts, j, x)
  BY CountLater
<1>2. \A s, j : DepthOf(s, j) = C(s, j, <<"(">>) - C(s, j, <<")">>)
  BY DEF DepthOf
<1>3. <<"(">> # <<")">>
  OBVIOUS
<1> HIDE DEF C, u
<1>4. \A j \in {n, t} : DepthOf(u, j) = DepthOf(ts, n) + Weight(t)
  <2>1. /\ C(ts, n, <<"(">>) \in Nat /\ C(ts, n, <<")">>) \in Nat
        /\ \A j \in {n, t} : /\ C(u, j, <<"(">>) = C(ts, n, <<"(">>) + (IF tokens[t] = <<"(">> THEN 1 ELSE 0)
                             /\ C(u, j, <<")">>) = C(ts, n, <<")">>) + (IF tokens[t] = <<")">> THEN 1 ELSE 0)
    BY <1>1
  <2> QED
    BY <1>2, <1>3, <2>1 DEF Weight
<1>5. DepthOf(ts, n) \in Int
  BY <1>1, <1>2
<1>6. \A j \in ts : DepthOf(u, j) = DepthOf(ts, j)
  BY <1>1, <1>2
<1> QED
  BY <1>4, <1>5, <1>6 DEF u

\* The token of a character.
LEMMA TokenAtIs ==
    ASSUME Laid, NEW t \in 1..n, NEW p \in Int, Begin(t) <= p, p < Begin(t + 1)
    PROVE  TokenAt(p) = t
<1>1. n = Len(tokens) /\ n \in Nat /\ \A i \in 1..n + 1 : Begin(i) \in Int
  BY Layout DEF n
<1>2. ASSUME NEW i \in 1..n, Begin(i) <= p, p < Begin(i + 1) PROVE i = t
  <2>1. i \in 1..n + 1 /\ i + 1 \in 1..n + 1 /\ t \in 1..n + 1 /\ t + 1 \in 1..n + 1
    BY <1>1
  <2>2. Begin(i) < Begin(t + 1) /\ Begin(t) < Begin(i + 1)
    BY <1>1, <1>2, <2>1
  <2>3. i < t + 1 /\ t < i + 1
    BY <2>1, <2>2, TokensInOrder
  <2> QED
    BY <1>1, <2>3
<1> QED
  BY <1>1, <1>2 DEF TokenAt

\* Where the tokens are stays.
LEMMA TokenAtStatic ==
    ASSUME tokens' = tokens, NEW p
    PROVE  TokenAt(p)' = TokenAt(p)
<1>1. \A i : Begin(i)' = Begin(i)
  BY DEF Begin
<1> QED
  BY <1>1 DEF TokenAt

\* What is written next.
LEMMA WrittenNext ==
    ASSUME TypeOK, tokens' = tokens, NEW x \in {Skipped} \cup 0..Size - 1, out' = Append(out, x)
    PROVE  Written' = IF x = Skipped THEN Written ELSE Written \cup {TokenAt(x)}
<1>1. /\ Len(out') = Len(out) + 1 /\ Len(out) \in Nat
      /\ \A i \in 1..Len(out) : out'[i] = out[i]
      /\ out'[Len(out) + 1] = x
  BY DEF TypeOK
<1>2. \A p : TokenAt(p)' = TokenAt(p)
  BY TokenAtStatic
<1>3. Written' = {TokenAt(out'[i]) : i \in {j \in 1..Len(out') : out'[j] # Skipped}}
  BY <1>2 DEF Written
<1>4. ASSUME NEW t
      PROVE  /\ t \in Written' <=> \E i \in 1..Len(out') : out'[i] # Skipped /\ t = TokenAt(out'[i])
             /\ t \in Written <=> \E i \in 1..Len(out) : out[i] # Skipped /\ t = TokenAt(out[i])
  BY <1>3 DEF Written
<1>5. ASSUME NEW t PROVE t \in Written' <=> t \in Written \/ (x # Skipped /\ t = TokenAt(x))
  BY <1>1, <1>4
<1> QED
  BY <1>5

\* What is written is as deep as long as nothing is written.
LEMMA DepthStatic ==
    ASSUME tokens' = tokens, content' = content, errors' = errors, index' = index, out' = out
    PROVE  \A t, k : DepthIsKept(t, k)' <=> DepthIsKept(t, k)
<1>1. Written' = Written
  BY TokenAtStatic DEF Written
<1>2. \A ts, j : DepthOf(ts, j)' = DepthOf(ts, j)
  BY DEF DepthOf
<1> QED
  BY <1>1, <1>2, Static DEF DepthIsKept

\* A character is written, or a segment is passed in which all parentheses that
\* are opened are closed.
LEMMA DepthKeptCopy ==
    ASSUME IInv, ScanTokens, DepthKept, Comment \notin Range(tokens), tokens' = tokens, Copy
    PROVE  DepthKept'
<1>1. /\ pc = "copy" /\ pc' = "copy" /\ index \in 0..Size - 1 /\ segments' = segments
      /\ content' = content /\ errors' = errors /\ Size \in Nat /\ TypeOK
  BY SizeType DEF Copy, IInv, TypeOK, given
<1>2. Laid /\ SegmentsOfHeads
  BY DEF ScanTokens
<1>3. PICK t, k : DepthIsKept(t, k)
  BY <1>1 DEF DepthKept
<1>4. n \in Nat /\ Begin(n + 1) = Size
  BY <1>2, Layout
<1>5. /\ t \in 1..n + 1 /\ k \in 0..4 /\ index = Begin(t) + k
      /\ k # 0 => t <= n /\ k < Len(tokens[t]) /\ t \in Written
      /\ Written \subseteq 1..n /\ \A j \in Written : j < t \/ (k # 0 /\ j = t)
      /\ DepthOf(Written, n) = Depth(1, t - 1)
      /\ \A j \in Written : DepthOf(Written, j) = Depth(1, j)
  BY <1>3 DEF DepthIsKept
<1>6. t \in 1..n
  <2>1. t # n + 1
    BY <1>1, <1>4, <1>5
  <2> QED
    BY <1>4, <1>5, <2>1
<1> DEFINE l == Len(tokens[t])
<1>7. /\ l \in 1..5 /\ k < l /\ Begin(t) \in Int /\ Begin(t + 1) = Begin(t) + l
      /\ Begin(t) <= index /\ index < Begin(t + 1) /\ TokenAt(index) = t
  <2>1. l \in 1..5 /\ Begin(t + 1) = Begin(t) + l /\ Begin(t) \in 0..Size
    BY <1>2, <1>5, <1>6, Layout
  <2> HIDE DEF l
  <2>2. k < l
    <3>1. CASE k = 0
      BY <2>1, <3>1
    <3>2. CASE k # 0
      BY <1>5, <3>2 DEF l
    <3> QED
      BY <3>1, <3>2
  <2>3. Begin(t) <= index /\ index < Begin(t + 1)
    BY <1>5, <2>1, <2>2
  <2>4. TokenAt(index) = t
    BY <1>1, <1>2, <1>6, <2>3, TokenAtIs
  <2> QED
    BY <2>1, <2>2, <2>3, <2>4
<1>8. /\ Depth(1, t) = Depth(1, t - 1) + Weight(t) /\ Depth(1, t - 1) \in Int
      /\ l # 1 => Weight(t) = 0
  <2>1. (t - 1) + 1 = t /\ 1 <= (t - 1) + 1 /\ t - 1 \in Int
    BY <1>6
  <2>2. Depth(1, (t - 1) + 1) = Depth(1, t - 1) + Weight((t - 1) + 1) /\ Depth(1, t - 1) \in Int
    BY <2>1, DepthStep
  <2>3. Len(<<"(">>) = 1 /\ Len(<<")">>) = 1
    OBVIOUS
  <2> QED
    BY <2>1, <2>2, <2>3 DEF Weight
<1> HIDE DEF l
<1>9. \A ts, j : DepthOf(ts, j)' = DepthOf(ts, j)
  BY DEF DepthOf
<1>10. ASSUME NEW u \in 1..n + 1, NEW m \in 0..4, index' = Begin(u) + m,
              m # 0 => u <= n /\ m < Len(tokens[u]) /\ u \in Written',
              Written' \subseteq 1..n, \A j \in Written' : j < u \/ (m # 0 /\ j = u),
              DepthOf(Written', n) = Depth(1, u - 1),
              \A j \in Written' : DepthOf(Written', j) = Depth(1, j)
       PROVE  DepthKept'
  <2>1. /\ n' = n /\ Begin(u)' = Begin(u) /\ Depth(1, u - 1)' = Depth(1, u - 1)
        /\ \A j : Depth(1, j)' = Depth(1, j)
    BY <1>1, Static
  <2>2. DepthOf(Written, n)' = DepthOf(Written', n) /\ \A j : DepthOf(Written, j)' = DepthOf(Written', j)
    BY <2>1 DEF DepthOf
  <2>3. DepthIsKept(u, m)' <=>
          /\ u \in 1..n' + 1 /\ m \in 0..4 /\ index' = Begin(u)' + m
          /\ m # 0 => u <= n' /\ m < Len(tokens'[u]) /\ u \in Written'
          /\ Written' \subseteq 1..n' /\ \A j \in Written' : j < u \/ (m # 0 /\ j = u)
          /\ DepthOf(Written', n) = Depth(1, u - 1)'
          /\ \A j \in Written' : DepthOf(Written', j) = Depth(1, j)'
    BY <2>2 DEF DepthIsKept
  <2>4. DepthIsKept(u, m)'
    BY <1>10, <2>1, <2>3
  <2>5. pc' # "done"
    BY <1>1
  <2> QED
    BY <2>4, <2>5 DEF DepthKept
<1>11. CASE index \notin DOMAIN segments
  <2>1. out' = Append(out, index) /\ index' = index + 1 /\ index # Skipped
    BY <1>1, <1>11 DEF Copy, Skipped
  <2>2. Written' = Written \cup {t}
    BY <1>1, <1>7, <2>1, WrittenNext
  <2>3. /\ DepthOf(Written', n) = Depth(1, t) /\ Written' \subseteq 1..n
        /\ \A j \in Written' : DepthOf(Written', j) = Depth(1, j)
        /\ \A j \in Written' : j <= t
        /\ k # 0 => l # 1
    <3>1. CASE k = 0
      <4>1. \A j \in Written : j < t
        BY <1>5, <3>1
      <4>2. /\ DepthOf(Written', n) = DepthOf(Written, n) + Weight(t)
            /\ DepthOf(Written', t) = DepthOf(Written, n) + Weight(t)
            /\ \A j \in Written : DepthOf(Written', j) = DepthOf(Written, j)
        BY <1>4, <1>5, <1>6, <2>2, <4>1, DepthLater
      <4> QED
        <5>1. DepthOf(Written', n) = Depth(1, t) /\ DepthOf(Written', t) = Depth(1, t)
          BY <1>5, <1>8, <4>2
        <5>2. \A j \in Written' : DepthOf(Written', j) = Depth(1, j)
          BY <1>5, <2>2, <4>2, <5>1
        <5>3. Written' \subseteq 1..n /\ \A j \in Written' : j <= t
          <6>1. \A j \in Written' : j \in 1..n /\ (j < t \/ j = t)
            BY <1>5, <1>6, <2>2, <4>1
          <6> QED
            BY <1>6, <6>1
        <5> QED
          BY <3>1, <5>1, <5>2, <5>3
    <3>2. CASE k # 0
      <4>1. Written' = Written /\ l # 1
        BY <1>5, <1>7, <2>2, <3>2
      <4> QED
        BY <1>5, <1>6, <1>8, <3>2, <4>1
    <3> QED
      BY <3>1, <3>2
  <2>4. CASE k + 1 < l
    <3>1. l # 1 /\ Weight(t) = 0 /\ Depth(1, t - 1) = Depth(1, t)
      BY <1>5, <1>7, <1>8, <2>4
    <3>2. k + 1 \in 0..4 /\ index' = Begin(t) + (k + 1) /\ k + 1 # 0 /\ k + 1 < Len(tokens[t])
      <4>1. k + 1 \in 0..4 /\ index' = Begin(t) + (k + 1) /\ k + 1 # 0 /\ k + 1 < l
        BY <1>5, <1>7, <2>1, <2>4
      <4> QED
        BY <4>1 DEF l
    <3>3. t \in 1..n + 1 /\ t <= n /\ t \in Written' /\ \A j \in Written' : j < t \/ j = t
      BY <1>4, <1>6, <2>2, <2>3
    <3>4. DepthOf(Written', n) = Depth(1, t - 1)
      BY <2>3, <3>1
    <3> QED
      BY <1>10, <2>3, <3>2, <3>3, <3>4, SMTT(30)
  <2>5. CASE k + 1 = l
    <3>1. t + 1 \in 1..n + 1 /\ 0 \in 0..4 /\ index' = Begin(t + 1) + 0 /\ (t + 1) - 1 = t
      BY <1>4, <1>5, <1>6, <1>7, <2>1, <2>5
    <3>2. \A j \in Written' : j < t + 1
      BY <1>6, <2>3
    <3> QED
      BY <1>10, <2>3, <3>1, <3>2, SMTT(30)
  <2> QED
    BY <1>5, <1>7, <2>4, <2>5
<1>12. CASE index \in DOMAIN segments
  <2>1. out' = Append(out, Skipped) /\ index' = segments[index]
    BY <1>12 DEF Copy
  <2>2. Written' = Written
    BY <1>1, <2>1, WrittenNext
  <2>3. PICK h \in Heads : index = Begin(h)
    BY <1>2, <1>12 DEF SegmentsOfHeads
  <2>4. h \in 1..n /\ \A i, j \in 1..n + 1 : i < j <=> Begin(i) < Begin(j)
    BY <1>2, <2>3, HeadsAre, TokensInOrder
  <2>5. h = t /\ k = 0
    <3>1. h \in 1..n + 1 /\ t \in 1..n + 1 /\ t + 1 \in 1..n + 1 /\ h + 1 \in 1..n + 1
      BY <1>4, <1>6, <2>4
    <3>2. \A i \in 1..n + 1 : Begin(i) \in Int
      BY <1>2, Layout
    <3>3. ~(h < t) /\ ~(t + 1 <= h)
      <4>1. ~(h < t)
        BY <1>7, <2>3, <2>4, <3>1, <3>2
      <4>2. h < t + 1
        BY <1>7, <2>3, <2>4, <3>1
      <4> QED
        BY <2>4, <1>6, <4>1, <4>2
    <3>4. h = t
      BY <1>6, <2>4, <3>3
    <3> QED
      BY <1>5, <1>7, <2>3, <3>4
  <2>6. Clean(t)
    <3>1. \A i \in 1..n : tokens[i] # Comment
      <4>1. \A i \in 1..n : tokens[i] \in Range(tokens)
        BY <1>2 DEF Laid, n, Range
      <4> QED
        BY <4>1
    <3>2. CASE Close(t) = 0
      BY <1>4, <1>6, <3>1, <3>2 DEF Clean
    <3>3. CASE Close(t) # 0
      <4>1. Close(t) \in t + 2..n
        BY <1>2, <1>6, <3>3, CallIs
      <4> QED
        BY <1>4, <1>6, <3>1, <3>3, <4>1 DEF Clean
    <3> QED
      BY <3>2, <3>3
  <2>7. PICK e : Segment(t, e) /\ segments[Begin(t)] = Begin(e + 1)
    BY <1>2, <1>12, <2>3, <2>5, <2>6 DEF SegmentsOfHeads
  <2>8. e \in t..n /\ Depth(t, e) = 0
    BY <2>7 DEF Segment
  <2>9. Depth(1, e) = Depth(1, t - 1)
    <3>1. (t - 1) + 1 = t /\ 1 <= (t - 1) + 1 /\ t - 1 <= e /\ t - 1 \in Int /\ e \in Int
      BY <1>6, <2>8
    <3>2. Depth(1, e) = Depth(1, t - 1) + Depth((t - 1) + 1, e)
      BY <3>1, DepthSplit
    <3> QED
      BY <1>8, <2>8, <3>1, <3>2
  <2>10. e + 1 \in 1..n + 1 /\ 0 \in 0..4 /\ (e + 1) - 1 = e
    BY <1>4, <1>6, <2>8
  <2>11. index' = Begin(e + 1) + 0
    <3>1. Begin(e + 1) \in 0..Size
      BY <1>2, <2>10, Layout
    <3> QED
      BY <2>1, <2>3, <2>5, <2>7, <3>1
  <2>12. \A j \in Written' : j < e + 1
    BY <1>5, <1>6, <2>2, <2>5, <2>8
  <2>13. DepthOf(Written', n) = Depth(1, (e + 1) - 1)
    BY <1>5, <2>2, <2>9, <2>10
  <2> QED
    BY <1>5, <1>10, <2>2, <2>10, <2>11, <2>12, <2>13
<1> QED
  BY <1>11, <1>12

\* No other step disturbs the depth.
LEMMA DepthKeptNext ==
    ASSUME IInv, ScanTokens, DepthKept, tokens' = tokens, [Next]_vars
    PROVE  DepthKept'
<1>1. ASSUME pc' \notin {"copy", "done"} PROVE DepthKept'
  BY <1>1 DEF DepthKept
<1>2. Laid /\ LoadedThenCopied /\ content' = content /\ errors' = errors
  <2>1. Laid /\ LoadedThenCopied
    BY DEF ScanTokens
  <2>2. content' = content /\ errors' = errors
    <3>1. UNCHANGED given
      BY DEF Next, CompilerExits, Poll, Communicate, Erase, LoadResult, Scan, ScanEnds, AllLoaded, Copy,
             Copied, Over, vars
    <3> QED
      BY <3>1 DEF given
  <2> QED
    BY <2>1, <2>2
<1>3. Range(tokens)' = Range(tokens) /\ Size' = Size
  BY <1>2 DEF Range, Size
<1>4. ASSUME UNCHANGED <<index, out>>, pc \in {"copy", "done"}, pc' = "done" => pc = "done" \/ index >= Size
      PROVE  DepthKept'
  <2> SUFFICES ASSUME Comment \notin Range(tokens), pc' \in {"copy", "done"}
               PROVE  (pc' = "done" => index' >= Size') /\ \E t, k : DepthIsKept(t, k)'
    BY <1>3 DEF DepthKept
  <2>1. (pc = "done" => index >= Size) /\ \E t, k : DepthIsKept(t, k)
    BY <1>4 DEF DepthKept
  <2>2. \A t, k : DepthIsKept(t, k)' <=> DepthIsKept(t, k)
    BY <1>2, <1>4, DepthStatic
  <2> QED
    BY <1>3, <1>4, <2>1, <2>2
<1>5. CASE AllLoaded
  <2>1. /\ pc' = "copy" /\ index = 0 /\ out = <<>> /\ Len(out) = 0
        /\ index' = index /\ out' = out
    BY <1>2, <1>5 DEF AllLoaded, LoadedThenCopied
  <2>2. n \in Nat /\ Begin(1) = 0
    BY <1>2, Layout
  <2>3. Written = {}
    BY <2>1 DEF Written
  <2>4. Depth(1, 1 - 1) = 0
    BY DepthStep
  <2>5. DepthOf({}, n) = 0
    <3>1. \A x : {k \in {} : k <= n /\ tokens[k] = x} = {}
      OBVIOUS
    <3>2. DepthOf({}, n) = Cardinality({}) - Cardinality({})
      BY <3>1, Zenon DEF DepthOf
    <3> QED
      BY <3>2, FS_EmptySet
  <2>6. DepthIsKept(1, 0)
    <3>1. 1 \in 1..n + 1 /\ 0 \in 0..4 /\ index = Begin(1) + 0
      BY <2>1, <2>2
    <3> QED
      BY <2>3, <2>4, <2>5, <3>1 DEF DepthIsKept
  <2>7. \A t, k : DepthIsKept(t, k)' <=> DepthIsKept(t, k)
    BY <1>2, <2>1, DepthStatic
  <2> QED
    BY <2>1, <2>6, <2>7 DEF DepthKept
<1>6. CASE Copy
  <2>1. CASE Comment \notin Range(tokens)
    BY <1>6, <2>1, DepthKeptCopy
  <2>2. CASE Comment \in Range(tokens)
    BY <1>3, <2>2 DEF DepthKept
  <2> QED
    BY <2>1, <2>2
<1>7. CASE Copied
  BY <1>4, <1>7 DEF Copied
<1>8. CASE UNCHANGED vars
  BY <1>1, <1>4, <1>8 DEF vars
<1>9. CASE CompilerExits
  BY <1>1, <1>4, <1>9 DEF CompilerExits
<1>10. CASE Poll \/ Communicate \/ LoadResult \/ Scan \/ ScanEnds
  <2>1. CASE Poll \/ Communicate
    BY <1>1, <2>1 DEF Poll, Communicate
  <2>2. CASE LoadResult
    BY <1>1, <2>2 DEF LoadResult
  <2>3. CASE Scan \/ ScanEnds
    BY <1>1, <2>3, ScanEffect DEF IInv
  <2> QED
    BY <1>10, <2>1, <2>2, <2>3
<1> QED
  BY <1>5, <1>6, <1>7, <1>8, <1>9, <1>10 DEF Next, Erase, Over

\* At the end, the depth is that of the text, after each token that is left.
LEMMA KeptIsBalanced ==
    ASSUME IInv, ScanTokens, DepthKept
    PROVE  ParensBalanced
<1>1. \A ts : Balanced(ts) <=> (\A j \in ts : DepthOf(ts, j) >= 0) /\ DepthOf(ts, n) = 0
  BY DEF Balanced, DepthOf, n
<1>2. Written = {TokenAt(out[i]) : i \in {j \in 1..Len(out) : out[j] # Skipped}}
  BY DEF Written
<1>3. 1..n = 1..Len(tokens)
  BY DEF n
<1> SUFFICES ASSUME pc = "done", Comment \notin Range(tokens), Balanced(1..n)
             PROVE  Balanced(Written)
  BY <1>2, <1>3 DEF ParensBalanced
<1>4. PICK t, k : index >= Size /\ DepthIsKept(t, k)
  BY DEF DepthKept
<1>5. Laid
  BY DEF ScanTokens
<1>6. n \in Nat /\ Size \in Nat /\ Begin(n + 1) = Size
  BY <1>5, Layout
<1>7. /\ t \in 1..n + 1 /\ k \in 0..4 /\ index = Begin(t) + k
      /\ k # 0 => t <= n /\ k < Len(tokens[t])
      /\ Written \subseteq 1..n
      /\ DepthOf(Written, n) = Depth(1, t - 1)
      /\ \A j \in Written : DepthOf(Written, j) = Depth(1, j)
  BY <1>4 DEF DepthIsKept
<1>8. t = n + 1
  <2> SUFFICES ASSUME t \in 1..n PROVE FALSE
    BY <1>6, <1>7
  <2> DEFINE l == Len(tokens[t])
  <2>1. l \in 1..5 /\ Begin(t + 1) = Begin(t) + l /\ Begin(t) \in Int
    BY <1>5, Layout
  <2>2. Begin(t + 1) \in 0..Size
    <3>1. t + 1 \in 1..n + 1
      BY <1>6
    <3> QED
      BY <1>5, <3>1, Layout
  <2>3. k = 0 \/ k < l
    BY <1>7
  <2> HIDE DEF l
  <2>4. index < Begin(t + 1)
    BY <1>7, <2>1, <2>3
  <2> QED
    BY <1>4, <1>6, <1>7, <2>1, <2>2, <2>4
<1>9. DepthOf(Written, n) = Depth(1, n)
  <2>1. t - 1 = n
    BY <1>6, <1>8
  <2> QED
    BY <1>7, <2>1
<1>10. \A j \in 1..n : DepthOf(1..n, j) = Depth(1, j)
  BY <1>6, DepthOfAll
<1>11. DepthOf(Written, n) = 0
  <2>1. CASE n = 0
    <3>1. Depth(1, 1 - 1) = 0 /\ 1 - 1 = n
      BY <2>1, DepthStep
    <3> QED
      BY <1>9, <3>1
  <2>2. CASE n # 0
    <3>1. n \in 1..n
      BY <1>6, <2>2
    <3> QED
      BY <1>1, <1>9, <1>10, <3>1
  <2> QED
    BY <2>1, <2>2
<1>12. \A j \in Written : DepthOf(Written, j) >= 0
  <2>1. \A j \in 1..n : Depth(1, j) >= 0
    BY <1>1, <1>10
  <2> QED
    BY <1>7, <2>1
<1> QED
  BY <1>1, <1>11, <1>12

-----------------------------------------------------------------------------
\* The invariant of the eraser on tokens.
LEMMA TokensSafe ==
    ASSUME AssertFn = Name
    PROVE  MCSpec => [](IInv /\ ScanTokens /\ CallsCopied /\ DepthKept)
<1> DEFINE Inv == IInv /\ ScanTokens /\ CallsCopied /\ DepthKept
<1>1. MCInit => Inv /\ Located
  <2> SUFFICES ASSUME MCInit PROVE Inv /\ Located
    OBVIOUS
  <2>1. Init /\ pc \notin {"copy", "done"}
    BY DEF MCInit, Init
  <2> QED
    BY <2>1, InitSafe, LocatedInit, TokensInit DEF CallsCopied, DepthKept
<1>2. Inv /\ Located /\ [Next /\ UNCHANGED tokens]_<<vars, tokens>> => (Inv /\ Located)'
  <2> SUFFICES ASSUME Inv, Located, [Next /\ UNCHANGED tokens]_<<vars, tokens>>
               PROVE  (Inv /\ Located)'
    OBVIOUS
  <2>1. [Next]_vars /\ tokens' = tokens
    OBVIOUS
  <2> QED
    BY <2>1, NextSafe, LocatedNext, TokensNext, CallsCopiedNext, DepthKeptNext
<1> QED
  BY <1>1, <1>2, PTL DEF MCSpec

\* strip_malformed_asserts.py:78-107: of a text of any number of tokens, with
\* any errors, located at tokens or at the end, exactly the outermost calls in
\* error are replaced if all that is in error are calls without comments.
THEOREM CallsAreErased ==
    ASSUME AssertFn = Name
    PROVE  MCSpec => []CallsErased
<1>1. IInv /\ ScanTokens /\ CallsCopied /\ DepthKept => CallsErased
  BY CopiedIsErased
<1> QED
  BY <1>1, TokensSafe, PTL

\* strip_malformed_asserts.py:78-107: a text without comments whose parentheses
\* are balanced has them balanced after it, whatever is in error.
THEOREM ParensStayBalanced ==
    ASSUME AssertFn = Name
    PROVE  MCSpec => []ParensBalanced
<1>1. IInv /\ ScanTokens /\ CallsCopied /\ DepthKept => ParensBalanced
  BY KeptIsBalanced
<1> QED
  BY <1>1, TokensSafe, PTL
=============================================================================
