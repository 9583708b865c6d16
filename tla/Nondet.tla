------------------------------- MODULE Nondet -------------------------------
(***************************************************************************)
(* The values of src/fuzz_harness/fuzz_harness.c, drawn from stdin by      *)
(* several threads.  A byte of the input is told by its offset, and a      *)
(* value by the bytes it is made of; the values are little-endian, and     *)
(* that rand cuts off its top bit, in a byte that is never used, is left   *)
(* out.  Without FUZZ_HARNESS_RAND_STDIN the values are the C library's.   *)
(***************************************************************************)
EXTENDS Integers, Sequences, SequencesExt

CONSTANTS
    Threads,
    Types,       \* the types the program asks for
    MaxInput,    \* bound: the bytes of the input
    MaxCalls     \* bound: the calls of a thread

\* sizeof, on a 64-bit system; of nondet_memory, the size of the memory is its
\* own, here two or three bytes.
Size == [bool |-> 1, char |-> 1, uchar |-> 1, short |-> 2, ushort |-> 2,
         int |-> 4, unsigned |-> 4, u32 |-> 4, float |-> 4,
         double |-> 8, long |-> 8, longlong |-> 8, pthread_t |-> 8, size_t |-> 8,
         ulong |-> 8, ulonglong |-> 8, int128 |-> 16, uint128 |-> 16,
         memory2 |-> 2, memory3 |-> 3, rand |-> 1]

ASSUME BoundsAssumption ==
    Types \subseteq DOMAIN Size /\ MaxInput \in Nat /\ MaxCalls \in Nat

VARIABLES
    input,       \* how many bytes stdin has
    pos,         \* how many of them are read
    call,        \* the type a thread is drawing a value of, or "none"
    value,       \* the bytes drawn for it
    drawn        \* history: the values a thread has been given

vars == <<input, pos, call, value, drawn>>

Garbage == -1    \* a byte of the stack, of unknown value
Unit    == 4     \* sizeof(unsigned int)
Bytes   == {Garbage} \cup 0..MaxInput - 1

TypeOK ==
    /\ input \in 0..MaxInput /\ pos \in 0..input
    /\ call \in [Threads -> Types \cup {"none"}]
    /\ value \in [Threads -> Seq(Bytes)]
    /\ drawn \in [Threads -> Seq(Seq(Bytes))]

Init ==
    /\ input \in 0..MaxInput /\ pos = 0
    /\ call = [t \in Threads |-> "none"] /\ value = [t \in Threads |-> <<>>]
    /\ drawn = [t \in Threads |-> <<>>]

-----------------------------------------------------------------------------
\* Mutant: a unit that is not whole is given up.
Read_Whole == [k \in 1..Unit |-> IF pos + Unit <= input THEN pos + k - 1 ELSE Garbage]

\* fread of one unit: at the end of the input the bytes it does not get stay as
\* they were, those it gets are stored all the same.
Read == [k \in 1..Unit |-> IF pos + k <= input THEN pos + k - 1 ELSE Garbage]
Advance(n) == pos' = IF pos + n <= input THEN pos + n ELSE input

Call(t, type) ==
    /\ call[t] = "none" /\ Len(drawn[t]) < MaxCalls
    /\ call' = [call EXCEPT ![t] = type] /\ value' = [value EXCEPT ![t] = <<>>]
    /\ UNCHANGED <<input, pos, drawn>>

\* Mutant: at the end the input is read again from its beginning.
Draw_Rewind(t) ==
    /\ call[t] # "none" /\ Len(value[t]) < Size[call[t]]
    /\ value' = [value EXCEPT ![t] = Append(@, Head(Read))]
    /\ pos' = IF pos + Unit < input THEN pos + Unit ELSE 0
    /\ UNCHANGED <<input, call, drawn>>

\* One call of rand, which holds stdin's lock for its fread: a byte of a value is
\* the lowest one of a unit, except that rand itself returns them all.
Draw(t) ==
    /\ call[t] # "none" /\ Len(value[t]) < Size[call[t]]
    /\ value' = [value EXCEPT ![t] = IF call[t] = "rand" THEN Read ELSE Append(@, Head(Read))]
    /\ Advance(Unit)
    /\ UNCHANGED <<input, call, drawn>>

Return(t) ==
    /\ call[t] # "none" /\ Len(value[t]) >= Size[call[t]]
    /\ call' = [call EXCEPT ![t] = "none"] /\ value' = [value EXCEPT ![t] = <<>>]
    /\ drawn' = [drawn EXCEPT ![t] = Append(@, value[t])]
    /\ UNCHANGED <<input, pos>>

Done == \A t \in Threads : call[t] = "none" /\ Len(drawn[t]) = MaxCalls
Over == Done /\ UNCHANGED vars

Next == (\E t \in Threads : Draw(t) \/ Return(t) \/ \E type \in Types : Call(t, type)) \/ Over
Spec == Init /\ [][Next]_vars

-----------------------------------------------------------------------------
\* The bytes of all values a thread has got, in order.
Taken(t) == FlattenSeq(drawn[t]) \o value[t]

\* Where byte b stands in the values of the threads.
Places(b) == UNION {{<<t, i>> : i \in {j \in 1..Len(Taken(t)) : Taken(t)[j] = b}} : t \in Threads}

\* fuzz_harness.c:32-36: however the threads draw, the first byte of every unit
\* that has been read, even of one that is not whole, is in one value of one
\* thread, at one place: no unit is lost or used twice, and whatever has been
\* drawn, units never get out of step with the input.
UnitsUsedOnce ==
    \A b \in 0..MaxInput - 1 :
        /\ b % Unit = 0 /\ b < pos => \E p \in Places(b) : Places(b) = {p}
        /\ b >= pos => Places(b) = {}

\* fuzz_harness.c:106-116: a thread's bytes are in the order of the input, and
\* after one that is of uninitialised memory there is none of the input, so that
\* a replay with the same input and the same turns differs in the last values at
\* most.
InOrder ==
    \A t \in Threads : LET s == Taken(t) IN
        \A i, j \in 1..Len(s) : i < j /\ s[j] # Garbage => s[i] # Garbage /\ s[i] < s[j]
=============================================================================
