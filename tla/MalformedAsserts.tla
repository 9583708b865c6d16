-------------------------- MODULE MalformedAsserts --------------------------
(***************************************************************************)
(* src/strip_malformed_asserts.py: the assertions the compiler reports     *)
(* errors in are cut out of a text, which is looked at character by        *)
(* character.  Offsets count from 0, as in the code.                       *)
(***************************************************************************)
EXTENDS Integers, Sequences, FiniteSets

CONSTANTS
    Chars,        \* the characters of a text
    AssertFn      \* the name of the assertions: a sequence of characters

ASSUME AssertFnAssumption == AssertFn \in Seq(Chars) /\ AssertFn # <<>>

VARIABLES
    content,      \* FileMap._content
    errors,       \* the offsets of the errors, as the compiler reports them
    compiler,     \* the process of generate_sarif
    pc,           \* where the script is
    loaded,       \* how many results load_sarif has come to
    offset,       \* the location of the last of them
    end_offset, paren_depth, quote,
    segments,     \* _erase_segments of this file
    index,
    out           \* the offsets of the characters written, and Skipped

given   == <<content, errors>>
scanner == <<end_offset, paren_depth, quote>>
vars    == <<given, compiler, pc, loaded, offset, scanner, segments, index, out>>

Skipped == -1     \* ((void) 0 /* Skipped malformed assertion */)
None    == "none"
Quotes  == {"'", "\""}
Size    == Len(content)

TypeOK ==
    /\ content \in Seq(Chars) /\ errors \in Seq(0..Size)
    /\ compiler \in {"running", "exited"}
    /\ pc \in {"poll", "communicate", "load", "scan", "copy", "done", "failed"}
    /\ loaded \in 0..Len(errors) /\ offset \in Nat
    /\ end_offset \in 0..Size + 1 /\ paren_depth \in Nat /\ quote \in Quotes \cup {None}
    /\ DOMAIN segments \subseteq 0..Size - 1
    /\ \A o \in DOMAIN segments : segments[o] \in o + 1..Size + 1
    /\ index \in 0..Size + 1
    /\ out \in Seq({Skipped} \cup 0..Size - 1)

\* The driver runs the compiler; the script alone is given what it has written.
\* Only errors located in this file count.
Init ==
    /\ content \in Seq(Chars) /\ errors \in Seq(0..Size)
    /\ \/ pc = "poll" /\ compiler = "running"
       \/ pc = "load" /\ compiler = "exited"
    /\ loaded = 0 /\ offset = 0 /\ end_offset = 0 /\ paren_depth = 0 /\ quote = None
    /\ segments = [o \in {} |-> 0] /\ index = 0 /\ out = <<>>

-----------------------------------------------------------------------------
(* MalformedAssertEraseDriver.generate_sarif.                              *)

CompilerExits ==
    /\ compiler = "running" /\ compiler' = "exited"
    /\ UNCHANGED <<given, pc, loaded, offset, scanner, segments, index, out>>

\* A compiler that has ended before the first poll is not read: splitlines()[1]
\* of nothing is an IndexError.
Poll ==
    /\ pc = "poll"
    /\ pc' = IF compiler = "running" THEN "communicate" ELSE "failed"
    /\ UNCHANGED <<given, compiler, loaded, offset, scanner, segments, index, out>>

Communicate ==
    /\ pc = "communicate" /\ compiler = "exited" /\ pc' = "load"
    /\ UNCHANGED <<given, compiler, loaded, offset, scanner, segments, index, out>>

-----------------------------------------------------------------------------
(* FileMap.                                                                *)

\* The lines before offset o; a newline belongs to the line it ends.
Newlines(o) == Cardinality({i \in 1..o : content[i] = "\n"})

\* The compiler's: lines and columns count from 1.
Location(o) ==
    LET begin == CHOOSE b \in 0..o : /\ b = 0 \/ content[b] = "\n"
                                     /\ \A i \in b + 1..o : content[i] # "\n"
    IN  [line |-> Newlines(o) + 1, column |-> o - begin + 1]

LineCount    == IF content = <<>> THEN 0 ELSE Newlines(Size) + 1
file_map(l)  == Cardinality({o \in 0..Size - 1 : Newlines(o) = l - 1})
Before(l)    == Cardinality({o \in 0..Size - 1 : Newlines(o) < l - 1})

\* Mutant: the newline is no column of its line.
Valid_NoNewline(loc) ==
    loc.line \in 1..LineCount /\ loc.column \in 1..file_map(loc.line) - 1

\* Whether get_offset_by_loc raises no ValueError, and what it returns.
Valid(loc) == loc.line \in 1..LineCount /\ loc.column \in 1..file_map(loc.line)
get_offset_by_loc(loc) == loc.column - 1 + Before(loc.line)

-----------------------------------------------------------------------------
(* MalformedSegmentEraser.                                                 *)

IsAssert(o) ==
    o + Len(AssertFn) <= Size /\ SubSeq(content, o + 1, o + Len(AssertFn)) = AssertFn

\* One location of load_sarif; an exception ends the script.
LoadResult ==
    /\ pc = "load" /\ loaded < Len(errors) /\ loaded' = loaded + 1
    /\ LET loc == Location(errors[loaded'])  o == get_offset_by_loc(loc) IN
       IF ~Valid(loc) THEN pc' = "failed" /\ UNCHANGED <<offset, scanner>>
       ELSE /\ offset' = o
            /\ IF IsAssert(o)
               THEN pc' = "scan" /\ end_offset' = o /\ paren_depth' = 0 /\ quote' = None
               ELSE UNCHANGED <<pc, scanner>>
    /\ UNCHANGED <<given, compiler, segments, index, out>>

\* Max of what is recorded and what is found.
Recorded(end) ==
    [o \in DOMAIN segments \cup {offset} |->
        IF o # offset THEN segments[o]
        ELSE IF offset \in DOMAIN segments /\ segments[offset] > end THEN segments[offset]
        ELSE end]

Char == content[end_offset + 1]

\* Mutant: quotes are taken for other characters.
OpenQuote_Ignored ==
    /\ Char \notin {"(", ")"} /\ end_offset' = end_offset + 1
    /\ UNCHANGED <<pc, paren_depth, quote, segments>>

OpenParen ==
    /\ Char = "(" /\ paren_depth' = paren_depth + 1 /\ end_offset' = end_offset + 1
    /\ UNCHANGED <<pc, quote, segments>>

\* Mutant: the assertion's own parenthesis is not told from one before it.
CloseParen_Recorded ==
    /\ Char = ")" /\ end_offset' = end_offset + 1 /\ UNCHANGED quote
    /\ IF paren_depth > 1
       THEN paren_depth' = paren_depth - 1 /\ UNCHANGED <<pc, segments>>
       ELSE /\ paren_depth' = 0 /\ pc' = "load"
            /\ segments' = Recorded(end_offset')

\* Mutant: nobody looks for one too many.
CloseParen_Negative ==
    /\ Char = ")" /\ UNCHANGED quote
    /\ paren_depth' = paren_depth - 1 /\ end_offset' = end_offset + 1
    /\ IF paren_depth = 1 THEN pc' = "load" /\ segments' = Recorded(end_offset')
                           ELSE UNCHANGED <<pc, segments>>

\* The last one ends the segment; one too many is a return.
CloseParen ==
    /\ Char = ")" /\ UNCHANGED quote
    /\ CASE paren_depth = 0 -> pc' = "load" /\ UNCHANGED <<end_offset, paren_depth, segments>>
         [] paren_depth = 1 -> /\ paren_depth' = 0 /\ end_offset' = end_offset + 1
                               /\ pc' = "load" /\ segments' = Recorded(end_offset')
         [] OTHER -> /\ paren_depth' = paren_depth - 1 /\ end_offset' = end_offset + 1
                     /\ UNCHANGED <<pc, segments>>

OpenQuote ==
    /\ Char \notin {"(", ")"} /\ quote' = IF Char \in Quotes THEN Char ELSE None
    /\ end_offset' = end_offset + 1
    /\ UNCHANGED <<pc, paren_depth, segments>>

\* Mutant: only the ends of a literal are stepped over.
InQuote_Stays ==
    /\ quote' = IF Char = quote THEN None ELSE quote
    /\ end_offset' = CASE Char = "\\" -> end_offset + 2
                       [] Char = quote -> end_offset + 1 [] OTHER -> end_offset
    /\ UNCHANGED <<pc, paren_depth, segments>>

\* An escape steps over the next character, even past the end.
InQuote ==
    /\ quote' = IF Char = quote THEN None ELSE quote
    /\ end_offset' = end_offset + (IF Char = "\\" THEN 2 ELSE 1)
    /\ UNCHANGED <<pc, paren_depth, segments>>

\* One character of _record_segment.
Scan ==
    /\ pc = "scan" /\ end_offset < Size
    /\ \/ quote = None /\ (OpenParen \/ CloseParen \/ OpenQuote)
       \/ quote # None /\ InQuote
    /\ UNCHANGED <<given, compiler, loaded, offset, index, out>>

\* At the end of the text, the rest of it is the segment if no parenthesis is open.
ScanEnds ==
    /\ pc = "scan" /\ end_offset >= Size /\ pc' = "load"
    /\ segments' = IF paren_depth = 0 THEN Recorded(end_offset) ELSE segments
    /\ UNCHANGED <<given, compiler, loaded, offset, scanner, index, out>>

AllLoaded ==
    /\ pc = "load" /\ loaded = Len(errors) /\ pc' = "copy"
    /\ UNCHANGED <<given, compiler, loaded, offset, scanner, segments, index, out>>

\* Mutant: the character after the segment is lost.
Copy_OneMore ==
    /\ pc = "copy" /\ index < Size
    /\ IF index \in DOMAIN segments
       THEN out' = Append(out, Skipped) /\ index' = segments[index] + 1
       ELSE out' = Append(out, index) /\ index' = index + 1
    /\ UNCHANGED <<given, compiler, pc, loaded, offset, scanner, segments>>

\* MalformedSegmentEraser.process_file.
Copy ==
    /\ pc = "copy" /\ index < Size
    /\ IF index \in DOMAIN segments
       THEN out' = Append(out, Skipped) /\ index' = segments[index]
       ELSE out' = Append(out, index) /\ index' = index + 1
    /\ UNCHANGED <<given, compiler, pc, loaded, offset, scanner, segments>>

Copied ==
    /\ pc = "copy" /\ index >= Size /\ pc' = "done"
    /\ UNCHANGED <<given, compiler, loaded, offset, scanner, segments, index, out>>

Over == pc \in {"done", "failed"} /\ UNCHANGED vars

Erase == LoadResult \/ Scan \/ ScanEnds \/ AllLoaded \/ Copy \/ Copied
Next  == CompilerExits \/ Poll \/ Communicate \/ Erase \/ Over

\* The script runs on, and the compiler ends.
Fairness == WF_vars(CompilerExits) /\ WF_vars(Poll \/ Communicate \/ Erase)
Spec == Init /\ [][Next]_vars /\ Fairness

-----------------------------------------------------------------------------
\* strip_malformed_asserts.py:28-34: the line and column the compiler gives an
\* error lead back to its offset, unless it is at the end of the text, where no
\* character is: then the script fails.
ErrorLocated ==
    loaded > 0 => IF errors[loaded] < Size THEN offset = errors[loaded] /\ pc # "failed"
                  ELSE pc = "failed"

\* What one of the segments covers.
Covered(p) == \E o \in DOMAIN segments : o <= p /\ p < segments[o]

\* Whatever is erased, and however the segments overlap, the rest of the text is
\* written, each character once and in its order.
RestCopied ==
    /\ \A i, j \in 1..Len(out) : i < j /\ out[i] # Skipped /\ out[j] # Skipped => out[i] < out[j]
    /\ \A p \in 0..Size - 1 :
          p < index => (\E i \in 1..Len(out) : out[i] = p) \/ Covered(p)

\* No text makes the script loop for ever.
Ends == <>(pc \in {"done", "failed"})
=============================================================================
