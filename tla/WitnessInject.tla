--------------------------- MODULE WitnessInject ---------------------------
(***************************************************************************)
(* A run of witness_inject: read the witness (src/src/witness.cpp), then   *)
(* for each source file parse it, inject the invariants that name it       *)
(* (src/src/inject.cpp) and overwrite it (src/src/action.cpp), under the   *)
(* driver loop of src/src/main.cpp and clang::tooling::ClangTool::run.     *)
(***************************************************************************)
EXTENDS Injector

CONSTANTS
    AbsoluteNames,   \* the absolute path names of the model
    RelativeNames,   \* the relative names a witness may use
    Joined,          \* each relative name, appended to the witness's directory
    NoName,          \* the directory itself: what an empty file_name becomes
    Sources,         \* the source files of the command line, in order
    Programs,        \* the translation units a source file may hold
    Flaws,           \* the ways in which an item of the document may be flawed
    MaxItems         \* bound: the items of a witness document

Names == AbsoluteNames \cup RelativeNames
Types == {"location_invariant", "loop_invariant"}

\* The keys of an item in the order the reader asks for them.  An item whose
\* flaw is one of these lacks that key or has a value of the wrong sort.
Keys == {"entry_type", "type", "file_name", "line", "column", "function",
         "value", "format"}

ASSUME NamesAssumption ==
    /\ Joined \in [RelativeNames -> AbsoluteNames]
    /\ NoName \notin Names
    /\ AbsoluteNames \cap RelativeNames = {}

\* The files are distinct: a file given twice would be parsed a second time
\* after it has been overwritten.
ASSUME SourcesAssumption ==
    /\ Sources \in Seq(AbsoluteNames)
    /\ \A i, j \in 1..Len(Sources) : Sources[i] = Sources[j] => i = j

\* (Element by element: TLC need not enumerate the set of records.)
ASSUME ProgramsAssumption == \A p \in Programs : p \in TranslationUnits /\ WellFormed(p)

ASSUME FlawsAssumption == Flaws \subseteq Keys /\ MaxItems \in Nat

Files == {Sources[i] : i \in 1..Len(Sources)}

-----------------------------------------------------------------------------
VARIABLES
    prog,             \* what each source file holds, as Clang parses it
    skipSwitchcases,  \* the command line's --skip-switch-cases
    phase,            \* where the process is
    doc,              \* the items of the document read so far, as written there
    yamlError,        \* llvm::yaml::Input's error, which nobody reads
    witness,          \* std::vector<Entry>, its entries' contents in one sequence
    source,           \* index in Sources of the file being processed
    cursor,           \* index in witness of the next invariant to handle
    edits,            \* the action's Rewriter: per handled invariant, its insertions
    disk,             \* per file: the insertions it was overwritten with
    failed,           \* ClangTool::run: some file could not be processed
    status,           \* the exit status
    asked             \* history: per file, what the complete witness asks it to hold

vars == <<prog, skipSwitchcases, phase, doc, yamlError, witness, source, cursor,
          edits, disk, failed, status, asked>>
config  == <<prog, skipSwitchcases>>
reading == <<doc, yamlError, witness, asked>>
running == <<source, cursor, edits, disk, failed>>

Phases == {"start", "read", "file", "ast", "exited", "aborted", "killed"}
NoStatus == 2      \* the process has not exited by itself
Original == <<>>   \* a file nothing was written to

\* An invariant as the document states it, and as the tool keeps it.
Items      == [type : Types, name : Names, loc : Nat, flaw : Flaws \cup {"none"}]
Invariants == [type : Types, name : AbsoluteNames \cup RelativeNames \cup {NoName},
               loc : Nat, value : BOOLEAN]

TypeOK ==
    /\ prog \in [Files -> Programs]
    /\ skipSwitchcases \in BOOLEAN
    /\ phase \in Phases
    /\ doc \in Seq(Items)
    /\ yamlError \in BOOLEAN
    /\ witness \in Seq(Invariants)
    /\ source \in 1..Len(Sources) + 1
    /\ cursor \in 1..Len(witness) + 1
    /\ edits \in Seq(Seq(Edits))
    /\ disk \in [Files -> Seq(Seq(Edits))]
    /\ failed \in BOOLEAN
    /\ status \in {0, 1, NoStatus}
    /\ asked \in [Files -> Seq(Seq(Edits))]

Init ==
    /\ prog \in [Files -> Programs]
    /\ skipSwitchcases \in BOOLEAN
    /\ phase = "start"
    /\ doc = <<>> /\ yamlError = FALSE /\ witness = <<>>
    /\ source = 1 /\ cursor = 1 /\ edits = <<>>
    /\ disk = [f \in Files |-> Original]
    /\ failed = FALSE /\ status = NoStatus
    /\ asked = [f \in Files |-> Original]

-----------------------------------------------------------------------------
(* Reading the witness.                                                    *)

\* main: MemoryBuffer::getFile fails.
OpenFails ==
    /\ phase = "start"
    /\ phase' = "exited" /\ status' = 1
    /\ UNCHANGED <<config, reading, running>>

Open ==
    /\ phase = "start"
    /\ phase' = "read"
    /\ UNCHANGED <<config, reading, running, status>>

\* What one item of the document adds to the vector.  The keys after the
\* flawed one are not looked at, and the fields they set are zero or empty.
\* Line 0 or column 0 is translated into any position, or kills the process.
Kept(item, anyLoc) ==
    LET name  == IF item.flaw \in {"type", "file_name"} THEN NoName ELSE item.name
        loc   == IF item.flaw \in {"line", "column"} THEN anyLoc ELSE item.loc
        type  == IF item.flaw = "type" THEN "location_invariant" ELSE item.type
        value == item.flaw \in {"none", "format"}
    IN  IF item.flaw = "entry_type" THEN <<>>
        ELSE <<[type |-> type, name |-> name, loc |-> loc, value |-> value]>>

\* Mutant: each item is read as if none before it were flawed.
ReadItem_AfterErrors(item, anyLoc) ==
    /\ phase = "read"
    /\ Len(doc) < MaxItems
    /\ doc' = Append(doc, item)
    /\ witness' = witness \o Kept(item, anyLoc)
    /\ yamlError' = (yamlError \/ item.flaw # "none")
    /\ UNCHANGED <<config, phase, running, status, asked>>

\* yaml >> out, one item: after the first error no further one is entered.
ReadItem(item, anyLoc) ==
    /\ phase = "read"
    /\ Len(doc) < MaxItems
    /\ doc' = Append(doc, item)
    /\ witness' = IF yamlError THEN witness ELSE witness \o Kept(item, anyLoc)
    /\ yamlError' = (yamlError \/ item.flaw # "none")
    /\ UNCHANGED <<config, phase, running, status, asked>>

\* A relative name is appended to the directory of the witness's real path.
Resolve(name) == IF name \in RelativeNames THEN Joined[name] ELSE name

\* What the k-th invariant of a witness w inserts into file f: nothing unless
\* it names it.
EditsOf(w, f, k) ==
    IF w[k].name = f
    THEN Inject(prog[f], w[k].type, w[k].loc, k, skipSwitchcases)
    ELSE <<>>

InsertionsOf(w, f) ==
    IF \E k \in DOMAIN w : EditsOf(w, f, k) # <<>>
    THEN [k \in DOMAIN w |-> EditsOf(w, f, k)] ELSE Original

EndRead ==
    /\ phase = "read"
    /\ LET resolved == [k \in DOMAIN witness |-> [witness[k] EXCEPT !.name = Resolve(@)]]
       IN  /\ witness' = resolved
           /\ asked' = [f \in Files |-> InsertionsOf(resolved, f)]
    /\ phase' = "file"
    /\ UNCHANGED <<config, doc, yamlError, running, status>>

\* The document is not YAML: the parser reports it and the vector stays empty.
SyntaxError ==
    /\ phase = "read" /\ doc = <<>>
    /\ yamlError' = TRUE /\ phase' = "file"
    /\ UNCHANGED <<config, doc, witness, running, status, asked>>

\* real_path fails: the exception is not caught.
RealPathFails ==
    /\ phase = "read"
    /\ phase' = "aborted"
    /\ UNCHANGED <<config, reading, running, status>>

-----------------------------------------------------------------------------
(* ClangTool::run: one file after the other, each with an action of its own. *)

\* Mutant: the loop over the files does one too many.
SkipSource_OneTooMany ==
    /\ phase = "file" /\ source <= Len(Sources) + 1
    /\ source' = source + 1 /\ failed' = TRUE
    /\ UNCHANGED <<config, reading, phase, cursor, edits, disk, status>>

\* The file cannot be read: reported, and the next one is tried.
SkipSource ==
    /\ phase = "file" /\ source <= Len(Sources)
    /\ source' = source + 1 /\ failed' = TRUE
    /\ UNCHANGED <<config, reading, phase, cursor, edits, disk, status>>

\* Mutant: the files share one Rewriter.
BeginSource_OneRewriter(parseErrors) ==
    /\ phase = "file" /\ source <= Len(Sources)
    /\ phase' = "ast" /\ cursor' = 1
    /\ failed' = (failed \/ parseErrors)
    /\ UNCHANGED <<config, reading, edits, source, disk, status>>

\* A new action with a new Rewriter; the file is parsed.  After parse errors
\* the consumer is called all the same, on the AST Clang recovered.
BeginSource(parseErrors) ==
    /\ phase = "file" /\ source <= Len(Sources)
    /\ phase' = "ast" /\ cursor' = 1 /\ edits' = <<>>
    /\ failed' = (failed \/ parseErrors)
    /\ UNCHANGED <<config, reading, source, disk, status>>

EditsFor(f, k) == EditsOf(witness, f, k)

\* Mutant: the file is overwritten after every invariant.
HandleInvariant_Flush ==
    /\ phase = "ast" /\ cursor <= Len(witness)
    /\ edits' = Append(edits, EditsFor(Sources[source], cursor))
    /\ disk' = IF EditsFor(Sources[source], cursor) = <<>> THEN disk
               ELSE [disk EXCEPT ![Sources[source]] = edits']
    /\ cursor' = cursor + 1
    /\ UNCHANGED <<config, reading, phase, source, failed, status>>

\* HandleTranslationUnit, one invariant.
HandleInvariant ==
    /\ phase = "ast" /\ cursor <= Len(witness)
    /\ edits' = Append(edits, EditsFor(Sources[source], cursor))
    /\ cursor' = cursor + 1
    /\ UNCHANGED <<config, reading, phase, source, disk, failed, status>>

\* Mutant: a failed write is not reported.
EndSourceFileAction_Silent(written) ==
    /\ phase = "ast" /\ cursor > Len(witness)
    /\ LET changed == \E k \in DOMAIN edits : edits[k] # <<>>
       IN  disk' = IF changed /\ written
                   THEN [disk EXCEPT ![Sources[source]] = edits] ELSE disk
    /\ phase' = "file" /\ source' = source + 1
    /\ UNCHANGED <<config, reading, cursor, edits, failed, status>>

\* EndSourceFileAction: overwriteChangedFiles replaces a changed file at once,
\* or cannot and reports it.
EndSourceFileAction(written) ==
    /\ phase = "ast" /\ cursor > Len(witness)
    /\ LET changed == \E k \in DOMAIN edits : edits[k] # <<>>
       IN  /\ disk' = IF changed /\ written
                      THEN [disk EXCEPT ![Sources[source]] = edits] ELSE disk
           /\ failed' = (failed \/ (changed /\ ~written))
    /\ phase' = "file" /\ source' = source + 1
    /\ UNCHANGED <<config, reading, cursor, edits, status>>

Exit ==
    /\ phase = "file" /\ source > Len(Sources)
    /\ phase' = "exited" /\ status' = IF failed THEN 1 ELSE 0
    /\ UNCHANGED <<config, reading, running>>

\* The process dies: a signal, or a crash on a position that does not exist.
Kill ==
    /\ phase \in {"start", "read", "file", "ast"}
    /\ phase' = "killed"
    /\ UNCHANGED <<config, reading, running, status>>

\* The positions a witness may name in a file (one will do in a file that is
\* not processed).
PositionsIn(file) == IF file \in Files THEN prog[file].witnessed ELSE {1}

ReadAnItem ==
    \E name \in Names, type \in Types, flaw \in Flaws \cup {"none"} :
        \E loc, anyLoc \in PositionsIn(Resolve(name)) :
            /\ flaw \notin {"line", "column"} => anyLoc = loc
            /\ ReadItem([type |-> type, name |-> name, loc |-> loc, flaw |-> flaw], anyLoc)

\* The process is over (a stutter: anything else that stops is a deadlock).
Over ==
    /\ phase \in {"exited", "aborted", "killed"}
    /\ UNCHANGED vars

Next ==
    \/ OpenFails \/ Open
    \/ ReadAnItem \/ EndRead \/ SyntaxError \/ RealPathFails
    \/ SkipSource \/ (\E e \in BOOLEAN : BeginSource(e)) \/ HandleInvariant
    \/ (\E w \in BOOLEAN : EndSourceFileAction(w))
    \/ Exit \/ Kill \/ Over

Spec == Init /\ [][Next]_vars

-----------------------------------------------------------------------------
(* What a run leaves behind.                                               *)

Insertions(f) == [k \in DOMAIN witness |-> EditsFor(f, k)]

\* However the run ends (killed, a file skipped, a failed write, a witness cut
\* short by an error), each source file is as it was, or holds the insertions
\* of exactly the invariants that name it, each one's all together and in the
\* witness's order: nothing of another file's, nothing in part.
WholeOrUntouched ==
    \A f \in Files : disk[f] # Original => disk[f] = Insertions(f)

HasInsertions(f) == \E k \in DOMAIN witness : EditsFor(f, k) # <<>>

Atomic == INSTANCE AtomicInjection WITH Contents <- Seq(Seq(Edits)), text <- disk

\* The run as a whole is an atomic injection: the reader, the loop over files and
\* invariants, the Rewriter of each file, the failures recorded and the crashes
\* together let nothing be seen but files that change at once, and only once,
\* to what the complete witness asks, and a status 0 that vouches for them all.
InjectsAtomically == Atomic!Spec

\* Exit status 0 is not given away: every file for which the witness as read
\* has an insertion to make has been overwritten with it.
ZeroMeansWritten ==
    status = 0 => \A f \in Files : HasInsertions(f) => disk[f] # Original

\* What is written stems from the document: the k-th invariant that changed a
\* file is the document's k-th item, of its type and for that file, at its
\* position unless the flaw is in the position, and no earlier item is flawed.
InjectedAsStated ==
    \A f \in Files : \A k \in DOMAIN disk[f] : disk[f][k] # <<>> =>
        /\ k \in DOMAIN doc /\ Resolve(doc[k].name) = f
        /\ witness[k].type = doc[k].type
        /\ doc[k].flaw \in {"line", "column"} \/ witness[k].loc = doc[k].loc
        /\ \A j \in 1..(k - 1) : doc[j].flaw = "none"

\* The witnesses name starts of statements of units laid out with white space.
StatementsNamed ==
    \A p \in Programs :
        SourceOrdered(p) /\ \A loc \in p.witnessed : StatementStart(p, loc)

\* util.cpp:115-152: where a statement starts, the search finds the outermost
\* node that starts there (white space separates the tokens).
SearchFindsOutermost ==
    \A f \in Files : \A loc \in prog[f].witnessed :
        largestASTNodeStartingAt(prog[f], loc) = Min(NodesAt(prog[f], loc))

\* README.md:14: "Injects location and loop invariants from `witness.yml`":
\* after a run that reports success, every well-formed item of the document
\* that inserts something into a source file, read by itself, has done so.
AllInjected ==
    status = 0 => \A f \in Files : \A k \in DOMAIN doc :
        (/\ doc[k].flaw = "none" /\ Resolve(doc[k].name) = f
         /\ Inject(prog[f], doc[k].type, doc[k].loc, k, skipSwitchcases) # <<>>)
        => k \in DOMAIN disk[f]
=============================================================================
