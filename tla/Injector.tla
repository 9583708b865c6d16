------------------------------ MODULE Injector ------------------------------
(***************************************************************************)
(* The AST consumer of src/src/inject.cpp: the insertions that one         *)
(* invariant of the witness makes into one translation unit.               *)
(*                                                                         *)
(* An insertion is the place (an offset of the ORIGINAL file), what is     *)
(* inserted there, and the index inv of the invariant in the witness:      *)
(*   "{"  ";}"    the braces put around an unbraced statement;             *)
(*   ","          the separator after a for loop's increment;              *)
(*   "assert"     assert(value), an expression of a for loop's header;     *)
(*   "assert;"    assert(value); as a statement.                           *)
(* The comment InjectLocation writes into each assertion is a part of its  *)
(* text.                                                                   *)
(***************************************************************************)
EXTENDS AstSearch

Texts == {"{", ";}", ",", "assert", "assert;"}
Edits == [at : Nat \ {NoLoc}, text : Texts, inv : Nat]

\* clang::Rewriter::InsertText: a location inside a macro expansion is not
\* rewritable, the call fails, and no caller looks at its result.
InsertText(loc, text, inv) ==
    IF loc = NoLoc THEN <<>> ELSE <<[at |-> loc, text |-> text, inv |-> inv]>>

IsStmt(p, n) == n # NoNode /\ p.node[n].kind \in StmtKinds
IsDecl(p, n) == n # NoNode /\ p.node[n].kind \in DeclKinds
kind(p, n)   == IF n = NoNode THEN "None" ELSE p.node[n].kind

\* Lexer::GetBeginningOfToken of the start of a node: a location in a macro
\* expansion stays there.
Begin(p, n) == IF p.node[n].macro THEN NoLoc ELSE p.node[n].begin

\* Mutant: a branch of an if is taken for a sequence of statements.
insertSeqStmt_NotInIf(p, n) ==
    kind(p, p.node[n].parent) \notin {"Compound", "Function", "Label", "Default", "Case", "Stmt"}

\* Braces go around a statement, unless its parent already is a place where a
\* sequence of statements may stand.
insertSeqStmt(p, n) ==
    kind(p, p.node[n].parent) \notin {"Compound", "Function", "Label", "Default", "Case"}

Braces(p, n, inv) ==
    InsertText(Begin(p, n), "{", inv) \o InsertText(p.node[n].end, ";}", inv)

\* Mutant: the assertion is inserted before the braces are.
InjectInvariantAt_AssertFirst(p, loc, n, inv) ==
    CASE IsStmt(p, n) /\ insertSeqStmt(p, n) ->
             InsertText(loc, "assert;", inv) \o Braces(p, n, inv)
      [] (IsStmt(p, n) /\ ~insertSeqStmt(p, n)) \/ IsDecl(p, n) ->
             InsertText(loc, "assert;", inv)
      [] OTHER -> <<>>

InjectInvariantAt(p, loc, n, inv) ==
    CASE IsStmt(p, n) /\ insertSeqStmt(p, n) ->
             Braces(p, n, inv) \o InsertText(loc, "assert;", inv)
      [] (IsStmt(p, n) /\ ~insertSeqStmt(p, n)) \/ IsDecl(p, n) ->
             InsertText(loc, "assert;", inv)
      [] OTHER -> <<>>

InjectLocationInvariant(p, loc, inv, skipSwitchcases) ==
    LET n == largestASTNodeStartingAt(p, loc)
    IN  CASE n = NoNode \/ (skipSwitchcases /\ kind(p, n) \in {"Case", "Default"}) -> <<>>
          [] kind(p, n) = "Compound" -> InjectInvariantAt(p, loc, n, inv)
          [] OTHER -> InjectInvariantAt(p, Begin(p, n), n, inv)

\* Mutant: the opening brace of the body instead of the closing one.
InjectLoopInvariantAt_LBrac(p, body, inv) ==
    IF kind(p, body) = "Compound"
    THEN InsertText(p.node[body].begin, "assert;", inv)
    ELSE InjectInvariantAt(p, p.node[body].end, body, inv)

\* At the end of a loop's body: before the brace that closes it, else after
\* its last token.
InjectLoopInvariantAt(p, body, inv) ==
    IF kind(p, body) = "Compound"
    THEN InsertText(p.node[body].brace, "assert;", inv)
    ELSE InjectInvariantAt(p, p.node[body].end, body, inv)

\* Mutant: no separator after a for loop's increment.
InjectLoopInvariant_NoComma(p, loc, inv) ==
    LET n == largestASTNodeStartingAt(p, loc)
    IN  CASE kind(p, n) = "For" -> InsertText(p.node[n].paren, "assert", inv)
          [] kind(p, n) \in {"While", "Do"} ->
                 InjectLoopInvariantAt(p, p.node[n].body, inv)
                     \o InjectInvariantAt(p, Begin(p, n), n, inv)
          [] OTHER -> <<>>

InjectLoopInvariant(p, loc, inv) ==
    LET n     == largestASTNodeStartingAt(p, loc)
        paren == p.node[n].paren
    IN  CASE kind(p, n) = "For" ->
                 (IF p.node[n].inc THEN InsertText(paren, ",", inv) ELSE <<>>)
                     \o InsertText(paren, "assert", inv)
          [] kind(p, n) \in {"While", "Do"} ->
                 InjectLoopInvariantAt(p, p.node[n].body, inv)
                     \o InjectInvariantAt(p, Begin(p, n), n, inv)
          [] OTHER -> <<>>

\* The body of HandleTranslationUnit's loops, for an invariant of this file.
Inject(p, type, loc, inv, skipSwitchcases) ==
    IF type = "location_invariant"
    THEN InjectLocationInvariant(p, loc, inv, skipSwitchcases)
    ELSE InjectLoopInvariant(p, loc, inv)
=============================================================================
