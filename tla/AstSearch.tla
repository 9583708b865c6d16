----------------------------- MODULE AstSearch -----------------------------
(***************************************************************************)
(* The AST search of src/src/util.cpp: from the source position named by a *)
(* witness to the AST node the invariant is attached to.                   *)
(*                                                                         *)
(* A translation unit p, as Clang hands it to the tool, is a record        *)
(*   p.tok   its tokens in source order, [text, at, to): offsets;          *)
(*   p.node  its AST nodes in the order RecursiveASTVisitor visits them    *)
(*           (pre-order), so an ancestor has a smaller index;              *)
(*   p.eof   the offset of the end of the file;                            *)
(*   p.witnessed  the offsets that the witnesses of the model name in it.  *)
(* Offsets start at 1: 0 is the invalid location.  Files included by the   *)
(* translation unit are left out: every node is a node of the main file.   *)
(***************************************************************************)
EXTENDS Naturals, Sequences, FiniteSetsExt

NoLoc  == 0      \* an invalid or unrewritable (macro) SourceLocation
NoNode == 0      \* DynTypedNode{}: no node found; also the parent of a root

\* The DynTypedNode kinds the tool tells apart; "Stmt" and "Decl" are the rest.
StmtKinds == {"Expr", "Compound", "For", "While", "Do", "Case", "Default",
              "Label", "Stmt"}
DeclKinds == {"Function", "Decl"}

Tokens == [text : STRING, at : Nat, to : Nat]

(***************************************************************************)
(* What the tool asks of a node:                                           *)
(*   parent, last   its parent, and its last descendant in pre-order;      *)
(*   begin          the file offset its range starts at;                   *)
(*   macro          whether that start lies in a macro expansion;          *)
(*   seen           the end the search sees: tokenEnd of the range's end;  *)
(*   end            the end the injector sees: getLocForEndOfToken;        *)
(*   body           a loop's body; paren, inc: a for loop's RParen, and    *)
(*                  whether it has an increment; brace: a block's RBrac.   *)
(***************************************************************************)
AstNodes == [kind : StmtKinds \cup DeclKinds, parent : Nat, last : Nat,
             begin : Nat, macro : BOOLEAN, seen : Nat, end : Nat,
             body : Nat, paren : Nat, inc : BOOLEAN, brace : Nat]

TranslationUnits == [tok : Seq(Tokens), node : Seq(AstNodes), eof : Nat,
                     witnessed : SUBSET Nat]

\* Node indices are those of a tree in pre-order, and ranges have a start.
WellFormed(p) ==
    \A n \in DOMAIN p.node :
        /\ p.node[n].parent < n
        /\ n <= p.node[n].last /\ p.node[n].last <= Len(p.node)
        /\ p.node[n].body <= Len(p.node)

-----------------------------------------------------------------------------
\* Start of a token, or white space: the location itself.  Inside a token:
\* the start of the next one (at the end of the file, the eof token).
tokenBegin(p, loc) ==
    IF \E i \in DOMAIN p.tok : p.tok[i].at < loc /\ loc < p.tok[i].to
    THEN Min({p.eof} \cup {p.tok[i].at : i \in {j \in DOMAIN p.tok : p.tok[j].at > loc}})
    ELSE loc

\* The nodes whose range holds loc.  The end is inclusive: a node that ends
\* exactly where the position starts is a container too.
Containers(p, loc) ==
    {n \in DOMAIN p.node : p.node[n].begin <= loc /\ loc <= p.node[n].seen}

length(p, n) == p.node[n].seen - p.node[n].begin

\* The first visited of the shortest containers (the comparison is strict).
SmallestContainerAtPos(p, loc) ==
    LET C    == Containers(p, loc)
        best == {n \in C : \A m \in C : length(p, n) <= length(p, m)}
    IN  IF best = {} THEN NoNode ELSE Min(best)

AncestorsOrSelf(p, n) == {a \in DOMAIN p.node : a <= n /\ n <= p.node[a].last}

\* The container itself when it starts at loc, else its nearest ancestor that
\* does, else the container.
StartingAt(p, n, loc) ==
    LET A == {a \in AncestorsOrSelf(p, n) : p.node[a].begin = loc}
    IN  IF A = {} THEN n ELSE Max(A)

\* Mutant: only expressions are climbed.
Climb_OnlyExprs(p, n, loc) ==
    LET A == AncestorsOrSelf(p, n)
    IN  Min({a \in A : \A m \in A : a <= m /\ m < n => p.node[m].kind = "Expr"})

\* Up from n as long as the parent starts at loc or is an expression.
Climb(p, n, loc) ==
    LET A == AncestorsOrSelf(p, n)
        climbs(m) == p.node[m].begin = loc \/ p.node[m].kind = "Expr"
    IN  Min({a \in A : \A m \in A : a <= m /\ m < n => climbs(m)})

largestASTNodeStartingAt(p, loc) ==
    LET beginLoc == tokenBegin(p, loc)
        found    == SmallestContainerAtPos(p, beginLoc)
    IN  IF found = NoNode THEN NoNode
        ELSE Climb(p, StartingAt(p, found, beginLoc), beginLoc)
-----------------------------------------------------------------------------
(* Where the search finds what the witness means.                          *)

\* The nodes' ranges nest as the nodes do, and what is apart in the tree is
\* apart in the text: a range ends before the position the next one starts at
\* (white space separates the tokens, one declarator to a declaration).
SourceOrdered(p) ==
    \A m, n \in DOMAIN p.node :
        /\ p.node[n].begin <= p.node[n].seen
        /\ m \in AncestorsOrSelf(p, n) =>
              /\ p.node[n].last <= p.node[m].last
              /\ p.node[m].begin <= p.node[n].begin
              /\ p.node[n].seen <= p.node[m].seen
        /\ p.node[m].last < n => p.node[m].seen < p.node[n].begin

NodesAt(p, loc) == {n \in DOMAIN p.node : p.node[n].begin = loc}

\* A statement starts at loc: not inside a token, and the outermost node that
\* starts there is no operand of an expression.
StatementStart(p, loc) ==
    /\ tokenBegin(p, loc) = loc
    /\ NodesAt(p, loc) # {}
    /\ LET outer == AncestorsOrSelf(p, Min(NodesAt(p, loc))) \ {Min(NodesAt(p, loc))}
       IN  outer # {} => p.node[Max(outer)].kind # "Expr"
=============================================================================
