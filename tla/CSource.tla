------------------------------ MODULE CSource ------------------------------
(***************************************************************************)
(* C functions for the model checker: from statement trees to the tokens   *)
(* and AST nodes Clang makes of their text, and back from a rewritten text *)
(* to its statements, by recursive descent.                                *)
(*                                                                         *)
(* An expression is a sum x + x or, as a condition, one x; `case' stands   *)
(* for `case x :', `label' for `l :', `f' for a function's declarator,     *)
(* `null' for the semicolon of a null statement, and M (x) is a macro call *)
(* that expands to an expression.                                          *)
(***************************************************************************)
EXTENDS Injector, SequencesExt

\* Statement trees: the statement's kind and its substatements.
Tree(k, sub) == [k |-> k, sub |-> sub]
X          == Tree("expr", <<>>)
Null       == Tree("null", <<>>)
Return     == Tree("return", <<>>)
Local      == Tree("decl", <<>>)
Macro      == Tree("macro", <<>>)
Block(s)   == Tree("block", s)
If(s)      == Tree("if", <<s>>)
IfElse(s, e) == Tree("if", <<s, e>>)
While(s)   == Tree("while", <<s>>)
Switch(s)  == Tree("switch", <<s>>)
Do(s)      == Tree("do", <<s>>)
For(s)     == Tree("forinc", <<s>>)
ForEver(s) == Tree("for", <<s>>)      \* no increment
Case(s)    == Tree("case", <<s>>)
Default(s) == Tree("default", <<s>>)
Label(s)   == Tree("label", <<s>>)

-----------------------------------------------------------------------------
(* Laying a tree out.  gap is the white space between two tokens; a key    *)
(* word, a name or a macro is two characters wide.                         *)

Wide == {"x", "f", "M", "if", "else", "while", "do", "for", "switch", "case",
         "default", "label", "decl", "return"}

Put(st, text) ==
    LET to == st.at + IF text \in Wide THEN 2 ELSE 1
    IN  [st EXCEPT !.tok = Append(@, [text |-> text, at |-> st.at, to |-> to]),
                   !.at = to + st.gap]

PutAll(st, texts) == FoldLeft(Put, st, texts)

Start(st, k, parent) ==
    [st EXCEPT !.node = Append(@,
        [kind |-> k, parent |-> parent, last |-> 0, begin |-> st.at, macro |-> FALSE,
         seen |-> 0, end |-> 0, body |-> 0, paren |-> 0, inc |-> FALSE, brace |-> 0])]

\* Node n ends with the last token put.
Finish(st, n) ==
    [st EXCEPT !.node[n].last = Len(st.node), !.node[n].end = Last(st.tok).to,
               !.node[n].seen = Last(st.tok).to]

Leaf(st, k, texts, parent) ==
    Finish(PutAll(Start(st, k, parent), texts), Len(st.node) + 1)

Sum(st, parent) ==
    LET n == Len(st.node) + 1
    IN  Finish(Leaf(Put(Leaf(Start(st, "Expr", parent), "Expr", <<"x">>, n), "+"),
                    "Expr", <<"x">>, n), n)

Condition(st, parent) == Put(Leaf(Put(st, "("), "Expr", <<"x">>, parent), ")")

KindOf(k) == CASE k = "block" -> "Compound" [] k \in {"for", "forinc"} -> "For"
               [] k = "while" -> "While" [] k = "do" -> "Do" [] k = "case" -> "Case"
               [] k = "default" -> "Default" [] k = "label" -> "Label" [] OTHER -> "Stmt"

RECURSIVE Lay(_, _, _), LayAll(_, _, _)
LayAll(st, ts, parent) ==
    IF ts = <<>> THEN st ELSE LayAll(Lay(st, Head(ts), parent), Tail(ts), parent)

Lay(st0, t, parent) ==
    LET st == [st0 EXCEPT !.witnessed = @ \cup {st0.at}]   \* a statement starts here
        n  == Len(st.node) + 1
        s1 == Start(st, KindOf(t.k), parent)
        open(texts) == PutAll(s1, texts)
        body(s) == [LayAll(s, t.sub, n) EXCEPT !.node[n].body = Len(s.node) + 1]
    IN CASE t.k = "expr" -> Put(Sum(st, parent), ";")
         [] t.k = "macro" ->
              LET s == Leaf(st, "Expr", <<"M", "(x)">>, parent)
              IN  Put([s EXCEPT !.node[n].macro = TRUE, !.node[n].seen = st.at + 2], ";")
         [] t.k = "null" -> Leaf(st, "Stmt", <<"null">>, parent)
         [] t.k = "decl" -> Finish(Put(Leaf(s1, "Decl", <<"decl", "x">>, n), ";"), n)
         [] t.k = "return" -> Put(Finish(Leaf(open(<<"return">>), "Expr", <<"x">>, n), n), ";")
         [] t.k = "block" ->
              LET s == LayAll(open(<<"{">>), t.sub, n)
              IN  Finish(Put([s EXCEPT !.node[n].brace = s.at], "}"), n)
         [] t.k = "if" /\ Len(t.sub) = 2 ->
              Finish(Lay(Put(Lay(Condition(open(<<"if">>), n), t.sub[1], n), "else"),
                         t.sub[2], n), n)
         [] t.k \in {"if", "while", "switch"} -> Finish(body(Condition(open(<<t.k>>), n)), n)
         [] t.k \in {"label", "case", "default"} -> Finish(body(open(<<t.k>>)), n)
         [] t.k = "do" ->
              Put(Finish(Condition(Put(body(open(<<"do">>)), "while"), n), n), ";")
         [] t.k \in {"for", "forinc"} ->
              LET s == PutAll(open(<<"for">>), <<"(", ";", ";">>)
                  h == IF t.k = "forinc" THEN Sum(s, n) ELSE s
              IN  Finish(body(Put([h EXCEPT !.node[n].inc = (t.k = "forinc"),
                                            !.node[n].paren = h.at], ")")), n)

RECURSIVE Functions(_, _)
Functions(st, fs) ==
    IF fs = <<>> THEN st
    ELSE LET n == Len(st.node) + 1
             s == Lay(PutAll(Start(st, "Function", 0), <<"f">>), Head(fs), n)
             \* a function's own block is no statement a witness names
             w == [s EXCEPT !.witnessed = @ \ {s.node[n + 1].begin}]
         IN  Functions(Finish(w, n), Tail(fs))

\* The translation unit of these function bodies, laid out with that gap.
Unit(gap, bodies) ==
    LET st == Functions([tok |-> <<>>, node |-> <<>>, at |-> 1, gap |-> gap,
                         witnessed |-> {}], bodies)
    IN  [tok |-> st.tok, node |-> st.node, eof |-> st.at, witnessed |-> st.witnessed]

-----------------------------------------------------------------------------
(* The rewritten text: tokens with the index id of the original token (0:  *)
(* inserted) and the invariant inv that inserted them.                     *)

Inserted(e) ==
    LET texts == CASE e.text = ";}" -> <<";", "}">>
                   [] e.text = "assert;" -> <<"assert", ";">> [] OTHER -> <<e.text>>
    IN  [i \in DOMAIN texts |-> [text |-> texts[i], id |-> 0, inv |-> e.inv]]

\* At one offset the insertions stand in the order they were made, then the
\* token that starts there.  (None of the offsets used lies inside a token.)
Render(p, log) ==
    LET all == FlattenSeq(log)
        here(o) == FlattenSeq([i \in DOMAIN all |->
                      IF all[i].at = o THEN Inserted(all[i]) ELSE <<>>])
        token(o) == {i \in DOMAIN p.tok : p.tok[i].at = o}
    IN  FlattenSeq([o \in 1..p.eof |-> here(o) \o
            IF token(o) = {} THEN <<>>
            ELSE LET i == CHOOSE i \in token(o) : TRUE
                 IN  <<[text |-> p.tok[i].text, id |-> i, inv |-> 0]>>])

(***************************************************************************)
(* Parsing.  A result is [ok, at, out]: the next token to read and the     *)
(* statements read, flattened: inserted braces and the null statements     *)
(* they make vanish, a block of the original leaves a mark, a label is an  *)
(* item before its statement: two texts with the same flat form run the    *)
(* same statements under the same conditions.                              *)
(***************************************************************************)
Fail == [ok |-> FALSE, at |-> 0, out |-> <<>>]
Done(at, out) == [ok |-> TRUE, at |-> at, out |-> out]
Item(tok, sub) == <<[k |-> tok.text, id |-> tok.id, inv |-> tok.inv, sub |-> sub]>>
Looks(ts, i, texts) ==
    /\ i + Len(texts) <= Len(ts) + 1
    /\ \A j \in DOMAIN texts : ts[i + j - 1].text = texts[j]

RECURSIVE ParseExprs(_, _), ParseStmt(_, _), ParseStmts(_, _)
ParseExprs(ts, i) ==
    LET after == CASE Looks(ts, i, <<"x", "+", "x">>) -> i + 3
                   [] Looks(ts, i, <<"M", "(x)">>) -> i + 2
                   [] Looks(ts, i, <<"assert">>) -> i + 1 [] OTHER -> 0
    IN  IF after = 0 THEN Fail
        ELSE IF ~Looks(ts, after, <<",">>) THEN Done(after, Item(ts[i], <<>>))
        ELSE LET r == ParseExprs(ts, after + 1)
             IN  IF r.ok THEN Done(r.at, Item(ts[i], <<>>) \o r.out) ELSE Fail

ParseStmts(ts, i) ==
    IF i > Len(ts) \/ Looks(ts, i, <<"}">>) THEN Done(i, <<>>)
    ELSE LET s == ParseStmt(ts, i)
             r == ParseStmts(ts, s.at)
         IN  IF s.ok /\ r.ok THEN Done(r.at, s.out \o r.out) ELSE Fail

ParseStmt(ts, i) ==
    LET is(texts) == Looks(ts, i, texts)
        \* a statement from j on, then these tokens, makes up the item
        whole(j, tail) ==
            LET s == ParseStmt(ts, j)
            IN  IF s.ok /\ Looks(ts, s.at, tail)
                THEN Done(s.at + Len(tail), Item(ts[i], <<s.out>>)) ELSE Fail
    IN CASE is(<<"{">>) ->
              LET b == ParseStmts(ts, i + 1)
              IN  IF b.ok /\ Looks(ts, b.at, <<"}">>)
                  THEN Done(b.at + 1, (IF ts[i].id = 0 THEN <<>> ELSE Item(ts[i], <<>>)) \o b.out)
                  ELSE Fail
         [] is(<<"if", "(", "x", ")">>) ->
              LET s == ParseStmt(ts, i + 4)
                  e == IF s.ok /\ Looks(ts, s.at, <<"else">>)
                       THEN ParseStmt(ts, s.at + 1) ELSE s
              IN  IF ~s.ok \/ ~e.ok THEN Fail
                  ELSE Done(e.at, Item(ts[i], IF e = s THEN <<s.out>> ELSE <<s.out, e.out>>))
         [] is(<<"while", "(", "x", ")">>) \/ is(<<"switch", "(", "x", ")">>) ->
              whole(i + 4, <<>>)
         [] is(<<"do">>) -> whole(i + 1, <<"while", "(", "x", ")", ";">>)
         [] is(<<"for", "(", ";", ";">>) ->
              LET h == IF Looks(ts, i + 4, <<")">>) THEN Done(i + 4, <<>>)
                       ELSE ParseExprs(ts, i + 4)
                  s == ParseStmt(ts, h.at + 1)
              IN  IF h.ok /\ Looks(ts, h.at, <<")">>) /\ s.ok
                  THEN Done(s.at, Item(ts[i], <<s.out, h.out>>)) ELSE Fail
         [] is(<<"label">>) \/ is(<<"case">>) \/ is(<<"default">>) ->
              LET s == ParseStmt(ts, i + 1)
              IN  IF s.ok THEN Done(s.at, Item(ts[i], <<>>) \o s.out) ELSE Fail
         [] is(<<"decl", "x", ";">>) \/ is(<<"return", "x", ";">>) -> Done(i + 3, Item(ts[i], <<>>))
         [] is(<<";">>) -> Done(i + 1, <<>>)
         [] is(<<"null">>) -> Done(i + 1, Item(ts[i], <<>>))
         [] is(<<"x">>) \/ is(<<"M">>) \/ is(<<"assert">>) ->
              LET e == ParseExprs(ts, i)
              IN  IF e.ok /\ Looks(ts, e.at, <<";">>) THEN Done(e.at + 1, e.out) ELSE Fail
         [] OTHER -> Fail

\* A file is a sequence of functions, each f and a block.
RECURSIVE ParseUnit(_, _)
ParseUnit(ts, i) ==
    IF i > Len(ts) THEN Done(i, <<>>)
    ELSE IF ~Looks(ts, i, <<"f", "{">>) THEN Fail
    ELSE LET b == ParseStmt(ts, i + 1)
             r == ParseUnit(ts, b.at)
         IN  IF b.ok /\ r.ok THEN Done(r.at, Item(ts[i], <<b.out>>) \o r.out) ELSE Fail

Parse(p, log) == ParseUnit(Render(p, log), 1)

-----------------------------------------------------------------------------
(* Looking at a flat form.                                                 *)

\* The flat form without the assertions.
RECURSIVE Skeleton(_)
Skeleton(out) ==
    LET kept == SelectSeq(out, LAMBDA s : s.k # "assert")
    IN  [i \in DOMAIN kept |-> [kept[i] EXCEPT !.sub = [j \in DOMAIN @ |-> Skeleton(@[j])]]]

\* All the sequences of statements in it.
RECURSIVE Sequences_(_)
Sequences_(out) == {out} \cup UNION {UNION {Sequences_(out[i].sub[j]) : j \in DOMAIN out[i].sub}
                                     : i \in DOMAIN out}

Asserts(out, i) == out[i].k = "assert"

\* Invariant inv is asserted right before the statement whose first token is id.
CheckedBefore(out, inv, id) ==
    \E s \in Sequences_(out) : \E i, j \in DOMAIN s :
        /\ i < j /\ s[i].inv = inv /\ s[j].id = id
        /\ \A m \in i..(j - 1) : Asserts(s, m)

\* Invariant inv is asserted where an iteration of the loop of token id ends:
\* in a for loop's header, or at the end of the body.
CheckedAtEnd(out, inv, id) ==
    \E s \in Sequences_(out) : \E l \in DOMAIN s :
        /\ s[l].id = id /\ s[l].k \in {"for", "while", "do"}
        /\ LET at == s[l].sub[IF s[l].k = "for" THEN 2 ELSE 1]
           IN  \E i \in DOMAIN at : at[i].inv = inv /\ \A m \in i..Len(at) : Asserts(at, m)

\* The token a witness's position is the start of.
TokenAt(p, loc) == CHOOSE i \in DOMAIN p.tok : p.tok[i].at = loc
=============================================================================
