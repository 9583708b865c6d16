---------------------------- MODULE MCMalformed ----------------------------
(***************************************************************************)
(* The eraser on texts made of tokens, which say what it should erase.     *)
(***************************************************************************)
EXTENDS MalformedAsserts, SequencesExt

VARIABLE tokens

Name    == <<"a">>
Longer  == <<"a", "x">>                          \* an identifier that begins with the name
Literal == <<"'", ")", "'">>
Quoted  == <<"\"", "\\", "\"", "(", "\"">>       \* "\"("
Comment == <<"/", "'", "/">>                     \* with an apostrophe
Tokens  == {Name, Longer, <<"(">>, <<")">>, <<"\n">>, Literal, Quoted, Comment}
MCChars == UNION {Range(t) : t \in Tokens}
MCName  == Name

\* A call with its arguments, between other tokens; and any few tokens.
CONSTANTS MaxArgs, MaxTokens, MaxErrors
ASSUME MaxAssumption == MaxArgs \in Nat /\ MaxTokens \in Nat /\ MaxErrors \in Nat
Texts == {<<h, <<"(">>>> \o s \o <<<<")">>>> \o t :
             h \in {Name, Longer}, s \in SeqOf(Tokens, MaxArgs), t \in SeqOf(Tokens, 1)}
         \cup SeqOf(Tokens, MaxTokens)

Begin(i) == Len(FlattenSeq(SubSeq(tokens, 1, i - 1)))
TokenAt(o) == CHOOSE i \in 1..Len(tokens) : Begin(i) <= o /\ o < Begin(i + 1)

\* Errors are located at tokens, or at the end.
MCInit ==
    /\ tokens \in Texts
    /\ content = FlattenSeq(tokens)
    /\ errors \in SeqOf({Begin(i) : i \in 1..Len(tokens) + 1}, MaxErrors)
    /\ Init
MCSpec == MCInit /\ [][Next /\ UNCHANGED tokens]_<<vars, tokens>> /\ Fairness

-----------------------------------------------------------------------------
Depth(i, j) ==
    Cardinality({k \in i..j : tokens[k] = <<"(">>}) - Cardinality({k \in i..j : tokens[k] = <<")">>})

\* The last token of the call that token i begins; 0 if it begins none.
Close(i) ==
    LET ends == {j \in i + 2..Len(tokens) : Depth(i, j) = 0}
    IN  IF /\ tokens[i] \in {Name, Longer} /\ i < Len(tokens) /\ tokens[i + 1] = <<"(">>
           /\ ends # {}
        THEN CHOOSE j \in ends : \A k \in ends : j <= k
        ELSE 0

\* The tokens in error that have the assertion's name or begin with it.
Heads == {i \in 1..Len(tokens) :
            tokens[i] \in {Name, Longer} /\ \E k \in 1..Len(errors) : errors[k] = Begin(i)}
Kept  == {i \in 1..Len(tokens) : \A h \in Heads : ~(h <= i /\ i <= Close(h))}

\* strip_malformed_asserts.py:78-107: if what is in error are calls, and no
\* comment is in them, exactly the outermost of the calls are replaced, whatever
\* stands in their literals, and in whatever order the errors come.
CallsErased ==
    pc = "done" /\ (\A h \in Heads : Close(h) # 0 /\ ~\E i \in h..Close(h) : tokens[i] = Comment) =>
        /\ {out[i] : i \in 1..Len(out)} \ {Skipped} = UNION {Begin(i)..Begin(i + 1) - 1 : i \in Kept}
        /\ Cardinality({i \in 1..Len(out) : out[i] = Skipped})
             = Cardinality({h \in Heads : h = 1 \/ \A g \in Heads : g < h => Close(g) < h})

\* Even where what is in error is no call (the name alone, and everything to
\* the next closing parenthesis, or to the end, goes with it), a text without
\* comments keeps its parentheses in balance.
Balanced(ts) ==
    LET d(j) == Cardinality({k \in ts : k <= j /\ tokens[k] = <<"(">>})
                - Cardinality({k \in ts : k <= j /\ tokens[k] = <<")">>})
    IN  (\A j \in ts : d(j) >= 0) /\ d(Len(tokens)) = 0
ParensBalanced ==
    pc = "done" /\ Comment \notin Range(tokens) /\ Balanced(1..Len(tokens)) =>
        Balanced({TokenAt(out[i]) : i \in {j \in 1..Len(out) : out[j] # Skipped}})
=============================================================================
