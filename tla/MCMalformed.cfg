\* The eraser on short texts of tokens, with up to two errors.
SPECIFICATION MCSpec
CONSTANTS
    Chars <- MCChars
    AssertFn <- MCName
    MaxArgs = 2
    MaxTokens = 3
    MaxErrors = 2
INVARIANTS
    TypeOK
    ErrorLocated
    RestCopied
    CallsErased
    ParensBalanced
PROPERTY Ends
