SPECIFICATION AskSpec
CONSTANTS
    Decls <- MCDecls
    MaxDecls = 3
    Words <- MCWords
    MaxWords = 3
    Fold <- MCFold
    Alias <- MCAlias
INVARIANTS
    IncompleteAnswered
CHECK_DEADLOCK FALSE
