SPECIFICATION AskSpec
CONSTANTS
    Decls <- MCDecls
    MaxDecls = 3
    Words <- MCWords
    MaxWords = 3
    Fold <- MCFold
    Alias <- MCAlias
INVARIANTS
    RightTarget
    ListedRuns
CHECK_DEADLOCK FALSE
