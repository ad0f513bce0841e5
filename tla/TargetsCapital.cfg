SPECIFICATION AskSpec
CONSTANTS
    Decls <- MCDecls
    MaxDecls = 1
    Words <- MCWords
    MaxWords = 2
    Fold <- MCFold
    Alias <- MCAlias
INVARIANTS
    NamespacesMatch
CHECK_DEADLOCK FALSE
