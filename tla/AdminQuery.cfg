\* One call of each get* function of lookupd_utils.go, with two addresses
\* whose requests may fail, built with a per-iteration range variable.
CONSTANTS
    Funcs <- MCFuncs
    N = 2
    Items = {t1, t2}
    Versions = {1, 2}
    Unparsable = Unparsable
    Topic = t1
    AllTopics = AllTopics
    NoOwner = NoOwner
    SharedLoopVar = FALSE
SPECIFICATION Spec
INVARIANT TypeOK
INVARIANT ResultIsMergeOfAnswers
PROPERTY Returns
CHECK_DEADLOCK FALSE
