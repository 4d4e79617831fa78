\* getNSQDTopicProducers built with a shared range variable (Go before 1.22,
\* the toolchains of this code's era): the goroutine appends addr as it is
\* when the goroutine runs, not the address it queried.
CONSTANTS
    Funcs <- MCTopicProducers
    N = 2
    Items = {t1, t2}
    Versions = {1, 2}
    Unparsable = Unparsable
    Topic = t1
    AllTopics = AllTopics
    NoOwner = NoOwner
    SharedLoopVar = TRUE
SPECIFICATION Spec
INVARIANT ResultIsMergeOfAnswers
CHECK_DEADLOCK FALSE
