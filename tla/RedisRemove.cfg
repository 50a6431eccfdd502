\* Up to three goroutines at once; one key lies outside the first page.
\* The model ends when the call has returned.
CONSTANTS
    Keys = {k1, k2}
    FirstPage = {k1}
    Workers = {w1, w2, w3}
SPECIFICATION FairSpec
INVARIANTS
    TypeOK
    FailureIsReported
    GoroutinesJoined
    NothingLeft
PROPERTY Returns
CHECK_DEADLOCK FALSE
