\* Two consumers and a writer in one group; fetches fail, members crash.
CONSTANTS
    Consumers = {c1, c2}
    Writers = {w}
    Retry = TRUE
    MaxLog = 2
    None = None
SPECIFICATION FairSpec
INVARIANTS
    SessionHasNoGap
    NothingIsLost
PROPERTY HandledEventually
