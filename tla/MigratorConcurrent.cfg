\* Two processes migrate the same database up and down at once; commits may fail.
CONSTANTS
    Processes = {p1, p2}
    Versions = {1, 2}
    All = All
    CommitMayFail = TRUE
SPECIFICATION FairSpec
INVARIANTS
    RecordedHasTable
    AtMostOneRow
PROPERTIES
    ImplementsHistory
    CallReturns
