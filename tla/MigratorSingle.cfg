\* One process over the database: what a deployment with one migrator relies on.
CONSTANTS
    Processes = {p1}
    Versions = {1, 2, 3}
    All = All
    CommitMayFail = FALSE
SPECIFICATION Spec
INVARIANTS
    TypeOK
    SchemaIsRecorded
    UpIsComplete
    DownIsComplete
PROPERTY ImplementsOrderedHistory
