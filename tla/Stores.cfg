\* Two goroutines, a file, a document with an ObjectID and one without.
CONSTANTS
    Goroutines = {g1, g2}
    Files = {f1}
    Documents = {d1, o1}
    OwnIds = {o1}
SPECIFICATION Spec
INVARIANTS
    BucketIsThere
    NothingLeftOpen
    AnswerTellsEffect
PROPERTIES
    ImplementsFileStore
    CallEnds
