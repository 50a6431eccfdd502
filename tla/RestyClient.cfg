\* Three goroutines, each with a user of its own.
CONSTANTS
    Goroutines = {g1, g2, g3}
SPECIFICATION Spec
SYMMETRY Symmetry
INVARIANTS
    OwnCredentials
    SpanEndsWithRequest
    FailuresAreCaptured
