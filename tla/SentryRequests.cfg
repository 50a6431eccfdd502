\* Two requests at a time, echo or gRPC, share one monitor.
CONSTANTS
    Requests = {r1, r2}
    Global = Global
SPECIFICATION Spec
SYMMETRY Symmetry
INVARIANTS
    SpansNest
    NoSpanLeft
    OwnHubUnlessOvertaken
    EventsTellFailures
