\* Two goroutines on one connection.
CONSTANTS
    Clients = {c1, c2}
    Root = Root
    Server = Server
    MaxAsked = 3
SPECIFICATION Spec
SYMMETRY Symmetry
INVARIANTS
    AsBuilt
    ErrorsStayWithClient
    QueriesHaveSegments
