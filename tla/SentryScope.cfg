\* One request captures with a scope.
CONSTANTS
    Requests = {r1}
    Global = Global
SPECIFICATION Spec
INVARIANT ScopeIsCaptured
