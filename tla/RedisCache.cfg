\* Two clients write, expire and remove the same two keys.
CONSTANTS
    Clients = {c1, c2}
    Keys = {k1, k2}
    Nobody = Nobody
SPECIFICATION FairSpec
INVARIANTS
    TypeOK
    NoForgottenKey
    CollectsExactly
PROPERTY WorkersEnd
