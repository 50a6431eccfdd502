\* ... but its caller waits for ever.
CONSTANTS
    Clients = {c1}
    Keys = {k1}
    Nobody = Nobody
SPECIFICATION FairSpec
PROPERTY MSetReturns
