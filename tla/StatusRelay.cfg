\* The statuses the switches name, and 201, 409 and 418 for the others.
CONSTANTS
    Statuses = {200, 201, 400, 401, 403, 404, 409, 418, 429, 500, 502, 503, 504}
    MaxHops = 4
SPECIFICATION RelaySpec
CHECK_DEADLOCK FALSE
INVARIANTS
    ErrorIsPassedOn
    StatusSettles
    UnavailableIsKept
