\* Three endpoints that come and go three times while two requests are made.
SPECIFICATION FairSpec
CONSTANTS
    Endpoints = {e1, e2, e3}
    Requests = {r1, r2}
    MaxMoves = 3
    NoClient = NoClient
INVARIANTS
    Aligned
    ResolvedHasClient
PROPERTIES
    RequestsServed
CHECK_DEADLOCK FALSE
