\* Three threads and four requests or reports of any kind.
SPECIFICATION Spec
CONSTANTS
    Threads = {p1, p2, p3}
    MaxRequests = 4
INVARIANT
    ReadersSeeWholeUpdates
PROPERTY
    RequestsEnd
CHECK_DEADLOCK FALSE
