SPECIFICATION Spec
CONSTANTS
    c1 = c1
    p1 = p1
    p2 = p2
    p3 = p3
    t1 = t1
    v1 = v1
    Tasks = {t1}
    Versions = {v1}
    Remote = {}
    Modes = {"onfailure", "always"}
    Exits = {"failure"}
    Callers = {c1}
    Pids = {p1, p2, p3}
    MaxUpdates = 2
    Failure = Failure
    NoTask = NoTask
    NoPid = NoPid
CHECK_DEADLOCK FALSE
INVARIANT OneLiveProcess
