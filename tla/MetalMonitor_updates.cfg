SPECIFICATION FairSpec
CONSTANTS
    c1 = c1
    c2 = c2
    p1 = p1
    p2 = p2
    t1 = t1
    v1 = v1
    Tasks = {t1}
    Versions = {v1}
    Remote = {v1}
    Modes = {"oneshot", "always"}
    Exits = {"failure"}
    Callers = {c1, c2}
    Pids = {p1, p2}
    MaxUpdates = 2
    Failure = Failure
    NoTask = NoTask
    NoPid = NoPid
CHECK_DEADLOCK FALSE
PROPERTY RestartHappens
