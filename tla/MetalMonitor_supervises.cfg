SPECIFICATION FairSpec
CONSTANTS
    c1 = c1
    p1 = p1
    p2 = p2
    p3 = p3
    t1 = t1
    t2 = t2
    v1 = v1
    Tasks = {t1, t2}
    Versions = {v1}
    Remote = {}
    Modes = {"oneshot", "onfailure"}
    Exits = {"success", "failure", "killed"}
    Callers = {c1}
    Pids = {p1, p2, p3}
    MaxUpdates = 1
    Failure = Failure
    NoTask = NoTask
    NoPid = NoPid
CHECK_DEADLOCK FALSE
PROPERTY ImplementsSupervisor
PROPERTY ServiceLearnsEnd
