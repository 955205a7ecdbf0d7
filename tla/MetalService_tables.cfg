\* Requests about two tasksets and a task, and reports about the tasks.
SPECIFICATION Spec
CONSTANTS
    t1 = t1
    t2 = t2
    t3 = t3
    s1 = s1
    s2 = s2
    h2 = h2
    h3 = h3
    http = http
    Tasks = {t1, t2, t3}
    Tasksets = {s1, s2}
    Ports = {80}
    Hosts <- MCHosts
    Services = {http}
    Binaries = {"b"}
    Modes = {"onfailure", "always"}
    Environments <- MCEnvironments
    Arguments = {"-v"}
    States = {"unknown", "success"}
    Requests <- MCRequests
    NoTask = NoTask
    NoTaskset = NoTaskset
INVARIANTS
    StatusIsCurrent
    BoundServicesResolve
