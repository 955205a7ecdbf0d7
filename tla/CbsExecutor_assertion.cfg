\* A build that finds a failed dependency.
SPECIFICATION Spec
CONSTANTS
    a = a
    b = b
    c = c
    p = p
    Targets = {a, b, c, p}
    Roots = {a}
    Builtins = {p}
    Deferred = {}
    Answers <- DiamondGraph
    Outcomes <- EveryOutcome
    Plans = {"planned"}
    Workers = {w1, w2}
    Main = main
    NoConfig = NoConfig
    NoTask = NoTask
INVARIANTS
    DependenciesSucceeded
\* A worker that waits when another one panics is never woken.
CHECK_DEADLOCK FALSE
