\* Every graph over three targets, every resolver and build outcome.
SPECIFICATION FairSpec
CONSTANTS
    a = a
    b = b
    c = c
    p = p
    Targets = {a, b, c, p}
    Roots = {a}
    Builtins = {p}
    Deferred = {b, c}
    Answers <- AnyGraph
    Outcomes <- AnyOutcome
    Plans = {"planned", "error"}
    Workers = {w1, w2}
    Main = main
    NoConfig = NoConfig
    NoTask = NoTask
INVARIANTS
    ReadyIsExact
    OneHolder
    BuildsAfterDependencies
    SuccessRestsOnSuccess
    DeadlockIsACycle
    VerdictIsTrue
    BuiltByALoadedPlugin
PROPERTIES
    ResultsAreFinal
    ImplementsBuild
    RunEnds
\* A worker that waits when another one panics is never woken.
CHECK_DEADLOCK FALSE
