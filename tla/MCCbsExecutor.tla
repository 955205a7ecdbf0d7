--------------------------- MODULE MCCbsExecutor ---------------------------
(***************************************************************************)
(* Small instances of CbsExecutor.  The resolver of every target is free   *)
(* to answer with any of a set of configs, so that one run covers every    *)
(* graph (with its diamonds and its cycles) these answers can make.        *)
(***************************************************************************)
EXTENDS CbsExecutor

CONSTANTS a, b, c, p   \* target names

\* A config with these dependencies, built by the plugin.
Config(deps, plugin) ==
    [dependencies |-> deps, external |-> {}, plugin |-> plugin,
     buildDependencies |-> {}]

\* The same, where the dependencies come from external requirements.
ExternalConfig(deps, plugin) ==
    [dependencies |-> {}, external |-> deps, plugin |-> plugin,
     buildDependencies |-> {}]

EveryOutcome == [t \in Targets |-> {"ok", "failure"}]

\* Any graph over a, b and c: self-dependencies and cycles included, with
\* resolvers that may fail for all but the root.  What the root asks of b and
\* c may be external requirements, and b may ask for c as its plugin.
AnyGraph ==
    [t \in Targets |->
        CASE t = a -> {Config(D, p) : D \in SUBSET {a, b, c}}
                      \cup {ExternalConfig(D, p) : D \in SUBSET {b, c}}
          [] t = b -> {Config(D, p) : D \in SUBSET {a, b, c}}
                      \cup {Config(D, c) : D \in SUBSET {a}} \cup {NoConfig}
          [] t = c -> {Config(D, p) : D \in SUBSET {a, b, c}} \cup {NoConfig}
          [] OTHER -> {NoConfig}]

\* The build of a plugin may leave no output.
AnyOutcome ==
    [t \in Targets |->
        IF t = c THEN {"ok", "noop", "failure"} ELSE {"ok", "failure"}]

\* a needs b and c, c needs b too, and b fails to resolve.
DiamondGraph ==
    [t \in Targets |->
        CASE t = a -> {Config({b, c}, p)}
          [] t = c -> {Config({b}, p)}
          [] OTHER -> {NoConfig}]

\* a needs b and c, b needs a, and c fails to resolve.
CycleGraph ==
    [t \in Targets |->
        CASE t = a -> {Config({b, c}, p)}
          [] t = b -> {Config({a}, p)}
          [] OTHER -> {NoConfig}]

=============================================================================
