----------------------------- MODULE BuildGraph -----------------------------
(***************************************************************************)
(* What a build promises, without threads, locks or counters: the needs of *)
(* a target are discovered once, a target succeeds after all it needs has  *)
(* succeeded, a failure takes down targets that rest on it and nothing     *)
(* else, outcomes are final, and the reply is true.  CbsExecutor           *)
(* implements it.                                                          *)
(***************************************************************************)
CONSTANTS
    Targets,   \* everything that may be asked for
    Roots,     \* what the caller asks for
    Builtins,  \* what succeeds without being built
    Unknown    \* the needs of a target before they are discovered

VARIABLES
    needs,     \* the targets each target needs, or Unknown
    outcome,   \* "pending", "success" or "failure"
    reply      \* "none", then what the caller is told

vars == <<needs, outcome, reply>>

Pending(t) == outcome[t] = "pending"

Init ==
    /\ needs = [t \in Targets |-> Unknown]
    /\ outcome = [t \in Targets |->
                     IF t \in Roots \cap Builtins THEN "success" ELSE "pending"]
    /\ reply = "none"

Discover(t, D) ==
    /\ needs[t] = Unknown
    /\ Pending(t)
    /\ needs' = [needs EXCEPT ![t] = D]
    /\ UNCHANGED <<outcome, reply>>

\* A builtin that some target needs.
Provide(t) ==
    /\ t \in Builtins
    /\ Pending(t)
    /\ \E u \in Targets : needs[u] # Unknown /\ t \in needs[u]
    /\ outcome' = [outcome EXCEPT ![t] = "success"]
    /\ UNCHANGED <<needs, reply>>

Succeed(t) ==
    /\ Pending(t)
    /\ needs[t] # Unknown
    /\ \A d \in needs[t] : outcome[d] = "success"
    /\ outcome' = [outcome EXCEPT ![t] = "success"]
    /\ UNCHANGED <<needs, reply>>

\* t fails by itself, when it is discovered or when it is built, and takes
\* pending targets with it that rest on a failure.
Fail(t, F) ==
    /\ t \in F
    /\ \A u \in F : Pending(u)
    /\ needs[t] = Unknown \/ \A d \in needs[t] : outcome[d] = "success"
    /\ \A u \in F \ {t} :
          /\ needs[u] # Unknown
          /\ \E d \in needs[u] : d \in F \/ outcome[d] = "failure"
    /\ outcome' = [u \in Targets |-> IF u \in F THEN "failure" ELSE outcome[u]]
    /\ UNCHANGED <<needs, reply>>

\* A success is only told of a closed set of successes that holds the roots;
\* a failure only after one; an error of the build itself at any time.
Reply(r) ==
    /\ reply = "none"
    /\ r = "success" =>
          \E S \in SUBSET Targets :
             /\ Roots \subseteq S
             /\ \A t \in S : /\ outcome[t] = "success"
                             /\ needs[t] = Unknown \/ needs[t] \subseteq S
    /\ r = "failure" => \E t \in Targets : outcome[t] = "failure"
    /\ reply' = r
    /\ UNCHANGED <<needs, outcome>>

Next ==
    \/ \E t \in Targets :
          \/ \E D \in SUBSET Targets : Discover(t, D)
          \/ Provide(t)
          \/ Succeed(t)
          \/ \E F \in SUBSET Targets : Fail(t, F)
    \/ \E r \in {"success", "failure", "error"} : Reply(r)

Spec == Init /\ [][Next]_vars

=============================================================================
