--------------------------- MODULE MCMetalService ---------------------------
(***************************************************************************)
(* Two tasksets whose bindings clients may change, one hostname that both  *)
(* ask for, hostnames that are names of bindings, and requests about       *)
(* either taskset, about both or about one task.                           *)
(***************************************************************************)
EXTENDS MetalService, TLC

CONSTANTS t1, t2, t3, s1, s2, h2, h3, http

Environment(value) == {[name |-> "A", value |-> value]}
MCEnvironments == {Environment("x"), Environment("y")}

AnySpec == [binary : {"b"}, mode : {"onfailure"}, environment : Environments, arguments : {"-v"}]
\* The third task never changes.
OneSpec == {spec \in AnySpec : spec.environment = Environment("x")}

MCHosts == {h2, h3, <<s1, http>>, <<s2, http>>}

Http(S, host) == [port |-> 80, hostname |-> host, name |-> <<S, http>>]

\* What a configuration may say of the first taskset, and of the second.
First ==
    {[tasks |-> x[1], bindings |-> {Http(s1, x[2])}] :
        x \in {<<{t1}, h2>>, <<{t1}, <<s2, http>>>>, <<{t1, t2}, <<s1, http>>>>}}
Second ==
    {[tasks |-> {t3}, bindings |-> B] :
        B \in {{Http(s2, h3)}, {Http(s2, h2), Http(s2, h3)}}}

About(S, sets, specs) ==
    {[tasks |-> [n \in set.tasks |-> spec], tasksets |-> [T \in {S} |-> set],
      down |-> down] : set \in sets, spec \in specs, down \in BOOLEAN}

\* The taskset as it is now, and a task that left it and is torn down, too.
Narrowed ==
    {[tasks |-> [n \in {t1, t2} |-> spec],
      tasksets |-> [T \in {s1} |-> [tasks |-> {t1}, bindings |-> {Http(s1, <<s1, http>>)}]],
      down |-> TRUE] : spec \in AnySpec}

\* A task of its own, in a mode of its own, which is also a task of the first
\* taskset.
Single ==
    {[tasks |-> [n \in {t2} |-> [spec EXCEPT !.mode = mode]],
      tasksets |-> [T \in {} |-> NoTaskset], down |-> down] :
        spec \in AnySpec, mode \in Modes, down \in BOOLEAN}

\* Both tasksets at once.
Both ==
    {[tasks |-> [n \in {t1, t3} |-> spec],
      tasksets |-> (s1 :> [tasks |-> {t1}, bindings |-> {Http(s1, h2)}])
                   @@ (s2 :> [tasks |-> {t3}, bindings |-> {Http(s2, h2)}]),
      down |-> FALSE] : spec \in OneSpec}

MCRequests ==
    About(s1, First, AnySpec) \cup About(s2, Second, OneSpec) \cup Narrowed \cup Single \cup Both

=============================================================================
