---------------------------- MODULE MetalClient ----------------------------
(***************************************************************************)
(* The client that finds a service by its metal name (util/bus/metal.rs,   *)
(* MetalAsyncClient): a background task resolves the name again and again  *)
(* and keeps two parallel lists, of endpoints and of the clients connected *)
(* to them; requests take a client in turn, or wait for a resolution on a  *)
(* watch channel.                                                          *)
(*                                                                         *)
(* The lists are rewritten one entry at a time while both write locks are   *)
(* held; nobody reads them meanwhile.  A client is named by the endpoint   *)
(* it was made for.                                                        *)
(***************************************************************************)
EXTENDS Naturals, Sequences, FiniteSets

CONSTANTS
    Endpoints,  \* addresses and ports
    Requests,   \* calls of request() and request_stream()
    MaxMoves,   \* bound on the changes of what the service resolves to
    NoClient    \* a request that has no client yet

ASSUME ClientAssumption ==
    IsFiniteSet(Endpoints) /\ MaxMoves \in Nat /\ NoClient \notin Endpoints

VARIABLES
    actual,     \* what metal resolves the name to (MetalService)
    moves,      \* how often that changed
    at,         \* where the resolution loop is
    resolved,   \* resolved_endpoints, a local of the loop
    i,          \* idx, a local of the loop
    endpoints,  \* MetalClientInner.endpoints
    clients,    \* MetalClientInner.clients
    idx,        \* MetalClientInner.idx
    version,    \* the number of messages sent on the watch channel
    pc,         \* where each request is
    seen,       \* per request, the version its receiver has seen
    client      \* per request, the client it was given

loop == <<at, resolved, i, endpoints, clients, version>>
request == <<idx, pc, seen, client>>
vars == <<actual, moves, loop, request>>

ListOf(s) == {s[k] : k \in DOMAIN s}
Locked == at \in {"pruning", "extending"}
Pruned == at = "extending" \/ (at = "pruning" /\ i > Len(endpoints))

-----------------------------------------------------------------------------
(* metal_name_resolution_loop *)

\* Mutant: an answer without endpoints is used.
AskAny ==
    /\ at = "asking"
    /\ resolved' = actual
    /\ at' = "comparing"
    /\ UNCHANGED <<i, endpoints, clients, version, actual, moves, request>>

\* When resolve() fails or finds nothing the loop asks again a second later
\* and nothing has changed.
Ask ==
    /\ at = "asking"
    /\ actual # {}
    /\ resolved' = actual
    /\ at' = "comparing"
    /\ UNCHANGED <<i, endpoints, clients, version, actual, moves, request>>

\* The same endpoints as before end the loop, and drop the sender.
Compare ==
    /\ at = "comparing"
    /\ at' = IF /\ Cardinality(resolved) = Len(endpoints)
                /\ ListOf(endpoints) \subseteq resolved
             THEN "ended" ELSE "pruning"
    /\ i' = 1
    /\ UNCHANGED <<resolved, endpoints, clients, version, actual, moves, request>>

\* Vec::swap_remove
SwapRemove(s, k) ==
    [j \in 1 .. Len(s) - 1 |-> IF j = k THEN s[Len(s)] ELSE s[j]]

\* Mutant: Vec::remove
ShiftRemove(s, k) ==
    [j \in 1 .. Len(s) - 1 |-> IF j < k THEN s[j] ELSE s[j + 1]]
RemoveClient(s, k) == SwapRemove(s, k)

\* Mutant: an endpoint that is known counts as new, too.
WithoutNone(s, ep) == s
Without(s, ep) == s \ {ep}

\* One round of the while loop: an endpoint that is still resolved stays, and
\* is taken out of the resolved ones; another goes, with its client.
Prune ==
    /\ at = "pruning"
    /\ i <= Len(endpoints)
    /\ IF endpoints[i] \in resolved
       THEN /\ resolved' = Without(resolved, endpoints[i])
            /\ i' = i + 1
            /\ UNCHANGED <<endpoints, clients>>
       ELSE /\ endpoints' = SwapRemove(endpoints, i)
            /\ clients' = RemoveClient(clients, i)
            /\ UNCHANGED <<resolved, i>>
    /\ UNCHANGED <<at, version, actual, moves, request>>

\* The endpoints that are left are new.
Extend(ep) ==
    /\ Pruned
    /\ ep \in resolved
    /\ at' = "extending"
    /\ resolved' = resolved \ {ep}
    /\ clients' = Append(clients, ep)
    /\ endpoints' = Append(endpoints, ep)
    /\ UNCHANGED <<i, version, actual, moves, request>>

\* The locks are released.
Release ==
    /\ Pruned
    /\ resolved = {}
    /\ at' = "sending"
    /\ UNCHANGED <<resolved, i, endpoints, clients, version, actual, moves,
                   request>>

\* tx.send, and the sleep before the next round.
Send ==
    /\ at = "sending"
    /\ version' = version + 1
    /\ at' = "asking"
    /\ UNCHANGED <<resolved, i, endpoints, clients, actual, moves, request>>

Resolution ==
    \/ Ask \/ Compare \/ Prune \/ Release \/ Send
    \/ \E ep \in Endpoints : Extend(ep)

-----------------------------------------------------------------------------
(* select_client and wait_for_resolution *)

Select(r) ==
    /\ pc[r] \in {"selecting", "resolved"}
    /\ ~Locked
    /\ clients # <<>>
    /\ client' = [client EXCEPT ![r] = clients[(idx % Len(clients)) + 1]]
    /\ idx' = idx + 1
    /\ pc' = [pc EXCEPT ![r] = "done"]
    /\ UNCHANGED <<seen, actual, moves, loop>>

\* There is no client yet.  The receiver is cloned from one that has seen
\* nothing but the initial value.
Await(r) ==
    /\ pc[r] \in {"selecting", "resolved"}
    /\ ~Locked
    /\ clients = <<>>
    /\ pc' = [pc EXCEPT ![r] = "waiting"]
    /\ seen' = [seen EXCEPT ![r] = 0]
    /\ UNCHANGED <<idx, client, actual, moves, loop>>

\* changed() returns on a version it has not seen, or when there is no sender.
Changed(r) ==
    /\ pc[r] = "waiting"
    /\ version # seen[r] \/ at = "ended"
    /\ ~Locked
    /\ seen' = [seen EXCEPT ![r] = version]
    /\ pc' = [pc EXCEPT ![r] = IF endpoints # <<>> THEN "resolved" ELSE "waiting"]
    /\ UNCHANGED <<idx, client, actual, moves, loop>>

Serve(r) == Select(r) \/ Await(r) \/ Changed(r)

-----------------------------------------------------------------------------

\* Tasks of the service come and go.
Move(S) ==
    /\ moves < MaxMoves
    /\ actual' = S
    /\ moves' = moves + 1
    /\ UNCHANGED <<loop, request>>

Init ==
    /\ actual = {} /\ moves = 0
    /\ at = "asking" /\ resolved = {} /\ i = 1
    /\ endpoints = <<>> /\ clients = <<>>
    /\ idx = 0 /\ version = 0
    /\ pc = [r \in Requests |-> "selecting"]
    /\ seen = [r \in Requests |-> 0]
    /\ client = [r \in Requests |-> NoClient]

Next ==
    \/ Resolution
    \/ \E r \in Requests : Serve(r)
    \/ \E S \in SUBSET Endpoints : Move(S)

Spec == Init /\ [][Next]_vars

\* The tasks of the runtime are polled; metal does not fail forever.
Fairness == WF_vars(Resolution) /\ \A r \in Requests : WF_vars(Serve(r))

FairSpec == Spec /\ Fairness

-----------------------------------------------------------------------------
(* Properties *)

\* Every variable has its type; the lists name no endpoint twice.
TypeOK ==
    /\ actual \subseteq Endpoints /\ moves \in 0 .. MaxMoves
    /\ at \in {"asking", "comparing", "pruning", "extending", "sending", "ended"}
    /\ resolved \subseteq Endpoints
    /\ i \in 1 .. Len(endpoints) + 1
    /\ endpoints \in Seq(Endpoints) /\ clients \in Seq(Endpoints)
    /\ Len(endpoints) = Cardinality(ListOf(endpoints))
    /\ idx \in Nat /\ version \in Nat
    /\ pc \in [Requests -> {"selecting", "waiting", "resolved", "done"}]
    /\ client \in [Requests -> Endpoints \cup {NoClient}]

\* Through any sequence of resolutions, and in the middle of one, the client
\* at a position is the one that was made for the endpoint at this position.
Aligned == clients = endpoints

\* A request that was told that the name is resolved finds a client, however
\* late it looks: the lists never become empty again.
ResolvedHasClient ==
    \A r \in Requests : pc[r] = "resolved" /\ ~Locked => clients # <<>>

\* A request gets a client once the name resolves to something for good: no
\* change is lost between a look at the clients and the wait for a change.
RequestsServed ==
    \A r \in Requests :
        [](moves = MaxMoves /\ actual # {} => <>(pc[r] = "done"))

\* The lists follow the service ("We resolved some new/different endpoints.
\* Update the client list").
FollowsService ==
    \A S \in SUBSET Endpoints \ {{}} :
        actual = S ~> actual # S \/ ListOf(endpoints) = S

=============================================================================
