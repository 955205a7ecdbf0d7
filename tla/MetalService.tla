---------------------------- MODULE MetalService ----------------------------
(***************************************************************************)
(* The control plane of metal (service.rs, diff.rs, state.rs): the tables  *)
(* of tasks, tasksets and service bindings, what update() makes of a       *)
(* request, what report_tasks() makes of a report of the monitor, and what *)
(* status() and resolve() answer.                                          *)
(*                                                                         *)
(* update() holds the three tables for all it does, report_tasks() the one *)
(* it writes, so both are one step.  A task stands for the endpoints of    *)
(* its services.  A configuration comes from config.rs: the tasks of its   *)
(* tasksets are among its tasks, a binding of a taskset is named after it, *)
(* and hostnames are any texts, names of bindings among them.              *)
(***************************************************************************)
EXTENDS Naturals, FiniteSets, Functions

CONSTANTS
    Tasks,         \* names of tasks
    Tasksets,      \* names of tasksets
    Ports,         \* ports of service bindings
    Hosts,         \* hostnames of service bindings; Names may be among them
    Services,      \* last components of the names of bindings
    Binaries, Modes, Environments, Arguments,  \* what a task specifies
    States,        \* runtime states: those of metal.bus that happen
    Requests,      \* what clients ask for
    NoTask, NoTaskset

Variables == UNION Environments   \* records [name, value]
Specs == [binary : Binaries, mode : Modes, environment : Environments,
          arguments : Arguments]
Entries == [spec : Specs, state : States]
Names == Tasksets \X Services
Bindings == [port : Ports, hostname : Hosts, name : Names]
Sets == [tasks : SUBSET Tasks, bindings : SUBSET Bindings]

ASSUME ServiceAssumption ==
    /\ NoTask \notin Entries /\ NoTaskset \notin Sets
    /\ \A e \in Variables : DOMAIN e = {"name", "value"}
    /\ "unknown" \in States
    /\ \A req \in Requests :
          /\ req.down \in BOOLEAN
          /\ DOMAIN req.tasks \subseteq Tasks
          /\ \A n \in DOMAIN req.tasks : req.tasks[n] \in Specs
          /\ DOMAIN req.tasksets \subseteq Tasksets
          /\ \A S \in DOMAIN req.tasksets :
                /\ req.tasksets[S] \in Sets
                /\ req.tasksets[S].tasks \subseteq DOMAIN req.tasks
                /\ \A b \in req.tasksets[S].bindings : b.name[1] = S

VARIABLES
    tasks,     \* MetalServiceHandlerInner.tasks
    tasksets,  \* MetalServiceHandlerInner.tasksets
    bindings,  \* MetalServiceHandlerInner.service_bindings
    stored     \* the tasks in the state manager

vars == <<tasks, tasksets, bindings, stored>>

-----------------------------------------------------------------------------
(* diff_task and compute_diff *)

Values(spec) == {e.value : e \in spec.environment}

\* The environments are compared twice, the arguments never.
Differs(original, proposed) ==
    \/ original.binary # proposed.binary
    \/ original.mode # proposed.mode
    \/ Values(original) # Values(proposed)

Existing(req) == {n \in DOMAIN req.tasks : tasks[n] # NoTask}

Added(req) ==
    IF req.down THEN {}
    ELSE {n \in DOMAIN req.tasks :
             n \in Existing(req) => Differs(tasks[n].spec, req.tasks[n])}

Removed(req) == IF req.down THEN Existing(req) ELSE {}

Current(S) == IF tasksets[S] = NoTaskset THEN {} ELSE tasksets[S].tasks

\* The tasks of a taskset after the changes.
Members(S, req) ==
    LET asked == req.tasksets[S].tasks
    IN  (Current(S) \ (asked \cap Removed(req))) \cup (asked \cap Added(req))

\* Mutant: a taskset is deleted only if it had tasks.
DeletedOnce(req) ==
    {S \in DOMAIN req.tasksets : Members(S, req) = {} /\ Current(S) # {}}
Deleted(req) == {S \in DOMAIN req.tasksets : Members(S, req) = {}}

\* The existing bindings are compared with themselves, so that what the
\* request says of them modifies nothing.
Modified(req) ==
    {S \in DOMAIN req.tasksets \ Deleted(req) :
        \/ req.tasksets[S].tasks \cap (Added(req) \cup Removed(req)) # {}
        \/ ~req.down /\ tasksets[S] = NoTaskset}

-----------------------------------------------------------------------------
(* update *)

\* What becomes of the entry of a task.
Updated(n, req) ==
    IF n \in Added(req) \ Existing(req)
    THEN [spec |-> req.tasks[n], state |-> "unknown"]
    ELSE IF n \in Added(req)
    THEN [tasks[n] EXCEPT !.spec.binary = req.tasks[n].binary,
                          !.spec.environment = req.tasks[n].environment,
                          !.spec.arguments = req.tasks[n].arguments]
    ELSE [tasks[n] EXCEPT !.spec.environment = req.tasks[n].environment]

Overlay(table, req) ==
    [n \in Tasks |-> IF n \in Added(req) \cup Removed(req)
                     THEN Updated(n, req) ELSE table[n]]

\* A binding is inserted under its hostname ...
Key(b) == <<b.port, b.hostname>>

\* ... and removed under its name.
NameKey(b) == <<b.port, b.name>>

Bound(S) == IF tasksets[S] = NoTaskset THEN {} ELSE tasksets[S].bindings

\* What a taskset of a request takes out of the bindings, and puts in.
StaleOf(S) == {NameKey(b) : b \in Bound(S)}

\* Mutant: the bindings of a taskset that exists are not inserted again.
InsertedOnce(S, req) ==
    IF tasksets[S] = NoTaskset THEN {Key(b) : b \in req.tasksets[S].bindings} ELSE {}
InsertedBy(S, req) == {Key(b) : b \in req.tasksets[S].bindings}

TouchedBy(S, req) == StaleOf(S) \cup InsertedBy(S, req)
Touched(req) == UNION {TouchedBy(S, req) : S \in Modified(req)}

\* The modified tasksets have their turns one after the other: what is
\* inserted and what is removed is what the last of them makes of it.
InTurn(last, req) ==
    \E turn \in [Modified(req) -> 1 .. Cardinality(Modified(req))] :
        /\ IsInjective(turn)
        /\ \A k \in Touched(req) :
              /\ k \in TouchedBy(last[k], req)
              /\ \A S \in Modified(req) :
                    k \in TouchedBy(S, req) => turn[S] <= turn[last[k]]

\* What a taskset inserts comes after what it removes, and what deleted
\* tasksets remove after all others.
Kept(last, req) ==
    (DOMAIN bindings \ Touched(req)) \cup {k \in Touched(req) : k \in InsertedBy(last[k], req)}
Rebound(last, req) == Kept(last, req) \ UNION {StaleOf(S) : S \in Deleted(req)}

Update(req) ==
    /\ tasks' = Overlay(tasks, req)
    /\ stored' = Overlay(stored, req)
    /\ tasksets' = [S \in Tasksets |->
           IF S \in Deleted(req) THEN NoTaskset
           ELSE IF S \in Modified(req)
           THEN [req.tasksets[S] EXCEPT !.tasks = Members(S, req)]
           ELSE tasksets[S]]
    /\ \E last \in [Touched(req) -> Modified(req)] :
          /\ InTurn(last, req)
          /\ bindings' \in [Rebound(last, req) -> Names]
          /\ \A k \in Rebound(last, req) :
                IF k \in Touched(req)
                THEN \E b \in req.tasksets[last[k]].bindings : Key(b) = k /\ bindings'[k] = b.name
                ELSE bindings'[k] = bindings[k]

-----------------------------------------------------------------------------
(* report_tasks, by the monitor *)

Ended == {"success", "failed", "stopped"}

\* Mutant: a task that is done is removed before its state is saved.
StoreAlive(report) ==
    [n \in Tasks |->
        IF n \in DOMAIN report /\ tasks[n] # NoTask /\ report[n] \notin Ended
        THEN [tasks[n] EXCEPT !.state = report[n]] ELSE stored[n]]

Store(report) ==
    [n \in Tasks |->
        IF n \in DOMAIN report /\ tasks[n] # NoTask
        THEN [tasks[n] EXCEPT !.state = report[n]] ELSE stored[n]]

Report(report) ==
    /\ stored' = Store(report)
    /\ tasks' = [n \in Tasks |->
           IF n \notin DOMAIN report \/ tasks[n] = NoTask THEN tasks[n]
           ELSE IF report[n] \in Ended THEN NoTask
           ELSE [tasks[n] EXCEPT !.state = report[n]]]
    /\ UNCHANGED <<tasksets, bindings>>

-----------------------------------------------------------------------------
(* resolve *)

Scheduled(names) == {n \in names \cap Tasks : tasks[n] # NoTask}

\* The last dot of a name ends the name of a taskset, or of a task.
ResolveName(name) ==
    (IF name[1] \in Tasksets THEN Scheduled(Current(name[1])) ELSE {})
    \cup Scheduled({name[1]})

\* With a port, the name is looked up in the bindings.
Resolve(port, host) ==
    IF <<port, host>> \in DOMAIN bindings
    THEN ResolveName(bindings[<<port, host>>]) ELSE {}

-----------------------------------------------------------------------------

Init ==
    /\ tasks = [n \in Tasks |-> NoTask]
    /\ tasksets = [S \in Tasksets |-> NoTaskset]
    /\ bindings = [k \in {} |-> NoTask]
    /\ stored = [n \in Tasks |-> NoTask]

Next ==
    \/ \E req \in Requests : Update(req)
    \/ \E S \in SUBSET Tasks : \E report \in [S -> States] : Report(report)

Spec == Init /\ [][Next]_vars

-----------------------------------------------------------------------------
(* Properties *)

\* Every table has its type; bindings are found under a port and a hostname.
TypeOK ==
    /\ tasks \in [Tasks -> Entries \cup {NoTask}]
    /\ stored \in [Tasks -> Entries \cup {NoTask}]
    /\ tasksets \in [Tasksets -> Sets \cup {NoTaskset}]
    /\ DOMAIN bindings \subseteq Ports \X Hosts
    /\ Range(bindings) \subseteq Names

\* status() answers from the state manager, update() and resolve() from the
\* table: a task has the same entry in both, and one that left the table left
\* it with a final state.
StatusIsCurrent ==
    \A n \in Tasks :
        /\ tasks[n] # NoTask => stored[n] = tasks[n]
        /\ tasks[n] = NoTask /\ stored[n] # NoTask => stored[n].state \in Ended

\* A taskset is deleted when no task remains (compute_diff), and lists only
\* tasks that were scheduled at some time.
TasksetsHoldTasks ==
    \A S \in Tasksets : tasksets[S] # NoTaskset =>
        /\ tasksets[S].tasks # {}
        /\ \A n \in tasksets[S].tasks : stored[n] # NoTask

\* The bindings that clients ask for in a taskset.
Asked(S) == UNION {req.tasksets[S].bindings : req \in {r \in Requests : S \in DOMAIN r.tasksets}}

\* The ports and hostnames that clients ask for in a taskset while another one
\* binds them, too, or has a binding whose name is that hostname.
Disputed == {k \in Ports \X Hosts :
    \E S, T \in Tasksets : \E b \in Asked(S), c \in Asked(T) :
        S # T /\ k = Key(b) /\ k \in {Key(c), NameKey(c)}}

\* Every binding of every taskset resolves to the tasks of this taskset that
\* are scheduled, whatever was rebound, torn down or ended before - as long as
\* no other taskset ever asks for the same port and hostname or calls a
\* binding by this hostname, and no task of another configuration runs under
\* the name of the taskset.
BoundServicesResolve ==
    \A S \in Tasksets : \A b \in Bound(S) :
        \/ Key(b) \in Disputed
        \/ S \in Scheduled({S})
        \/ Resolve(b.port, b.hostname) = Scheduled(tasksets[S].tasks)

\* Behind BoundServicesResolve: every binding of a taskset is one that clients
\* asked for it, and its key leads to the name of the taskset.
BindingsLead ==
    \A S \in Tasksets : \A b \in Bound(S) :
        /\ b \in Asked(S)
        /\ \/ Key(b) \in Disputed
           \/ Key(b) \in DOMAIN bindings /\ bindings[Key(b)][1] = S

IInv == TypeOK /\ StatusIsCurrent /\ BindingsLead

\* Nothing resolves through a binding that no taskset has any more (update:
\* "If so, we need to update the service bindings with the changes").
OnlyBoundResolve ==
    \A port \in Ports, host \in Hosts :
        Resolve(port, host) # {} =>
            \E S \in Tasksets : \E b \in Bound(S) : Key(b) = <<port, host>>

=============================================================================
