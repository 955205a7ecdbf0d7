---------------------------- MODULE CbsExecutor ----------------------------
(***************************************************************************)
(* The executor of the cbs build system (src/util/cbs/exec.rs): one graph  *)
(* of tasks behind a mutex, a condition variable, a sequential planning    *)
(* phase run by the main thread and a pool of workers which resolve and    *)
(* build tasks until every task is done.                                   *)
(*                                                                         *)
(* Every action is one critical section of the mutex `tasks` (or a stretch *)
(* of code that holds no lock), so that the interleavings of the model are *)
(* those of the threads.  Task ids are abstracted away: the loops that     *)
(* scan the vector of tasks for the first candidate pick any candidate.    *)
(***************************************************************************)
EXTENDS Naturals, FiniteSets

CONSTANTS
    Targets,   \* the names a task may have
    Roots,     \* the targets the caller adds before run()
    Builtins,  \* targets with a registered builder (add_builder_plugin)
    Deferred,  \* unlocked external targets that some planner can plan
    Answers,   \* per target, the answers its resolver may give
    Outcomes,  \* per target, how its build may end
    Plans,     \* how dependency planning may end: {"planned", "error"}
    Workers,   \* the threads run_workers spawns
    Main,      \* the thread that calls run()
    NoConfig,  \* `config: None`, and the answer of a resolver that fails
    NoTask     \* an actor that holds no task

Actors == Workers \cup {Main}

\* What a resolver returns.  The config's lists are sets: dependencies()
\* removes duplicates before any of them is used.
Configs == [dependencies : SUBSET Targets, external : SUBSET Targets,
            plugin : Targets, buildDependencies : SUBSET Targets]

Dependencies(c) ==
    c.dependencies \cup c.external \cup {c.plugin} \cup c.buildDependencies

ASSUME ExecutorAssumption ==
    /\ IsFiniteSet(Targets)
    /\ Roots \subseteq Targets
    /\ Builtins \subseteq Targets
    /\ Deferred \subseteq Targets
    /\ Answers \in [Targets -> SUBSET (Configs \cup {NoConfig})]
    /\ Outcomes \in [Targets -> SUBSET {"ok", "noop", "failure"}]
    /\ Plans \subseteq {"planned", "error"}
    /\ Main \notin Workers
    /\ Workers # {}   \* worker_count is at least 1
    /\ NoConfig \notin Configs
    /\ \A D \in SUBSET Targets : NoConfig # D
    /\ NoTask \notin Targets

VARIABLES
    known,      \* TaskGraph.tasks and by_target: the targets with a task
    config,     \* Task.config
    result,     \* Task.result; a "noop" is a success without outputs
    available,  \* Task.available
    ready,      \* Task.dependencies_ready
    rdeps,      \* TaskGraph.rdeps
    builders,   \* Executor.builders: the plugins that are loaded
    pc,         \* where each thread is
    held,       \* the task a thread took with next_*_task
    answer,     \* the config a resolving thread got
    todo,       \* the dependencies it has not added yet
    poisoned,   \* a thread panicked while it held the lock of the tasks
    crashed,    \* the process died (stack overflow)
    verdict     \* what run() returned

graph == <<known, config, result, available, ready, rdeps>>
thread == <<pc, held, answer, todo>>
vars == <<graph, builders, thread, poisoned, crashed, verdict>>

-----------------------------------------------------------------------------
(* Task::status *)

Succeeded(t) == result[t] \in {"ok", "noop"}
Failed(t) == result[t] = "failure"
Done(t) == result[t] # "none"

\* Task.dependencies, which resolve() sets together with the config.
Deps(t) == IF config[t] = NoConfig THEN {} ELSE Dependencies(config[t])

ResolvingAgain(t) == config[t] = NoConfig
Resolving(t) == ~Done(t) /\ config[t] = NoConfig
Blocked(t) ==
    ~Done(t) /\ config[t] # NoConfig /\ ready[t] < Cardinality(Deps(t))
BuildingEarly(t) == ~Done(t) /\ config[t] # NoConfig
Building(t) ==
    ~Done(t) /\ config[t] # NoConfig /\ ready[t] >= Cardinality(Deps(t))

RootsDone == \A t \in Roots : Done(t)
AllDone == \A t \in known : Done(t)

DoneIn(D) == Cardinality({d \in D : Done(d)})

\* The tasks TaskGraph::mark_task_failure visits from t: the least set that
\* holds t and is closed under rdeps.
FailedBy(t) ==
    {u \in Targets : \A S \in SUBSET Targets :
        (t \in S /\ \A x \in S : rdeps[x] \subseteq S) => u \in S}

\* It remembers no visited task, so a cycle of rdeps never lets it return.
Endless(t) == \E u \in FailedBy(t) : \E v \in rdeps[u] : u \in FailedBy(v)

-----------------------------------------------------------------------------
(* Threads *)

\* Where a thread continues once it is done with its task.
LoopTop(a) == IF a = Main THEN "planning" ELSE "idle"

\* Places from which the next thing a thread does is to lock the tasks.
Locking == {"idle", "resolving", "registering", "building", "checking",
            "compiling"}

\* Condvar::notify_all
NobodyWoken == pc
Woken == [a \in Actors |-> IF pc[a] = "waiting" THEN "idle" ELSE pc[a]]

\* `task.available = false`
StillAvailable(t) == available
Taken(t) == [available EXCEPT ![t] = FALSE]

\* TaskGraph::mark_build_success counts the task for all that wait for it.
NotCounted(t) == ready
Counted(t) ==
    [u \in Targets |-> IF u \in rdeps[t] THEN ready[u] + 1 ELSE ready[u]]

Goto(a, place) == pc' = [pc EXCEPT ![a] = place]

\* TaskGraph::mark_task_failure, by a thread that notifies afterwards.
MarkFailure(a, t) ==
    /\ crashed' = Endless(t)
    /\ IF Endless(t)
       THEN UNCHANGED <<result, available, pc>>
       ELSE /\ result' = [u \in Targets |->
                   IF u \in FailedBy(t) THEN "failure" ELSE result[u]]
            /\ available' = [u \in Targets |->
                   IF u \in FailedBy(t) THEN TRUE ELSE available[u]]
            /\ Goto(a, "notify")

\* A panic with the lock of the tasks held.
Panic(a) ==
    /\ Goto(a, "panicked")
    /\ poisoned' = TRUE

Init ==
    /\ known = Roots
    /\ config = [t \in Targets |-> NoConfig]
    /\ result = [t \in Targets |->
                    IF t \in Roots \cap Builtins THEN "noop" ELSE "none"]
    /\ available = [t \in Targets |-> TRUE]
    /\ ready = [t \in Targets |-> 0]
    /\ rdeps = [t \in Targets |-> {}]
    /\ builders = Builtins
    /\ pc = [a \in Actors |-> IF a = Main THEN "planning" ELSE "off"]
    /\ held = [a \in Actors |-> NoTask]
    /\ answer = [a \in Actors |-> NoConfig]
    /\ todo = [a \in Actors |-> {}]
    /\ poisoned = FALSE
    /\ crashed = FALSE
    /\ verdict = "none"

-----------------------------------------------------------------------------
(* resolve(): by the main thread while it plans, by workers afterwards *)

\* The resolver answers with a config; no lock is held.
ResolverAnswers(a, c) ==
    /\ pc[a] = "resolving"
    /\ c # NoConfig
    /\ answer' = [answer EXCEPT ![a] = c]
    /\ todo' = [todo EXCEPT ![a] = Dependencies(c)]
    /\ Goto(a, "registering")
    /\ UNCHANGED <<graph, builders, held, poisoned, crashed, verdict>>

\* The resolver fails, or no resolver knows the target.
ResolverFails(a) ==
    /\ pc[a] = "resolving"
    /\ ~poisoned
    /\ NoConfig \in Answers[held[a]]
    /\ MarkFailure(a, held[a])
    /\ UNCHANGED <<known, config, ready, rdeps, builders, held, answer, todo,
                   poisoned, verdict>>

\* add_task(d, Some(id)): one lock of the tasks for each dependency.  A new
\* task whose target is a builder succeeds on the spot.
AddTask(a, d) ==
    /\ pc[a] = "registering"
    /\ ~poisoned
    /\ d \in todo[a]
    /\ todo' = [todo EXCEPT ![a] = @ \ {d}]
    /\ known' = known \cup {d}
    /\ rdeps' = [rdeps EXCEPT ![d] = @ \cup {held[a]}]
    /\ IF d \notin known /\ d \in builders
       THEN /\ result' = [result EXCEPT ![d] = "noop"]
            /\ ready' = [ready EXCEPT ![held[a]] = @ + 1]
       ELSE UNCHANGED <<result, ready>>
    /\ UNCHANGED <<config, available, builders, pc, held, answer, poisoned,
                   crashed, verdict>>

\* The second critical section of resolve(): the dependencies that are done
\* already are counted, and the task becomes available again.
Commit(a) ==
    /\ pc[a] = "registering"
    /\ ~poisoned
    /\ todo[a] = {}
    /\ config' = [config EXCEPT ![held[a]] = answer[a]]
    /\ ready' = [ready EXCEPT ![held[a]] = DoneIn(Dependencies(answer[a]))]
    /\ available' = [available EXCEPT ![held[a]] = TRUE]
    /\ Goto(a, "notify")
    /\ UNCHANGED <<known, result, rdeps, builders, held, answer, todo,
                   poisoned, crashed, verdict>>

\* task_events.notify_all(), after the lock was released.
Notify(a) ==
    /\ pc[a] = "notify"
    /\ pc' = [Woken EXCEPT ![a] = LoopTop(a)]
    /\ held' = [held EXCEPT ![a] = NoTask]
    /\ answer' = [answer EXCEPT ![a] = NoConfig]
    /\ UNCHANGED <<graph, builders, todo, poisoned, crashed, verdict>>

Resolve(a) ==
    \/ pc[a] = "resolving" /\ \E c \in Answers[held[a]] : ResolverAnswers(a, c)
    \/ ResolverFails(a)
    \/ \E d \in todo[a] : AddTask(a, d)
    \/ Commit(a)
    \/ Notify(a)

-----------------------------------------------------------------------------
(* run(): the main thread *)

PlanCandidate(t) ==
    t \in known /\ available[t] /\ Resolving(t) /\ t \notin Deferred

\* next_planning_task
NextPlanningTask(t) ==
    /\ pc[Main] = "planning"
    /\ PlanCandidate(t)
    /\ available' = Taken(t)
    /\ held' = [held EXCEPT ![Main] = t]
    /\ Goto(Main, "resolving")
    /\ UNCHANGED <<known, config, result, ready, rdeps, builders, answer, todo,
                   poisoned, crashed, verdict>>

\* What collect_results may answer: it reports the first task, in the order
\* of their ids, that is unfinished or failed.
Collected ==
    LET unfinished == {t \in known : ~Done(t)}
        failed == {t \in known : Failed(t)}
    IN  (IF unfinished # {} THEN {"unfinished"} ELSE {})
        \cup (IF failed # {} THEN {"failure"} ELSE {})
        \cup (IF unfinished \cup failed = {} THEN {"success"} ELSE {})

HasRequirements ==
    \E t \in known : config[t] # NoConfig /\ config[t].external # {}

PlanningOver ==
    pc[Main] = "planning" /\ ~\E t \in Targets : PlanCandidate(t)

\* Nothing is planned once a task has failed, or without requirements.
PlannerFails ==
    /\ PlanningOver
    /\ ~\E t \in known : Failed(t)
    /\ HasRequirements
    /\ "error" \in Plans
    /\ verdict' = "planning failed"
    /\ Goto(Main, "returned")
    /\ UNCHANGED <<graph, builders, held, answer, todo, poisoned, crashed>>

PlanDone ==
    /\ PlanningOver
    /\ \/ \E t \in known : Failed(t)
       \/ ~HasRequirements
       \/ "planned" \in Plans
    /\ IF AllDone
       THEN verdict' \in Collected /\ Goto(Main, "returned")
       ELSE /\ pc' = [a \in Actors |-> IF a = Main THEN "joining" ELSE "idle"]
            /\ UNCHANGED verdict
    /\ UNCHANGED <<graph, builders, held, answer, todo, poisoned, crashed>>

\* run_workers: the scope joins every worker, and the first handle that
\* carries an error decides.  (If another worker panicked after that one in
\* the list, the scope panics when it joins it, and run() with it: any error
\* stands for that, too.)
Join ==
    /\ pc[Main] = "joining"
    /\ \A w \in Workers : pc[w] \in {"exited", "deadlocked", "panicked"}
    /\ verdict' \in
          IF \A w \in Workers : pc[w] = "exited" THEN Collected
          ELSE {pc[w] : w \in Workers} \ {"exited"}
    /\ Goto(Main, "returned")
    /\ UNCHANGED <<graph, builders, held, answer, todo, poisoned, crashed>>

-----------------------------------------------------------------------------
(* worker_loop(): next_parallel_task *)

AnyCandidate(t) == available[t] /\ (Resolving(t) \/ Building(t))
Candidate(t) == t \in known /\ available[t] /\ (Resolving(t) \/ Building(t))

ResolverRunning == \E t \in known : ~available[t] /\ Resolving(t)
Running ==
    \E t \in known : ~available[t] /\ (Resolving(t) \/ Building(t))

TakeTask(w, t) ==
    /\ pc[w] = "idle"
    /\ ~poisoned
    /\ Candidate(t)
    /\ available' = Taken(t)
    /\ held' = [held EXCEPT ![w] = t]
    /\ Goto(w, IF Resolving(t) THEN "resolving" ELSE "building")
    /\ UNCHANGED <<known, config, result, ready, rdeps, builders, answer, todo,
                   poisoned, crashed, verdict>>

NothingToTake(w) ==
    pc[w] = "idle" /\ ~poisoned /\ ~\E t \in Targets : Candidate(t)

Exit(w) ==
    /\ NothingToTake(w)
    /\ AllDone
    /\ Goto(w, "exited")
    /\ UNCHANGED <<graph, builders, held, answer, todo, poisoned, crashed,
                   verdict>>

\* Nobody runs and nothing can be taken: the others are woken and told.
Deadlock(w) ==
    /\ NothingToTake(w)
    /\ ~AllDone
    /\ ~Running
    /\ pc' = [Woken EXCEPT ![w] = "deadlocked"]
    /\ UNCHANGED <<graph, builders, held, answer, todo, poisoned, crashed,
                   verdict>>

Wait(w) ==
    /\ NothingToTake(w)
    /\ ~AllDone
    /\ Running
    /\ Goto(w, "waiting")
    /\ UNCHANGED <<graph, builders, held, answer, todo, poisoned, crashed,
                   verdict>>

\* A condition variable may wake up by itself.
SpuriousWakeup(w) ==
    /\ pc[w] = "waiting"
    /\ Goto(w, "idle")
    /\ UNCHANGED <<graph, builders, held, answer, todo, poisoned, crashed,
                   verdict>>

\* lock().unwrap() on the poisoned mutex, by any thread that comes to it.
PoisonPanic(w) ==
    /\ poisoned
    /\ pc[w] \in Locking
    /\ Goto(w, "panicked")
    /\ UNCHANGED <<graph, builders, held, answer, todo, poisoned, crashed,
                   verdict>>

-----------------------------------------------------------------------------
(* build() *)

LoadWithoutOutputs(w) ==
    LET plugin == config[held[w]].plugin
    IN  /\ pc[w] = "building"
        /\ ~poisoned
        /\ plugin \in builders \/ Succeeded(plugin)
        /\ builders' = builders \cup {plugin}
        /\ Goto(w, "checking")
        /\ UNCHANGED <<graph, held, answer, todo, poisoned, crashed, verdict>>

\* The builder is registered, or loaded from the outputs of its own task.
LoadPlugin(w) ==
    LET plugin == config[held[w]].plugin
    IN  /\ pc[w] = "building"
        /\ ~poisoned
        /\ plugin \in builders \/ result[plugin] = "ok"
        /\ builders' = builders \cup {plugin}
        /\ Goto(w, "checking")
        /\ UNCHANGED <<graph, held, answer, todo, poisoned, crashed, verdict>>

\* The plugin's task is missing, unfinished, failed or has no outputs.
PluginPanic(w) ==
    LET plugin == config[held[w]].plugin
    IN  /\ pc[w] = "building"
        /\ ~poisoned
        /\ plugin \notin builders /\ result[plugin] # "ok"
        /\ Panic(w)
        /\ UNCHANGED <<graph, builders, held, answer, todo, crashed, verdict>>

ReadAnyDependencies(w) ==
    /\ pc[w] = "checking"
    /\ ~poisoned
    /\ Goto(w, "compiling")
    /\ UNCHANGED <<graph, builders, held, answer, todo, poisoned, crashed,
                   verdict>>

\* The outputs of the dependencies are read under the lock.
ReadDependencies(w) ==
    /\ pc[w] = "checking"
    /\ ~poisoned
    /\ \A d \in Deps(held[w]) : Succeeded(d)
    /\ Goto(w, "compiling")
    /\ UNCHANGED <<graph, builders, held, answer, todo, poisoned, crashed,
                   verdict>>

\* "all dependencies must be succesfully built by now!"
DependencyPanic(w) ==
    /\ pc[w] = "checking"
    /\ ~poisoned
    /\ \E d \in Deps(held[w]) : ~Succeeded(d)
    /\ Panic(w)
    /\ UNCHANGED <<graph, builders, held, answer, todo, crashed, verdict>>

\* A cache hit or a build that succeeds: mark_build_success.
BuildSucceeds(w, outcome) ==
    LET t == held[w]
    IN  /\ pc[w] = "compiling"
        /\ ~poisoned
        /\ outcome \in Outcomes[t] \ {"failure"}
        /\ result' = [result EXCEPT ![t] = outcome]
        /\ available' = [available EXCEPT ![t] = TRUE]
        /\ ready' = Counted(t)
        /\ Goto(w, "notify")
        /\ UNCHANGED <<known, config, rdeps, builders, held, answer, todo,
                       poisoned, crashed, verdict>>

BuildFails(w) ==
    /\ pc[w] = "compiling"
    /\ ~poisoned
    /\ "failure" \in Outcomes[held[w]]
    /\ MarkFailure(w, held[w])
    /\ UNCHANGED <<known, config, ready, rdeps, builders, held, answer, todo,
                   poisoned, verdict>>

-----------------------------------------------------------------------------

MainStep ==
    \/ \E t \in Targets : NextPlanningTask(t)
    \/ Resolve(Main)
    \/ PlannerFails
    \/ PlanDone
    \/ Join

WorkerStep(w) ==
    \/ \E t \in Targets : TakeTask(w, t)
    \/ Exit(w)
    \/ Deadlock(w)
    \/ Wait(w)
    \/ PoisonPanic(w)
    \/ Resolve(w)
    \/ LoadPlugin(w)
    \/ PluginPanic(w)
    \/ ReadDependencies(w)
    \/ DependencyPanic(w)
    \/ \E outcome \in {"ok", "noop"} : BuildSucceeds(w, outcome)
    \/ BuildFails(w)

\* The process has ended.
Terminated ==
    /\ crashed \/ pc[Main] = "returned"
    /\ UNCHANGED vars

Next ==
    \/ ~crashed /\ MainStep
    \/ ~crashed /\ \E w \in Workers : WorkerStep(w) \/ SpuriousWakeup(w)
    \/ Terminated

Spec == Init /\ [][Next]_vars

\* Threads are scheduled, and resolvers, planners and builds come to an end;
\* nothing promises that a condition variable wakes up without a notify.
Fairness ==
    /\ WF_vars(~crashed /\ MainStep)
    /\ \A w \in Workers : WF_vars(~crashed /\ WorkerStep(w))

FairSpec == Spec /\ Fairness

-----------------------------------------------------------------------------
(* Properties *)

\* Where a thread works on the task it holds.
Working(a) ==
    pc[a] \in {"resolving", "registering", "building", "checking", "compiling"}

\* Every variable has its type; `rdeps` and the dependencies name targets, a
\* counter is a natural number.
TypeOK ==
    /\ known \in SUBSET Targets
    /\ config \in [Targets -> Configs \cup {NoConfig}]
    /\ result \in [Targets -> {"none", "ok", "noop", "failure"}]
    /\ available \in [Targets -> BOOLEAN]
    /\ ready \in [Targets -> Nat]
    /\ rdeps \in [Targets -> SUBSET Targets]
    /\ builders \in SUBSET Targets
    /\ pc \in [Actors -> Locking \cup {"planning", "joining", "returned", "off",
                  "notify", "waiting", "exited", "deadlocked", "panicked"}]
    /\ held \in [Actors -> Targets \cup {NoTask}]
    /\ \A a \in Actors : Working(a) => held[a] \in known
    /\ answer \in [Actors -> Configs \cup {NoConfig}]
    /\ \A a \in Actors : pc[a] = "registering" => answer[a] \in Configs
    /\ \A a \in Actors : pc[a] = "building" => config[held[a]] \in Configs
    /\ todo \in [Actors -> SUBSET Targets]
    /\ poisoned \in BOOLEAN
    /\ crashed \in BOOLEAN
    /\ verdict \in {"none", "success", "failure", "unfinished", "deadlocked",
                    "panicked", "planning failed"}

\* The counter that decides when a task may be built is exact: resolve() sets
\* it while other workers finish the same dependencies and count them.
ReadyIsExact ==
    \A t \in known :
        config[t] # NoConfig /\ ~Done(t) => ready[t] = DoneIn(Deps(t))

\* No task is in the hands of two threads, although the task of a thread can
\* be made available again by the failure of a dependency.
OneHolder ==
    \A a, b \in Actors :
        a # b /\ Working(a) /\ Working(b) => held[a] # held[b]

\* A thread that builds finds a result for every dependency, never the
\* `None` of "all dependencies must be finished building by now!".
BuildsAfterDependencies ==
    \A w \in Workers :
        pc[w] \in {"building", "checking", "compiling"} =>
            \A d \in Deps(held[w]) : Done(d)

\* A task that was resolved and succeeded rests on dependencies that all
\* succeeded, and that no later failure has reached.
SuccessRestsOnSuccess ==
    \A t \in known :
        Succeeded(t) => \A d \in Deps(t) : d \in known /\ Succeeded(d)

\* mark_task_failure spreads through the graph while other workers build: it
\* never takes back a success, and no success follows a failure.
ResultsAreFinal ==
    [][\A t \in Targets : Done(t) => (Succeeded(t) <=> Succeeded(t)')]_vars

\* "build graph deadlocked" is only said of a graph with unfinished tasks
\* that wait for each other in a circle, never of one that could go on.
DeadlockIsACycle ==
    (\E w \in Workers : pc[w] = "deadlocked") =>
        \E S \in SUBSET {t \in known : ~Done(t)} :
            S # {} /\ \A t \in S : Deps(t) \cap S # {}

\* run() answers a success only when all that the roots need succeeded, a
\* failure only when a task failed, and "not all tasks finished" never.
VerdictIsTrue ==
    /\ verdict = "success" =>
           Roots \subseteq known
           /\ \A t \in known : Succeeded(t) /\ Deps(t) \subseteq known
    /\ verdict = "failure" => \E t \in known : Failed(t)
    /\ verdict # "unfinished"

\* run() returns, unless a thread panicked or the stack overflowed: no wakeup
\* is lost, and no worker waits for one that has left.
RunEnds == <>(pc[Main] = "returned" \/ poisoned \/ crashed)

\* What was built was built by a plugin that is loaded, and that was
\* registered or is itself the product of a successful build.
BuiltByALoadedPlugin ==
    \A t \in known :
        Succeeded(t) /\ config[t] # NoConfig =>
            /\ config[t].plugin \in builders
            /\ config[t].plugin \in Builtins \/ result[config[t].plugin] = "ok"

\* build() asserts "all dependencies must be succesfully built by now!".
DependenciesSucceeded ==
    \A w \in Workers :
        pc[w] = "checking" => \A d \in Deps(held[w]) : Succeeded(d)

\* A graph with a cycle is reported ("build graph deadlocked; waiting on"):
\* the run returns.
RunReturns == <>(pc[Main] = "returned")

-----------------------------------------------------------------------------
(* The inductive invariant: what ties the threads to the graph.  It holds *)
(* through a panic, after which the graph no longer changes.              *)

\* What a thread may rely on where it stands, whatever the others do.
Stages ==
    \A a \in Actors :
        /\ pc[a] = "resolving" =>
              config[held[a]] = NoConfig /\ ~Done(held[a])
        /\ pc[a] = "registering" =>
              /\ config[held[a]] = NoConfig /\ ~Succeeded(held[a])
              /\ todo[a] \subseteq Dependencies(answer[a])
              /\ \A d \in Dependencies(answer[a]) \ todo[a] :
                    held[a] \in rdeps[d]
        /\ pc[a] \in {"building", "checking"} =>
              /\ config[held[a]] # NoConfig /\ ~Succeeded(held[a])
              /\ Done(held[a]) => \E d \in Deps(held[a]) : Failed(d)
        /\ pc[a] = "compiling" =>
              /\ config[held[a]] # NoConfig /\ ~Done(held[a])
              /\ \A d \in Deps(held[a]) : Succeeded(d)

\* A task in the hands of a thread is not to be had, unless it has failed.
HeldIsTaken ==
    \A a \in Actors : Working(a) => Done(held[a]) \/ ~available[held[a]]

\* rdeps is the converse of the dependencies, up to what a resolving thread
\* has still to add.
ReverseEdges ==
    \A t, d \in Targets :
        /\ t \in rdeps[d] => t \in known /\ d \in known
        /\ config[t] # NoConfig => (t \in rdeps[d] <=> d \in Deps(t))
        /\ config[t] = NoConfig /\ t \in rdeps[d] /\ ~poisoned =>
              \E a \in Actors :
                  /\ pc[a] = "registering" /\ held[a] = t
                  /\ d \in Dependencies(answer[a]) \ todo[a]

\* Nothing is recorded of a target without a task.
Unseen ==
    \A t \in Targets \ known : config[t] = NoConfig /\ ~Done(t)

\* No worker runs before the planning is over.
Phases ==
    pc[Main] \notin {"joining", "returned"} =>
        \A w \in Workers : pc[w] = "off"

IInv ==
    /\ TypeOK
    /\ Phases
    /\ Stages
    /\ HeldIsTaken
    /\ OneHolder
    /\ ReverseEdges
    /\ Unseen
    /\ ReadyIsExact
    /\ BuildsAfterDependencies
    /\ SuccessRestsOnSuccess

\* A builder is registered or was loaded from outputs, and a task is only
\* built once its plugin is loaded.
Plugins ==
    /\ \A q \in builders : q \in Builtins \/ result[q] = "ok"
    /\ \A a \in Actors :
          pc[a] \in {"checking", "compiling"} =>
              config[held[a]].plugin \in builders
    /\ \A t \in Targets :
          Succeeded(t) /\ config[t] # NoConfig => config[t].plugin \in builders

\* The verdict comes last: what it is told of does not change any more, and
\* the last worker that leaves in peace leaves nothing unfinished.
Verdicts ==
    /\ Roots \subseteq known
    /\ verdict # "none" => pc[Main] = "returned"
    /\ pc[Main] = "returned" =>
          \A w \in Workers :
              pc[w] \in {"off", "exited", "deadlocked", "panicked"}
    /\ (\A w \in Workers : pc[w] = "exited") => AllDone

\* A thread that panicked keeps the task it held, and what it was told.
Holding(a) == Working(a) \/ pc[a] = "panicked"

\* An answer is kept from resolve()'s first to its last critical section; no
\* two threads, a panicked one included, ever have it for the same task.
Answered ==
    /\ \A a \in Actors : pc[a] = "panicked" => poisoned /\ a \in Workers
    /\ poisoned => \E w \in Workers : pc[w] = "panicked"
    /\ \A a \in Actors :
          /\ ~Holding(a) /\ pc[a] # "notify" => held[a] = NoTask
          /\ answer[a] # NoConfig =>
                \/ pc[a] \in {"registering", "panicked"}
                \/ /\ pc[a] = "notify"
                   /\ held[a] # NoTask /\ config[held[a]] # NoConfig
    /\ \A a, b \in Actors :
          a # b /\ Holding(a) /\ Holding(b) /\ held[a] # NoTask =>
              held[a] # held[b]

\* The inductive invariant of the outcome.
OutcomeInv ==
    /\ IInv
    /\ Plugins
    /\ DeadlockIsACycle
    /\ Verdicts
    /\ Answered

-----------------------------------------------------------------------------
(* No wakeup is lost: the invariant behind the end of a run *)

\* A task that is not to be had and has no result is in the hands of a thread.
TakenIsHeld ==
    ~poisoned =>
        \A t \in Targets :
            ~available[t] /\ ~Done(t) =>
                \E a \in Actors : Working(a) /\ held[a] = t

\* A thread that works, or is about to notify, comes to its notification.
Wakes(v) == Working(v) \/ pc[v] = "notify"

\* A worker only waits while another one will wake it up.
WaitersAreWoken ==
    ~poisoned /\ (\E w \in Workers : pc[w] = "waiting") =>
        \E v \in Workers : Wakes(v)

\* A worker that waits misses no task: what came up for it since then is of a
\* worker that adds the dependencies of its task, or has yet to notify.
NothingIsMissed ==
    ~poisoned /\ (\E w \in Workers : pc[w] = "waiting")
              /\ (\E t \in Targets : Candidate(t)) =>
        \E v \in Workers : pc[v] \in {"registering", "notify"}

\* The workers are there when the main thread waits for them, and are never
\* where only the main thread is.
Spawned ==
    /\ pc[Main] = "joining" => \A w \in Workers : pc[w] # "off"
    /\ \A w \in Workers : pc[w] \notin {"planning", "joining", "returned"}

\* What next_parallel_task relies on when it lets a worker wait.
NoWakeupIsLost ==
    /\ TakenIsHeld
    /\ WaitersAreWoken
    /\ NothingIsMissed
    /\ Spawned

\* As long as the main thread waits for its workers and none has panicked,
\* all have left or one has something else to do than to wait: in
\* next_parallel_task they never all sleep on the condition variable.
SomebodyMoves ==
    pc[Main] = "joining" /\ ~poisoned =>
        \/ \A w \in Workers : pc[w] \in {"exited", "deadlocked"}
        \/ \E w \in Workers : pc[w] = "idle" \/ Wakes(w)

-----------------------------------------------------------------------------
(* The executor implements the abstract build *)

\* The needs of a target are known from the answer of its resolver on, which
\* is before its task has a config.
Askers(t) == {a \in Actors : held[a] = t /\ answer[a] # NoConfig}

Needs(t) ==
    IF config[t] # NoConfig THEN Dependencies(config[t])
    ELSE IF Askers(t) = {} THEN NoConfig
    ELSE UNION {Dependencies(answer[a]) : a \in Askers(t)}

OutcomeOf(t) ==
    IF Succeeded(t) THEN "success" ELSE IF Failed(t) THEN "failure"
    ELSE "pending"

\* The state of the abstract build.
needsBar == [t \in Targets |-> Needs(t)]
outcomeBar == [t \in Targets |-> OutcomeOf(t)]
replyBar ==
    IF verdict \in {"none", "success", "failure"} THEN verdict ELSE "error"

Build == INSTANCE BuildGraph WITH
    Unknown <- NoConfig, needs <- needsBar, outcome <- outcomeBar,
    reply <- replyBar

\* Every step of the threads, with their locks, counters and wakeups, is a
\* step of the abstract build or none.
ImplementsBuild == Build!Spec

=============================================================================
