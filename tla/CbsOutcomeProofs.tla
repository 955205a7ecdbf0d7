-------------------------- MODULE CbsOutcomeProofs --------------------------
(***************************************************************************)
(* Proofs about what a run of CbsExecutor ends with: the plugins its tasks *)
(* were built by, the deadlocks it reports and what run() returns; and     *)
(* that the threads, their lock and their counters implement BuildGraph.   *)
(***************************************************************************)
EXTENDS CbsExecutorProofs, WellFoundedInduction

-----------------------------------------------------------------------------
(* What a step does to the graph and to the threads *)

\* A thread passes on the failure of the task it holds.
Failing(a) ==
    /\ ~poisoned
    /\ pc[a] \in {"resolving", "compiling"}
    /\ MarkFailure(a, held[a])
    /\ UNCHANGED <<known, config, ready, rdeps, builders, held, answer, todo,
                   poisoned, verdict>>

\* The tasks, their configs and their results.
tasks == <<known, config, result, rdeps>>

GraphMove ==
    \/ UNCHANGED tasks
    \/ \E a \in Actors : \E d \in todo[a] : AddTask(a, d)
    \/ \E a \in Actors : Commit(a)
    \/ \E a \in Actors : Failing(a)
    \/ \E w \in Workers : \E o \in {"ok", "noop"} : BuildSucceeds(w, o)

LEMMA Moves ==
    ASSUME [Next]_vars
    PROVE  GraphMove
<1>. USE DEF GraphMove, tasks
<1>1. ASSUME NEW a \in Actors, Resolve(a)
      PROVE  GraphMove
  <2>1. CASE ResolverFails(a)
    BY <2>1 DEF ResolverFails, Failing
  <2>2. CASE Notify(a) \/ \E c \in Answers[held[a]] : ResolverAnswers(a, c)
    BY <2>2 DEF Notify, ResolverAnswers, graph
  <2>. QED
    BY <1>1, <2>1, <2>2 DEF Resolve
<1>2. ASSUME NEW w \in Workers, WorkerStep(w) \/ SpuriousWakeup(w)
      PROVE  GraphMove
  <2>0. w \in Actors
    BY DEF Actors
  <2>1. CASE BuildFails(w)
    BY <2>0, <2>1 DEF BuildFails, Failing
  <2>2. CASE Resolve(w)
    BY <1>1, <2>0, <2>2
  <2>. QED
    BY <1>2, <2>1, <2>2
       DEF WorkerStep, TakeTask, Exit, Deadlock, Wait, SpuriousWakeup,
           PoisonPanic, LoadPlugin, PluginPanic, ReadDependencies,
           DependencyPanic, graph
<1>3. CASE MainStep
  <2>1. Main \in Actors
    BY DEF Actors
  <2>. QED
    BY <1>1, <1>3, <2>1
       DEF MainStep, NextPlanningTask, PlannerFails, PlanDone, Join, graph
<1>. QED
  BY <1>2, <1>3 DEF Next, Terminated, vars, graph

\* A failure leaves alone what has succeeded.
LEMMA FailingSpares ==
    ASSUME IInv, NEW a \in Actors, Failing(a)
    PROVE  /\ held[a] \in Targets /\ ~Done(held[a])
           /\ \A t \in FailedBy(held[a]) : ~Succeeded(t)
           /\ \A u \in FailedBy(held[a]) \ {held[a]} :
                 \E x \in FailedBy(held[a]) : u \in rdeps[x]
           /\ result' = result
              \/ /\ ~Endless(held[a])
                 /\ result' = [u \in Targets |->
                       IF u \in FailedBy(held[a]) THEN "failure"
                       ELSE result[u]]
<1>1. held[a] \in Targets
  BY DEF Failing, IInv, TypeOK, Working
<1>2. ~Done(held[a])
  BY DEF Failing, IInv, Stages
<1>3. ~Succeeded(held[a])
  BY <1>2 DEF Succeeded, Done
<1>4. \A t \in FailedBy(held[a]) : ~Succeeded(t)
  BY <1>1, <1>3, FailureIsLocal DEF Failing
<1>5. \A u \in FailedBy(held[a]) \ {held[a]} :
         \E x \in FailedBy(held[a]) : u \in rdeps[x]
  BY <1>1, <1>3, FailureIsLocal DEF Failing
<1>6. \/ result' = result
      \/ /\ ~Endless(held[a])
         /\ result' = [u \in Targets |->
               IF u \in FailedBy(held[a]) THEN "failure" ELSE result[u]]
  BY DEF Failing, MarkFailure
<1>. QED
  BY <1>1, <1>2, <1>4, <1>5, <1>6

\* A success is final, to its outputs.
LEMMA SuccessStays ==
    ASSUME IInv, [Next]_vars, NEW t \in Targets, Succeeded(t)
    PROVE  result'[t] = result[t]
<1>1. ASSUME NEW a \in Actors, NEW d \in todo[a], AddTask(a, d)
      PROVE  result'[t] = result[t]
  <2>1. d \in Targets
    BY DEF IInv, TypeOK
  <2>2. \/ result' = result
        \/ d \notin known /\ result' = [result EXCEPT ![d] = "noop"]
    BY <1>1 DEF AddTask
  <2>3. d \notin known => t # d
    BY <2>1 DEF IInv, Unseen, Succeeded, Done
  <2>. QED
    BY <2>1, <2>2, <2>3 DEF IInv, TypeOK
<1>2. ASSUME NEW a \in Actors, Failing(a)
      PROVE  result'[t] = result[t]
  BY <1>2, FailingSpares
<1>3. ASSUME NEW w \in Workers, NEW o \in {"ok", "noop"}, BuildSucceeds(w, o)
      PROVE  result'[t] = result[t]
  <2>1. result' = [result EXCEPT ![held[w]] = o] /\ pc[w] = "compiling"
    BY <1>3 DEF BuildSucceeds
  <2>2. w \in Actors
    BY DEF Actors
  <2>3. t # held[w]
    BY <2>1, <2>2 DEF IInv, Stages, Succeeded, Done
  <2>. QED
    BY <2>1, <2>3 DEF IInv, TypeOK
<1>. QED
  BY <1>1, <1>2, <1>3, Moves DEF GraphMove, tasks, Commit

\* So is a config.
LEMMA ConfigStays ==
    ASSUME IInv, [Next]_vars, NEW t \in Targets, config[t] # NoConfig
    PROVE  config'[t] = config[t]
<1>1. ASSUME NEW a \in Actors, Commit(a)
      PROVE  config'[t] = config[t]
  <2>1. config' = [config EXCEPT ![held[a]] = answer[a]]
        /\ pc[a] = "registering"
    BY <1>1 DEF Commit
  <2>2. t # held[a]
    BY <2>1 DEF IInv, Stages
  <2>. QED
    BY <2>1, <2>2 DEF IInv, TypeOK
<1>. QED
  BY <1>1, Moves DEF GraphMove, tasks, AddTask, Failing, BuildSucceeds

\* Every step is one of some thread.
ActorStep(a) ==
    IF a = Main THEN MainStep ELSE WorkerStep(a) \/ SpuriousWakeup(a)

LEMMA SomeActor ==
    ASSUME [Next]_vars
    PROVE  UNCHANGED vars \/ \E a \in Actors : ActorStep(a)
<1>1. MainStep => ActorStep(Main) /\ Main \in Actors
  BY DEF ActorStep, Actors
<1>2. ASSUME NEW w \in Workers, WorkerStep(w) \/ SpuriousWakeup(w)
      PROVE  w \in Actors /\ ActorStep(w)
  BY <1>2, ExecutorAssumption DEF ActorStep, Actors
<1>. QED
  BY <1>1, <1>2 DEF Next, Terminated

\* A step of one thread wakes others up, and nothing else.
LEMMA Others ==
    ASSUME IInv, NEW a \in Actors, ActorStep(a), NEW b \in Actors \ {a}
    PROVE  /\ held'[b] = held[b] /\ answer'[b] = answer[b]
           /\ todo'[b] = todo[b]
           /\ \/ pc'[b] = pc[b]
              \/ pc[b] = "waiting" /\ pc'[b] = "idle"
              \/ a = Main /\ PlanDone /\ pc[b] = "off" /\ pc'[b] = "idle"
<1>. DEFINE Alone == /\ held'[b] = held[b] /\ answer'[b] = answer[b]
                     /\ todo'[b] = todo[b]
                     /\ \/ pc'[b] = pc[b]
                        \/ pc[b] = "waiting" /\ pc'[b] = "idle"
<1>0. DOMAIN pc = Actors
  BY DEF IInv, TypeOK
<1>1. ASSUME Resolve(a)
      PROVE  Alone
  BY <1>0, <1>1 DEF Resolve, ResolverAnswers, ResolverFails, AddTask, Commit, Notify,
            MarkFailure, Goto, Woken, IInv, TypeOK
<1>2. CASE a = Main
  <2>1. CASE PlanDone
    <3>1. b \in Workers
      BY <1>2 DEF Actors
    <3>2. pc[b] = "off"
      BY <2>1, <3>1 DEF PlanDone, PlanningOver, IInv, Phases
    <3>3. UNCHANGED <<held, answer, todo>>
      BY <2>1 DEF PlanDone
    <3>4. pc' = [pc EXCEPT ![Main] = "returned"]
          \/ pc' = [c \in Actors |-> IF c = Main THEN "joining" ELSE "idle"]
      BY <2>1 DEF PlanDone, Goto
    <3>5. pc'[b] = pc[b] \/ pc'[b] = "idle"
      BY <1>0, <1>2, <3>4
    <3>. QED
      BY <1>2, <2>1, <3>2, <3>3, <3>5
  <2>2. CASE \E t \in Targets : NextPlanningTask(t)
    BY <1>0, <1>2, <2>2 DEF NextPlanningTask, Goto, IInv, TypeOK
  <2>3. CASE PlannerFails \/ Join
    BY <1>0, <1>2, <2>3 DEF PlannerFails, Join, Goto
  <2>. QED
    BY <1>1, <1>2, <2>1, <2>2, <2>3 DEF ActorStep, MainStep
<1>3. CASE a # Main
  <2>1. CASE \E t \in Targets : TakeTask(a, t)
    BY <1>0, <1>3, <2>1 DEF TakeTask, Goto, IInv, TypeOK
  <2>2. CASE Exit(a) \/ Deadlock(a) \/ Wait(a) \/ SpuriousWakeup(a)
             \/ PoisonPanic(a)
    BY <1>0, <1>3, <2>2 DEF Exit, Deadlock, Wait, SpuriousWakeup, PoisonPanic,
                            Goto, Woken
  <2>3. CASE LoadPlugin(a) \/ PluginPanic(a) \/ ReadDependencies(a)
             \/ DependencyPanic(a)
    BY <1>0, <1>3, <2>3 DEF LoadPlugin, PluginPanic, ReadDependencies,
                            DependencyPanic, Panic, Goto
  <2>4. CASE BuildFails(a) \/ \E o \in {"ok", "noop"} : BuildSucceeds(a, o)
    BY <1>0, <1>3, <2>4 DEF BuildFails, BuildSucceeds, MarkFailure, Goto
  <2>. QED
    BY <1>1, <1>3, <2>1, <2>2, <2>3, <2>4 DEF ActorStep, WorkerStep
<1>. QED
  BY <1>2, <1>3

-----------------------------------------------------------------------------
(* Plugins *)

LEMMA PluginsInit == Init => Plugins
<1>. SUFFICES ASSUME Init PROVE Plugins
  OBVIOUS
<1>1. \A a \in Actors : pc[a] \in {"planning", "off"}
  BY DEF Init
<1>2. builders = Builtins /\ \A t \in Targets : config[t] = NoConfig
  BY DEF Init
<1>. QED
  BY <1>1, <1>2 DEF Plugins

\* How a thread gets to where the plugin of its task must be loaded.
LEMMA Building2 ==
    ASSUME IInv, [Next]_vars, NEW a \in Actors,
           pc'[a] \in {"checking", "compiling"}
    PROVE  /\ held'[a] = held[a]
           /\ pc[a] \in {"checking", "compiling"} \/ LoadPlugin(a)
<1>0. DOMAIN pc = Actors /\ DOMAIN held = Actors
  BY DEF IInv, TypeOK
<1>1. CASE UNCHANGED vars
  BY <1>1 DEF vars, thread
<1>2. ASSUME NEW b \in Actors \ {a}, ActorStep(b)
      PROVE  held'[a] = held[a] /\ pc[a] \in {"checking", "compiling"}
  BY <1>2, Others
<1>3. ASSUME ActorStep(a)
      PROVE  held'[a] = held[a]
             /\ (pc[a] \in {"checking", "compiling"} \/ LoadPlugin(a))
  <2>1. ~Resolve(a)
    BY <1>0 DEF Resolve, ResolverAnswers, ResolverFails, AddTask, Commit,
                Notify, LoopTop, MarkFailure, Goto, Woken
  <2>2. a # Main
    BY <1>0, <1>3, <2>1 DEF ActorStep, MainStep, NextPlanningTask,
                            PlannerFails, PlanDone, Join, Goto
  <2>3. ~((\E t \in Targets : TakeTask(a, t)) \/ Exit(a) \/ Deadlock(a)
          \/ Wait(a) \/ SpuriousWakeup(a) \/ PoisonPanic(a))
    BY <1>0 DEF TakeTask, Exit, Deadlock, Wait, SpuriousWakeup, PoisonPanic,
                Goto, Woken
  <2>4. ~(PluginPanic(a) \/ DependencyPanic(a))
    BY <1>0 DEF PluginPanic, DependencyPanic, Panic, Goto
  <2>5. LoadPlugin(a) \/ ReadDependencies(a) \/ BuildFails(a)
        \/ \E o \in {"ok", "noop"} : BuildSucceeds(a, o)
    BY <1>3, <2>1, <2>2, <2>3, <2>4 DEF ActorStep, WorkerStep
  <2>. QED
    BY <2>5 DEF LoadPlugin, ReadDependencies, BuildFails, BuildSucceeds
<1>. QED
  BY <1>1, <1>2, <1>3, SomeActor

LEMMA PluginsStep ==
    ASSUME IInv, IInv', Plugins, [Next]_vars
    PROVE  Plugins'
<1>1. \/ builders' = builders
      \/ \E w \in Workers : LoadPlugin(w)
  <2>1. ASSUME NEW a \in Actors, Resolve(a)
        PROVE  builders' = builders
    BY <2>1 DEF Resolve, ResolverAnswers, ResolverFails, AddTask, Commit,
                Notify
  <2>2. ASSUME NEW w \in Workers, WorkerStep(w) \/ SpuriousWakeup(w)
        PROVE  builders' = builders \/ LoadPlugin(w)
    <3>1. w \in Actors
      BY DEF Actors
    <3>. QED
      BY <2>1, <2>2, <3>1
         DEF WorkerStep, TakeTask, Exit, Deadlock, Wait, SpuriousWakeup,
             PoisonPanic, PluginPanic, ReadDependencies, DependencyPanic,
             BuildSucceeds, BuildFails
  <2>3. CASE MainStep
    <3>1. Main \in Actors
      BY DEF Actors
    <3>. QED
      BY <2>1, <2>3, <3>1 DEF MainStep, NextPlanningTask, PlannerFails,
                              PlanDone, Join
  <2>. QED
    BY <2>2, <2>3 DEF Next, Terminated, vars
<1>2. \A w \in Workers : LoadPlugin(w) =>
         /\ result' = result
         /\ config[held[w]].plugin \in builders
            \/ result[config[held[w]].plugin] = "ok"
         /\ builders' = builders \cup {config[held[w]].plugin}
  BY DEF LoadPlugin, graph
<1>3. builders \subseteq builders'
  BY <1>1, <1>2
<1>4. ASSUME NEW q \in builders'
      PROVE  q \in Builtins \/ result'[q] = "ok"
  <2>1. q \in Targets
    BY DEF IInv, TypeOK
  <2>2. q \in Builtins \/ result[q] = "ok"
    BY <1>1, <1>2, <1>4 DEF Plugins
  <2>. QED
    BY <2>1, <2>2, SuccessStays DEF Succeeded
<1>5. ASSUME NEW a \in Actors, pc'[a] \in {"checking", "compiling"}
      PROVE  config'[held'[a]].plugin \in builders'
  <2>1. /\ held'[a] = held[a]
        /\ pc[a] \in {"checking", "compiling"} \/ LoadPlugin(a)
    BY <1>5, Building2
  <2>2. pc[a] \in {"building", "checking", "compiling"}
    BY <2>1 DEF LoadPlugin
  <2>3. held[a] \in Targets /\ config[held[a]] # NoConfig
    BY <2>2 DEF IInv, TypeOK, Working, Stages
  <2>4. config'[held[a]] = config[held[a]]
    BY <2>3, ConfigStays
  <2>5. CASE pc[a] \in {"checking", "compiling"}
    BY <1>3, <2>1, <2>4, <2>5 DEF Plugins
  <2>6. CASE LoadPlugin(a)
    BY <2>1, <2>4, <2>6 DEF LoadPlugin
  <2>. QED
    BY <2>1, <2>5, <2>6
<1>6. ASSUME NEW t \in Targets, Succeeded(t)', config'[t] # NoConfig
      PROVE  config'[t].plugin \in builders'
  <2>1. CASE Succeeded(t) /\ config[t] # NoConfig
    BY <1>3, <2>1, ConfigStays DEF Plugins
  <2>2. CASE ~(Succeeded(t) /\ config[t] # NoConfig)
    <3>1. ASSUME NEW a \in Actors, NEW d \in todo[a], AddTask(a, d)
          PROVE  FALSE
      <4>1. d \in Targets /\ config' = config
        BY <3>1 DEF AddTask, IInv, TypeOK
      <4>2. \/ result' = result
            \/ d \notin known /\ result' = [result EXCEPT ![d] = "noop"]
        BY <3>1 DEF AddTask
      <4>3. d \notin known => config[d] = NoConfig
        BY <4>1 DEF IInv, Unseen
      <4>. QED
        BY <1>6, <2>2, <4>1, <4>2, <4>3 DEF Succeeded, IInv, TypeOK
    <3>2. ASSUME NEW a \in Actors, Commit(a)
          PROVE  FALSE
      <4>1. /\ config' = [config EXCEPT ![held[a]] = answer[a]]
            /\ result' = result /\ pc[a] = "registering"
        BY <3>2 DEF Commit
      <4>2. ~Succeeded(held[a])
        BY <4>1 DEF IInv, Stages
      <4>. QED
        BY <1>6, <2>2, <4>1, <4>2 DEF Succeeded, IInv, TypeOK
    <3>3. ASSUME NEW a \in Actors, Failing(a)
          PROVE  FALSE
      <4>1. config' = config
        BY <3>3 DEF Failing
      <4>2. ~Succeeded(t) => ~Succeeded(t)'
        BY <3>3, FailingSpares DEF Succeeded
      <4>. QED
        BY <1>6, <2>2, <4>1, <4>2
    <3>4. ASSUME NEW w \in Workers, NEW o \in {"ok", "noop"},
                 BuildSucceeds(w, o)
          PROVE  config'[t].plugin \in builders'
      <4>1. /\ pc[w] = "compiling" /\ config' = config
            /\ result' = [result EXCEPT ![held[w]] = o]
        BY <3>4 DEF BuildSucceeds
      <4>2. w \in Actors
        BY DEF Actors
      <4>3. config[held[w]].plugin \in builders
        BY <4>1, <4>2 DEF Plugins
      <4>4. t = held[w]
        BY <1>6, <2>2, <4>1 DEF Succeeded, IInv, TypeOK
      <4>. QED
        BY <1>3, <4>1, <4>3, <4>4
    <3>5. CASE UNCHANGED tasks
      BY <1>6, <2>2, <3>5 DEF tasks, Succeeded
    <3>. QED
      BY <3>1, <3>2, <3>3, <3>4, <3>5, Moves DEF GraphMove
  <2>. QED
    BY <2>1, <2>2
<1>. QED
  BY <1>4, <1>5, <1>6 DEF Plugins

LEMMA PluginsLoaded ==
    ASSUME IInv, Plugins
    PROVE  BuiltByALoadedPlugin
<1>. SUFFICES ASSUME NEW t \in known, Succeeded(t), config[t] # NoConfig
              PROVE  /\ config[t].plugin \in builders
                     /\ config[t].plugin \in Builtins
                        \/ result[config[t].plugin] = "ok"
  BY DEF BuiltByALoadedPlugin
<1>1. t \in Targets
  BY DEF IInv, TypeOK
<1>2. config[t].plugin \in builders
  BY <1>1 DEF Plugins
<1>. QED
  BY <1>2 DEF Plugins

-----------------------------------------------------------------------------
(* Deadlocks *)

\* Tasks that wait for each other, each for another one of them.
Circle(S) ==
    /\ S \subseteq {t \in known : ~Done(t)}
    /\ S # {}
    /\ \A t \in S : Deps(t) \cap S # {}

\* When nothing runs and nothing can be taken, all that is unfinished waits.
LEMMA StuckIsACircle ==
    ASSUME IInv, ~AllDone, ~Running, ~\E t \in Targets : Candidate(t)
    PROVE  Circle({t \in known : ~Done(t)})
<1>. DEFINE S == {t \in known : ~Done(t)}
<1>1. S # {}
  BY DEF AllDone
<1>2. ASSUME NEW t \in S
      PROVE  Deps(t) \cap S # {}
  <2>1. t \in known /\ t \in Targets /\ ~Done(t)
    BY DEF IInv, TypeOK
  <2>2. ~Resolving(t) /\ ~Building(t)
    BY <2>1 DEF Candidate, Running, IInv, TypeOK
  <2>3. config[t] # NoConfig /\ ~(ready[t] >= Cardinality(Deps(t)))
    BY <2>1, <2>2 DEF Resolving, Building
  <2>4. ready[t] = DoneIn(Deps(t))
    BY <2>1, <2>3 DEF IInv, ReadyIsExact
  <2>5. PICK d \in Deps(t) : ~Done(d)
    <3>1. SUFFICES ASSUME \A d \in Deps(t) : Done(d) PROVE FALSE
      OBVIOUS
    <3>2. {d \in Deps(t) : Done(d)} = Deps(t)
      BY <3>1
    <3>3. Cardinality(Deps(t)) \in Nat
      BY <2>1, DepsType, ExecutorAssumption, FS_Subset, FS_CardinalityType
         DEF IInv
    <3>. QED
      BY <2>3, <2>4, <3>2, <3>3 DEF DoneIn
  <2>6. d \in Targets
    BY <2>1, DepsType DEF IInv
  <2>7. d \in known
    BY <2>1, <2>3, <2>6 DEF IInv, ReverseEdges
  <2>. QED
    BY <2>5, <2>7
<1>. QED
  BY <1>1, <1>2 DEF Circle

\* A failure that reaches every task of a circle comes back to one of them.
LEMMA CircleIsEndless ==
    ASSUME IInv, NEW S, Circle(S), NEW t0 \in Targets, S \subseteq FailedBy(t0)
    PROVE  Endless(t0)
<1>. SUFFICES ASSUME ~Endless(t0) PROVE FALSE
  OBVIOUS
<1>. DEFINE Spared(t) == Targets \ FailedBy(t)
            T == {Spared(t) : t \in S}
            R == StrictSubsetOrdering(Targets)
<1>1. S \subseteq Targets /\ TypeOK
  BY DEF Circle, IInv, TypeOK
<1>2. IsWellFoundedOn(R, FiniteSubsetsOf(Targets))
  BY FS_StrictSubsetOrderingWellFounded
<1>3. T \subseteq FiniteSubsetsOf(Targets)
  BY ExecutorAssumption, FS_Subset DEF FiniteSubsetsOf
<1>4. T # {}
  BY DEF Circle
<1>5. PICK x \in T : \A y \in T : ~(<<y, x>> \in R)
  <2>. HIDE DEF T, R
  <2>. QED
    BY <1>2, <1>3, <1>4, WFMin
<1>6. PICK t \in S : x = Spared(t)
  OBVIOUS
<1>7. PICK d \in S : d \in Deps(t)
  BY DEF Circle
<1>8. t \in rdeps[d]
  <2>1. config[t] # NoConfig
    BY <1>7 DEF Deps
  <2>. QED
    BY <1>1, <1>7, <2>1 DEF IInv, ReverseEdges
<1>9. d \notin FailedBy(t)
  BY <1>8 DEF Endless
<1>10. FailedBy(t) \subseteq FailedBy(d)
  <2>1. d \in FailedBy(d) /\ \A u \in FailedBy(d) : rdeps[u] \subseteq FailedBy(d)
    BY <1>1, FailureCloses
  <2>2. t \in FailedBy(d) /\ FailedBy(d) \subseteq Targets
    BY <1>8, <2>1 DEF FailedBy
  <2>. QED
    BY <2>1, <2>2, FailureIsLeast
<1>11. d \in FailedBy(d) /\ d \in Targets
  BY <1>1, FailureCloses
<1>12. <<Spared(d), Spared(t)>> \in R
  <2>1. Spared(d) \subseteq Spared(t) /\ Spared(d) # Spared(t)
    BY <1>9, <1>10, <1>11
  <2>. QED
    BY <2>1 DEF StrictSubsetOrdering
<1>. QED
  BY <1>5, <1>6, <1>12


\* A circle stays one, or what is left of it does: no step resolves, builds
\* or fails the last of its tasks.
LEMMA CircleStays ==
    ASSUME IInv, [Next]_vars, NEW S, Circle(S)
    PROVE  \E Q : Circle(Q)'
<1>0. S \subseteq known /\ S \subseteq Targets /\ known \subseteq Targets
  BY DEF Circle, IInv, TypeOK
<1>1. ASSUME \A t \in S : ~Done(t)' /\ Deps(t)' = Deps(t),
             known \subseteq known'
      PROVE  Circle(S)'
  BY <1>0, <1>1 DEF Circle
<1>2. CASE UNCHANGED tasks
  BY <1>1, <1>2 DEF tasks, Circle, Done, Deps
<1>3. ASSUME NEW a \in Actors, NEW d \in todo[a], AddTask(a, d)
      PROVE  Circle(S)'
  <2>1. d \in Targets /\ config' = config /\ known \subseteq known'
    BY <1>3 DEF AddTask, IInv, TypeOK
  <2>2. \/ result' = result
        \/ d \notin known /\ result' = [result EXCEPT ![d] = "noop"]
    BY <1>3 DEF AddTask
  <2>3. \A t \in S : result'[t] = result[t]
    BY <1>0, <2>1, <2>2 DEF IInv, TypeOK
  <2>. QED
    BY <1>1, <2>1, <2>3 DEF Circle, Done, Deps
<1>4. ASSUME NEW a \in Actors, Commit(a)
      PROVE  Circle(S)'
  <2>1. /\ config' = [config EXCEPT ![held[a]] = answer[a]]
        /\ result' = result /\ known' = known /\ pc[a] = "registering"
    BY <1>4 DEF Commit
  <2>2. config[held[a]] = NoConfig
    BY <2>1 DEF IInv, Stages
  <2>3. held[a] \notin S
    BY <2>2 DEF Circle, Deps
  <2>4. \A t \in S : config'[t] = config[t]
    BY <1>0, <2>1, <2>3 DEF IInv, TypeOK
  <2>. QED
    BY <1>1, <2>1, <2>4 DEF Circle, Done, Deps
<1>5. ASSUME NEW w \in Workers, NEW o \in {"ok", "noop"}, BuildSucceeds(w, o)
      PROVE  Circle(S)'
  <2>1. /\ result' = [result EXCEPT ![held[w]] = o]
        /\ config' = config /\ known' = known /\ pc[w] = "compiling"
    BY <1>5 DEF BuildSucceeds
  <2>2. \A d \in Deps(held[w]) : Succeeded(d)
    BY <2>1 DEF IInv, Stages, Actors
  <2>3. held[w] \notin S
    BY <2>2 DEF Circle, Succeeded, Done
  <2>4. \A t \in S : result'[t] = result[t]
    BY <1>0, <2>1, <2>3 DEF IInv, TypeOK
  <2>. QED
    BY <1>1, <2>1, <2>4 DEF Circle, Done, Deps
<1>6. ASSUME NEW a \in Actors, Failing(a)
      PROVE  \E Q : Circle(Q)'
  <2>. DEFINE F == FailedBy(held[a])
  <2>. PICK Q : Q = S \ F
    OBVIOUS
  <2>1. config' = config /\ known' = known
    BY <1>6 DEF Failing
  <2>2. CASE result' = result
    BY <1>1, <2>1, <2>2 DEF Circle, Done, Deps
  <2>3. CASE ~Endless(held[a]) /\ result' = [u \in Targets |->
                 IF u \in F THEN "failure" ELSE result[u]]
    <3>1. held[a] \in Targets
      BY <1>6, FailingSpares
    <3>2. Q # {}
      BY <2>3, <3>1, CircleIsEndless
    <3>3. \A t \in Q : ~Done(t)'
      BY <1>0, <2>3 DEF Circle, Done
    <3>4. ASSUME NEW t \in Q
          PROVE  Deps(t) \cap Q # {}
      <4>1. PICK d \in S : d \in Deps(t)
        BY DEF Circle
      <4>2. t \in rdeps[d]
        <5>1. config[t] # NoConfig
          BY <4>1 DEF Deps
        <5>. QED
          BY <1>0, <4>1, <5>1 DEF IInv, ReverseEdges
      <4>3. d \notin F
        <5>1. \A u \in F : rdeps[u] \subseteq F
          BY <3>1, FailureCloses DEF IInv
        <5>. QED
          BY <4>2, <5>1
      <4>. QED
        BY <4>1, <4>3
    <3>5. \A t \in Q : Deps(t)' = Deps(t)
      BY <2>1 DEF Deps
    <3>6. Circle(Q)'
      BY <1>0, <2>1, <3>2, <3>3, <3>4, <3>5 DEF Circle
    <3>. QED
      BY <3>6
  <2>. QED
    BY <1>6, <2>2, <2>3, FailingSpares
<1>. QED
  BY <1>2, <1>3, <1>4, <1>5, <1>6, Moves DEF GraphMove

LEMMA DeadlockCircle ==
    DeadlockIsACycle <=>
        ((\E w \in Workers : pc[w] = "deadlocked") => \E S : Circle(S))
BY DEF DeadlockIsACycle, Circle

\* A thread only reports a deadlock when it finds one.
LEMMA Reports ==
    ASSUME IInv, [Next]_vars, NEW w \in Workers, pc'[w] = "deadlocked"
    PROVE  pc[w] = "deadlocked" \/ Deadlock(w)
<1>0. DOMAIN pc = Actors /\ w \in Actors /\ w # Main
  BY ExecutorAssumption DEF IInv, TypeOK, Actors
<1>1. CASE UNCHANGED vars
  BY <1>1 DEF vars, thread
<1>2. ASSUME NEW b \in Actors \ {w}, ActorStep(b)
      PROVE  pc[w] = "deadlocked"
  BY <1>0, <1>2, Others
<1>3. ASSUME ActorStep(w)
      PROVE  pc[w] = "deadlocked" \/ Deadlock(w)
  <2>1. ~(Resolve(w) /\ pc[w] # "deadlocked")
    BY <1>0 DEF Resolve, ResolverAnswers, ResolverFails, AddTask, Commit,
                Notify, LoopTop, MarkFailure, Goto, Woken
  <2>2. ~((\E t \in Targets : TakeTask(w, t)) \/ Exit(w)
          \/ Wait(w) \/ SpuriousWakeup(w) \/ PoisonPanic(w))
    BY <1>0 DEF TakeTask, Exit, Wait, SpuriousWakeup, PoisonPanic, Goto
  <2>3. ~((LoadPlugin(w) \/ PluginPanic(w) \/ ReadDependencies(w)
           \/ DependencyPanic(w) \/ BuildFails(w)
           \/ \E o \in {"ok", "noop"} : BuildSucceeds(w, o)))
    BY <1>0 DEF LoadPlugin, PluginPanic, ReadDependencies, DependencyPanic,
                BuildFails, BuildSucceeds, MarkFailure, Panic, Goto
  <2>. QED
    BY <1>0, <1>3, <2>1, <2>2, <2>3 DEF ActorStep, WorkerStep
<1>. QED
  BY <1>0, <1>1, <1>2, <1>3, SomeActor

LEMMA DeadlockStep ==
    ASSUME IInv, [Next]_vars, DeadlockIsACycle
    PROVE  DeadlockIsACycle'
<1>. SUFFICES ASSUME NEW w \in Workers, pc'[w] = "deadlocked"
              PROVE  \E S : Circle(S)'
  BY DEF DeadlockIsACycle, Circle
<1>1. \E S : Circle(S)
  <2>1. CASE pc[w] = "deadlocked"
    BY <2>1, DeadlockCircle
  <2>2. CASE Deadlock(w)
    BY <2>2, StuckIsACircle DEF Deadlock, NothingToTake
  <2>. QED
    BY <2>1, <2>2, Reports
<1>. QED
  BY <1>1, CircleStays

LEMMA DeadlockInit == Init => DeadlockIsACycle
<1>. SUFFICES ASSUME Init PROVE DeadlockIsACycle
  OBVIOUS
<1>1. \A w \in Workers : pc[w] # "deadlocked"
  BY DEF Init, Actors
<1>. QED
  BY <1>1 DEF DeadlockIsACycle


-----------------------------------------------------------------------------
(* What run() returns *)

LEMMA KnownGrows ==
    ASSUME [Next]_vars
    PROVE  known \subseteq known'
BY Moves DEF GraphMove, tasks, AddTask, Commit, Failing, BuildSucceeds

\* A worker that has left does nothing any more.
LEMMA WorkerRuns ==
    ASSUME NEW w \in Workers, WorkerStep(w) \/ SpuriousWakeup(w)
    PROVE  pc[w] \notin {"off", "exited", "deadlocked", "panicked"}
BY DEF WorkerStep, TakeTask, Exit, Deadlock, Wait, NothingToTake,
       SpuriousWakeup, PoisonPanic, Locking, Resolve, ResolverAnswers,
       ResolverFails, AddTask, Commit, Notify, LoadPlugin, PluginPanic,
       ReadDependencies, DependencyPanic, BuildSucceeds, BuildFails

\* Where the main thread is when it does something.
LEMMA MainRuns ==
    ASSUME MainStep
    PROVE  /\ pc[Main] # "returned"
           /\ pc[Main] = "joining" => Join
BY DEF MainStep, NextPlanningTask, Resolve, ResolverAnswers, ResolverFails,
       AddTask, Commit, Notify, PlannerFails, PlanDone, PlanningOver, Join

\* Once run() has returned nothing happens any more.
LEMMA ReturnedIsQuiet ==
    ASSUME IInv, Verdicts, [Next]_vars, pc[Main] = "returned"
    PROVE  UNCHANGED vars
<1>1. ASSUME NEW w \in Workers, WorkerStep(w) \/ SpuriousWakeup(w)
      PROVE  FALSE
  BY <1>1, WorkerRuns DEF Verdicts
<1>2. ~MainStep
  BY MainRuns
<1>. QED
  BY <1>1, <1>2 DEF Next, Terminated

\* A worker only leaves in peace when everything is done.
LEMMA Leaves ==
    ASSUME IInv, [Next]_vars, NEW w \in Workers, pc'[w] = "exited"
    PROVE  pc[w] = "exited" \/ Exit(w)
<1>0. DOMAIN pc = Actors /\ w \in Actors /\ w # Main
  BY ExecutorAssumption DEF IInv, TypeOK, Actors
<1>1. CASE UNCHANGED vars
  BY <1>1 DEF vars, thread
<1>2. ASSUME NEW b \in Actors \ {w}, ActorStep(b)
      PROVE  pc[w] = "exited"
  BY <1>0, <1>2, Others
<1>3. ASSUME ActorStep(w)
      PROVE  pc[w] = "exited" \/ Exit(w)
  <2>1. ~(Resolve(w) /\ pc[w] # "exited")
    BY <1>0 DEF Resolve, ResolverAnswers, ResolverFails, AddTask, Commit,
                Notify, LoopTop, MarkFailure, Goto, Woken
  <2>2. ~((\E t \in Targets : TakeTask(w, t)) \/ Deadlock(w)
          \/ Wait(w) \/ SpuriousWakeup(w) \/ PoisonPanic(w))
    BY <1>0 DEF TakeTask, Deadlock, Wait, SpuriousWakeup, PoisonPanic, Goto,
                Woken
  <2>3. ~((LoadPlugin(w) \/ PluginPanic(w) \/ ReadDependencies(w)
           \/ DependencyPanic(w) \/ BuildFails(w)
           \/ \E o \in {"ok", "noop"} : BuildSucceeds(w, o)))
    BY <1>0 DEF LoadPlugin, PluginPanic, ReadDependencies, DependencyPanic,
                BuildFails, BuildSucceeds, MarkFailure, Panic, Goto
  <2>. QED
    BY <1>0, <1>3, <2>1, <2>2, <2>3 DEF ActorStep, WorkerStep
<1>. QED
  BY <1>0, <1>1, <1>2, <1>3, SomeActor

\* The main thread returns from its planning, while no worker exists, or
\* after it has joined all of them.
LEMMA Returns ==
    ASSUME IInv, [Next]_vars, pc'[Main] = "returned"
    PROVE  pc[Main] = "returned" \/ PlannerFails \/ PlanDone \/ Join
<1>0. DOMAIN pc = Actors /\ Main \in Actors
  BY DEF IInv, TypeOK, Actors
<1>1. CASE UNCHANGED vars
  BY <1>1 DEF vars, thread
<1>2. ASSUME NEW w \in Actors \ {Main}, ActorStep(w)
      PROVE  pc[Main] = "returned"
  BY <1>0, <1>2, Others
<1>3. ASSUME MainStep
      PROVE  pc[Main] = "returned" \/ PlannerFails \/ PlanDone \/ Join
  <2>1. ~(Resolve(Main) /\ pc[Main] # "returned")
    BY <1>0 DEF Resolve, ResolverAnswers, ResolverFails, AddTask, Commit,
                Notify, LoopTop, MarkFailure, Goto, Woken
  <2>2. ~\E t \in Targets : NextPlanningTask(t)
    BY <1>0 DEF NextPlanningTask, Goto
  <2>. QED
    BY <1>3, <2>1, <2>2 DEF MainStep
<1>. QED
  BY <1>0, <1>1, <1>2, <1>3, SomeActor DEF ActorStep

\* Only the main thread gives a verdict, as it returns.
LEMMA VerdictMoves ==
    ASSUME [Next]_vars, verdict' # verdict
    PROVE  PlannerFails \/ PlanDone \/ Join
<1>1. ASSUME NEW a \in Actors, Resolve(a)
      PROVE  verdict' = verdict
  BY <1>1 DEF Resolve, ResolverAnswers, ResolverFails, AddTask, Commit, Notify
<1>2. ASSUME NEW w \in Workers, WorkerStep(w) \/ SpuriousWakeup(w)
      PROVE  verdict' = verdict
  <2>1. w \in Actors
    BY DEF Actors
  <2>. QED
    BY <1>1, <1>2, <2>1
       DEF WorkerStep, TakeTask, Exit, Deadlock, Wait, SpuriousWakeup,
           PoisonPanic, LoadPlugin, PluginPanic, ReadDependencies,
           DependencyPanic, BuildSucceeds, BuildFails
<1>3. CASE MainStep
  <2>1. Main \in Actors
    BY DEF Actors
  <2>. QED
    BY <1>1, <1>3, <2>1 DEF MainStep, NextPlanningTask
<1>. QED
  BY <1>2, <1>3 DEF Next, Terminated, vars

LEMMA VerdictsInit == Init => Verdicts /\ VerdictIsTrue
<1>. SUFFICES ASSUME Init PROVE Verdicts /\ VerdictIsTrue
  OBVIOUS
<1>1. \A w \in Workers : pc[w] # "exited"
  BY ExecutorAssumption DEF Init, Actors
<1>2. pc[Main] = "planning" /\ verdict = "none" /\ known = Roots
  BY DEF Init, Actors
<1>. QED
  BY <1>1, <1>2, ExecutorAssumption DEF Verdicts, VerdictIsTrue

LEMMA VerdictsStep ==
    ASSUME IInv, Verdicts, [Next]_vars
    PROVE  Verdicts'
<1>0. Main \in Actors /\ Workers \subseteq Actors /\ Main \notin Workers
      /\ DOMAIN pc = Actors
  BY ExecutorAssumption DEF Actors, IInv, TypeOK
<1>1. Roots \subseteq known'
  BY KnownGrows DEF Verdicts
<1>2. CASE pc[Main] = "returned"
  <2>1. UNCHANGED vars
    BY <1>2, ReturnedIsQuiet
  <2>. QED
    BY <2>1 DEF vars, graph, thread, Verdicts, AllDone, Done
<1>3. CASE pc[Main] # "returned"
  <2>1. verdict' # "none" => pc'[Main] = "returned"
    <3>1. SUFFICES ASSUME verdict' # "none" PROVE pc'[Main] = "returned"
      OBVIOUS
    <3>2. verdict = "none"
      BY <1>3 DEF Verdicts
    <3>3. PlannerFails \/ PlanDone \/ Join
      BY <3>1, <3>2, VerdictMoves
    <3>. QED
      BY <1>0, <3>1, <3>2, <3>3 DEF PlannerFails, PlanDone, Join, Goto
  <2>2. ASSUME pc'[Main] = "returned", NEW w \in Workers
        PROVE  pc'[w] \in {"off", "exited", "deadlocked", "panicked"}
    <3>1. CASE PlannerFails \/ PlanDone
      <4>1. pc[Main] = "planning"
        BY <3>1 DEF PlannerFails, PlanDone, PlanningOver
      <4>2. pc[w] = "off"
        BY <4>1 DEF IInv, Phases
      <4>3. pc' = [pc EXCEPT ![Main] = "returned"]
        BY <1>0, <2>2, <3>1 DEF PlannerFails, PlanDone, Goto
      <4>. QED
        BY <1>0, <4>2, <4>3
    <3>2. CASE Join
      BY <1>0, <3>2 DEF Join, Goto
    <3>. QED
      BY <1>3, <2>2, <3>1, <3>2, Returns
  <2>3. ASSUME \A w \in Workers : pc'[w] = "exited"
        PROVE  AllDone'
    <3>1. CASE \E w \in Workers : pc[w] # "exited"
      <4>1. PICK w \in Workers : Exit(w)
        BY <2>3, <3>1, Leaves
      <4>. QED
        BY <4>1 DEF Exit, AllDone, Done, graph
    <3>2. CASE \A w \in Workers : pc[w] = "exited"
      <4>1. ASSUME NEW w \in Workers, WorkerStep(w) \/ SpuriousWakeup(w)
            PROVE  FALSE
        BY <3>2, <4>1, WorkerRuns
      <4>2. pc[Main] = "joining"
        BY <1>3, <3>2, ExecutorAssumption DEF IInv, Phases
      <4>3. UNCHANGED graph
        <5>1. MainStep => Join
          BY <4>2, MainRuns
        <5>. QED
          BY <4>1, <5>1 DEF Join, Next, Terminated, vars
      <4>. QED
        BY <3>2, <4>3 DEF Verdicts, AllDone, Done, graph
    <3>. QED
      BY <3>1, <3>2
  <2>. QED
    BY <1>1, <2>1, <2>2, <2>3 DEF Verdicts
<1>. QED
  BY <1>2, <1>3

\* When everything is done, what collect_results answers is true.
LEMMA CollectedIsTrue ==
    ASSUME IInv, AllDone, NEW v \in Collected
    PROVE  /\ v \in {"success", "failure"}
           /\ v = "success" =>
                 \A t \in known : Succeeded(t) /\ Deps(t) \subseteq known
           /\ v = "failure" => \E t \in known : Failed(t)
<1>1. \A t \in known : Done(t) /\ t \in Targets
  BY DEF AllDone, IInv, TypeOK
<1>2. v \in {"success", "failure"}
  BY <1>1 DEF Collected
<1>3. v = "failure" => \E t \in known : Failed(t)
  BY <1>1 DEF Collected
<1>4. ASSUME v = "success", NEW t \in known
      PROVE  Succeeded(t) /\ Deps(t) \subseteq known
  <2>1. ~Failed(t)
    BY <1>4 DEF Collected
  <2>2. Succeeded(t)
    BY <1>1, <2>1 DEF Done, Failed, Succeeded, IInv, TypeOK
  <2>. QED
    BY <2>2 DEF IInv, SuccessRestsOnSuccess
<1>. QED
  BY <1>2, <1>3, <1>4

LEMMA VerdictIsTrueStep ==
    ASSUME IInv, Verdicts, VerdictIsTrue, [Next]_vars
    PROVE  VerdictIsTrue'
<1>1. CASE pc[Main] = "returned"
  <2>1. UNCHANGED vars
    BY <1>1, ReturnedIsQuiet
  <2>. QED
    BY <2>1 DEF vars, graph, VerdictIsTrue, Succeeded, Failed, Deps
<1>2. CASE pc[Main] # "returned" /\ verdict' = verdict
  BY <1>2 DEF Verdicts, VerdictIsTrue
<1>3. CASE pc[Main] # "returned" /\ verdict' # verdict
  <2>1. UNCHANGED graph
    BY <1>3, VerdictMoves DEF PlannerFails, PlanDone, Join
  <2>2. \/ verdict' \in Collected /\ AllDone
        \/ verdict' \in {"planning failed", "deadlocked", "panicked"}
    <3>1. CASE PlannerFails
      BY <3>1 DEF PlannerFails
    <3>2. CASE PlanDone
      BY <1>3, <3>2 DEF PlanDone
    <3>3. CASE Join
      <4>1. CASE \A w \in Workers : pc[w] = "exited"
        BY <3>3, <4>1 DEF Join, Verdicts
      <4>2. CASE ~\A w \in Workers : pc[w] = "exited"
        BY <3>3, <4>2 DEF Join
      <4>. QED
        BY <4>1, <4>2
    <3>. QED
      BY <1>3, <3>1, <3>2, <3>3, VerdictMoves
  <2>3. Roots \subseteq known'
    BY KnownGrows DEF Verdicts
  <2>4. CASE verdict' \in Collected /\ AllDone
    <3>1. /\ verdict' \in {"success", "failure"}
          /\ verdict' = "success" =>
                \A t \in known : Succeeded(t) /\ Deps(t) \subseteq known
          /\ verdict' = "failure" => \E t \in known : Failed(t)
      BY <2>4, CollectedIsTrue
    <3>. QED
      BY <2>1, <2>3, <3>1 DEF graph, VerdictIsTrue, Succeeded, Failed, Deps
  <2>5. CASE verdict' \in {"planning failed", "deadlocked", "panicked"}
    BY <2>5 DEF VerdictIsTrue
  <2>. QED
    BY <2>2, <2>4, <2>5
<1>. QED
  BY <1>1, <1>2, <1>3


-----------------------------------------------------------------------------
(* Answers, panicked threads included *)

LEMMA AnsweredInit == Init => Answered
<1>. SUFFICES ASSUME Init PROVE Answered
  OBVIOUS
<1>1. \A a \in Actors : /\ pc[a] \in {"planning", "off"}
                        /\ held[a] = NoTask /\ answer[a] = NoConfig
  BY DEF Init
<1>. QED
  BY <1>1 DEF Init, Answered, Holding, Working

\* The mutex is poisoned by a worker only, when the main thread waits.
LEMMA PoisonedLate ==
    ASSUME IInv, Answered, poisoned
    PROVE  pc[Main] \in {"joining", "returned"}
BY DEF Answered, IInv, Phases

\* A thread that takes a task: nobody else holds it.
LEMMA TakesNew ==
    ASSUME IInv, Answered, ~poisoned, NEW a \in Actors, NEW t \in known,
           available[t], ~Done(t), NEW b \in Actors, Holding(b)
    PROVE  held[b] # t
<1>1. Working(b)
  BY DEF Holding, Answered
<1>2. Done(held[b]) \/ ~available[held[b]]
  BY <1>1 DEF IInv, HeldIsTaken
<1>. QED
  BY <1>2

\* What the invariant says of a thread alone.
AnsweredAt(a) ==
    /\ pc[a] = "panicked" => poisoned /\ a \in Workers
    /\ ~Holding(a) /\ pc[a] # "notify" => held[a] = NoTask
    /\ answer[a] # NoConfig =>
          \/ pc[a] \in {"registering", "panicked"}
          \/ /\ pc[a] = "notify"
             /\ held[a] # NoTask /\ config[held[a]] # NoConfig

\* How the thread itself moves.
LEMMA OwnMove ==
    ASSUME IInv, Answered, [Next]_vars, NEW a \in Actors, ActorStep(a)
    PROVE  /\ AnsweredAt(a)'
           /\ pc[a] # "panicked"
           /\ Holding(a)' =>
                 \/ Holding(a) /\ held'[a] = held[a]
                 \/ held'[a] = NoTask
                 \/ /\ ~poisoned /\ held'[a] \in known
                    /\ available[held'[a]] /\ ~Done(held'[a])
           /\ poisoned => poisoned'
           /\ poisoned' => poisoned \/ pc'[a] = "panicked"
<1>. DEFINE Goal ==
        /\ AnsweredAt(a)'
        /\ pc[a] # "panicked"
        /\ Holding(a)' =>
              \/ Holding(a) /\ held'[a] = held[a]
              \/ held'[a] = NoTask
              \/ /\ ~poisoned /\ held'[a] \in known
                 /\ available[held'[a]] /\ ~Done(held'[a])
        /\ poisoned => poisoned'
        /\ poisoned' => poisoned \/ pc'[a] = "panicked"
<1>0. /\ DOMAIN pc = Actors /\ DOMAIN held = Actors /\ DOMAIN answer = Actors
      /\ Main \notin Workers /\ (a # Main => a \in Workers)
  BY ExecutorAssumption DEF IInv, TypeOK, Actors
<1>1. AnsweredAt(a)
  BY DEF Answered, AnsweredAt
<1>2. ASSUME pc[a] = "resolving", NEW c \in Answers[held[a]],
             ResolverAnswers(a, c)
      PROVE  Goal
  BY <1>0, <1>1, <1>2 DEF ResolverAnswers, Goto, AnsweredAt, Holding, Working
<1>3. CASE Failing(a)
  <2>1. answer[a] = NoConfig
    BY <1>1, <1>3 DEF Failing, AnsweredAt
  <2>2. UNCHANGED <<held, answer, poisoned>>
    BY <1>3 DEF Failing
  <2>3. pc' = pc \/ pc' = [pc EXCEPT ![a] = "notify"]
    BY <1>3 DEF Failing, MarkFailure, Goto
  <2>4. pc[a] \in {"resolving", "compiling"}
    BY <1>3 DEF Failing
  <2>. QED
    BY <1>0, <2>1, <2>2, <2>3, <2>4 DEF AnsweredAt, Holding, Working
<1>4. ASSUME NEW d \in todo[a], AddTask(a, d)
      PROVE  Goal
  BY <1>0, <1>4 DEF AddTask, AnsweredAt, Holding, Working
<1>5. CASE Commit(a)
  <2>1. /\ pc[a] = "registering" /\ pc' = [pc EXCEPT ![a] = "notify"]
        /\ config' = [config EXCEPT ![held[a]] = answer[a]]
        /\ UNCHANGED <<held, answer, poisoned>>
    BY <1>5 DEF Commit, Goto
  <2>2. answer[a] # NoConfig /\ held[a] \in Targets
    <3>1. answer[a] \in Configs
      BY <2>1 DEF IInv, TypeOK
    <3>2. Working(a)
      BY <2>1 DEF Working
    <3>3. held[a] \in Targets
      BY <3>2 DEF IInv, TypeOK
    <3>. QED
      BY <3>1, <3>3, ExecutorAssumption
  <2>3. config'[held[a]] # NoConfig /\ held[a] # NoTask
    BY <2>1, <2>2, ExecutorAssumption DEF IInv, TypeOK
  <2>. QED
    BY <1>0, <2>1, <2>3 DEF AnsweredAt, Holding, Working
<1>6. CASE Notify(a)
  BY <1>0, <1>6 DEF Notify, Woken, LoopTop, AnsweredAt, Holding, Working
<1>7. CASE Resolve(a)
  BY <1>2, <1>3, <1>4, <1>5, <1>6, <1>7 DEF Resolve, ResolverFails, Failing
<1>8. CASE a = Main
  <2>1. ASSUME NEW t \in Targets, NextPlanningTask(t)
        PROVE  Goal
    <3>1. /\ pc[a] = "planning" /\ PlanCandidate(t)
          /\ held' = [held EXCEPT ![a] = t]
          /\ pc' = [pc EXCEPT ![a] = "resolving"]
          /\ UNCHANGED <<answer, poisoned>>
      BY <1>8, <2>1 DEF NextPlanningTask, Goto
    <3>2. ~poisoned
      BY <1>8, <3>1, PoisonedLate
    <3>. QED
      BY <1>0, <1>1, <3>1, <3>2 DEF PlanCandidate, Resolving, AnsweredAt,
                                    Holding, Working
  <2>2. CASE PlannerFails \/ PlanDone \/ Join
    <3>1. pc[a] \in {"planning", "joining"}
      BY <1>8, <2>2 DEF PlannerFails, PlanDone, Join, PlanningOver
    <3>2. pc'[a] \in {"returned", "joining"}
      BY <1>0, <1>8, <2>2 DEF PlannerFails, PlanDone, Join, Goto
    <3>3. UNCHANGED <<held, answer, poisoned>>
      BY <2>2 DEF PlannerFails, PlanDone, Join
    <3>. QED
      BY <1>1, <3>1, <3>2, <3>3 DEF AnsweredAt, Holding, Working
  <2>. QED
    BY <1>7, <1>8, <2>1, <2>2 DEF ActorStep, MainStep
<1>9. CASE a # Main
  <2>1. ASSUME NEW t \in Targets, TakeTask(a, t)
        PROVE  Goal
    <3>1. /\ pc[a] = "idle" /\ ~poisoned /\ Candidate(t)
          /\ held' = [held EXCEPT ![a] = t]
          /\ pc'[a] \in {"resolving", "building"}
          /\ UNCHANGED <<answer, poisoned>>
      BY <1>0, <2>1 DEF TakeTask, Goto
    <3>. QED
      BY <1>0, <1>1, <3>1 DEF Candidate, Resolving, Building, AnsweredAt,
                              Holding, Working
  <2>2. CASE Exit(a) \/ Deadlock(a) \/ Wait(a) \/ SpuriousWakeup(a)
    <3>1. /\ pc[a] \in {"idle", "waiting"}
          /\ pc'[a] \in {"exited", "deadlocked", "waiting", "idle"}
          /\ UNCHANGED <<held, answer, poisoned>>
      BY <1>0, <2>2 DEF Exit, Deadlock, Wait, NothingToTake, SpuriousWakeup,
                        Goto, Woken
    <3>. QED
      BY <1>1, <3>1 DEF AnsweredAt, Holding, Working
  <2>3. CASE PoisonPanic(a) \/ PluginPanic(a) \/ DependencyPanic(a)
    <3>1. /\ pc[a] \in Locking /\ pc'[a] = "panicked" /\ poisoned'
          /\ UNCHANGED <<held, answer>>
      BY <1>0, <2>3 DEF PoisonPanic, PluginPanic, DependencyPanic, Panic,
                        Goto, Locking
    <3>2. Holding(a) \/ held[a] = NoTask
      BY <1>1, <3>1 DEF AnsweredAt, Locking, Holding, Working
    <3>. QED
      BY <1>0, <1>1, <1>9, <3>1, <3>2 DEF AnsweredAt, Locking, Holding
  <2>4. CASE LoadPlugin(a) \/ ReadDependencies(a)
             \/ \E o \in {"ok", "noop"} : BuildSucceeds(a, o)
    <3>1. /\ pc[a] \in {"building", "checking", "compiling"}
          /\ pc'[a] \in {"checking", "compiling", "notify"}
          /\ UNCHANGED <<held, answer, poisoned>>
      BY <1>0, <2>4 DEF LoadPlugin, ReadDependencies, BuildSucceeds, Goto
    <3>. QED
      BY <1>1, <3>1 DEF AnsweredAt, Holding, Working
  <2>5. CASE BuildFails(a)
    BY <1>3, <2>5 DEF BuildFails, Failing
  <2>. QED
    BY <1>7, <1>9, <2>1, <2>2, <2>3, <2>4, <2>5 DEF ActorStep, WorkerStep
<1>. QED
  BY <1>8, <1>9

LEMMA AnsweredStep ==
    ASSUME IInv, Answered, [Next]_vars
    PROVE  Answered'
<1>1. CASE UNCHANGED vars
  BY <1>1 DEF vars, graph, thread, Answered, Holding, Working
<1>2. ASSUME NEW a \in Actors, ActorStep(a)
      PROVE  Answered'
  <2>1. /\ AnsweredAt(a)'
        /\ pc[a] # "panicked"
        /\ Holding(a)' =>
              \/ Holding(a) /\ held'[a] = held[a]
              \/ held'[a] = NoTask
              \/ /\ ~poisoned /\ held'[a] \in known
                 /\ available[held'[a]] /\ ~Done(held'[a])
        /\ poisoned => poisoned'
        /\ poisoned' => poisoned \/ pc'[a] = "panicked"
    BY <1>2, OwnMove
  <2>2. ASSUME NEW b \in Actors \ {a}
        PROVE  /\ held'[b] = held[b] /\ answer'[b] = answer[b]
               /\ \/ pc'[b] = pc[b]
                  \/ pc[b] \in {"waiting", "off"} /\ pc'[b] = "idle"
    BY <1>2, Others
  <2>3. ASSUME NEW b \in Actors \ {a}
        PROVE  /\ AnsweredAt(b)'
               /\ Holding(b)' => Holding(b)
    <3>1. AnsweredAt(b)
      BY DEF Answered, AnsweredAt
    <3>2. CASE pc'[b] = pc[b]
      <4>1. held[b] # NoTask /\ config[held[b]] # NoConfig =>
               config'[held[b]] # NoConfig
        <5>1. held[b] # NoTask => held[b] \in Targets
          BY DEF IInv, TypeOK
        <5>. QED
          BY <5>1, ConfigStays
      <4>. QED
        BY <2>1, <2>2, <3>1, <3>2, <4>1 DEF AnsweredAt, Holding, Working
    <3>3. CASE pc[b] \in {"waiting", "off"} /\ pc'[b] = "idle"
      BY <2>2, <3>1, <3>3 DEF AnsweredAt, Holding, Working
    <3>. QED
      BY <2>2, <3>2, <3>3
  <2>4. \A b \in Actors : AnsweredAt(b)'
    BY <2>1, <2>3
  <2>5. poisoned' => \E w \in Workers : pc'[w] = "panicked"
    <3>1. CASE poisoned
      <4>1. PICK w \in Workers : pc[w] = "panicked"
        BY <3>1 DEF Answered
      <4>2. w \in Actors \ {a}
        BY <2>1, <4>1 DEF Actors
      <4>. QED
        BY <2>2, <4>1, <4>2
    <3>2. CASE ~poisoned
      BY <2>1, <3>2 DEF AnsweredAt
    <3>. QED
      BY <3>1, <3>2
  <2>6. ASSUME NEW b \in Actors \ {a}, Holding(a)', Holding(b)',
               held'[a] # NoTask
        PROVE  held'[a] # held'[b]
    <3>1. Holding(b) /\ held'[b] = held[b]
      BY <2>2, <2>3, <2>6
    <3>2. CASE Holding(a) /\ held'[a] = held[a]
      BY <2>6, <3>1, <3>2 DEF Answered
    <3>3. CASE /\ ~poisoned /\ held'[a] \in known
               /\ available[held'[a]] /\ ~Done(held'[a])
      BY <3>1, <3>3, TakesNew
    <3>. QED
      BY <2>1, <2>6, <3>2, <3>3
  <2>7. ASSUME NEW b \in Actors, NEW c \in Actors, b # c, Holding(b)',
               Holding(c)', held'[b] # NoTask
        PROVE  held'[b] # held'[c]
    <3>1. CASE b = a
      BY <2>6, <2>7, <3>1
    <3>2. CASE c = a
      <4>1. held'[b] = held'[c] => held'[a] # NoTask
        BY <2>7, <3>2
      <4>. QED
        BY <2>6, <2>7, <3>2, <4>1
    <3>3. CASE b # a /\ c # a
      BY <2>2, <2>3, <2>7, <3>3 DEF Answered
    <3>. QED
      BY <3>1, <3>2, <3>3
  <2>. QED
    BY <2>4, <2>5, <2>7 DEF Answered, AnsweredAt
<1>. QED
  BY <1>1, <1>2, SomeActor


-----------------------------------------------------------------------------
(* The inductive invariant of the outcome and what follows from it *)

LEMMA OutcomeInit == Init => OutcomeInv
BY InvInit, PluginsInit, DeadlockInit, VerdictsInit, AnsweredInit
   DEF OutcomeInv

LEMMA OutcomeStep ==
    ASSUME OutcomeInv, [Next]_vars
    PROVE  OutcomeInv'
<1>1. IInv'
  BY InvStep DEF OutcomeInv
<1>. QED
  BY <1>1, PluginsStep, DeadlockStep, VerdictsStep, AnsweredStep
     DEF OutcomeInv

\* Plugins, circles, verdicts and answers stay in order through failures,
\* panics and deadlocks.
THEOREM OutcomeInvariance == Spec => []OutcomeInv
BY OutcomeInit, OutcomeStep, PTL DEF Spec

\* What was built was built by a registered plugin or by one that was built
\* with outputs (exec.rs, 378-409).
THEOREM PluginsAreBuilt == Spec => []BuiltByALoadedPlugin
<1>1. OutcomeInv => BuiltByALoadedPlugin
  BY PluginsLoaded DEF OutcomeInv
<1>. QED
  BY <1>1, OutcomeInvariance, PTL

\* "build graph deadlocked" (exec.rs, 228-240) is only said of a circle, and
\* no failure dissolves the circle afterwards.
THEOREM DeadlocksAreReal == Spec => []DeadlockIsACycle
BY OutcomeInvariance, PTL DEF OutcomeInv

\* run() never tells of a success it cannot show, of a failure that did not
\* happen, or that tasks are unfinished (exec.rs, 94-156).
THEOREM VerdictsAreTrue == Spec => []VerdictIsTrue
<1>1. Init => VerdictIsTrue
  BY VerdictsInit
<1>2. VerdictIsTrue /\ OutcomeInv /\ [Next]_vars => VerdictIsTrue'
  BY VerdictIsTrueStep DEF OutcomeInv
<1>. QED
  BY <1>1, <1>2, OutcomeInvariance, PTL DEF Spec

-----------------------------------------------------------------------------
(* The threads implement the abstract build *)

\* Every state gives a target the same needs as long as its config and the
\* answers of those that hold it are the same.
LEMMA SameNeeds ==
    ASSUME NEW t \in Targets, config'[t] = config[t],
           \A a \in Actors :
              /\ a \in Askers(t)' <=> a \in Askers(t)
              /\ a \in Askers(t) => answer'[a] = answer[a]
    PROVE  Needs(t)' = Needs(t)
<1>1. Askers(t)' = Askers(t)
  BY DEF Askers
<1>2. {Dependencies(answer[a]) : a \in Askers(t)}'
      = {Dependencies(answer[a]) : a \in Askers(t)}
  BY <1>1 DEF Askers
<1>. QED
  BY <1>1, <1>2 DEF Needs

\* A task that is being resolved is asked about by one thread only.
LEMMA OneAsker ==
    ASSUME IInv, Answered, NEW a \in Actors, Working(a),
           config[held[a]] = NoConfig, NEW b \in Askers(held[a])
    PROVE  b = a
<1>1. held[a] \in Targets /\ held[a] # NoTask
  BY ExecutorAssumption DEF IInv, TypeOK
<1>2. b \in Actors /\ held[b] = held[a] /\ answer[b] # NoConfig
  BY DEF Askers
<1>3. Holding(b)
  BY <1>1, <1>2 DEF Answered, Holding, Working
<1>. QED
  BY <1>1, <1>2, <1>3 DEF Answered, Holding

\* The needs of a task whose thread is registering what it was answered.
LEMMA NeedsOfRegistering ==
    ASSUME IInv, Answered, NEW a \in Actors, pc[a] = "registering"
    PROVE  /\ held[a] \in Targets /\ answer[a] \in Configs
           /\ config[held[a]] = NoConfig
           /\ Needs(held[a]) = Dependencies(answer[a])
           /\ Needs(held[a]) \in SUBSET Targets
<1>1. Working(a)
  BY DEF Working
<1>2. held[a] \in Targets /\ answer[a] \in Configs
  BY <1>1 DEF IInv, TypeOK
<1>3. config[held[a]] = NoConfig
  BY DEF IInv, Stages
<1>4. a \in Askers(held[a])
  BY <1>2, ExecutorAssumption DEF Askers
<1>5. Askers(held[a]) = {a}
  BY <1>1, <1>3, <1>4, OneAsker
<1>6. Needs(held[a]) = Dependencies(answer[a])
  BY <1>3, <1>5 DEF Needs
<1>. QED
  BY <1>2, <1>3, <1>6, DependenciesType

\* The needs of a task whose resolver has not answered.
LEMMA NeedsOfResolving ==
    ASSUME IInv, Answered, NEW a \in Actors, pc[a] = "resolving"
    PROVE  /\ held[a] \in Targets /\ config[held[a]] = NoConfig
           /\ Askers(held[a]) = {}
           /\ Needs(held[a]) = NoConfig
<1>1. Working(a)
  BY DEF Working
<1>2. held[a] \in Targets
  BY <1>1 DEF IInv, TypeOK
<1>3. config[held[a]] = NoConfig
  BY DEF IInv, Stages
<1>4. answer[a] = NoConfig
  BY DEF Answered
<1>5. a \notin Askers(held[a])
  BY <1>4 DEF Askers
<1>6. Askers(held[a]) = {}
  BY <1>1, <1>3, <1>5, OneAsker
<1>. QED
  BY <1>2, <1>3, <1>6 DEF Needs

LEMMA NeedsOfConfig ==
    ASSUME IInv, NEW t \in Targets, config[t] # NoConfig
    PROVE  Needs(t) = Deps(t) /\ Needs(t) \in SUBSET Targets
           /\ Needs(t) # NoConfig
<1>1. Needs(t) = Deps(t)
  BY DEF Needs, Deps
<1>2. Deps(t) \in SUBSET Targets
  BY DepsType DEF IInv
<1>. QED
  BY <1>1, <1>2, ExecutorAssumption


\* Needs only change when a resolver answers.
LEMMA NeedsStay ==
    ASSUME IInv, Answered, [Next]_vars, NEW a \in Actors, ActorStep(a),
           \A c \in Answers[held[a]] :
              ~(pc[a] = "resolving" /\ ResolverAnswers(a, c))
    PROVE  needsBar' = needsBar
<1>. SUFFICES ASSUME NEW t \in Targets
              PROVE  Needs(t)' = Needs(t)
  BY DEF needsBar
<1>0. /\ DOMAIN held = Actors /\ DOMAIN answer = Actors
      /\ Main \notin Workers /\ (a # Main => a \in Workers)
  BY ExecutorAssumption DEF IInv, TypeOK, Actors
<1>1. \A b \in Actors \ {a} :
         /\ held'[b] = held[b] /\ answer'[b] = answer[b]
         /\ b \in Askers(t)' <=> b \in Askers(t)
  BY Others DEF Askers
<1>2. ASSUME config' = config,
             \/ held'[a] = held[a] /\ answer'[a] = answer[a]
             \/ answer[a] = NoConfig /\ answer'[a] = NoConfig
      PROVE  Needs(t)' = Needs(t)
  <2>1. a \in Askers(t)' <=> a \in Askers(t)
    BY <1>2 DEF Askers
  <2>2. a \in Askers(t) => answer'[a] = answer[a]
    BY <1>2 DEF Askers
  <2>. QED
    BY <1>1, <1>2, <2>1, <2>2, SameNeeds
<1>3. CASE UNCHANGED <<config, held, answer>>
  BY <1>2, <1>3
<1>4. CASE Notify(a)
  <2>1. /\ pc[a] = "notify" /\ config' = config /\ answer'[a] = NoConfig
    BY <1>0, <1>4 DEF Notify, graph
  <2>2. CASE answer[a] = NoConfig
    BY <1>2, <2>1, <2>2
  <2>3. CASE answer[a] # NoConfig /\ held[a] = t
    <3>1. config[t] # NoConfig
      BY <2>1, <2>3 DEF Answered
    <3>. QED
      BY <2>1, <3>1 DEF Needs
  <2>4. CASE answer[a] # NoConfig /\ held[a] # t
    <3>1. a \notin Askers(t) /\ a \notin Askers(t)'
      BY <2>1, <2>4 DEF Askers
    <3>. QED
      BY <1>1, <2>1, <3>1, SameNeeds
  <2>. QED
    BY <2>2, <2>3, <2>4
<1>5. CASE Commit(a)
  <2>1. /\ pc[a] = "registering"
        /\ config' = [config EXCEPT ![held[a]] = answer[a]]
        /\ UNCHANGED <<held, answer>>
    BY <1>5 DEF Commit
  <2>2. /\ held[a] \in Targets /\ answer[a] \in Configs
        /\ Needs(held[a]) = Dependencies(answer[a])
    BY <2>1, NeedsOfRegistering
  <2>3. CASE t = held[a]
    <3>1. config'[t] = answer[a] /\ answer[a] # NoConfig
      BY <2>1, <2>2, <2>3, ExecutorAssumption DEF IInv, TypeOK
    <3>2. Needs(t)' = Dependencies(answer[a])
      BY <3>1 DEF Needs, Dependencies
    <3>. QED
      BY <2>2, <2>3, <3>2
  <2>4. CASE t # held[a]
    <3>1. config'[t] = config[t]
      BY <2>1, <2>4 DEF IInv, TypeOK
    <3>2. a \in Askers(t)' <=> a \in Askers(t)
      BY <2>1 DEF Askers
    <3>. QED
      BY <1>1, <2>1, <3>1, <3>2, SameNeeds
  <2>. QED
    BY <2>3, <2>4
<1>6. CASE \E u \in Targets : TakeTask(a, u) \/ (a = Main /\ NextPlanningTask(u))
  <2>1. pc[a] \in {"idle", "planning"} /\ UNCHANGED <<config, answer>>
    BY <1>6 DEF TakeTask, NextPlanningTask
  <2>2. answer[a] = NoConfig /\ answer'[a] = NoConfig
    BY <2>1 DEF Answered
  <2>. QED
    BY <1>2, <2>1, <2>2
<1>7. CASE Resolve(a)
  BY <1>3, <1>4, <1>5, <1>7 DEF Resolve, ResolverFails, AddTask
<1>8. CASE a = Main
  BY <1>3, <1>6, <1>7, <1>8 DEF ActorStep, MainStep, PlannerFails, PlanDone,
                                Join, graph
<1>9. CASE a # Main
  BY <1>3, <1>6, <1>7, <1>9
     DEF ActorStep, WorkerStep, Exit, Deadlock, Wait, SpuriousWakeup,
         PoisonPanic, LoadPlugin, PluginPanic, ReadDependencies,
         DependencyPanic, BuildSucceeds, BuildFails, graph
<1>. QED
  BY <1>8, <1>9

\* A step that is none of the abstract build.
LEMMA Stutters ==
    ASSUME needsBar' = needsBar, result' = result, verdict' = verdict
    PROVE  UNCHANGED Build!vars
BY DEF Build!vars, outcomeBar, OutcomeOf, Succeeded, Failed, replyBar

\* The resolver answers: the needs are discovered.
LEMMA Discovers ==
    ASSUME IInv, Answered, [Next]_vars, NEW a \in Actors, ActorStep(a),
           pc[a] = "resolving", NEW c \in Answers[held[a]],
           ResolverAnswers(a, c)
    PROVE  Build!Next
<1>. PICK t : t = held[a]
  OBVIOUS
<1>1. /\ t \in Targets /\ config[t] = NoConfig
      /\ Askers(t) = {} /\ Needs(t) = NoConfig
  BY NeedsOfResolving
<1>2. c \in Configs
  BY <1>1, ExecutorAssumption DEF ResolverAnswers
<1>3. Dependencies(c) \in SUBSET Targets
  BY <1>2, DependenciesType
<1>4. /\ UNCHANGED <<graph, held, verdict>>
      /\ answer'[a] = c /\ c # NoConfig
      /\ \A b \in Actors \ {a} : answer'[b] = answer[b]
  BY DEF ResolverAnswers, IInv, TypeOK
<1>5. Needs(t)' = Dependencies(c)
  <2>1. Askers(t)' = {a}
    BY <1>1, <1>4 DEF Askers
  <2>2. config'[t] = NoConfig
    BY <1>1, <1>4 DEF graph
  <2>3. Needs(t)' = UNION {Dependencies(answer'[b]) : b \in {a}}
    BY <1>4, <2>1, <2>2 DEF Needs, Dependencies
  <2>. QED
    BY <1>4, <2>3 DEF Dependencies
<1>6. ASSUME NEW u \in Targets \ {t}
      PROVE  Needs(u)' = Needs(u)
  <2>1. config'[u] = config[u]
    BY <1>4 DEF graph
  <2>2. \A b \in Actors : /\ b \in Askers(u)' <=> b \in Askers(u)
                          /\ b \in Askers(u) => answer'[b] = answer[b]
    BY <1>4 DEF Askers
  <2>. QED
    BY <2>1, <2>2, SameNeeds
<1>7. needsBar' = [needsBar EXCEPT ![t] = Dependencies(c)]
  BY <1>1, <1>5, <1>6 DEF needsBar
<1>8. outcomeBar[t] = "pending"
  <2>1. ~Done(t)
    BY DEF IInv, Stages
  <2>. QED
    BY <1>1, <2>1 DEF outcomeBar, OutcomeOf, Done, Succeeded, Failed
<1>9. outcomeBar' = outcomeBar /\ replyBar' = replyBar
  BY <1>4 DEF graph, outcomeBar, OutcomeOf, Succeeded, Failed, replyBar
<1>10. Build!Discover(t, Dependencies(c))
  BY <1>1, <1>7, <1>8, <1>9 DEF Build!Discover, Build!Pending, needsBar
<1>. QED
  BY <1>1, <1>3, <1>10 DEF Build!Next


\* A dependency that a builder provides is added.
LEMMA Provides ==
    ASSUME IInv, Answered, Plugins, NEW a \in Actors, NEW d \in todo[a],
           AddTask(a, d), needsBar' = needsBar
    PROVE  [Build!Next]_(Build!vars)
<1>1. pc[a] = "registering" /\ d \in Targets /\ verdict' = verdict
  BY DEF AddTask, IInv, TypeOK
<1>2. CASE result' = result
  BY <1>1, <1>2, Stutters
<1>3. CASE d \notin known /\ d \in builders
           /\ result' = [result EXCEPT ![d] = "noop"]
  <2>1. ~Done(d)
    BY <1>1, <1>3 DEF IInv, Unseen
  <2>2. d \in Builtins
    BY <1>3, <2>1 DEF Plugins, Done
  <2>3. outcomeBar[d] = "pending"
    BY <1>1, <2>1 DEF outcomeBar, OutcomeOf, Done, Succeeded, Failed
  <2>4. \E u \in Targets : needsBar[u] # NoConfig /\ d \in needsBar[u]
    <3>1. /\ held[a] \in Targets
          /\ Needs(held[a]) = Dependencies(answer[a])
          /\ Needs(held[a]) \in SUBSET Targets
      BY <1>1, NeedsOfRegistering
    <3>2. d \in Dependencies(answer[a])
      BY <1>1 DEF IInv, Stages
    <3>3. needsBar[held[a]] = Needs(held[a])
      BY <3>1 DEF needsBar
    <3>4. needsBar[held[a]] # NoConfig /\ d \in needsBar[held[a]]
      BY <3>1, <3>2, <3>3, ExecutorAssumption
    <3>. QED
      BY <3>1, <3>4
  <2>5. \A u \in Targets :
           result'[u] = IF u = d THEN "noop" ELSE result[u]
    BY <1>3 DEF IInv, TypeOK
  <2>6. outcomeBar' = [outcomeBar EXCEPT ![d] = "success"]
    BY <2>5 DEF outcomeBar, OutcomeOf, Succeeded, Failed
  <2>7. replyBar' = replyBar
    BY <1>1 DEF replyBar
  <2>8. Build!Provide(d)
    BY <2>2, <2>3, <2>4, <2>6, <2>7 DEF Build!Provide, Build!Pending
  <2>. QED
    BY <1>1, <2>8 DEF Build!Next
<1>. QED
  BY <1>2, <1>3 DEF AddTask

\* A build succeeds.
LEMMA Succeeds ==
    ASSUME IInv, NEW w \in Workers, NEW o \in {"ok", "noop"},
           BuildSucceeds(w, o), needsBar' = needsBar
    PROVE  Build!Next
<1>. PICK t : t = held[w]
  OBVIOUS
<1>0. w \in Actors
  BY DEF Actors
<1>1. /\ pc[w] = "compiling" /\ verdict' = verdict
      /\ result' = [result EXCEPT ![t] = o]
  BY DEF BuildSucceeds
<1>2. t \in Targets
  BY <1>0, <1>1 DEF IInv, TypeOK, Working
<1>3. config[t] # NoConfig /\ ~Done(t) /\ \A d \in Deps(t) : Succeeded(d)
  BY <1>0, <1>1 DEF IInv, Stages
<1>4. needsBar[t] = Deps(t) /\ Deps(t) \subseteq Targets
      /\ needsBar[t] # NoConfig
  BY <1>2, <1>3, NeedsOfConfig DEF needsBar
<1>5. outcomeBar[t] = "pending"
  BY <1>2, <1>3 DEF outcomeBar, OutcomeOf, Done, Succeeded, Failed
<1>6. \A d \in needsBar[t] : outcomeBar[d] = "success"
  BY <1>3, <1>4 DEF outcomeBar, OutcomeOf
<1>7. \A u \in Targets : result'[u] = IF u = t THEN o ELSE result[u]
  BY <1>1 DEF IInv, TypeOK
<1>8. outcomeBar' = [outcomeBar EXCEPT ![t] = "success"]
  BY <1>7 DEF outcomeBar, OutcomeOf, Succeeded, Failed
<1>9. replyBar' = replyBar
  BY <1>1 DEF replyBar
<1>10. Build!Succeed(t)
  BY <1>4, <1>5, <1>6, <1>8, <1>9 DEF Build!Succeed, Build!Pending
<1>. QED
  BY <1>2, <1>10 DEF Build!Next

\* A task fails, and what rests on it that had no result yet.
LEMMA Fails ==
    ASSUME IInv, Answered, NEW a \in Actors, Failing(a), needsBar' = needsBar
    PROVE  [Build!Next]_(Build!vars)
<1>. PICK t : t = held[a]
  OBVIOUS
<1>. PICK F : F = {u \in FailedBy(t) : ~Done(u)}
  OBVIOUS
<1>1. /\ t \in Targets /\ ~Done(t) /\ verdict' = verdict /\ ~poisoned
      /\ \A u \in FailedBy(t) : ~Succeeded(u)
      /\ \A u \in FailedBy(t) \ {t} : \E x \in FailedBy(t) : u \in rdeps[x]
  BY FailingSpares DEF Failing
<1>2. CASE result' = result
  BY <1>1, <1>2, Stutters
<1>3. CASE result' = [u \in Targets |->
                IF u \in FailedBy(t) THEN "failure" ELSE result[u]]
  <2>1. t \in F /\ F \subseteq Targets
    BY <1>1, FailureCloses DEF FailedBy, IInv
  <2>2. \A u \in F : outcomeBar[u] = "pending"
    BY <2>1 DEF outcomeBar, OutcomeOf, Done, Succeeded, Failed
  <2>3. needsBar[t] = NoConfig \/ \A d \in needsBar[t] : outcomeBar[d] = "success"
    <3>1. CASE pc[a] = "resolving"
      BY <2>1, <3>1, NeedsOfResolving DEF needsBar
    <3>2. CASE pc[a] = "compiling"
      <4>1. config[t] # NoConfig /\ \A d \in Deps(t) : Succeeded(d)
        BY <3>2 DEF IInv, Stages
      <4>2. needsBar[t] = Deps(t) /\ Deps(t) \subseteq Targets
        BY <1>1, <4>1, NeedsOfConfig DEF needsBar
      <4>. QED
        BY <4>1, <4>2 DEF outcomeBar, OutcomeOf
    <3>. QED
      BY <3>1, <3>2 DEF Failing
  <2>4. ASSUME NEW u \in F \ {t}
        PROVE  /\ needsBar[u] # NoConfig
               /\ \E d \in needsBar[u] : d \in F \/ outcomeBar[d] = "failure"
    <3>1. u \in Targets /\ u \in FailedBy(t)
      BY <2>1
    <3>2. PICK x \in FailedBy(t) : u \in rdeps[x]
      BY <1>1, <3>1
    <3>3. x \in Targets
      BY DEF FailedBy
    <3>4. Needs(u) \in SUBSET Targets /\ x \in Needs(u)
      <4>1. CASE config[u] # NoConfig
        BY <3>1, <3>2, <3>3, <4>1, NeedsOfConfig DEF IInv, ReverseEdges
      <4>2. CASE config[u] = NoConfig
        <5>1. PICK b \in Actors :
                 /\ pc[b] = "registering" /\ held[b] = u
                 /\ x \in Dependencies(answer[b]) \ todo[b]
          BY <1>1, <3>1, <3>2, <3>3, <4>2 DEF IInv, ReverseEdges
        <5>. QED
          BY <5>1, NeedsOfRegistering
      <4>. QED
        BY <4>1, <4>2
    <3>5. needsBar[u] = Needs(u) /\ needsBar[u] # NoConfig
      BY <3>1, <3>4, ExecutorAssumption DEF needsBar
    <3>6. x \in F \/ outcomeBar[x] = "failure"
      <4>1. Done(x) => Failed(x)
        BY <1>1, <3>3 DEF Done, Failed, Succeeded, IInv, TypeOK
      <4>. QED
        BY <1>1, <3>3, <4>1 DEF outcomeBar, OutcomeOf
    <3>. QED
      BY <3>4, <3>5, <3>6
  <2>5. ASSUME NEW u \in Targets
        PROVE  OutcomeOf(u)' = IF u \in F THEN "failure" ELSE OutcomeOf(u)
    <3>1. result'[u] = IF u \in FailedBy(t) THEN "failure" ELSE result[u]
      BY <1>3
    <3>2. u \in FailedBy(t) /\ Done(u) => result[u] = "failure"
      BY <1>1 DEF Done, Succeeded, IInv, TypeOK
    <3>. QED
      BY <3>1, <3>2 DEF OutcomeOf, Succeeded, Failed, Done
  <2>6. outcomeBar' = [u \in Targets |->
                          IF u \in F THEN "failure" ELSE outcomeBar[u]]
    BY <2>5 DEF outcomeBar
  <2>7. replyBar' = replyBar
    BY <1>1 DEF replyBar
  <2>8. Build!Fail(t, F)
    BY <2>1, <2>2, <2>3, <2>4, <2>6, <2>7 DEF Build!Fail, Build!Pending
  <2>. QED
    BY <1>1, <2>1, <2>8 DEF Build!Next
<1>. QED
  BY <1>2, <1>3, FailingSpares

\* run() returns: the reply is true.
LEMMA Replies ==
    ASSUME IInv, Answered, Verdicts, PlannerFails \/ PlanDone \/ Join,
           needsBar' = needsBar
    PROVE  [Build!Next]_(Build!vars)
<1>1. UNCHANGED graph
  BY DEF PlannerFails, PlanDone, Join
<1>2. outcomeBar' = outcomeBar
  BY <1>1 DEF graph, outcomeBar, OutcomeOf, Succeeded, Failed
<1>3. CASE verdict' = verdict
  BY <1>1, <1>3, Stutters DEF graph
<1>4. CASE verdict' # verdict
  <2>1. verdict = "none"
    BY DEF Verdicts, PlannerFails, PlanDone, PlanningOver, Join
  <2>2. \/ /\ verdict' \in Collected /\ AllDone
           /\ \A a \in Actors : answer[a] = NoConfig
        \/ verdict' \in {"planning failed", "deadlocked", "panicked"}
    <3>1. CASE PlannerFails \/ PlanDone
      <4>1. pc[Main] = "planning" /\ \A w \in Workers : pc[w] = "off"
        BY <3>1 DEF PlannerFails, PlanDone, PlanningOver, IInv, Phases
      <4>2. \A a \in Actors : answer[a] = NoConfig
        BY <4>1 DEF Answered, Actors
      <4>. QED
        BY <1>4, <3>1, <4>2 DEF PlannerFails, PlanDone
    <3>2. CASE Join
      <4>1. pc[Main] = "joining"
        BY <3>2 DEF Join
      <4>2. CASE \A w \in Workers : pc[w] = "exited"
        <5>1. \A a \in Actors : answer[a] = NoConfig
          BY <4>1, <4>2 DEF Answered, Actors
        <5>. QED
          BY <3>2, <4>2, <5>1 DEF Join, Verdicts
      <4>3. CASE ~\A w \in Workers : pc[w] = "exited"
        BY <3>2, <4>3 DEF Join
      <4>. QED
        BY <4>2, <4>3
    <3>. QED
      BY <3>1, <3>2
  <2>3. replyBar = "none" /\ replyBar' \in {"success", "failure", "error"}
    <3>1. verdict' \in {"success", "failure", "planning failed", "deadlocked",
                        "panicked"}
      BY <2>2, CollectedIsTrue
    <3>. QED
      BY <2>1, <3>1 DEF replyBar
  <2>4. replyBar' \in {"success", "failure"} =>
           /\ verdict' = replyBar' /\ verdict' \in Collected /\ AllDone
           /\ \A a \in Actors : answer[a] = NoConfig
    BY <2>2 DEF replyBar
  <2>5. ASSUME replyBar' = "success"
        PROVE  \E S \in SUBSET Targets :
                  /\ Roots \subseteq S
                  /\ \A t \in S : /\ outcomeBar[t] = "success"
                                  /\ needsBar[t] = NoConfig
                                     \/ needsBar[t] \subseteq S
    <3>1. \A t \in known : Succeeded(t) /\ Deps(t) \subseteq known
      BY <2>4, <2>5, CollectedIsTrue
    <3>2. known \subseteq Targets /\ Roots \subseteq known
      BY DEF IInv, TypeOK, Verdicts
    <3>3. ASSUME NEW t \in known
          PROVE  /\ outcomeBar[t] = "success"
                 /\ needsBar[t] = NoConfig \/ needsBar[t] \subseteq known
      <4>1. outcomeBar[t] = "success" /\ needsBar[t] = Needs(t)
        BY <3>1, <3>2 DEF outcomeBar, OutcomeOf, needsBar
      <4>2. CASE config[t] # NoConfig
        BY <3>1, <3>2, <4>1, <4>2, NeedsOfConfig
      <4>3. CASE config[t] = NoConfig
        <5>1. Askers(t) = {}
          BY <2>4, <2>5 DEF Askers
        <5>. QED
          BY <4>1, <4>3, <5>1 DEF Needs
      <4>. QED
        BY <4>1, <4>2, <4>3
    <3>. QED
      BY <3>2, <3>3
  <2>6. ASSUME replyBar' = "failure"
        PROVE  \E t \in Targets : outcomeBar[t] = "failure"
    <3>1. PICK t \in known : Failed(t)
      BY <2>4, <2>6, CollectedIsTrue
    <3>2. t \in Targets
      BY DEF IInv, TypeOK
    <3>. QED
      BY <3>1, <3>2 DEF outcomeBar, OutcomeOf, Succeeded, Failed
  <2>. PICK r : r = replyBar'
    OBVIOUS
  <2>7. Build!Reply(r)
    BY <1>2, <2>3, <2>5, <2>6 DEF Build!Reply
  <2>. QED
    BY <2>3, <2>7 DEF Build!Next
<1>. QED
  BY <1>3, <1>4


LEMMA ImplementsInit == Init => Build!Init
<1>. SUFFICES ASSUME Init PROVE Build!Init
  OBVIOUS
<1>1. needsBar = [t \in Targets |-> NoConfig]
  <2>1. ASSUME NEW t \in Targets
        PROVE  Needs(t) = NoConfig
    <3>1. config[t] = NoConfig /\ Askers(t) = {}
      BY DEF Init, Askers
    <3>. QED
      BY <3>1 DEF Needs
  <2>. QED
    BY <2>1 DEF needsBar
<1>2. outcomeBar = [t \in Targets |->
         IF t \in Roots \cap Builtins THEN "success" ELSE "pending"]
  BY DEF Init, outcomeBar, OutcomeOf, Succeeded, Failed
<1>3. replyBar = "none"
  BY DEF Init, replyBar
<1>. QED
  BY <1>1, <1>2, <1>3 DEF Build!Init

LEMMA ImplementsStep ==
    ASSUME OutcomeInv, [Next]_vars
    PROVE  [Build!Next]_(Build!vars)
<1>0. IInv /\ Answered /\ Plugins /\ Verdicts
  BY DEF OutcomeInv
<1>1. CASE UNCHANGED vars
  <2>1. needsBar' = needsBar
    BY <1>1 DEF vars, graph, thread, needsBar, Needs, Askers, Dependencies
  <2>. QED
    BY <1>1, <2>1, Stutters DEF vars, graph
<1>2. ASSUME NEW a \in Actors, ActorStep(a)
      PROVE  [Build!Next]_(Build!vars)
  <2>1. ASSUME pc[a] = "resolving", NEW c \in Answers[held[a]],
               ResolverAnswers(a, c)
        PROVE  Build!Next
    BY <1>0, <1>2, <2>1, Discovers
  <2>2. CASE \A c \in Answers[held[a]] :
                ~(pc[a] = "resolving" /\ ResolverAnswers(a, c))
    <3>1. needsBar' = needsBar
      BY <1>0, <1>2, <2>2, NeedsStay
    <3>2. CASE PlannerFails \/ PlanDone \/ Join
      BY <1>0, <3>1, <3>2, Replies
    <3>3. CASE ~(PlannerFails \/ PlanDone \/ Join)
      <4>1. verdict' = verdict
        BY <3>3, VerdictMoves
      <4>2. CASE result' = result
        BY <3>1, <4>1, <4>2, Stutters
      <4>3. ASSUME NEW b \in Actors, NEW d \in todo[b], AddTask(b, d)
            PROVE  [Build!Next]_(Build!vars)
        BY <1>0, <3>1, <4>3, Provides
      <4>4. ASSUME NEW b \in Actors, Failing(b)
            PROVE  [Build!Next]_(Build!vars)
        BY <1>0, <3>1, <4>4, Fails
      <4>5. ASSUME NEW w \in Workers, NEW o \in {"ok", "noop"},
                   BuildSucceeds(w, o)
            PROVE  Build!Next
        BY <1>0, <3>1, <4>5, Succeeds
      <4>. QED
        BY <4>2, <4>3, <4>4, <4>5, Moves DEF GraphMove, tasks, Commit
    <3>. QED
      BY <3>2, <3>3
  <2>. QED
    BY <2>1, <2>2
<1>. QED
  BY <1>1, <1>2, SomeActor

\* The threads, with their mutex, counters, wakeups, panics and crashes, do
\* what BuildGraph promises and nothing else.
THEOREM Implementation == Spec => ImplementsBuild
BY ImplementsInit, ImplementsStep, OutcomeInvariance, PTL
   DEF Spec, ImplementsBuild, Build!Spec

-----------------------------------------------------------------------------
(* No wakeup is lost *)

\* A thread that moves keeps its task until the task is to be had again or
\* done, and takes only what is to be had.
LEMMA OwnTask ==
    ASSUME IInv, NEW a \in Actors, ActorStep(a), ~poisoned',
           NEW t \in Targets, ~available'[t], ~Done(t)'
    PROVE  \/ Working(a)' /\ held'[a] = t
           \/ ~available[t] /\ ~Done(t) /\ ~(Working(a) /\ held[a] = t)
<1>. DEFINE Goal == \/ Working(a)' /\ held'[a] = t
                    \/ ~available[t] /\ ~Done(t) /\ ~(Working(a) /\ held[a] = t)
<1>0. /\ DOMAIN pc = Actors /\ DOMAIN held = Actors
      /\ DOMAIN available = Targets /\ DOMAIN result = Targets
      /\ Main \notin Workers /\ (a # Main => a \in Workers)
      /\ Working(a) => held[a] \in Targets
  BY ExecutorAssumption DEF IInv, TypeOK, Actors
<1>1. ASSUME NEW c \in Answers[held[a]], ResolverAnswers(a, c)
      PROVE  Goal
  BY <1>0, <1>1 DEF ResolverAnswers, Goto, graph, Working, Done
<1>2. CASE Failing(a)
  <2>1. CASE Endless(held[a])
    BY <1>2, <2>1 DEF Failing, MarkFailure, Working, Done
  <2>2. CASE ~Endless(held[a])
    <3>1. /\ result' = [u \in Targets |->
                  IF u \in FailedBy(held[a]) THEN "failure" ELSE result[u]]
          /\ available' = [u \in Targets |->
                  IF u \in FailedBy(held[a]) THEN TRUE ELSE available[u]]
      BY <1>2, <2>2 DEF Failing, MarkFailure
    <3>2. t \notin FailedBy(held[a])
      BY <3>1
    <3>3. Working(a)
      BY <1>2 DEF Failing, Working
    <3>4. t # held[a]
      BY <1>0, <3>2, <3>3, FailureCloses DEF IInv
    <3>. QED
      BY <3>1, <3>2, <3>4 DEF Done
  <2>. QED
    BY <2>1, <2>2
<1>3. ASSUME NEW d \in todo[a], AddTask(a, d)
      PROVE  Goal
  <2>1. Working(a)' /\ held'[a] = held[a] /\ available' = available
    BY <1>3 DEF AddTask, Working
  <2>2. ~Done(t)
    <3>1. d \in Targets
      BY DEF IInv, TypeOK
    <3>2. result' = result \/ result' = [result EXCEPT ![d] = "noop"]
      BY <1>3 DEF AddTask
    <3>. QED
      BY <1>0, <3>1, <3>2 DEF Done
  <2>. QED
    BY <2>1, <2>2
<1>4. CASE Commit(a)
  BY <1>0, <1>4 DEF Commit, Working, Done
<1>5. CASE Notify(a)
  BY <1>5 DEF Notify, graph, Working, Done
<1>6. CASE Resolve(a)
  BY <1>1, <1>2, <1>3, <1>4, <1>5, <1>6 DEF Resolve, ResolverFails, Failing
<1>7. ASSUME NEW u \in Targets,
             /\ pc[a] \in {"planning", "idle"}
             /\ available' = Taken(u) /\ held' = [held EXCEPT ![a] = u]
             /\ result' = result
             /\ pc'[a] \in {"resolving", "building"}
      PROVE  Goal
  BY <1>0, <1>7 DEF Taken, Working, Done
<1>8. CASE a = Main
  <2>1. ASSUME NEW u \in Targets, NextPlanningTask(u)
        PROVE  Goal
    BY <1>0, <1>7, <1>8, <2>1 DEF NextPlanningTask, Goto
  <2>2. CASE PlannerFails \/ PlanDone \/ Join
    BY <1>8, <2>2 DEF PlannerFails, PlanDone, PlanningOver, Join, graph,
                      Working, Done
  <2>. QED
    BY <1>6, <1>8, <2>1, <2>2 DEF ActorStep, MainStep
<1>9. CASE a # Main
  <2>1. ASSUME NEW u \in Targets, TakeTask(a, u)
        PROVE  Goal
    BY <1>0, <1>7, <2>1 DEF TakeTask, Goto
  <2>2. CASE Exit(a) \/ Deadlock(a) \/ Wait(a) \/ SpuriousWakeup(a)
    BY <2>2 DEF Exit, Deadlock, Wait, SpuriousWakeup, NothingToTake, graph,
                Working, Done
  <2>3. CASE PoisonPanic(a) \/ PluginPanic(a) \/ DependencyPanic(a)
    BY <2>3 DEF PoisonPanic, PluginPanic, DependencyPanic, Panic
  <2>4. CASE LoadPlugin(a) \/ ReadDependencies(a)
    BY <1>0, <2>4 DEF LoadPlugin, ReadDependencies, Goto, graph, Working, Done
  <2>5. ASSUME NEW o \in {"ok", "noop"}, BuildSucceeds(a, o)
        PROVE  Goal
    BY <1>0, <2>5 DEF BuildSucceeds, Working, Done
  <2>6. CASE BuildFails(a)
    BY <1>2, <2>6 DEF BuildFails, Failing
  <2>. QED
    BY <1>6, <1>9, <2>1, <2>2, <2>3, <2>4, <2>5, <2>6 DEF ActorStep, WorkerStep
<1>. QED
  BY <1>8, <1>9

LEMMA TakenStep ==
    ASSUME OutcomeInv, TakenIsHeld, NEW a \in Actors, ActorStep(a), [Next]_vars
    PROVE  TakenIsHeld'
<1>. SUFFICES ASSUME ~poisoned', NEW t \in Targets, ~available'[t], ~Done(t)'
              PROVE  \E b \in Actors : Working(b)' /\ held'[b] = t
  BY DEF TakenIsHeld
<1>1. ~poisoned
  BY OwnMove DEF OutcomeInv
<1>2. CASE Working(a)' /\ held'[a] = t
  BY <1>2
<1>3. CASE ~available[t] /\ ~Done(t) /\ ~(Working(a) /\ held[a] = t)
  <2>1. PICK b \in Actors : Working(b) /\ held[b] = t
    BY <1>1, <1>3 DEF TakenIsHeld
  <2>2. b \in Actors \ {a}
    BY <1>3, <2>1
  <2>3. held'[b] = t /\ pc'[b] = pc[b]
    BY <2>1, <2>2, Others DEF OutcomeInv, Working, IInv, Phases
  <2>. QED
    BY <2>1, <2>3 DEF Working
<1>. QED
  BY <1>2, <1>3, OwnTask DEF OutcomeInv

\* While a worker waits, the workers run and the main thread holds no task.
LEMMA WaitingIsLate ==
    ASSUME IInv, NEW w \in Workers, pc[w] # "off"
    PROVE  /\ pc[Main] \in {"joining", "returned"}
           /\ \A v \in Actors : Wakes(v) => v \in Workers
BY ExecutorAssumption DEF IInv, Phases, Actors, Wakes, Working

\* Who waits after a step waited before, or begins to.
LEMMA WaitBegins ==
    ASSUME IInv, NEW a \in Actors, ActorStep(a), NEW w \in Workers,
           pc'[w] = "waiting"
    PROVE  pc[w] = "waiting" \/ (w = a /\ Wait(a))
<1>0. /\ DOMAIN pc = Actors /\ w \in Actors /\ w # Main
  BY ExecutorAssumption DEF IInv, TypeOK, Actors
<1>1. CASE w # a
  BY <1>0, <1>1, Others
<1>2. CASE w = a
  <2>1. ~(Resolve(w) /\ pc[w] # "waiting")
    BY <1>0 DEF Resolve, ResolverAnswers, ResolverFails, AddTask, Commit,
                Notify, LoopTop, MarkFailure, Goto, Woken
  <2>2. ~((\E t \in Targets : TakeTask(w, t)) \/ Deadlock(w) \/ Exit(w)
          \/ SpuriousWakeup(w) \/ PoisonPanic(w))
    BY <1>0 DEF TakeTask, Deadlock, Exit, SpuriousWakeup, PoisonPanic, Goto,
                Woken
  <2>3. ~((LoadPlugin(w) \/ PluginPanic(w) \/ ReadDependencies(w)
           \/ DependencyPanic(w)
           \/ \E o \in {"ok", "noop"} : BuildSucceeds(w, o)))
    BY <1>0 DEF LoadPlugin, PluginPanic, ReadDependencies, DependencyPanic,
                BuildSucceeds, Panic, Goto
  <2>4. BuildFails(w) => pc[w] # "waiting" /\ pc'[w] # "waiting"
    BY <1>0 DEF BuildFails, MarkFailure, Goto
  <2>. QED
    BY <1>0, <1>2, <2>1, <2>2, <2>3, <2>4 DEF ActorStep, WorkerStep
<1>. QED
  BY <1>1, <1>2

\* A thread that is to notify does so, or panics; those that wait at its
\* notification are woken.
LEMMA WakesOn ==
    ASSUME IInv, NEW a \in Actors, ActorStep(a), ~poisoned', Wakes(a),
           NEW w \in Workers, pc'[w] = "waiting"
    PROVE  /\ Wakes(a)'
           /\ pc[a] \in {"registering", "notify"} =>
                 pc'[a] \in {"registering", "notify"}
<1>. DEFINE Goal == /\ Wakes(a)'
                    /\ pc[a] \in {"registering", "notify"} =>
                          pc'[a] \in {"registering", "notify"}
<1>0. /\ DOMAIN pc = Actors /\ w \in Actors
  BY DEF IInv, TypeOK, Actors
<1>1. ~Notify(a)
  BY <1>0 DEF Notify, Woken, LoopTop
<1>2. CASE Resolve(a)
  BY <1>0, <1>1, <1>2 DEF Resolve, ResolverAnswers, ResolverFails, AddTask,
      Commit, MarkFailure, Goto, Wakes, Working
<1>3. CASE a = Main /\ ~Resolve(a)
  BY <1>3 DEF ActorStep, MainStep, NextPlanningTask, PlannerFails, PlanDone,
              PlanningOver, Join, Wakes, Working
<1>4. CASE a # Main /\ ~Resolve(a)
  <2>1. ~((\E t \in Targets : TakeTask(a, t)) \/ Exit(a) \/ Deadlock(a)
          \/ Wait(a) \/ SpuriousWakeup(a))
    BY DEF TakeTask, Exit, Deadlock, Wait, SpuriousWakeup, NothingToTake,
           Wakes, Working
  <2>2. ~(PoisonPanic(a) \/ PluginPanic(a) \/ DependencyPanic(a))
    BY DEF PoisonPanic, PluginPanic, DependencyPanic, Panic
  <2>3. CASE LoadPlugin(a) \/ ReadDependencies(a) \/ BuildFails(a)
             \/ \E o \in {"ok", "noop"} : BuildSucceeds(a, o)
    BY <1>0, <2>3 DEF LoadPlugin, ReadDependencies, BuildFails, BuildSucceeds,
                      MarkFailure, Goto, Wakes, Working
  <2>. QED
    BY <1>4, <2>1, <2>2, <2>3 DEF ActorStep, WorkerStep
<1>. QED
  BY <1>2, <1>3, <1>4

LEMMA WokenStep ==
    ASSUME OutcomeInv, TakenIsHeld, WaitersAreWoken, NEW a \in Actors,
           ActorStep(a), [Next]_vars
    PROVE  WaitersAreWoken'
<1>. SUFFICES ASSUME ~poisoned', NEW w \in Workers, pc'[w] = "waiting"
              PROVE  \E v \in Workers : Wakes(v)'
  BY DEF WaitersAreWoken
<1>1. ~poisoned
  BY OwnMove DEF OutcomeInv
<1>2. IInv
  BY DEF OutcomeInv
<1>3. CASE w = a /\ Wait(a)
  <2>1. pc[a] = "idle" /\ Running
    BY <1>3 DEF Wait, NothingToTake
  <2>2. PICK t \in Targets : ~available[t] /\ ~Done(t)
    BY <1>2, <2>1 DEF Running, Resolving, Building, IInv, TypeOK
  <2>3. PICK v \in Actors : Working(v)
    BY <1>1, <2>2 DEF TakenIsHeld
  <2>4. v \in Workers
    BY <1>2, <1>3, <2>1, <2>3, WaitingIsLate DEF Wakes
  <2>5. v # a
    BY <2>1, <2>3 DEF Working
  <2>6. pc'[v] = pc[v]
    BY <1>2, <2>3, <2>5, Others DEF Working
  <2>. QED
    BY <2>3, <2>4, <2>6 DEF Wakes, Working
<1>4. CASE pc[w] = "waiting"
  <2>1. PICK v \in Workers : Wakes(v)
    BY <1>1, <1>4 DEF WaitersAreWoken
  <2>2. CASE v = a
    BY <1>2, <2>1, <2>2, WakesOn
  <2>3. CASE v # a
    <3>1. pc'[v] = pc[v]
      BY <1>2, <2>1, <2>3, Others DEF Wakes, Working, Actors
    <3>. QED
      BY <2>1, <3>1 DEF Wakes, Working
  <2>. QED
    BY <2>2, <2>3
<1>. QED
  BY <1>2, <1>3, <1>4, WaitBegins

\* What a step makes a candidate, a thread makes that has yet to notify.
LEMMA NewCandidate ==
    ASSUME IInv, NEW a \in Actors, ActorStep(a), NEW t \in Targets,
           Candidate(t)', ~Candidate(t)
    PROVE  pc'[a] \in {"registering", "notify"}
<1>. DEFINE Goal == pc'[a] \in {"registering", "notify"}
<1>0. /\ DOMAIN pc = Actors /\ DOMAIN available = Targets
      /\ DOMAIN result = Targets
  BY DEF IInv, TypeOK
<1>1. ~UNCHANGED graph
  BY DEF graph, Candidate, Resolving, Building, Done, Deps
<1>2. CASE Failing(a)
  <2>1. CASE Endless(held[a])
    BY <1>1, <1>2, <2>1 DEF Failing, MarkFailure, graph
  <2>2. CASE ~Endless(held[a])
    BY <1>0, <1>2, <2>2 DEF Failing, MarkFailure, Goto
  <2>. QED
    BY <2>1, <2>2
<1>3. CASE Resolve(a)
  BY <1>0, <1>1, <1>2, <1>3 DEF Resolve, ResolverAnswers, ResolverFails,
      Failing, AddTask, Commit, Notify, Goto
<1>4. ASSUME NEW u \in Targets, available' = Taken(u),
             UNCHANGED <<known, config, result, ready, rdeps>>
      PROVE  FALSE
  <2>1. available'[t] => available[t]
    BY <1>0, <1>4 DEF Taken
  <2>. QED
    BY <1>4, <2>1 DEF Candidate, Resolving, Building, Done, Deps
<1>5. CASE a = Main
  BY <1>1, <1>3, <1>4, <1>5 DEF ActorStep, MainStep, NextPlanningTask,
      PlannerFails, PlanDone, Join
<1>6. CASE a # Main
  <2>1. ~\E u \in Targets : TakeTask(a, u)
    BY <1>4 DEF TakeTask
  <2>2. ~(Exit(a) \/ Deadlock(a) \/ Wait(a) \/ SpuriousWakeup(a)
          \/ PoisonPanic(a) \/ PluginPanic(a) \/ DependencyPanic(a)
          \/ LoadPlugin(a) \/ ReadDependencies(a))
    BY <1>1 DEF Exit, Deadlock, Wait, SpuriousWakeup, PoisonPanic, PluginPanic,
                DependencyPanic, LoadPlugin, ReadDependencies
  <2>3. CASE BuildFails(a)
    BY <1>2, <2>3 DEF BuildFails, Failing
  <2>4. CASE \E o \in {"ok", "noop"} : BuildSucceeds(a, o)
    BY <1>0, <2>4 DEF BuildSucceeds, Goto
  <2>. QED
    BY <1>3, <1>6, <2>1, <2>2, <2>3, <2>4 DEF ActorStep, WorkerStep
<1>. QED
  BY <1>5, <1>6

LEMMA MissedStep ==
    ASSUME OutcomeInv, NothingIsMissed, NEW a \in Actors, ActorStep(a),
           [Next]_vars
    PROVE  NothingIsMissed'
<1>. SUFFICES ASSUME ~poisoned', NEW w \in Workers, pc'[w] = "waiting",
                     NEW t \in Targets, Candidate(t)'
              PROVE  \E v \in Workers : pc'[v] \in {"registering", "notify"}
  BY DEF NothingIsMissed
<1>1. ~poisoned
  BY OwnMove DEF OutcomeInv
<1>2. IInv
  BY DEF OutcomeInv
<1>3. ~Wait(a)
  <2>1. Wait(a) => UNCHANGED graph /\ ~Candidate(t)
    BY DEF Wait, NothingToTake
  <2>. QED
    BY <2>1 DEF graph, Candidate, Resolving, Building, Done, Deps
<1>4. pc[w] = "waiting"
  BY <1>2, <1>3, WaitBegins
<1>5. CASE Candidate(t)
  <2>1. PICK v \in Workers : pc[v] \in {"registering", "notify"}
    BY <1>1, <1>4, <1>5 DEF NothingIsMissed
  <2>2. CASE v = a
    BY <1>2, <2>1, <2>2, WakesOn DEF Wakes, Working
  <2>3. CASE v # a
    BY <1>2, <2>1, <2>3, Others DEF Actors
  <2>. QED
    BY <2>2, <2>3
<1>6. CASE ~Candidate(t)
  <2>1. pc'[a] \in {"registering", "notify"}
    BY <1>2, <1>6, NewCandidate
  <2>2. a \in Workers
    <3>1. pc[Main] \in {"joining", "returned"}
      BY <1>2, <1>4, WaitingIsLate
    <3>2. a = Main => Join
      BY <3>1, MainRuns DEF ActorStep
    <3>3. a = Main => pc'[a] = "returned"
      BY <1>2, <3>2 DEF Join, Goto, IInv, TypeOK
    <3>. QED
      BY <2>1, <3>3 DEF Actors
  <2>. QED
    BY <2>1, <2>2
<1>. QED
  BY <1>5, <1>6

\* Only the main thread goes where the main thread is.
LEMMA WorkerPlaces ==
    ASSUME IInv, Spawned, NEW a \in Actors, ActorStep(a), NEW w \in Workers
    PROVE  pc'[w] \notin {"planning", "joining", "returned"}
<1>. DEFINE Goal == pc'[w] \notin {"planning", "joining", "returned"}
<1>0. /\ DOMAIN pc = Actors /\ w \in Actors /\ w # Main
      /\ pc[w] \notin {"planning", "joining", "returned"}
  BY ExecutorAssumption DEF IInv, TypeOK, Actors, Spawned
<1>1. CASE w # a
  BY <1>0, <1>1, Others
<1>2. CASE w = a
  <2>1. Resolve(w) => Goal
    BY <1>0 DEF Resolve, ResolverAnswers, ResolverFails, AddTask, Commit,
                Notify, LoopTop, MarkFailure, Goto, Woken
  <2>2. (\E t \in Targets : TakeTask(w, t)) \/ Deadlock(w) \/ Exit(w)
        \/ Wait(w) \/ SpuriousWakeup(w) \/ PoisonPanic(w) => Goal
    BY <1>0 DEF TakeTask, Deadlock, Exit, Wait, SpuriousWakeup, PoisonPanic,
                Goto, Woken
  <2>3. LoadPlugin(w) \/ PluginPanic(w) \/ ReadDependencies(w)
        \/ DependencyPanic(w) \/ BuildFails(w)
        \/ (\E o \in {"ok", "noop"} : BuildSucceeds(w, o)) => Goal
    BY <1>0 DEF LoadPlugin, PluginPanic, ReadDependencies, DependencyPanic,
                BuildFails, BuildSucceeds, MarkFailure, Panic, Goto
  <2>. QED
    BY <1>0, <1>2, <2>1, <2>2, <2>3 DEF ActorStep, WorkerStep
<1>. QED
  BY <1>1, <1>2

LEMMA SpawnedStep ==
    ASSUME OutcomeInv, Spawned, NEW a \in Actors, ActorStep(a)
    PROVE  Spawned'
<1>. SUFFICES ASSUME pc'[Main] = "joining", NEW w \in Workers, pc'[w] = "off"
              PROVE  FALSE
  BY WorkerPlaces DEF Spawned, OutcomeInv
<1>0. /\ DOMAIN pc = Actors /\ Main \in Actors /\ w \in Actors /\ w # Main
  BY ExecutorAssumption DEF OutcomeInv, IInv, TypeOK, Actors
<1>1. CASE a = Main
  <2>1. ~Resolve(Main)
    BY <1>0 DEF Resolve, ResolverAnswers, ResolverFails, AddTask, Commit,
                Notify, LoopTop, MarkFailure, Goto, Woken
  <2>2. PlanDone
    BY <1>0, <1>1, <2>1 DEF ActorStep, MainStep, NextPlanningTask,
        PlannerFails, Join, Goto
  <2>. QED
    BY <1>0, <2>2 DEF PlanDone, Goto
<1>2. CASE a # Main
  <2>1. pc[Main] = "joining"
    BY <1>0, <1>2, Others DEF OutcomeInv
  <2>2. pc[w] # "off"
    BY <2>1 DEF Spawned
  <2>3. w = a
    BY <1>0, <2>2, Others DEF OutcomeInv
  <2>4. ~(Resolve(w))
    BY <1>0, <2>2 DEF Resolve, ResolverAnswers, ResolverFails, AddTask, Commit,
                Notify, LoopTop, MarkFailure, Goto, Woken
  <2>5. ~((\E t \in Targets : TakeTask(w, t)) \/ Exit(w) \/ Deadlock(w)
          \/ Wait(w) \/ SpuriousWakeup(w) \/ PoisonPanic(w))
    BY <1>0 DEF TakeTask, Exit, Deadlock, Wait, SpuriousWakeup, PoisonPanic,
                Goto, Woken
  <2>6. ~((LoadPlugin(w) \/ PluginPanic(w) \/ ReadDependencies(w)
           \/ DependencyPanic(w) \/ BuildFails(w)
           \/ \E o \in {"ok", "noop"} : BuildSucceeds(w, o)))
    BY <1>0, <2>2 DEF LoadPlugin, PluginPanic, ReadDependencies,
        DependencyPanic, BuildFails, BuildSucceeds, MarkFailure, Panic, Goto
  <2>. QED
    BY <1>2, <2>3, <2>4, <2>5, <2>6 DEF ActorStep, WorkerStep
<1>. QED
  BY <1>1, <1>2

LEMMA WakeupsInit == Init => NoWakeupIsLost
<1>. SUFFICES ASSUME Init PROVE NoWakeupIsLost
  OBVIOUS
<1>1. \A w \in Workers : pc[w] = "off"
  BY ExecutorAssumption DEF Init, Actors
<1>2. pc[Main] = "planning"
  BY DEF Init, Actors
<1>3. \A t \in Targets : available[t]
  BY DEF Init
<1>. QED
  BY <1>1, <1>2, <1>3 DEF NoWakeupIsLost, TakenIsHeld, WaitersAreWoken,
                          NothingIsMissed, Spawned

LEMMA WakeupsStep ==
    ASSUME OutcomeInv, NoWakeupIsLost, [Next]_vars
    PROVE  NoWakeupIsLost'
<1>1. CASE UNCHANGED vars
  BY <1>1 DEF vars, graph, thread, NoWakeupIsLost, TakenIsHeld,
              WaitersAreWoken, NothingIsMissed, Spawned, Working, Wakes, Done,
              Candidate, Resolving, Building, Deps
<1>2. ASSUME NEW a \in Actors, ActorStep(a)
      PROVE  NoWakeupIsLost'
  BY <1>2, TakenStep, WokenStep, MissedStep, SpawnedStep DEF NoWakeupIsLost
<1>. QED
  BY <1>1, <1>2, SomeActor

\* A worker that waits is woken by one that has still to notify, and there is
\* nothing for it to take that this one does not announce: the condition
\* variable of the executor loses no wakeup.
THEOREM WakeupsArrive == Spec => []NoWakeupIsLost
<1>1. OutcomeInv /\ NoWakeupIsLost /\ [Next]_vars => NoWakeupIsLost'
  BY WakeupsStep
<1>. QED
  BY <1>1, WakeupsInit, OutcomeInvariance, PTL DEF Spec

\* So the workers never all wait for each other while the main thread waits
\* for them: the safety half of RunEnds.
THEOREM WorkersGoOn == Spec => []SomebodyMoves
<1>1. ASSUME OutcomeInv, NoWakeupIsLost
      PROVE  SomebodyMoves
  <2>1. SUFFICES ASSUME pc[Main] = "joining", ~poisoned,
                        \A w \in Workers : pc[w] # "idle" /\ ~Wakes(w),
                        NEW w \in Workers
                 PROVE  pc[w] \in {"exited", "deadlocked"}
    BY DEF SomebodyMoves
  <2>2. pc[w] # "waiting"
    BY <1>1, <2>1 DEF NoWakeupIsLost, WaitersAreWoken
  <2>3. pc[w] # "panicked"
    BY <1>1, <2>1 DEF OutcomeInv, Answered, Actors
  <2>4. pc[w] \notin {"off", "planning", "joining", "returned"}
    BY <1>1, <2>1 DEF NoWakeupIsLost, Spawned
  <2>. QED
    BY <1>1, <2>1, <2>2, <2>3, <2>4 DEF OutcomeInv, IInv, TypeOK, Wakes,
                                        Working, Locking, Actors
<1>. QED
  BY <1>1, OutcomeInvariance, WakeupsArrive, PTL

=============================================================================
