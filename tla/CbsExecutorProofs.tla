------------------------- MODULE CbsExecutorProofs -------------------------
(***************************************************************************)
(* Proofs about CbsExecutor, for any number of targets, of workers and for *)
(* any graph the resolvers answer with.                                    *)
(***************************************************************************)
EXTENDS CbsExecutor, FiniteSetTheorems, TLAPS

-----------------------------------------------------------------------------
(* Operators of the model *)

\* The dependencies of a config are targets.
LEMMA DependenciesType ==
    ASSUME NEW c \in Configs
    PROVE  Dependencies(c) \in SUBSET Targets
BY DEF Configs, Dependencies

\* Counting the finished tasks among some targets gives a natural number.
LEMMA DoneInType ==
    ASSUME NEW D \in SUBSET Targets
    PROVE  DoneIn(D) \in Nat
<1>. DEFINE F == {d \in D : Done(d)}
<1>1. IsFiniteSet(F)
  BY FS_Subset, ExecutorAssumption
<1>. QED
  BY <1>1, FS_CardinalityType DEF DoneIn

\* A failure reaches the task itself and all that depend on what it reaches.
LEMMA FailureCloses ==
    ASSUME TypeOK, NEW t \in Targets
    PROVE  /\ t \in FailedBy(t)
           /\ \A u \in FailedBy(t) : rdeps[u] \subseteq FailedBy(t)
BY DEF FailedBy, TypeOK

\* A failure stays inside every set of targets that holds its origin and is
\* closed under the reverse dependencies.
LEMMA FailureIsLeast ==
    ASSUME NEW t, NEW S \in SUBSET Targets, t \in S,
           \A x \in S : rdeps[x] \subseteq S
    PROVE  FailedBy(t) \subseteq S
BY DEF FailedBy

-----------------------------------------------------------------------------
(* Type correctness *)

LEMMA TypeInit == Init => TypeOK
<1>. SUFFICES ASSUME Init PROVE TypeOK
  OBVIOUS
<1>. USE ExecutorAssumption DEF Init
<1>1. known \in SUBSET Targets /\ builders \in SUBSET Targets
  OBVIOUS
<1>2. config \in [Targets -> Configs \cup {NoConfig}]
  OBVIOUS
<1>3. result \in [Targets -> {"none", "ok", "noop", "failure"}]
  OBVIOUS
<1>4. available \in [Targets -> BOOLEAN] /\ ready \in [Targets -> Nat]
  OBVIOUS
<1>5. rdeps \in [Targets -> SUBSET Targets]
  OBVIOUS
<1>6. pc \in [Actors -> {"planning", "off"}]
  OBVIOUS
<1>7. held \in [Actors -> Targets \cup {NoTask}]
  OBVIOUS
<1>8. answer \in [Actors -> Configs \cup {NoConfig}]
  OBVIOUS
<1>9. todo \in [Actors -> SUBSET Targets]
  OBVIOUS
<1>10. \A a \in Actors : pc[a] # "registering" /\ ~Working(a)
  BY <1>6 DEF Working
<1>11. pc \in [Actors -> Locking \cup {"planning", "joining", "returned",
                  "off", "notify", "waiting", "exited", "deadlocked",
                  "panicked"}]
  BY <1>6
<1>. QED
  BY <1>1, <1>2, <1>3, <1>4, <1>5, <1>7, <1>8, <1>9, <1>10, <1>11 DEF TypeOK

\* The conjuncts of TypeOK, to be proved one by one.
LEMMA TypeParts ==
    ASSUME known' \in SUBSET Targets, builders' \in SUBSET Targets,
           config' \in [Targets -> Configs \cup {NoConfig}],
           result' \in [Targets -> {"none", "ok", "noop", "failure"}],
           available' \in [Targets -> BOOLEAN],
           ready' \in [Targets -> Nat],
           rdeps' \in [Targets -> SUBSET Targets],
           pc' \in [Actors -> Locking \cup {"planning", "joining", "returned",
                      "off", "notify", "waiting", "exited", "deadlocked",
                      "panicked"}],
           held' \in [Actors -> Targets \cup {NoTask}],
           \A a \in Actors : Working(a)' => held'[a] \in known',
           answer' \in [Actors -> Configs \cup {NoConfig}],
           \A a \in Actors : pc'[a] = "registering" => answer'[a] \in Configs,
           \A a \in Actors :
              pc'[a] = "building" => config'[held'[a]] \in Configs,
           todo' \in [Actors -> SUBSET Targets],
           poisoned' \in BOOLEAN, crashed' \in BOOLEAN,
           verdict' \in {"none", "success", "failure", "unfinished",
                         "deadlocked", "panicked", "planning failed"}
    PROVE  TypeOK'
BY DEF TypeOK

\* What a failure does to the graph keeps the types.
LEMMA TypeMarkFailure ==
    ASSUME TypeOK, NEW a \in Actors, NEW t \in Targets, MarkFailure(a, t),
           UNCHANGED <<known, config, ready, rdeps, builders, held, answer,
                       todo, poisoned, verdict>>
    PROVE  TypeOK'
<1>1. result' \in [Targets -> {"none", "ok", "noop", "failure"}]
  BY DEF MarkFailure, TypeOK
<1>2. available' \in [Targets -> BOOLEAN]
  BY DEF MarkFailure, TypeOK
<1>3. pc' = pc \/ pc' = [pc EXCEPT ![a] = "notify"]
  BY DEF MarkFailure, Goto
<1>4. crashed' \in BOOLEAN
  BY DEF MarkFailure, Endless
<1>. QED
  BY <1>1, <1>2, <1>3, <1>4 DEF TypeOK, Working

LEMMA TypeResolve ==
    ASSUME TypeOK, NEW a \in Actors, Resolve(a)
    PROVE  TypeOK'
<1>1. ASSUME pc[a] = "resolving",
             NEW c \in Answers[held[a]], ResolverAnswers(a, c)
      PROVE  TypeOK'
  <2>1. held[a] \in Targets
    BY <1>1 DEF TypeOK, Working
  <2>2. c \in Configs
    BY <1>1, <2>1, ExecutorAssumption DEF ResolverAnswers
  <2>3. Dependencies(c) \in SUBSET Targets
    BY <2>2, DependenciesType
  <2>4. answer' \in [Actors -> Configs \cup {NoConfig}] /\ answer'[a] = c
    BY <1>1, <2>2 DEF ResolverAnswers, TypeOK
  <2>5. todo' \in [Actors -> SUBSET Targets]
    BY <1>1, <2>3 DEF ResolverAnswers, TypeOK
  <2>6. pc' = [pc EXCEPT ![a] = "registering"]
    BY <1>1 DEF ResolverAnswers, Goto
  <2>7. \A b \in Actors : pc'[b] = "registering" => answer'[b] \in Configs
    BY <1>1, <2>2, <2>4, <2>6 DEF ResolverAnswers, TypeOK
  <2>8. \A b \in Actors : Working(b)' => held'[b] \in known'
    BY <1>1, <2>6 DEF ResolverAnswers, TypeOK, Working, graph
  <2>9. UNCHANGED <<graph, builders, held, poisoned, crashed, verdict>>
    BY <1>1 DEF ResolverAnswers
  <2>10. pc' \in [Actors -> Locking \cup {"planning", "joining", "returned",
                     "off", "notify", "waiting", "exited", "deadlocked",
                     "panicked"}]
    BY <2>6 DEF TypeOK, Locking
  <2>11. \A b \in Actors : pc'[b] = "building" => config'[held'[b]] \in Configs
    BY <2>6, <2>9 DEF TypeOK, graph
  <2>. QED
    BY <2>4, <2>5, <2>7, <2>8, <2>9, <2>10, <2>11, TypeParts DEF graph, TypeOK
<1>2. CASE ResolverFails(a)
  <2>1. held[a] \in Targets
    BY <1>2 DEF ResolverFails, TypeOK, Working
  <2>. QED
    BY <1>2, <2>1, TypeMarkFailure DEF ResolverFails
<1>3. ASSUME NEW d \in todo[a], AddTask(a, d)
      PROVE  TypeOK'
  <2>1. held[a] \in known /\ held[a] \in Targets /\ d \in Targets
    BY <1>3 DEF AddTask, TypeOK, Working
  <2>2. known' \in SUBSET Targets /\ known \subseteq known'
    BY <1>3, <2>1 DEF AddTask, TypeOK
  <2>3. rdeps' \in [Targets -> SUBSET Targets]
    BY <1>3, <2>1 DEF AddTask, TypeOK
  <2>4. result' \in [Targets -> {"none", "ok", "noop", "failure"}]
    BY <1>3, <2>1 DEF AddTask, TypeOK
  <2>5. ready' \in [Targets -> Nat]
    <3>1. ready \in [Targets -> Nat]
      BY DEF TypeOK
    <3>2. ready' = ready \/ ready' = [ready EXCEPT ![held[a]] = @ + 1]
      BY <1>3 DEF AddTask
    <3>. QED
      BY <2>1, <3>1, <3>2
  <2>6. todo' \in [Actors -> SUBSET Targets]
    BY <1>3 DEF AddTask, TypeOK
  <2>. QED
    BY <1>3, <2>2, <2>3, <2>4, <2>5, <2>6 DEF AddTask, TypeOK, Working
<1>4. CASE Commit(a)
  <2>1. held[a] \in Targets /\ answer[a] \in Configs
    BY <1>4 DEF Commit, TypeOK, Working
  <2>2. DoneIn(Dependencies(answer[a])) \in Nat
    BY <2>1, DependenciesType, DoneInType
  <2>3. config' \in [Targets -> Configs \cup {NoConfig}]
    BY <1>4, <2>1 DEF Commit, TypeOK
  <2>4. ready' \in [Targets -> Nat] /\ available' \in [Targets -> BOOLEAN]
    BY <1>4, <2>1, <2>2 DEF Commit, TypeOK
  <2>5. \A t \in Targets : config[t] \in Configs => config'[t] \in Configs
    BY <1>4, <2>1 DEF Commit, TypeOK
  <2>6. \A b \in Actors : pc'[b] = "building" => config'[held'[b]] \in Configs
    BY <1>4, <2>5 DEF Commit, Goto, TypeOK, Working
  <2>7. /\ \A b \in Actors : Working(b)' => held'[b] \in known'
        /\ \A b \in Actors : pc'[b] = "registering" => answer'[b] \in Configs
    BY <1>4 DEF Commit, Goto, TypeOK, Working
  <2>8. pc' \in [Actors -> Locking \cup {"planning", "joining", "returned",
                    "off", "notify", "waiting", "exited", "deadlocked",
                    "panicked"}]
    BY <1>4 DEF Commit, Goto, TypeOK
  <2>9. UNCHANGED <<known, result, rdeps, builders, held, answer, todo,
                    poisoned, crashed, verdict>>
    BY <1>4 DEF Commit
  <2>. QED
    BY <2>3, <2>4, <2>6, <2>7, <2>8, <2>9, TypeParts DEF TypeOK
<1>5. CASE Notify(a)
  BY <1>5 DEF Notify, Woken, LoopTop, TypeOK, Working, Locking, graph
<1>. QED
  BY <1>1, <1>2, <1>3, <1>4, <1>5 DEF Resolve

LEMMA TypeMain ==
    ASSUME TypeOK, MainStep
    PROVE  TypeOK'
<1>. Main \in Actors
  BY DEF Actors
<1>1. ASSUME NEW t \in Targets, NextPlanningTask(t)
      PROVE  TypeOK'
  BY <1>1 DEF NextPlanningTask, PlanCandidate, Taken, Goto, TypeOK, Working,
              Locking
<1>2. CASE Resolve(Main)
  BY <1>2, TypeResolve
<1>3. CASE PlannerFails
  BY <1>3 DEF PlannerFails, Goto, TypeOK, Working, graph
<1>4. CASE PlanDone
  <2>1. verdict' \in {"none", "success", "failure", "unfinished",
                      "deadlocked", "panicked", "planning failed"}
    BY <1>4 DEF PlanDone, Collected, TypeOK
  <2>2. pc' = [pc EXCEPT ![Main] = "returned"]
        \/ pc' = [a \in Actors |-> IF a = Main THEN "joining" ELSE "idle"]
    BY <1>4 DEF PlanDone, Goto
  <2>3. pc' \in [Actors -> Locking \cup {"planning", "joining", "returned",
                    "off", "notify", "waiting", "exited", "deadlocked",
                    "panicked"}]
    BY <2>2 DEF Locking, TypeOK
  <2>4. \A a \in Actors : Working(a)' => Working(a)
    BY <2>2 DEF Working, TypeOK
  <2>5. \A a \in Actors : pc'[a] = "registering" => pc[a] = "registering"
    BY <2>2 DEF TypeOK
  <2>6. UNCHANGED <<graph, builders, held, answer, todo, poisoned, crashed>>
    BY <1>4 DEF PlanDone
  <2>7. \A a \in Actors : pc'[a] = "building" => pc[a] = "building"
    BY <2>2 DEF TypeOK
  <2>. QED
    BY <2>1, <2>3, <2>4, <2>5, <2>6, <2>7, TypeParts DEF TypeOK, graph
<1>5. CASE Join
  <2>1. {pc[w] : w \in Workers} \ {"exited"} \subseteq {"deadlocked", "panicked"}
    BY <1>5 DEF Join
  <2>2. verdict' \in {"success", "failure", "unfinished", "deadlocked",
                      "panicked"}
    BY <1>5, <2>1 DEF Join, Collected
  <2>. QED
    BY <1>5, <2>2 DEF Join, Goto, TypeOK, Working, graph
<1>. QED
  BY <1>1, <1>2, <1>3, <1>4, <1>5 DEF MainStep

LEMMA TypeWorker ==
    ASSUME TypeOK, NEW w \in Workers, WorkerStep(w) \/ SpuriousWakeup(w)
    PROVE  TypeOK'
<1>. w \in Actors
  BY DEF Actors
<1>. USE DEF TypeOK, Working, Locking, graph
<1>1. ASSUME NEW t \in Targets, TakeTask(w, t)
      PROVE  TypeOK'
  <2>1. Resolving(t) \/ config[t] # NoConfig
    BY <1>1 DEF TakeTask, Candidate, Building
  <2>2. pc' = [pc EXCEPT ![w] = IF Resolving(t) THEN "resolving"
                                ELSE "building"]
    BY <1>1 DEF TakeTask, Goto
  <2>3. t \in known /\ available' \in [Targets -> BOOLEAN]
    BY <1>1 DEF TakeTask, Candidate, Taken
  <2>. QED
    BY <1>1, <2>1, <2>2, <2>3 DEF TakeTask
<1>2. CASE Exit(w)
  BY <1>2 DEF Exit, NothingToTake, Goto
<1>3. CASE Deadlock(w)
  BY <1>3 DEF Deadlock, NothingToTake, Woken
<1>4. CASE Wait(w)
  BY <1>4 DEF Wait, NothingToTake, Goto
<1>5. CASE SpuriousWakeup(w)
  BY <1>5 DEF SpuriousWakeup, Goto
<1>6. CASE PoisonPanic(w)
  BY <1>6 DEF PoisonPanic, Goto
<1>7. CASE Resolve(w)
  BY <1>7, TypeResolve
<1>8. CASE LoadPlugin(w)
  <2>1. PICK plugin : /\ plugin \in builders \/ result[plugin] = "ok"
                      /\ plugin = config[held[w]].plugin
                      /\ builders' = builders \cup {plugin}
    BY <1>8 DEF LoadPlugin
  <2>2. plugin \in Targets
    <3>1. config[held[w]] \in Configs
      BY <1>8 DEF LoadPlugin
    <3>2. config[held[w]].plugin \in Targets
      BY <3>1 DEF Configs
    <3>. QED
      BY <2>1, <3>2
  <2>. QED
    BY <1>8, <2>1, <2>2 DEF LoadPlugin, Goto
<1>9. CASE PluginPanic(w)
  BY <1>9 DEF PluginPanic, Panic, Goto
<1>10. CASE ReadDependencies(w)
  BY <1>10 DEF ReadDependencies, Goto
<1>11. CASE DependencyPanic(w)
  BY <1>11 DEF DependencyPanic, Panic, Goto
<1>12. ASSUME NEW o \in {"ok", "noop"}, BuildSucceeds(w, o)
       PROVE  TypeOK'
  <2>1. held[w] \in Targets
    BY <1>12 DEF BuildSucceeds
  <2>2. Counted(held[w]) \in [Targets -> Nat]
    <3>1. ready \in [Targets -> Nat]
      OBVIOUS
    <3>2. \A u \in Targets :
             (IF u \in rdeps[held[w]] THEN ready[u] + 1 ELSE ready[u]) \in Nat
      BY ONLY <3>1
    <3>. QED
      BY ONLY <3>2 DEF Counted
  <2>. QED
    BY <1>12, <2>1, <2>2 DEF BuildSucceeds, Goto
<1>13. CASE BuildFails(w)
  <2>1. held[w] \in Targets
    BY <1>13 DEF BuildFails
  <2>. QED
    BY <1>13, <2>1, TypeMarkFailure DEF BuildFails
<1>. QED
  BY <1>1, <1>2, <1>3, <1>4, <1>5, <1>6, <1>7, <1>8, <1>9, <1>10, <1>11,
     <1>12, <1>13 DEF WorkerStep

LEMMA TypeStep ==
    ASSUME TypeOK, [Next]_vars
    PROVE  TypeOK'
<1>1. CASE MainStep
  BY <1>1, TypeMain
<1>2. ASSUME NEW w \in Workers, WorkerStep(w) \/ SpuriousWakeup(w)
      PROVE  TypeOK'
  BY <1>2, TypeWorker
<1>3. CASE UNCHANGED vars
  BY <1>3 DEF vars, graph, thread, TypeOK, Working
<1>. QED
  BY <1>1, <1>2, <1>3 DEF Next, Terminated

\* Whatever the graph and the threads, every variable keeps its type: in
\* particular a working thread holds a task that exists.
THEOREM TypeCorrect == Spec => []TypeOK
BY TypeInit, TypeStep, PTL DEF Spec

-----------------------------------------------------------------------------
(* The planning comes before the workers *)

LEMMA PhasesInit == Init => Phases
BY ExecutorAssumption DEF Init, Phases, Actors

\* Where an action of a thread leaves the others.
LEMMA PhasesResolve ==
    ASSUME TypeOK, Phases, NEW a \in Actors, Resolve(a)
    PROVE  Phases' /\ (a \in Workers => pc[Main] \in {"joining", "returned"})
<1>1. pc[a] \in {"resolving", "registering", "notify"}
  BY DEF Resolve, ResolverAnswers, ResolverFails, AddTask, Commit, Notify
<1>2. a \in Workers => pc[Main] \in {"joining", "returned"} /\ a # Main
  BY <1>1, ExecutorAssumption DEF Phases
<1>3. \/ pc' = pc
      \/ \E place \in {"registering", "notify"} :
            pc' = [pc EXCEPT ![a] = place]
      \/ pc' = [Woken EXCEPT ![a] = LoopTop(a)]
  BY DEF Resolve, ResolverAnswers, ResolverFails, AddTask, Commit, Notify,
         MarkFailure, Goto
<1>4. CASE a \in Workers
  BY <1>2, <1>3, <1>4 DEF Phases, Woken, Actors, TypeOK
<1>5. CASE a = Main
  <2>1. \A w \in Workers : pc[w] = "off" /\ w # Main
    BY <1>1, <1>5, ExecutorAssumption DEF Phases
  <2>2. \A w \in Workers : pc'[w] = "off"
    BY <1>3, <1>5, <2>1 DEF Woken, Actors, TypeOK
  <2>. QED
    BY <1>5, <2>2, ExecutorAssumption DEF Phases
<1>. QED
  BY <1>2, <1>4, <1>5 DEF Actors

LEMMA PhasesStep ==
    ASSUME TypeOK, Phases, [Next]_vars
    PROVE  Phases'
<1>. USE ExecutorAssumption DEF Actors
<1>1. ASSUME NEW t \in Targets, NextPlanningTask(t)
      PROVE  Phases'
  BY <1>1 DEF NextPlanningTask, Goto, Phases, TypeOK
<1>2. ASSUME NEW a \in Actors, Resolve(a)
      PROVE  Phases'
  BY <1>2, PhasesResolve
<1>3. CASE PlannerFails
  BY <1>3 DEF PlannerFails, PlanningOver, Goto, Phases, TypeOK
<1>4. CASE PlanDone
  BY <1>4 DEF PlanDone, PlanningOver, Goto, Phases, TypeOK
<1>5. CASE Join
  BY <1>5 DEF Join, Goto, Phases, TypeOK
<1>6. ASSUME NEW w \in Workers, pc[w] # "off"
      PROVE  pc[Main] \in {"joining", "returned"} /\ w # Main
  BY <1>6 DEF Phases
<1>7. ASSUME NEW w \in Workers, WorkerStep(w) \/ SpuriousWakeup(w)
      PROVE  Phases'
  <2>1. CASE Resolve(w)
    BY <1>2, <2>1
  <2>2. CASE (\E t \in Targets : TakeTask(w, t)) \/ Exit(w) \/ Deadlock(w)
             \/ Wait(w) \/ PoisonPanic(w) \/ SpuriousWakeup(w)
    <3>1. pc[w] # "off"
      BY <2>2 DEF TakeTask, Exit, Deadlock, Wait, NothingToTake, PoisonPanic,
                  Locking, SpuriousWakeup
    <3>2. pc'[Main] = pc[Main]
      BY <2>2, <3>1, <1>6 DEF TakeTask, Exit, Deadlock, Wait, PoisonPanic,
         SpuriousWakeup, Goto, Woken, TypeOK
    <3>. QED
      BY <3>1, <3>2, <1>6 DEF Phases
  <2>3. CASE LoadPlugin(w) \/ PluginPanic(w) \/ ReadDependencies(w)
             \/ DependencyPanic(w) \/ BuildFails(w)
             \/ \E o \in {"ok", "noop"} : BuildSucceeds(w, o)
    <3>1. pc[w] # "off"
      BY <2>3 DEF LoadPlugin, PluginPanic, ReadDependencies, DependencyPanic,
                  BuildFails, BuildSucceeds
    <3>2. pc'[Main] = pc[Main]
      BY <2>3, <3>1, <1>6 DEF LoadPlugin, PluginPanic, ReadDependencies,
         DependencyPanic, BuildFails, BuildSucceeds, MarkFailure, Panic, Goto,
         TypeOK
    <3>. QED
      BY <3>1, <3>2, <1>6 DEF Phases
  <2>. QED
    BY <1>7, <2>1, <2>2, <2>3 DEF WorkerStep
<1>8. CASE UNCHANGED vars
  BY <1>8 DEF vars, thread, Phases
<1>. QED
  BY <1>1, <1>2, <1>3, <1>4, <1>5, <1>7, <1>8 DEF Next, MainStep, Terminated

-----------------------------------------------------------------------------
(* Steps that leave the graph alone *)

\* An equal graph has the same tasks in the same state.
LEMMA SameGraph ==
    ASSUME UNCHANGED graph
    PROVE  /\ \A t : Succeeded(t)' <=> Succeeded(t)
           /\ \A t : Done(t)' <=> Done(t)
           /\ \A t : Failed(t)' <=> Failed(t)
           /\ \A t : Deps(t)' = Deps(t)
           /\ \A D : DoneIn(D)' = DoneIn(D)
BY DEF graph, Succeeded, Done, Failed, Deps, DoneIn

LEMMA KeepGraph ==
    ASSUME IInv, TypeOK', Phases', Stages', UNCHANGED graph,
           poisoned => poisoned',
           \A b \in Actors : Working(b)' => Working(b) /\ held'[b] = held[b],
           \A b \in Actors :
              pc'[b] \in {"building", "checking", "compiling"} =>
                 pc[b] \in {"building", "checking", "compiling"},
           \A b \in Actors :
              pc[b] = "registering" /\ ~poisoned' =>
                 /\ pc'[b] = "registering"
                 /\ held'[b] = held[b]
                 /\ answer'[b] = answer[b]
                 /\ todo'[b] = todo[b]
    PROVE  IInv'
<1>1. HeldIsTaken'
  BY SameGraph DEF IInv, HeldIsTaken, graph
<1>2. OneHolder'
  BY DEF IInv, OneHolder
<1>3. ReverseEdges'
  <2>1. ASSUME NEW t \in Targets, NEW d \in Targets, config[t] = NoConfig,
               t \in rdeps[d], ~poisoned'
        PROVE  \E a \in Actors :
                  /\ pc'[a] = "registering" /\ held'[a] = t
                  /\ d \in Dependencies(answer'[a]) \ todo'[a]
    <3>1. PICK a \in Actors :
             /\ pc[a] = "registering" /\ held[a] = t
             /\ d \in Dependencies(answer[a]) \ todo[a]
      BY <2>1 DEF IInv, ReverseEdges
    <3>. QED
      BY <2>1, <3>1
  <2>. QED
    BY <2>1, SameGraph DEF IInv, ReverseEdges, graph
<1>4. Unseen'
  BY SameGraph DEF IInv, Unseen, graph
<1>5. ReadyIsExact'
  BY SameGraph DEF IInv, ReadyIsExact, graph
<1>6. BuildsAfterDependencies'
  <2>1. ASSUME NEW w \in Workers,
               pc'[w] \in {"building", "checking", "compiling"},
               NEW d \in Deps(held[w])'
        PROVE  Done(d)'
    <3>1. /\ pc[w] \in {"building", "checking", "compiling"}
          /\ held'[w] = held[w]
      BY <2>1 DEF Actors, Working
    <3>2. d \in Deps(held[w])
      BY <2>1, <3>1 DEF Deps, graph
    <3>3. Done(d)
      BY <3>1, <3>2 DEF IInv, BuildsAfterDependencies
    <3>. QED
      BY <3>3, SameGraph
  <2>. QED
    BY <2>1 DEF BuildsAfterDependencies
<1>7. SuccessRestsOnSuccess'
  BY SameGraph DEF IInv, SuccessRestsOnSuccess, graph
<1>. QED
  BY <1>1, <1>2, <1>3, <1>4, <1>5, <1>6, <1>7 DEF IInv

\* A thread that goes to a place where it holds no task, or that stays.
LEMMA IdleMove ==
    ASSUME IInv, TypeOK', Phases', UNCHANGED graph, poisoned => poisoned',
           \A b \in Actors :
              Working(b)' => /\ pc'[b] = pc[b] /\ held'[b] = held[b]
                             /\ answer'[b] = answer[b] /\ todo'[b] = todo[b],
           \A b \in Actors :
              pc[b] = "registering" /\ ~poisoned' =>
                 /\ pc'[b] = "registering"
                 /\ held'[b] = held[b]
                 /\ answer'[b] = answer[b]
                 /\ todo'[b] = todo[b]
    PROVE  IInv'
<1>1. Stages'
  <2>1. ASSUME NEW b \in Actors, Working(b)'
        PROVE  /\ pc'[b] = "resolving" =>
                     (config[held[b]] = NoConfig /\ ~Done(held[b]))'
               /\ pc'[b] = "registering" =>
                     (/\ config[held[b]] = NoConfig /\ ~Succeeded(held[b])
                      /\ todo[b] \subseteq Dependencies(answer[b])
                      /\ \A d \in Dependencies(answer[b]) \ todo[b] :
                            held[b] \in rdeps[d])'
               /\ pc'[b] \in {"building", "checking"} =>
                     (/\ config[held[b]] # NoConfig /\ ~Succeeded(held[b])
                      /\ Done(held[b]) =>
                            \E d \in Deps(held[b]) : Failed(d))'
               /\ pc'[b] = "compiling" =>
                     (/\ config[held[b]] # NoConfig /\ ~Done(held[b])
                      /\ \A d \in Deps(held[b]) : Succeeded(d))'
    <3>1. /\ pc'[b] = pc[b] /\ held'[b] = held[b]
          /\ answer'[b] = answer[b] /\ todo'[b] = todo[b]
      BY <2>1
    <3>2. /\ config' = config /\ rdeps' = rdeps /\ result' = result
      BY DEF graph
    <3>. QED
      BY <3>1, <3>2 DEF IInv, Stages, Done, Succeeded, Failed, Deps
  <2>. QED
    BY <2>1 DEF Stages, Working
<1>2. \A b \in Actors : Working(b)' => Working(b) /\ held'[b] = held[b]
  BY DEF Working
<1>3. \A b \in Actors :
         pc'[b] \in {"building", "checking", "compiling"} =>
            pc[b] \in {"building", "checking", "compiling"}
  BY DEF Working
<1>. QED
  BY <1>1, <1>2, <1>3, KeepGraph

-----------------------------------------------------------------------------
(* Taking a task *)

LEMMA DepsType ==
    ASSUME TypeOK, NEW t \in Targets
    PROVE  Deps(t) \in SUBSET Targets
BY DependenciesType DEF Deps, TypeOK

\* A task whose counter has reached the number of its dependencies has no
\* unfinished dependency.
LEMMA BuildableIsReady ==
    ASSUME IInv, NEW t \in known, Building(t)
    PROVE  \A d \in Deps(t) : Done(d)
<1>. DEFINE F == {d \in Deps(t) : Done(d)}
<1>1. t \in Targets
  BY DEF IInv, TypeOK
<1>2. IsFiniteSet(Deps(t))
  BY <1>1, DepsType, ExecutorAssumption, FS_Subset DEF IInv
<1>3. IsFiniteSet(F) /\ Cardinality(F) <= Cardinality(Deps(t))
      /\ (Cardinality(F) = Cardinality(Deps(t)) => F = Deps(t))
  BY <1>2, FS_Subset
<1>4. Cardinality(F) \in Nat /\ Cardinality(Deps(t)) \in Nat
  BY <1>2, <1>3, FS_CardinalityType
<1>5. ready[t] = Cardinality(F)
  BY DEF IInv, ReadyIsExact, Building, DoneIn
<1>6. Cardinality(F) >= Cardinality(Deps(t))
  BY <1>5 DEF Building
<1>7. F = Deps(t)
  BY <1>3, <1>4, <1>6
<1>. QED
  BY <1>7

LEMMA TakeStep ==
    ASSUME IInv, TypeOK', Phases', NEW a \in Actors, NEW t \in known,
           ~Working(a), available[t], Resolving(t) \/ Building(t),
           available' = Taken(t),
           held' = [held EXCEPT ![a] = t],
           pc' = [pc EXCEPT ![a] =
                     IF Resolving(t) THEN "resolving" ELSE "building"],
           UNCHANGED <<known, config, result, ready, rdeps, builders, answer,
                       todo, poisoned>>
    PROVE  IInv'
<1>. t \in Targets
  BY DEF IInv, TypeOK
<1>1. /\ \A u : Succeeded(u)' <=> Succeeded(u)
      /\ \A u : Done(u)' <=> Done(u)
      /\ \A u : Deps(u)' = Deps(u)
      /\ \A D : DoneIn(D)' = DoneIn(D)
  BY DEF Succeeded, Done, Deps, DoneIn
<1>2. /\ held'[a] = t
      /\ pc'[a] = IF Resolving(t) THEN "resolving" ELSE "building"
      /\ \A b \in Actors \ {a} : pc'[b] = pc[b] /\ held'[b] = held[b]
  BY DEF IInv, TypeOK
<1>3. /\ available'[t] = FALSE
      /\ \A u \in Targets \ {t} : available'[u] = available[u]
  BY DEF IInv, TypeOK, Taken
<1>4. \A b \in Actors \ {a} :
         /\ Working(b)' <=> Working(b)
         /\ Working(b) => held[b] \in Targets /\ held[b] # t
  <2>1. ASSUME NEW b \in Actors \ {a}, Working(b)
        PROVE  held[b] \in Targets /\ held[b] # t
    <3>1. held[b] \in Targets
      BY <2>1 DEF IInv, TypeOK
    <3>2. Done(held[b]) \/ ~available[held[b]]
      BY <2>1 DEF IInv, HeldIsTaken
    <3>. QED
      BY <3>1, <3>2 DEF Resolving, Building
  <2>. QED
    BY <1>2, <2>1 DEF Working
<1>5. Stages'
  <2>1. ASSUME NEW b \in Actors \ {a}
        PROVE  /\ pc'[b] = "resolving" =>
                     (config[held[b]] = NoConfig /\ ~Done(held[b]))'
               /\ pc'[b] = "registering" =>
                     (/\ config[held[b]] = NoConfig /\ ~Succeeded(held[b])
                      /\ todo[b] \subseteq Dependencies(answer[b])
                      /\ \A d \in Dependencies(answer[b]) \ todo[b] :
                            held[b] \in rdeps[d])'
               /\ pc'[b] \in {"building", "checking"} =>
                     (/\ config[held[b]] # NoConfig /\ ~Succeeded(held[b])
                      /\ Done(held[b]) =>
                            \E d \in Deps(held[b]) : Failed(d))'
               /\ pc'[b] = "compiling" =>
                     (/\ config[held[b]] # NoConfig /\ ~Done(held[b])
                      /\ \A d \in Deps(held[b]) : Succeeded(d))'
    <3>1. pc'[b] = pc[b] /\ held'[b] = held[b] /\ answer' = answer
          /\ todo' = todo /\ config' = config /\ rdeps' = rdeps
          /\ result' = result
      BY <1>2
    <3>. QED
      BY <3>1 DEF IInv, Stages, Done, Succeeded, Failed, Deps
  <2>2. /\ pc'[a] = "resolving" => config[t] = NoConfig /\ ~Done(t)
        /\ pc'[a] = "building" => config[t] # NoConfig /\ ~Succeeded(t)
                                  /\ ~Done(t)
        /\ pc'[a] \in {"resolving", "building"}
    BY <1>2 DEF Resolving, Building, Done, Succeeded
  <2>3. /\ pc'[a] = "resolving" =>
              (config[held[a]] = NoConfig /\ ~Done(held[a]))'
        /\ pc'[a] = "building" =>
              (config[held[a]] # NoConfig /\ ~Succeeded(held[a])
               /\ ~Done(held[a]))'
        /\ pc'[a] \notin {"registering", "checking", "compiling"}
    BY <1>2, <2>2 DEF Done, Succeeded
  <2>. QED
    BY <2>1, <2>3 DEF Stages
<1>6. HeldIsTaken'
  BY <1>1, <1>2, <1>3, <1>4 DEF IInv, HeldIsTaken
<1>7. OneHolder'
  BY <1>2, <1>4 DEF IInv, OneHolder
<1>8. ReverseEdges'
  <2>1. ASSUME NEW u \in Targets, NEW d \in Targets, config[u] = NoConfig,
               u \in rdeps[d], ~poisoned
        PROVE  \E b \in Actors :
                  /\ pc'[b] = "registering" /\ held'[b] = u
                  /\ d \in Dependencies(answer'[b]) \ todo'[b]
    <3>1. PICK b \in Actors :
             /\ pc[b] = "registering" /\ held[b] = u
             /\ d \in Dependencies(answer[b]) \ todo[b]
      BY <2>1 DEF IInv, ReverseEdges
    <3>2. b # a
      BY <3>1 DEF Working
    <3>. QED
      BY <1>2, <3>1, <3>2
  <2>. QED
    BY <1>1, <2>1 DEF IInv, ReverseEdges
<1>9. Unseen' /\ ReadyIsExact' /\ SuccessRestsOnSuccess'
  BY <1>1 DEF IInv, Unseen, ReadyIsExact, SuccessRestsOnSuccess
<1>10. BuildsAfterDependencies'
  <2>1. ASSUME NEW w \in Workers,
               pc'[w] \in {"building", "checking", "compiling"},
               NEW d \in Deps(held[w])'
        PROVE  Done(d)'
    <3>1. CASE w = a
      <4>1. Building(t) /\ d \in Deps(t)
        BY <1>1, <1>2, <2>1, <3>1 DEF Deps
      <4>. QED
        BY <1>1, <4>1, BuildableIsReady
    <3>2. CASE w # a
      <4>1. pc[w] \in {"building", "checking", "compiling"}
            /\ d \in Deps(held[w])
        BY <1>2, <2>1, <3>2 DEF Actors, Deps
      <4>. QED
        BY <1>1, <4>1 DEF IInv, BuildsAfterDependencies
    <3>. QED
      BY <3>1, <3>2
  <2>. QED
    BY <2>1 DEF BuildsAfterDependencies
<1>. QED
  BY <1>5, <1>6, <1>7, <1>8, <1>9, <1>10 DEF IInv

-----------------------------------------------------------------------------
(* Resolving a task *)

LEMMA AddTaskStep ==
    ASSUME IInv, TypeOK', Phases', NEW a \in Actors, NEW d \in todo[a],
           AddTask(a, d)
    PROVE  IInv'
<1>. DEFINE t == held[a]
<1>1. t \in known /\ t \in Targets /\ d \in Targets
  BY DEF AddTask, IInv, TypeOK, Working
<1>2. config[t] = NoConfig /\ ~Succeeded(t) /\ pc[a] = "registering"
      /\ ~poisoned /\ ~poisoned'
  BY DEF AddTask, IInv, Stages
<1>3. /\ pc' = pc /\ held' = held /\ answer' = answer
      /\ config' = config /\ available' = available
      /\ todo'[a] = todo[a] \ {d} /\ known' = known \cup {d}
      /\ \A b \in Actors \ {a} : todo'[b] = todo[b]
      /\ rdeps'[d] = rdeps[d] \cup {t}
      /\ \A u \in Targets \ {d} : rdeps'[u] = rdeps[u]
  BY <1>1 DEF AddTask, IInv, TypeOK
<1>4. /\ \A u \in Targets \ {d} : result'[u] = result[u]
      /\ result'[d] # result[d] => d \notin known /\ result'[d] = "noop"
      /\ \A u \in Targets \ {t} : ready'[u] = ready[u]
  <2>1. /\ result \in [Targets -> {"none", "ok", "noop", "failure"}]
        /\ ready \in [Targets -> Nat]
    BY DEF IInv, TypeOK
  <2>2. \/ /\ d \notin known
           /\ result' = [result EXCEPT ![d] = "noop"]
           /\ ready' = [ready EXCEPT ![t] = @ + 1]
        \/ result' = result /\ ready' = ready
    BY DEF AddTask
  <2>. QED
    BY <1>1, <2>1, <2>2
<1>5. d \notin known => /\ config[d] = NoConfig /\ ~Done(d)
                        /\ rdeps[d] = {}
                        /\ \A u \in Targets : d \notin rdeps[u]
                        /\ \A u \in Targets : config[u] # NoConfig =>
                              d \notin Deps(u)
                        /\ \A b \in Actors : Working(b) => held[b] # d
  <2>. SUFFICES ASSUME d \notin known
                PROVE  /\ config[d] = NoConfig /\ ~Done(d)
                       /\ rdeps[d] = {}
                       /\ \A u \in Targets : d \notin rdeps[u]
                       /\ \A u \in Targets : config[u] # NoConfig =>
                             d \notin Deps(u)
                       /\ \A b \in Actors : Working(b) => held[b] # d
    OBVIOUS
  <2>1. config[d] = NoConfig /\ ~Done(d)
    BY <1>1 DEF IInv, Unseen
  <2>2. \A u \in Targets : u \notin rdeps[d] /\ d \notin rdeps[u]
    BY <1>1 DEF IInv, ReverseEdges
  <2>3. rdeps[d] \subseteq Targets
    BY <1>1 DEF IInv, TypeOK
  <2>4. \A u \in Targets : config[u] # NoConfig => d \notin Deps(u)
    BY <1>1, <2>2 DEF IInv, ReverseEdges
  <2>5. \A b \in Actors : Working(b) => held[b] # d
    BY DEF IInv, TypeOK
  <2>. QED
    BY <2>1, <2>2, <2>3, <2>4, <2>5
<1>6. /\ \A u \in Targets : Done(u) => Done(u)'
      /\ \A u \in Targets : Deps(u)' = Deps(u)
      /\ \A u \in known : (Succeeded(u)' <=> Succeeded(u))
                          /\ (Done(u)' <=> Done(u))
      /\ \A u \in Targets : Succeeded(u) => Succeeded(u)'
  BY <1>3, <1>4, <1>5 DEF Done, Succeeded, Deps, IInv, TypeOK
<1>7. \A b \in Actors : /\ Working(b)' <=> Working(b)
                        /\ Working(b) => held[b] \in known
  BY <1>3 DEF Working, IInv, TypeOK
<1>8. Stages'
  <2>1. ASSUME NEW b \in Actors, pc[b] = "resolving"
        PROVE  (config[held[b]] = NoConfig /\ ~Done(held[b]))'
    BY <1>3, <1>6, <1>7, <2>1 DEF IInv, Stages, Working
  <2>2. ASSUME NEW b \in Actors, pc[b] = "registering"
        PROVE  (/\ config[held[b]] = NoConfig /\ ~Succeeded(held[b])
                /\ todo[b] \subseteq Dependencies(answer[b])
                /\ \A x \in Dependencies(answer[b]) \ todo[b] :
                       held[b] \in rdeps[x])'
    <3>1. (config[held[b]] = NoConfig /\ ~Succeeded(held[b])
           /\ todo[b] \subseteq Dependencies(answer[b]))'
      BY <1>3, <1>6, <1>7, <2>2 DEF IInv, Stages, Working
    <3>2. ASSUME NEW x \in Dependencies(answer[b]) \ todo'[b]
          PROVE  held[b] \in rdeps'[x]
      <4>1. x \in Targets
        BY <2>2, <3>2, DependenciesType DEF IInv, TypeOK
      <4>2. CASE x \notin todo[b]
        BY <1>3, <2>2, <3>2, <4>1, <4>2 DEF IInv, Stages
      <4>3. CASE x \in todo[b]
        BY <1>3, <3>2, <4>1, <4>3
      <4>. QED
        BY <4>2, <4>3
    <3>. QED
      BY <1>3, <3>1, <3>2
  <2>3. ASSUME NEW b \in Actors, pc[b] \in {"building", "checking"}
        PROVE  (/\ config[held[b]] # NoConfig /\ ~Succeeded(held[b])
                /\ Done(held[b]) => \E x \in Deps(held[b]) : Failed(x))'
    <3>1. held[b] \in known /\ Deps(held[b]) \in SUBSET Targets
      BY <1>7, <2>3, DepsType DEF IInv, TypeOK, Working
    <3>2. /\ config[held[b]] # NoConfig /\ ~Succeeded(held[b])
          /\ Done(held[b]) => \E x \in Deps(held[b]) : Failed(x)
      BY <2>3 DEF IInv, Stages
    <3>3. \A x \in Targets : Failed(x) => Failed(x)'
      BY <1>4, <1>5 DEF Failed, Done
    <3>4. Deps(held[b])' = Deps(held[b])
      BY <1>3 DEF Deps
    <3>. QED
      BY <1>3, <1>6, <3>1, <3>2, <3>3, <3>4
  <2>4. ASSUME NEW b \in Actors, pc[b] = "compiling"
        PROVE  (/\ config[held[b]] # NoConfig /\ ~Done(held[b])
                /\ \A x \in Deps(held[b]) : Succeeded(x))'
    <3>1. held[b] \in Targets /\ Deps(held[b]) \in SUBSET Targets
      BY <1>7, <2>4, DepsType DEF IInv, TypeOK, Working
    <3>. QED
      BY <1>3, <1>6, <1>7, <2>4, <3>1 DEF IInv, Stages, Working
  <2>. QED
    BY <1>3, <2>1, <2>2, <2>3, <2>4 DEF Stages
<1>9. HeldIsTaken' /\ OneHolder'
  BY <1>3, <1>6, <1>7 DEF IInv, HeldIsTaken, OneHolder
<1>10. ReverseEdges'
  <2>1. ASSUME NEW u \in Targets, NEW x \in Targets
        PROVE  /\ u \in rdeps'[x] => u \in known' /\ x \in known'
               /\ config[u] # NoConfig => (u \in rdeps'[x] <=> x \in Deps(u))
    BY <1>1, <1>2, <1>3 DEF IInv, ReverseEdges
  <2>2. ASSUME NEW u \in Targets, NEW x \in Targets, config[u] = NoConfig,
               u \in rdeps'[x]
        PROVE  \E b \in Actors :
                  /\ pc'[b] = "registering" /\ held'[b] = u
                  /\ x \in Dependencies(answer'[b]) \ todo'[b]
    <3>1. CASE u \in rdeps[x]
      <4>1. PICK b \in Actors :
               /\ pc[b] = "registering" /\ held[b] = u
               /\ x \in Dependencies(answer[b]) \ todo[b]
        BY <1>2, <2>2, <3>1 DEF IInv, ReverseEdges
      <4>2. x \in Dependencies(answer'[b]) \ todo'[b]
        BY <1>3, <4>1
      <4>. QED
        BY <1>3, <4>1, <4>2
    <3>2. CASE u \notin rdeps[x]
      <4>1. x = d /\ u = t
        BY <1>3, <2>2, <3>2
      <4>2. d \in Dependencies(answer[a])
        BY <1>2 DEF IInv, Stages
      <4>. QED
        BY <1>2, <1>3, <4>1, <4>2
    <3>. QED
      BY <3>1, <3>2
  <2>. QED
    BY <1>3, <1>6, <2>1, <2>2 DEF ReverseEdges
<1>11. Unseen'
  BY <1>3, <1>4 DEF IInv, Unseen, Done
<1>12. ASSUME NEW u \in known', config[u] # NoConfig
       PROVE  /\ u \in known /\ u # t /\ u \in Targets
              /\ Deps(u) \subseteq known
              /\ DoneIn(Deps(u))' = DoneIn(Deps(u))
  <2>1. u \in known /\ u # t /\ u \in Targets
    BY <1>2, <1>3, <1>5, <1>12 DEF IInv, TypeOK
  <2>2. Deps(u) \subseteq known
    BY <1>12, <2>1, DepsType DEF IInv, ReverseEdges
  <2>3. {x \in Deps(u) : Done(x)'} = {x \in Deps(u) : Done(x)}
    BY <1>6, <2>2
  <2>4. Deps(u)' = Deps(u)
    BY <1>6, <2>1
  <2>. QED
    BY <2>1, <2>2, <2>3, <2>4 DEF DoneIn
<1>13. ReadyIsExact'
  BY <1>3, <1>4, <1>6, <1>12 DEF IInv, ReadyIsExact
<1>14. BuildsAfterDependencies'
  <2>1. ASSUME NEW w \in Workers,
               pc[w] \in {"building", "checking", "compiling"}
        PROVE  /\ Deps(held[w])' = Deps(held[w])
               /\ \A x \in Deps(held[w]) : Done(x)'
    <3>1. held[w] \in Targets /\ Deps(held[w]) \in SUBSET Targets
      BY <1>7, <2>1, DepsType DEF Working, Actors, IInv, TypeOK
    <3>. QED
      BY <1>3, <1>6, <2>1, <3>1 DEF IInv, BuildsAfterDependencies
  <2>. QED
    BY <1>3, <2>1 DEF BuildsAfterDependencies
<1>15. SuccessRestsOnSuccess'
  <2>1. ASSUME NEW u \in known', Succeeded(u)', config[u] # NoConfig
        PROVE  \A x \in Deps(u) : x \in known /\ Succeeded(x)'
    BY <1>6, <1>12, <2>1 DEF IInv, SuccessRestsOnSuccess
  <2>2. \A u \in known' : /\ Deps(u)' = Deps(u)
                          /\ config[u] = NoConfig => Deps(u) = {}
    BY <1>1, <1>3, <1>6 DEF Deps, IInv, TypeOK
  <2>. QED
    BY <1>3, <2>1, <2>2 DEF SuccessRestsOnSuccess
<1>. QED
  BY <1>8, <1>9, <1>10, <1>11, <1>13, <1>14, <1>15 DEF IInv

LEMMA CommitStep ==
    ASSUME IInv, TypeOK', Phases', NEW a \in Actors, Commit(a)
    PROVE  IInv'
<1>. DEFINE t == held[a]
<1>1. t \in known /\ t \in Targets /\ answer[a] \in Configs
      /\ answer[a] # NoConfig
  <2>1. pc[a] = "registering"
    BY DEF Commit
  <2>2. t \in known /\ answer[a] \in Configs
    BY <2>1 DEF IInv, TypeOK, Working
  <2>3. known \subseteq Targets
    BY DEF IInv, TypeOK
  <2>. QED
    BY <2>2, <2>3, ExecutorAssumption
<1>2. config[t] = NoConfig /\ ~Succeeded(t) /\ pc[a] = "registering"
      /\ ~poisoned /\ ~poisoned' /\ todo[a] = {}
      /\ Dependencies(answer[a]) \in SUBSET Targets
  BY <1>1, DependenciesType DEF Commit, IInv, Stages
<1>3. /\ held' = held /\ answer' = answer /\ todo' = todo /\ known' = known
      /\ result' = result /\ rdeps' = rdeps
      /\ pc'[a] = "notify"
      /\ \A b \in Actors \ {a} : pc'[b] = pc[b]
      /\ config'[t] = answer[a]
      /\ \A u \in Targets \ {t} : config'[u] = config[u]
  BY <1>1 DEF Commit, Goto, IInv, TypeOK
<1>4. /\ ready'[t] = DoneIn(Dependencies(answer[a]))
      /\ \A u \in Targets \ {t} : ready'[u] = ready[u]
      /\ \A u \in Targets \ {t} : available'[u] = available[u]
  BY <1>1 DEF Commit, IInv, TypeOK
<1>5. /\ \A u : Succeeded(u)' <=> Succeeded(u)
      /\ \A u : Done(u)' <=> Done(u)
      /\ \A u : Failed(u)' <=> Failed(u)
      /\ \A D : DoneIn(D)' = DoneIn(D)
      /\ Deps(t)' = Dependencies(answer[a])
      /\ \A u \in Targets \ {t} : Deps(u)' = Deps(u)
  BY <1>1, <1>3 DEF Succeeded, Done, Failed, Deps, DoneIn
<1>6. \A b \in Actors : Working(b)' => /\ b # a /\ Working(b)
                                       /\ pc'[b] = pc[b]
                                       /\ held[b] \in Targets \ {t}
  BY <1>2, <1>3 DEF Working, IInv, OneHolder, TypeOK
<1>7. Stages'
  <2>1. ASSUME NEW b \in Actors, Working(b)'
        PROVE  /\ pc'[b] = "resolving" =>
                     (config[held[b]] = NoConfig /\ ~Done(held[b]))'
               /\ pc'[b] = "registering" =>
                     (/\ config[held[b]] = NoConfig /\ ~Succeeded(held[b])
                      /\ todo[b] \subseteq Dependencies(answer[b])
                      /\ \A d \in Dependencies(answer[b]) \ todo[b] :
                            held[b] \in rdeps[d])'
               /\ pc'[b] \in {"building", "checking"} =>
                     (/\ config[held[b]] # NoConfig /\ ~Succeeded(held[b])
                      /\ Done(held[b]) =>
                            \E d \in Deps(held[b]) : Failed(d))'
               /\ pc'[b] = "compiling" =>
                     (/\ config[held[b]] # NoConfig /\ ~Done(held[b])
                      /\ \A d \in Deps(held[b]) : Succeeded(d))'
    <3>1. /\ held'[b] = held[b] /\ config'[held[b]] = config[held[b]]
          /\ pc'[b] = pc[b] /\ Deps(held[b])' = Deps(held[b])
      BY <1>3, <1>5, <1>6, <2>1
    <3>. QED
      BY <1>3, <1>5, <3>1 DEF IInv, Stages
  <2>. QED
    BY <2>1 DEF Stages, Working
<1>8. HeldIsTaken' /\ OneHolder'
  BY <1>3, <1>4, <1>5, <1>6 DEF IInv, HeldIsTaken, OneHolder
<1>9. ReverseEdges'
  <2>1. ASSUME NEW d \in Targets
        PROVE  t \in rdeps[d] <=> d \in Dependencies(answer[a])
    <3>1. ASSUME d \in Dependencies(answer[a])
          PROVE  t \in rdeps[d]
      BY <1>2, <3>1 DEF IInv, Stages
    <3>2. ASSUME t \in rdeps[d]
          PROVE  d \in Dependencies(answer[a])
      <4>1. PICK b \in Actors :
               /\ pc[b] = "registering" /\ held[b] = t
               /\ d \in Dependencies(answer[b]) \ todo[b]
        BY <1>1, <1>2, <3>2 DEF IInv, ReverseEdges
      <4>2. b = a
        BY <1>2, <4>1 DEF IInv, OneHolder, Working
      <4>. QED
        BY <4>1, <4>2
    <3>. QED
      BY <3>1, <3>2
  <2>2. ASSUME NEW u \in Targets, NEW d \in Targets, config'[u] = NoConfig,
               u \in rdeps[d]
        PROVE  \E b \in Actors :
                  /\ pc'[b] = "registering" /\ held'[b] = u
                  /\ d \in Dependencies(answer'[b]) \ todo'[b]
    <3>1. u # t /\ config[u] = NoConfig
      BY <1>1, <1>3, <2>2
    <3>2. PICK b \in Actors :
             /\ pc[b] = "registering" /\ held[b] = u
             /\ d \in Dependencies(answer[b]) \ todo[b]
      BY <1>2, <2>2, <3>1 DEF IInv, ReverseEdges
    <3>. QED
      BY <1>3, <3>1, <3>2
  <2>3. ASSUME NEW u \in Targets, NEW d \in Targets, config'[u] # NoConfig
        PROVE  u \in rdeps[d] <=> d \in Deps(u)'
    BY <1>3, <1>5, <2>1, <2>3 DEF IInv, ReverseEdges
  <2>. QED
    BY <1>3, <2>2, <2>3 DEF IInv, ReverseEdges
<1>10. Unseen'
  BY <1>1, <1>3, <1>5 DEF IInv, Unseen
<1>11. ReadyIsExact'
  <2>1. DoneIn(Deps(t))' = DoneIn(Dependencies(answer[a]))
    BY <1>3, <1>5 DEF DoneIn, Done
  <2>2. ASSUME NEW u \in known \ {t}
        PROVE  /\ u \in Targets /\ config'[u] = config[u]
               /\ DoneIn(Deps(u))' = DoneIn(Deps(u))
    <3>1. u \in Targets \ {t}
      BY DEF IInv, TypeOK
    <3>2. config'[u] = config[u] /\ Deps(u)' = Deps(u)
      BY <1>3, <1>5, <3>1
    <3>. QED
      BY <1>3, <3>1, <3>2 DEF DoneIn, Done
  <2>. QED
    BY <1>3, <1>4, <1>5, <2>1, <2>2 DEF IInv, ReadyIsExact
<1>12. BuildsAfterDependencies'
  <2>1. ASSUME NEW w \in Workers,
               pc'[w] \in {"building", "checking", "compiling"}
        PROVE  /\ pc[w] = pc'[w]
               /\ Deps(held[w])' = Deps(held[w])
    BY <1>3, <1>5, <1>6, <2>1 DEF Working, Actors
  <2>. QED
    BY <1>3, <1>5, <2>1 DEF IInv, BuildsAfterDependencies
<1>13. SuccessRestsOnSuccess'
  <2>1. ASSUME NEW u \in known, Succeeded(u)
        PROVE  u \in Targets \ {t}
    BY <1>2, <2>1 DEF IInv, TypeOK
  <2>. QED
    BY <1>3, <1>5, <2>1 DEF IInv, SuccessRestsOnSuccess
<1>. QED
  BY <1>7, <1>8, <1>9, <1>10, <1>11, <1>12, <1>13 DEF IInv

-----------------------------------------------------------------------------
(* The results of a task *)

\* What depends on a task that has not succeeded has not succeeded either.
LEMMA NotSucceededCloses ==
    ASSUME IInv, ~poisoned, NEW u \in Targets, ~Succeeded(u),
           NEW r \in rdeps[u]
    PROVE  r \in Targets /\ ~Succeeded(r)
<1>1. r \in Targets /\ r \in known
  BY DEF IInv, TypeOK, ReverseEdges
<1>2. CASE config[r] # NoConfig
  <2>1. u \in Deps(r)
    BY <1>1, <1>2 DEF IInv, ReverseEdges
  <2>. QED
    BY <1>1, <2>1 DEF IInv, SuccessRestsOnSuccess
<1>3. CASE config[r] = NoConfig
  BY <1>1, <1>3 DEF IInv, ReverseEdges, Stages
<1>. QED
  BY <1>1, <1>2, <1>3

\* A failure reaches no task that has succeeded, and none that a thread is
\* about to fail to resolve or to finish.
LEMMA FailureIsLocal ==
    ASSUME IInv, ~poisoned, NEW t \in Targets, ~Succeeded(t)
    PROVE  /\ FailedBy(t) \subseteq {u \in Targets : ~Succeeded(u)}
           /\ \A u \in FailedBy(t) \ {t} :
                 \E x \in FailedBy(t) : u \in rdeps[x]
           /\ \A b \in Actors :
                 pc[b] \in {"resolving", "compiling"} /\ held[b] # t =>
                    held[b] \notin FailedBy(t)
<1>. DEFINE S == {u \in Targets : ~Succeeded(u)}
<1>1. \A x \in S : rdeps[x] \subseteq S
  BY NotSucceededCloses
<1>2. FailedBy(t) \subseteq S
  BY <1>1, FailureIsLeast
<1>3. ASSUME NEW b \in Actors, pc[b] \in {"resolving", "compiling"},
             held[b] # t
      PROVE  held[b] \notin FailedBy(t)
  <2>. DEFINE R == S \ {held[b]}
  <2>1. ASSUME NEW x \in R
        PROVE  held[b] \notin rdeps[x]
    <3>. SUFFICES ASSUME held[b] \in rdeps[x]
                  PROVE  FALSE
      OBVIOUS
    <3>1. held[b] \in Targets
      BY <1>3 DEF IInv, TypeOK, Working
    <3>2. CASE pc[b] = "compiling"
      <4>1. x \in Deps(held[b])
        BY <3>1, <3>2 DEF IInv, ReverseEdges, Stages
      <4>. QED
        BY <3>2, <4>1 DEF IInv, Stages
    <3>3. CASE pc[b] = "resolving"
      <4>1. config[held[b]] = NoConfig
        BY <3>3 DEF IInv, Stages
      <4>2. PICK c \in Actors : pc[c] = "registering" /\ held[c] = held[b]
        BY <3>1, <4>1 DEF IInv, ReverseEdges
      <4>. QED
        BY <3>3, <4>2 DEF IInv, OneHolder, Working
    <3>. QED
      BY <1>3, <3>2, <3>3
  <2>2. \A x \in R : rdeps[x] \subseteq R
    BY <1>1, <2>1
  <2>3. FailedBy(t) \subseteq R
    BY <1>3, <2>2, FailureIsLeast
  <2>. QED
    BY <2>3
<1>4. ASSUME NEW u \in FailedBy(t) \ {t}
      PROVE  \E x \in FailedBy(t) : u \in rdeps[x]
  <2>. SUFFICES ASSUME \A x \in FailedBy(t) : u \notin rdeps[x]
                PROVE  FALSE
    OBVIOUS
  <2>. DEFINE R == FailedBy(t) \ {u}
  <2>1. t \in R /\ \A x \in R : rdeps[x] \subseteq R
    BY FailureCloses DEF IInv
  <2>2. R \in SUBSET Targets
    BY DEF FailedBy
  <2>3. FailedBy(t) \subseteq R
    BY <2>1, <2>2, FailureIsLeast
  <2>. QED
    BY <1>4, <2>3
<1>. QED
  BY <1>2, <1>3, <1>4

LEMMA FailureStep ==
    ASSUME IInv, TypeOK', Phases', NEW a \in Actors, ~poisoned,
           pc[a] \in {"resolving", "compiling"},
           MarkFailure(a, held[a]),
           UNCHANGED <<known, config, ready, rdeps, builders, held, answer,
                       todo, poisoned, verdict>>
    PROVE  IInv'
<1>. DEFINE t == held[a]
            F == FailedBy(t)
<1>1. t \in known /\ t \in Targets /\ ~Done(t) /\ ~Succeeded(t)
  <2>1. t \in known /\ known \subseteq Targets
    BY DEF IInv, TypeOK, Working
  <2>2. ~Done(t)
    BY DEF IInv, Stages
  <2>. QED
    BY <2>1, <2>2 DEF Done, Succeeded
<1>2. CASE Endless(t)
  BY <1>2, IdleMove DEF MarkFailure, graph
<1>3. CASE ~Endless(t)
  <2>1. /\ t \in F /\ F \subseteq {u \in Targets : ~Succeeded(u)}
        /\ \A u \in F : rdeps[u] \subseteq F
        /\ \A u \in F \ {t} : \E x \in F : u \in rdeps[x]
        /\ \A b \in Actors :
              pc[b] \in {"resolving", "compiling"} /\ held[b] # t =>
                 held[b] \notin F
    BY <1>1, FailureCloses, FailureIsLocal DEF IInv
  <2>2. /\ \A u \in F : result'[u] = "failure" /\ available'[u] = TRUE
        /\ \A u \in Targets \ F : result'[u] = result[u]
                                  /\ available'[u] = available[u]
        /\ pc'[a] = "notify"
        /\ \A b \in Actors \ {a} : pc'[b] = pc[b]
    <3>1. /\ result' = [u \in Targets |->
                           IF u \in F THEN "failure" ELSE result[u]]
          /\ available' = [u \in Targets |->
                              IF u \in F THEN TRUE ELSE available[u]]
          /\ pc' = [pc EXCEPT ![a] = "notify"]
      BY <1>3 DEF MarkFailure, Goto
    <3>2. DOMAIN pc = Actors /\ F \subseteq Targets
      BY <2>1 DEF IInv, TypeOK
    <3>. QED
      BY ONLY <3>1, <3>2, a \in Actors
  <2>3. /\ \A u \in Targets : Succeeded(u)' <=> Succeeded(u)
        /\ \A u \in Targets : Done(u)' <=> Done(u) \/ u \in F
        /\ \A u \in Targets : Failed(u)' <=> Failed(u) \/ u \in F
        /\ \A u \in Targets : Deps(u)' = Deps(u)
    BY <2>1, <2>2 DEF Succeeded, Done, Failed, Deps
  <2>4. \A b \in Actors :
           Working(b)' => /\ b # a /\ Working(b) /\ pc'[b] = pc[b]
                          /\ held[b] \in Targets /\ held[b] # t
    <3>1. \A b \in Actors : Working(b)' => b # a /\ Working(b)
                                           /\ pc'[b] = pc[b]
      BY <2>2 DEF Working
    <3>. QED
      BY <3>1 DEF IInv, OneHolder, TypeOK, Working
  <2>5. Stages'
    <3>1. ASSUME NEW b \in Actors, Working(b)'
          PROVE  /\ pc'[b] = "resolving" =>
                       (config[held[b]] = NoConfig /\ ~Done(held[b]))'
                 /\ pc'[b] = "registering" =>
                       (/\ config[held[b]] = NoConfig /\ ~Succeeded(held[b])
                        /\ todo[b] \subseteq Dependencies(answer[b])
                        /\ \A d \in Dependencies(answer[b]) \ todo[b] :
                              held[b] \in rdeps[d])'
                 /\ pc'[b] \in {"building", "checking"} =>
                       (/\ config[held[b]] # NoConfig /\ ~Succeeded(held[b])
                        /\ Done(held[b]) =>
                              \E d \in Deps(held[b]) : Failed(d))'
                 /\ pc'[b] = "compiling" =>
                       (/\ config[held[b]] # NoConfig /\ ~Done(held[b])
                        /\ \A d \in Deps(held[b]) : Succeeded(d))'
      <4>1. /\ held[b] \in Targets /\ pc'[b] = pc[b] /\ held[b] # t
            /\ Deps(held[b]) \subseteq Targets
        BY <2>4, <3>1, DepsType DEF IInv
      <4>2. pc[b] \in {"resolving", "compiling"} => ~Done(held[b])'
        BY <2>1, <2>3, <4>1 DEF IInv, Stages
      <4>3. ASSUME pc[b] \in {"building", "checking"}, held[b] \in F
            PROVE  \E d \in Deps(held[b]) : d \in F
        <5>1. PICK x \in F : held[b] \in rdeps[x]
          BY <2>1, <4>1, <4>3
        <5>2. x \in Targets /\ config[held[b]] # NoConfig
          BY <2>1, <4>3 DEF IInv, Stages
        <5>. QED
          BY <4>1, <5>1, <5>2 DEF IInv, ReverseEdges
      <4>. QED
        BY <2>3, <4>1, <4>2, <4>3 DEF IInv, Stages
    <3>. QED
      BY <3>1 DEF Stages, Working
  <2>6. HeldIsTaken' /\ OneHolder'
    BY <2>2, <2>3, <2>4 DEF IInv, HeldIsTaken, OneHolder
  <2>7. ReverseEdges'
    <3>1. ASSUME NEW u \in Targets, NEW d \in Targets, config[u] = NoConfig,
                 u \in rdeps[d]
          PROVE  \E b \in Actors :
                    /\ pc'[b] = "registering" /\ held'[b] = u
                    /\ d \in Dependencies(answer'[b]) \ todo'[b]
      <4>1. PICK b \in Actors :
               /\ pc[b] = "registering" /\ held[b] = u
               /\ d \in Dependencies(answer[b]) \ todo[b]
        BY <3>1 DEF IInv, ReverseEdges
      <4>2. b # a
        BY <4>1
      <4>. QED
        BY <2>2, <4>1, <4>2
    <3>. QED
      BY <2>3, <3>1 DEF IInv, ReverseEdges
  <2>8. Unseen'
    <3>1. ASSUME NEW u \in Targets \ known
          PROVE  u \notin F
      <4>. DEFINE S == Targets \ {u}
      <4>1. \A x \in S : rdeps[x] \subseteq S
        <5>1. \A x \in S : u \notin rdeps[x]
          BY <3>1 DEF IInv, ReverseEdges
        <5>2. \A x \in S : rdeps[x] \subseteq Targets
          BY DEF IInv, TypeOK
        <5>. QED
          BY <5>1, <5>2
      <4>2. F \subseteq S
        BY <1>1, <3>1, <4>1, FailureIsLeast
      <4>. QED
        BY <4>2
    <3>. QED
      BY <2>3, <3>1 DEF IInv, Unseen
  <2>9. ReadyIsExact'
    <3>1. ASSUME NEW u \in known, config[u] # NoConfig, ~Done(u)'
          PROVE  DoneIn(Deps(u))' = DoneIn(Deps(u))
      <4>1. u \in Targets /\ u \notin F /\ Deps(u) \subseteq Targets
        BY <2>3, <3>1, DepsType DEF IInv, TypeOK
      <4>2. \A d \in Deps(u) : d \notin F
        BY <2>1, <3>1, <4>1 DEF IInv, ReverseEdges
      <4>3. {d \in Deps(u) : Done(d)'} = {d \in Deps(u) : Done(d)}
        BY <2>3, <4>1, <4>2
      <4>4. Deps(u)' = Deps(u)
        BY <2>3, <4>1
      <4>. QED
        BY <4>3, <4>4 DEF DoneIn
    <3>2. known \subseteq Targets
      BY DEF IInv, TypeOK
    <3>. QED
      BY <2>3, <3>1, <3>2 DEF IInv, ReadyIsExact
  <2>10. BuildsAfterDependencies'
    <3>1. ASSUME NEW w \in Workers,
                 pc'[w] \in {"building", "checking", "compiling"}
          PROVE  /\ pc[w] = pc'[w] /\ Deps(held[w])' = Deps(held[w])
                 /\ Deps(held[w]) \subseteq Targets
      BY <2>3, <2>4, <3>1, DepsType DEF Working, Actors, IInv
    <3>. QED
      BY <2>3, <3>1 DEF IInv, BuildsAfterDependencies
  <2>11. SuccessRestsOnSuccess'
    <3>1. \A u \in known : u \in Targets /\ Deps(u) \subseteq Targets
      BY DepsType DEF IInv, TypeOK
    <3>. QED
      BY <2>3, <3>1 DEF IInv, SuccessRestsOnSuccess
  <2>. QED
    BY <2>5, <2>6, <2>7, <2>8, <2>9, <2>10, <2>11 DEF IInv
<1>. QED
  BY <1>2, <1>3

LEMMA SuccessStep ==
    ASSUME IInv, TypeOK', Phases', NEW w \in Workers,
           NEW o \in {"ok", "noop"}, BuildSucceeds(w, o)
    PROVE  IInv'
<1>. DEFINE t == held[w]
<1>0. w \in Actors
  BY DEF Actors
<1>1. /\ t \in known /\ t \in Targets /\ ~Done(t) /\ config[t] # NoConfig
      /\ pc[w] = "compiling" /\ ~poisoned /\ ~poisoned'
      /\ \A d \in Deps(t) : Succeeded(d)
  <2>1. pc[w] = "compiling" /\ ~poisoned /\ ~poisoned'
    BY DEF BuildSucceeds
  <2>2. t \in known /\ known \subseteq Targets
    BY <1>0, <2>1 DEF IInv, TypeOK, Working
  <2>. QED
    BY <1>0, <2>1, <2>2 DEF IInv, Stages
<1>2. /\ result'[t] = o
      /\ \A u \in Targets \ {t} : result'[u] = result[u]
      /\ \A u \in Targets \ {t} : available'[u] = available[u]
      /\ pc'[w] = "notify"
      /\ \A b \in Actors \ {w} : pc'[b] = pc[b]
      /\ UNCHANGED <<known, config, rdeps, held, answer, todo, poisoned>>
  <2>1. /\ result' = [result EXCEPT ![t] = o]
        /\ available' = [available EXCEPT ![t] = TRUE]
        /\ pc' = [pc EXCEPT ![w] = "notify"]
        /\ UNCHANGED <<known, config, rdeps, held, answer, todo, poisoned>>
    BY DEF BuildSucceeds, Goto
  <2>2. /\ result \in [Targets -> {"none", "ok", "noop", "failure"}]
        /\ available \in [Targets -> BOOLEAN]
        /\ DOMAIN pc = Actors
    BY DEF IInv, TypeOK
  <2>. QED
    BY <1>0, <1>1, <2>1, <2>2
<1>3. \A u \in Targets :
         ready'[u] = IF u \in rdeps[t] THEN ready[u] + 1 ELSE ready[u]
  BY DEF BuildSucceeds, Counted
<1>4. /\ \A u \in Targets : Succeeded(u)' <=> Succeeded(u) \/ u = t
      /\ \A u \in Targets : Done(u)' <=> Done(u) \/ u = t
      /\ \A u \in Targets : Failed(u)' <=> Failed(u)
      /\ \A u \in Targets : Deps(u)' = Deps(u)
      /\ \A u \in Targets : Deps(u) \subseteq Targets
  BY <1>1, <1>2, DepsType DEF Succeeded, Done, Failed, Deps, IInv
<1>5. \A b \in Actors :
         Working(b)' => /\ b # w /\ Working(b) /\ pc'[b] = pc[b]
                        /\ held[b] \in Targets /\ held[b] # t
  <2>1. \A b \in Actors : Working(b)' => b # w /\ Working(b)
                                         /\ pc'[b] = pc[b]
    BY <1>2 DEF Working
  <2>. QED
    BY <1>0, <1>1, <2>1 DEF IInv, OneHolder, TypeOK, Working
<1>6. Stages'
  <2>1. ASSUME NEW b \in Actors, Working(b)'
        PROVE  /\ pc'[b] = "resolving" =>
                     (config[held[b]] = NoConfig /\ ~Done(held[b]))'
               /\ pc'[b] = "registering" =>
                     (/\ config[held[b]] = NoConfig /\ ~Succeeded(held[b])
                      /\ todo[b] \subseteq Dependencies(answer[b])
                      /\ \A d \in Dependencies(answer[b]) \ todo[b] :
                            held[b] \in rdeps[d])'
               /\ pc'[b] \in {"building", "checking"} =>
                     (/\ config[held[b]] # NoConfig /\ ~Succeeded(held[b])
                      /\ Done(held[b]) =>
                            \E d \in Deps(held[b]) : Failed(d))'
               /\ pc'[b] = "compiling" =>
                     (/\ config[held[b]] # NoConfig /\ ~Done(held[b])
                      /\ \A d \in Deps(held[b]) : Succeeded(d))'
    <3>1. held[b] \in Targets /\ pc'[b] = pc[b] /\ held[b] # t
      BY <1>5, <2>1
    <3>. QED
      BY <1>2, <1>4, <3>1 DEF IInv, Stages
  <2>. QED
    BY <2>1 DEF Stages, Working
<1>7. HeldIsTaken' /\ OneHolder'
  BY <1>2, <1>4, <1>5 DEF IInv, HeldIsTaken, OneHolder
<1>8. ReverseEdges'
  <2>1. ASSUME NEW u \in Targets, NEW d \in Targets, config[u] = NoConfig,
               u \in rdeps[d]
        PROVE  \E b \in Actors :
                  /\ pc'[b] = "registering" /\ held'[b] = u
                  /\ d \in Dependencies(answer'[b]) \ todo'[b]
    <3>1. PICK b \in Actors :
             /\ pc[b] = "registering" /\ held[b] = u
             /\ d \in Dependencies(answer[b]) \ todo[b]
      BY <1>1, <2>1 DEF IInv, ReverseEdges
    <3>. QED
      BY <1>1, <1>2, <3>1
  <2>. QED
    BY <1>2, <1>4, <2>1 DEF IInv, ReverseEdges
<1>9. Unseen'
  BY <1>1, <1>2, <1>4 DEF IInv, Unseen
<1>10. ReadyIsExact'
  <2>1. ASSUME NEW u \in known, config[u] # NoConfig, ~Done(u)'
        PROVE  ready'[u] = DoneIn(Deps(u))'
    <3>. DEFINE G == {d \in Deps(u) : Done(d)}
    <3>1. u \in Targets /\ ~Done(u) /\ Deps(u) \subseteq Targets
      BY <1>4, <2>1 DEF IInv, TypeOK
    <3>2. ready[u] = Cardinality(G)
      BY <2>1, <3>1 DEF IInv, ReadyIsExact, DoneIn
    <3>3. IsFiniteSet(G) /\ t \notin G
      BY <1>1, <3>1, ExecutorAssumption, FS_Subset
    <3>4. DoneIn(Deps(u))' = Cardinality({d \in Deps(u) : Done(d)'})
      BY <1>4, <3>1 DEF DoneIn
    <3>5. u \in rdeps[t] <=> t \in Deps(u)
      BY <1>1, <2>1, <3>1 DEF IInv, ReverseEdges
    <3>6. CASE t \in Deps(u)
      <4>1. {d \in Deps(u) : Done(d)'} = G \cup {t}
        BY <1>4, <3>1, <3>6
      <4>2. Cardinality(G \cup {t}) = Cardinality(G) + 1
        BY <3>3, FS_AddElement
      <4>. QED
        BY <1>3, <3>1, <3>2, <3>4, <3>5, <3>6, <4>1, <4>2
    <3>7. CASE t \notin Deps(u)
      <4>1. {d \in Deps(u) : Done(d)'} = G
        BY <1>4, <3>1, <3>7
      <4>. QED
        BY <1>3, <3>1, <3>2, <3>4, <3>5, <3>7, <4>1
    <3>. QED
      BY <3>6, <3>7
  <2>. QED
    BY <1>2, <2>1 DEF ReadyIsExact
<1>11. BuildsAfterDependencies'
  <2>1. ASSUME NEW v \in Workers,
               pc'[v] \in {"building", "checking", "compiling"}
        PROVE  /\ pc[v] = pc'[v] /\ Deps(held[v])' = Deps(held[v])
               /\ Deps(held[v]) \subseteq Targets
    <3>1. v \in Actors /\ Working(v)'
      BY <2>1 DEF Working, Actors
    <3>2. pc[v] = pc'[v] /\ held[v] \in Targets /\ held'[v] = held[v]
      BY <1>2, <1>5, <3>1
    <3>. QED
      BY <1>2, <1>4, <3>2 DEF Deps
  <2>. QED
    BY <1>2, <1>4, <2>1 DEF IInv, BuildsAfterDependencies
<1>12. SuccessRestsOnSuccess'
  <2>1. \A d \in Deps(t) : d \in known
    BY <1>1, <1>4 DEF IInv, ReverseEdges
  <2>2. known \subseteq Targets
    BY DEF IInv, TypeOK
  <2>. QED
    BY <1>1, <1>2, <1>4, <2>1, <2>2 DEF IInv, SuccessRestsOnSuccess
<1>. QED
  BY <1>6, <1>7, <1>8, <1>9, <1>10, <1>11, <1>12 DEF IInv

-----------------------------------------------------------------------------
(* The inductive invariant *)

LEMMA InvInit == Init => IInv
<1>. SUFFICES ASSUME Init PROVE IInv
  OBVIOUS
<1>1. TypeOK /\ Phases
  BY TypeInit, PhasesInit
<1>2. \A a \in Actors : pc[a] \in {"planning", "off"} /\ ~Working(a)
  BY DEF Init, Working
<1>3. /\ \A t \in Targets : config[t] = NoConfig /\ Deps(t) = {}
      /\ \A t \in Targets : rdeps[t] = {}
      /\ \A t \in Targets \ known : ~Done(t)
  BY DEF Init, Deps, Done
<1>4. Stages /\ HeldIsTaken /\ OneHolder
  BY <1>2 DEF Stages, HeldIsTaken, OneHolder
<1>5. ReverseEdges /\ Unseen
  BY <1>3 DEF ReverseEdges, Unseen
<1>6. ReadyIsExact /\ SuccessRestsOnSuccess
  BY <1>1, <1>3 DEF ReadyIsExact, SuccessRestsOnSuccess, TypeOK
<1>7. BuildsAfterDependencies
  BY <1>2 DEF BuildsAfterDependencies, Actors
<1>. QED
  BY <1>1, <1>4, <1>5, <1>6, <1>7 DEF IInv

LEMMA InvResolve ==
    ASSUME IInv, TypeOK', Phases', NEW a \in Actors, Resolve(a)
    PROVE  IInv'
<1>1. ASSUME pc[a] = "resolving",
             NEW c \in Answers[held[a]], ResolverAnswers(a, c)
      PROVE  IInv'
  <2>1. /\ UNCHANGED <<graph, held, poisoned>>
        /\ pc'[a] = "registering" /\ answer'[a] = c
        /\ todo'[a] = Dependencies(c)
        /\ \A b \in Actors \ {a} : /\ pc'[b] = pc[b]
                                   /\ answer'[b] = answer[b]
                                   /\ todo'[b] = todo[b]
    BY <1>1 DEF ResolverAnswers, Goto, IInv, TypeOK
  <2>2. config[held[a]] = NoConfig /\ ~Done(held[a]) /\ ~Succeeded(held[a])
    BY <1>1 DEF IInv, Stages, Done, Succeeded
  <2>3. Stages'
    <3>1. ASSUME NEW b \in Actors \ {a}
          PROVE  /\ pc'[b] = "resolving" =>
                       (config[held[b]] = NoConfig /\ ~Done(held[b]))'
                 /\ pc'[b] = "registering" =>
                       (/\ config[held[b]] = NoConfig /\ ~Succeeded(held[b])
                        /\ todo[b] \subseteq Dependencies(answer[b])
                        /\ \A d \in Dependencies(answer[b]) \ todo[b] :
                              held[b] \in rdeps[d])'
                 /\ pc'[b] \in {"building", "checking"} =>
                       (/\ config[held[b]] # NoConfig /\ ~Succeeded(held[b])
                        /\ Done(held[b]) =>
                              \E d \in Deps(held[b]) : Failed(d))'
                 /\ pc'[b] = "compiling" =>
                       (/\ config[held[b]] # NoConfig /\ ~Done(held[b])
                        /\ \A d \in Deps(held[b]) : Succeeded(d))'
      BY <2>1 DEF IInv, Stages, Done, Succeeded, Failed, Deps, graph
    <3>2. (/\ config[held[a]] = NoConfig /\ ~Succeeded(held[a])
           /\ todo[a] \subseteq Dependencies(answer[a])
           /\ Dependencies(answer[a]) \ todo[a] = {})'
      BY <2>1, <2>2 DEF graph, Succeeded
    <3>. QED
      BY <2>1, <3>1, <3>2 DEF Stages
  <2>4. \A b \in Actors : Working(b)' => Working(b) /\ held'[b] = held[b]
    BY <1>1, <2>1 DEF Working
  <2>. QED
    BY <1>1, <2>1, <2>3, <2>4, KeepGraph
<1>2. CASE ResolverFails(a)
  BY <1>2, FailureStep DEF ResolverFails
<1>3. ASSUME NEW d \in todo[a], AddTask(a, d)
      PROVE  IInv'
  BY <1>3, AddTaskStep
<1>4. CASE Commit(a)
  BY <1>4, CommitStep
<1>5. CASE Notify(a)
  <2>1. /\ UNCHANGED <<graph, todo, poisoned>> /\ pc[a] = "notify"
        /\ pc'[a] \in {"planning", "idle"}
        /\ \A b \in Actors \ {a} :
              /\ pc'[b] = IF pc[b] = "waiting" THEN "idle" ELSE pc[b]
              /\ held'[b] = held[b] /\ answer'[b] = answer[b]
    BY <1>5 DEF Notify, Woken, LoopTop, IInv, TypeOK
  <2>. QED
    BY <2>1, IdleMove DEF Working
<1>. QED
  BY <1>1, <1>2, <1>3, <1>4, <1>5 DEF Resolve

LEMMA InvMain ==
    ASSUME IInv, TypeOK', Phases', MainStep
    PROVE  IInv'
<1>0. Main \in Actors /\ DOMAIN pc = Actors
  BY DEF Actors, IInv, TypeOK
<1>1. ASSUME NEW t \in Targets, NextPlanningTask(t)
      PROVE  IInv'
  <2>1. /\ pc[Main] = "planning" /\ t \in known /\ available[t] /\ Resolving(t)
        /\ available' = Taken(t) /\ held' = [held EXCEPT ![Main] = t]
        /\ pc' = [pc EXCEPT ![Main] = "resolving"]
        /\ UNCHANGED <<known, config, result, ready, rdeps, builders, answer,
                       todo, poisoned>>
    BY <1>1 DEF NextPlanningTask, PlanCandidate, Goto
  <2>2. ~Working(Main)
    BY <2>1 DEF Working
  <2>. QED
    BY <1>0, <2>1, <2>2, TakeStep
<1>2. CASE Resolve(Main)
  BY <1>0, <1>2, InvResolve
<1>3. CASE PlannerFails \/ Join
  <2>1. /\ UNCHANGED <<graph, held, answer, todo, poisoned>>
        /\ pc[Main] \in {"planning", "joining"}
        /\ pc' = [pc EXCEPT ![Main] = "returned"]
    BY <1>3 DEF PlannerFails, PlanningOver, Join, Goto
  <2>. QED
    BY <1>0, <2>1, IdleMove DEF Working
<1>4. CASE PlanDone
  <2>1. UNCHANGED <<graph, held, answer, todo, poisoned>>
        /\ pc[Main] = "planning"
    BY <1>4 DEF PlanDone, PlanningOver
  <2>2. \A b \in Actors : pc[b] \in {"planning", "off"}
    BY <2>1 DEF IInv, Phases, Actors
  <2>3. \A b \in Actors :
           pc'[b] \in {"planning", "off", "returned", "joining", "idle"}
    BY <1>0, <1>4, <2>2 DEF PlanDone, Goto
  <2>. QED
    BY <2>1, <2>2, <2>3, IdleMove DEF Working
<1>. QED
  BY <1>1, <1>2, <1>3, <1>4 DEF MainStep

\* The places where a build stands between its critical sections.
LEMMA InvBuild ==
    ASSUME IInv, TypeOK', Phases', NEW w \in Workers,
           \/ LoadPlugin(w)
           \/ ReadDependencies(w)
    PROVE  IInv'
<1>0. w \in Actors /\ DOMAIN pc = Actors
  BY DEF Actors, IInv, TypeOK
<1>1. /\ UNCHANGED <<graph, held, answer, todo, poisoned>>
      /\ pc[w] \in {"building", "checking"}
      /\ pc'[w] \in {"checking", "compiling"}
      /\ \A b \in Actors \ {w} : pc'[b] = pc[b]
      /\ pc'[w] = "compiling" => \A d \in Deps(held[w]) : Succeeded(d)
  BY <1>0 DEF LoadPlugin, ReadDependencies, Goto
<1>2. config[held[w]] # NoConfig /\ ~Succeeded(held[w])
  BY <1>0, <1>1 DEF IInv, Stages
<1>3. pc'[w] = "compiling" => ~Done(held[w])
  BY <1>0, <1>1 DEF IInv, Stages, Failed, Succeeded
<1>4. Stages'
  <2>1. ASSUME NEW b \in Actors \ {w}
        PROVE  /\ pc'[b] = "resolving" =>
                     (config[held[b]] = NoConfig /\ ~Done(held[b]))'
               /\ pc'[b] = "registering" =>
                     (/\ config[held[b]] = NoConfig /\ ~Succeeded(held[b])
                      /\ todo[b] \subseteq Dependencies(answer[b])
                      /\ \A d \in Dependencies(answer[b]) \ todo[b] :
                            held[b] \in rdeps[d])'
               /\ pc'[b] \in {"building", "checking"} =>
                     (/\ config[held[b]] # NoConfig /\ ~Succeeded(held[b])
                      /\ Done(held[b]) =>
                            \E d \in Deps(held[b]) : Failed(d))'
               /\ pc'[b] = "compiling" =>
                     (/\ config[held[b]] # NoConfig /\ ~Done(held[b])
                      /\ \A d \in Deps(held[b]) : Succeeded(d))'
    BY <1>1 DEF IInv, Stages, Done, Succeeded, Failed, Deps, graph
  <2>2. /\ Done(held[w]) => \E d \in Deps(held[w]) : Failed(d)
        /\ UNCHANGED <<Deps(held[w]), Done(held[w]), Succeeded(held[w]),
                       config[held[w]]>>
        /\ \A d : UNCHANGED <<Failed(d), Succeeded(d)>>
    BY <1>0, <1>1 DEF IInv, Stages, Done, Succeeded, Failed, Deps, graph
  <2>3. /\ pc'[w] \in {"building", "checking"} =>
              (/\ config[held[w]] # NoConfig /\ ~Succeeded(held[w])
               /\ Done(held[w]) =>
                     \E d \in Deps(held[w]) : Failed(d))'
        /\ pc'[w] = "compiling" =>
              (/\ config[held[w]] # NoConfig /\ ~Done(held[w])
               /\ \A d \in Deps(held[w]) : Succeeded(d))'
    BY <1>1, <1>2, <1>3, <2>2
  <2>. QED
    BY <1>1, <2>1, <2>3 DEF Stages
<1>5. \A b \in Actors : Working(b)' => Working(b) /\ held'[b] = held[b]
  BY <1>1 DEF Working
<1>6. \A b \in Actors :
         pc'[b] \in {"building", "checking", "compiling"} =>
            pc[b] \in {"building", "checking", "compiling"}
  BY <1>1
<1>7. \A b \in Actors : pc[b] = "registering" => b # w
  BY <1>1
<1>. QED
  BY <1>1, <1>4, <1>5, <1>6, <1>7, KeepGraph

LEMMA InvWorker ==
    ASSUME IInv, TypeOK', Phases', NEW w \in Workers,
           WorkerStep(w) \/ SpuriousWakeup(w)
    PROVE  IInv'
<1>0. w \in Actors /\ DOMAIN pc = Actors
  BY DEF Actors, IInv, TypeOK
<1>1. ASSUME NEW t \in Targets, TakeTask(w, t)
      PROVE  IInv'
  <2>1. /\ pc[w] = "idle" /\ t \in known /\ available[t]
        /\ Resolving(t) \/ Building(t)
        /\ available' = Taken(t) /\ held' = [held EXCEPT ![w] = t]
        /\ pc' = [pc EXCEPT ![w] =
                     IF Resolving(t) THEN "resolving" ELSE "building"]
        /\ UNCHANGED <<known, config, result, ready, rdeps, builders, answer,
                       todo, poisoned>>
    BY <1>1 DEF TakeTask, Candidate, Goto
  <2>2. ~Working(w)
    BY <2>1 DEF Working
  <2>. QED
    BY <1>0, <2>1, <2>2, TakeStep
<1>2. CASE Exit(w) \/ Wait(w) \/ SpuriousWakeup(w)
  <2>1. /\ UNCHANGED <<graph, held, answer, todo, poisoned>>
        /\ pc[w] \in {"idle", "waiting"}
        /\ \E place \in {"exited", "waiting", "idle"} :
              pc' = [pc EXCEPT ![w] = place]
    BY <1>2 DEF Exit, Wait, SpuriousWakeup, NothingToTake, Goto
  <2>. QED
    BY <1>0, <2>1, IdleMove DEF Working
<1>3. CASE Deadlock(w)
  <2>1. /\ UNCHANGED <<graph, held, answer, todo, poisoned>>
        /\ pc[w] = "idle" /\ pc'[w] = "deadlocked"
        /\ \A b \in Actors \ {w} :
              pc'[b] = IF pc[b] = "waiting" THEN "idle" ELSE pc[b]
    BY <1>0, <1>3 DEF Deadlock, NothingToTake, Woken
  <2>. QED
    BY <1>0, <2>1, IdleMove DEF Working
<1>4. CASE PoisonPanic(w) \/ PluginPanic(w) \/ DependencyPanic(w)
  <2>1. /\ UNCHANGED <<graph, held, answer, todo>> /\ poisoned'
        /\ pc' = [pc EXCEPT ![w] = "panicked"]
    BY <1>4 DEF PoisonPanic, PluginPanic, DependencyPanic, Panic, Goto
  <2>. QED
    BY <1>0, <2>1, IdleMove DEF Working
<1>5. CASE Resolve(w)
  BY <1>0, <1>5, InvResolve
<1>6. CASE LoadPlugin(w) \/ ReadDependencies(w)
  BY <1>6, InvBuild
<1>7. ASSUME NEW o \in {"ok", "noop"}, BuildSucceeds(w, o)
      PROVE  IInv'
  BY <1>7, SuccessStep
<1>8. CASE BuildFails(w)
  BY <1>0, <1>8, FailureStep DEF BuildFails
<1>. QED
  BY <1>1, <1>2, <1>3, <1>4, <1>5, <1>6, <1>7, <1>8 DEF WorkerStep

LEMMA InvStep ==
    ASSUME IInv, [Next]_vars
    PROVE  IInv'
<1>1. TypeOK' /\ Phases'
  BY TypeStep, PhasesStep DEF IInv
<1>2. CASE MainStep
  BY <1>1, <1>2, InvMain
<1>3. ASSUME NEW w \in Workers, WorkerStep(w) \/ SpuriousWakeup(w)
      PROVE  IInv'
  BY <1>1, <1>3, InvWorker
<1>4. CASE UNCHANGED vars
  BY <1>1, <1>4, IdleMove DEF vars, graph, thread
<1>. QED
  BY <1>2, <1>3, <1>4 DEF Next, Terminated

\* What ties the threads to the graph holds in every reachable state.
THEOREM Invariance == Spec => []IInv
BY InvInit, InvStep, PTL DEF Spec

-----------------------------------------------------------------------------
(* What follows from the invariant *)

\* No finished dependency is counted twice or forgotten, whenever resolve()
\* and mark_build_success meet (exec.rs, 343-358 and 685-694).
THEOREM ReadyExact == Spec => []ReadyIsExact
BY Invariance, PTL DEF IInv

\* Two threads never work on one task, although mark_task_failure makes tasks
\* available that a thread still holds (exec.rs, 670-683).
THEOREM TasksAreExclusive == Spec => []OneHolder
BY Invariance, PTL DEF IInv

\* build() never reads the result of an unfinished dependency.
THEOREM BuildsWait == Spec => []BuildsAfterDependencies
BY Invariance, PTL DEF IInv

\* What succeeded rests on what succeeded, however failures spread.
THEOREM SuccessIsSound == Spec => []SuccessRestsOnSuccess
BY Invariance, PTL DEF IInv

\* A failure changes no result but "none" and "failure".
LEMMA FailureKeepsSuccess ==
    ASSUME IInv, NEW a \in Actors, ~poisoned,
           pc[a] \in {"resolving", "compiling"}, MarkFailure(a, held[a]),
           NEW t \in Targets, Done(t)
    PROVE  Succeeded(t) <=> Succeeded(t)'
<1>1. held[a] \in Targets
  BY DEF IInv, TypeOK, Working
<1>2. ~Succeeded(held[a])
  BY DEF IInv, Stages, Succeeded, Done
<1>3. t \in FailedBy(held[a]) => ~Succeeded(t)
  BY <1>1, <1>2, FailureIsLocal
<1>4. \/ result' = result
      \/ result' = [u \in Targets |->
            IF u \in FailedBy(held[a]) THEN "failure" ELSE result[u]]
  BY DEF MarkFailure
<1>. QED
  BY <1>3, <1>4 DEF Succeeded

LEMMA ResultsStep ==
    ASSUME IInv, [Next]_vars, NEW t \in Targets, Done(t)
    PROVE  Succeeded(t) <=> Succeeded(t)'
<1>1. CASE result' = result
  BY <1>1 DEF Succeeded
<1>2. ASSUME NEW a \in Actors, Resolve(a)
      PROVE  Succeeded(t) <=> Succeeded(t)'
  <2>1. CASE ResolverFails(a)
    BY <2>1, FailureKeepsSuccess DEF ResolverFails
  <2>2. ASSUME NEW d \in todo[a], AddTask(a, d)
        PROVE  Succeeded(t) <=> Succeeded(t)'
    <3>1. CASE result' = result
      BY <3>1 DEF Succeeded
    <3>2. CASE d \notin known /\ result' = [result EXCEPT ![d] = "noop"]
      <4>1. d \in Targets
        BY DEF IInv, TypeOK
      <4>2. t # d
        BY <3>2, <4>1 DEF IInv, Unseen
      <4>. QED
        BY <3>2, <4>2 DEF Succeeded, IInv, TypeOK
    <3>. QED
      BY <2>2, <3>1, <3>2 DEF AddTask
  <2>. QED
    BY <1>1, <1>2, <2>1, <2>2
       DEF Resolve, ResolverAnswers, Commit, Notify, graph
<1>3. ASSUME NEW w \in Workers, WorkerStep(w) \/ SpuriousWakeup(w)
      PROVE  Succeeded(t) <=> Succeeded(t)'
  <2>0. w \in Actors
    BY DEF Actors
  <2>1. ASSUME NEW o \in {"ok", "noop"}, BuildSucceeds(w, o)
        PROVE  Succeeded(t) <=> Succeeded(t)'
    <3>1. pc[w] = "compiling" /\ result' = [result EXCEPT ![held[w]] = o]
      BY <2>1 DEF BuildSucceeds
    <3>2. t # held[w]
      BY <2>0, <3>1 DEF IInv, Stages
    <3>. QED
      BY <3>1, <3>2 DEF Succeeded, IInv, TypeOK
  <2>2. CASE BuildFails(w)
    BY <2>0, <2>2, FailureKeepsSuccess DEF BuildFails
  <2>. QED
    BY <1>1, <1>2, <1>3, <2>0, <2>1, <2>2
       DEF WorkerStep, TakeTask, Exit, Deadlock, Wait, SpuriousWakeup,
           PoisonPanic, LoadPlugin, PluginPanic, ReadDependencies,
           DependencyPanic, graph
<1>4. CASE MainStep
  <2>1. Main \in Actors
    BY DEF Actors
  <2>. QED
    BY <1>1, <1>2, <1>4, <2>1
       DEF MainStep, NextPlanningTask, PlannerFails, PlanDone, Join, graph
<1>. QED
  BY <1>1, <1>3, <1>4 DEF Next, Terminated, vars, graph

\* No step turns a success into a failure or a failure into a success.
THEOREM FinalResults == Spec => ResultsAreFinal
<1>1. ASSUME IInv, [Next]_vars
      PROVE  [\A t \in Targets : Done(t) =>
                 (Succeeded(t) <=> Succeeded(t)')]_vars
  BY <1>1, ResultsStep
<1>. QED
  BY <1>1, Invariance, PTL DEF Spec, ResultsAreFinal

=============================================================================
