------------------------- MODULE MetalMonitorProofs -------------------------
(***************************************************************************)
(* No task that is to be restarted is forgotten by the supervisor, for any *)
(* tasks, processes, callers and updates, whatever downloads, updates and  *)
(* tear-downs come in between - until the restart thread is dead, which it *)
(* is after a restart that has to download first, and after nothing else.  *)
(*                                                                         *)
(* A task is marked Restarting by the monitor alone, which has it in hand  *)
(* until it stands in the queue, and the one who takes it off the queue    *)
(* keeps it until its state is another.  What has to be excluded is that   *)
(* somebody writes back an old copy of that state: execute() and           *)
(* restart_loop write what starting a task returned, and the monitor only  *)
(* what it probed (Unmarked), although a round of it marks its own report. *)
(*                                                                         *)
(* And until there is a second update no task has two processes that run,  *)
(* because what the table of the monitor says of processes is then true    *)
(* (Known), but while the restart thread has a process to write back:      *)
(* nobody touches what a round has copied until it is written back         *)
(* (Copied), who waits for a restart waits once (Waiting), and what the    *)
(* one request has still to start was never started (Starts).              *)
(*                                                                         *)
(* What is more, every step is then one of the abstract supervisor, or     *)
(* none: what the table says of processes that ended is true, too          *)
(* (Policy), so that the restart modes have the last word on what is       *)
(* started again and what is cleaned up.                                   *)
(***************************************************************************)
EXTENDS MetalMonitor, TLAPS

-----------------------------------------------------------------------------
(* The inductive invariant *)

Lives == {"free", "downloading", "alive", "signalled", "never",
          "success", "failure", "killed"}
Jobs == [at : {"executing", "starting", "cleaning"}, spec : Specs,
         added : SUBSET Tasks, removed : SUBSET Tasks,
         task : Tasks \cup {NoTask}, results : Results]
Probing == [at : {"probing"}, report : Results]
Rounds == [at : {"applying", "marking", "queueing"}, todo : SUBSET Tasks,
           task : Tasks \cup {NoTask}, report : Results]
Cleaning == [at : {"cleaning"}, todo : SUBSET Tasks]
Reading == [at : {"reading"}, todo : Seq(Tasks)]
Starting == [at : {"starting"}, todo : Seq(Tasks), version : Versions]
Writing == [at : {"writing"}, todo : Seq(Tasks), runtime : Runtimes \cup {Failure}]

Table == [Tasks -> Entries \cup {NoTask}]
Tables == service \in Table /\ tasks \in Table

Queued ==
    /\ queue \in Seq(Tasks)
    /\ \A i \in 1 .. Len(queue) - 1 : queue[i] # queue[i + 1]

Processes ==
    /\ life \in [Pids -> Lives]
    /\ owner \in [Pids -> Tasks \cup {NoTask}]
    /\ \A p \in Pids : (life[p] = "free") <=> (owner[p] = NoTask)
    /\ unreported \subseteq {p \in Pids : life[p] # "free"}

Executing ==
    /\ job \in [Callers -> Jobs \cup {Idle}]
    /\ \A c \in Callers : job[c].at = "starting" => job[c].task # NoTask

Watching ==
    /\ watch \in {Idle, Dead} \cup Probing \cup Rounds \cup Cleaning
    /\ watch \in Rounds =>
         /\ watch.todo \subseteq DOMAIN watch.report
         /\ watch.at # "applying" => watch.task \in DOMAIN watch.report

Restarting ==
    /\ restarter \in {Idle, Dead} \cup Reading \cup Starting \cup Writing
    /\ restarter \in Starting \cup Writing => restarter.todo # <<>>

\* What start_task returns is never Restarting, and neither is what a round of
\* the monitor has still to write back.
Unmarked ==
    /\ restarter \in Writing /\ restarter.runtime # Failure =>
         restarter.runtime.state \in {"running", "preparing"}
    /\ watch \in Rounds =>
         /\ \A n \in watch.todo : watch.report[n].state # "restarting"
         /\ watch.at # "applying" => watch.task \notin watch.todo

\* Who has a task in hand that is to be restarted, while there is a restart
\* thread.
OnAList(n) == Handled(n) \/ restarter = Dead

Listed ==
    \A n \in Tasks : Scheduled(n) /\ tasks[n].state = "restarting" => OnAList(n)

IInv ==
    /\ Tables /\ Queued /\ Processes /\ updates \in 0 .. MaxUpdates
    /\ Executing /\ Watching /\ Restarting
    /\ Unmarked /\ Listed

-----------------------------------------------------------------------------
(* Entries, runtimes and reports *)

LEMMA RuntimeTypes ==
    /\ Fresh \in Runtimes
    /\ \A e \in Entries : RuntimeOf(e) \in Runtimes /\ RuntimeOf(e).state = e.state
    /\ \A e \in Entries, r \in Runtimes :
         WithRuntime(e, r) \in Entries /\ WithRuntime(e, r).state = r.state
<1>1. Fresh \in Runtimes
  BY DEF Fresh, Runtimes, States
<1>2. \A e \in Entries : RuntimeOf(e) \in Runtimes /\ RuntimeOf(e).state = e.state
  BY DEF RuntimeOf, Runtimes, Entries
<1>3. \A e \in Entries, r \in Runtimes :
        WithRuntime(e, r) \in Entries /\ WithRuntime(e, r).state = r.state
  BY DEF WithRuntime, Runtimes, Entries
<1>. QED
  BY <1>1, <1>2, <1>3

LEMMA EntryTypes ==
  ASSUME Tables, NEW n \in Tasks
  PROVE  /\ service[n] # NoTask => service[n] \in Entries
         /\ Scheduled(n) => tasks[n] \in Entries
BY DEF Tables, Table, Scheduled

LEMMA ResultTypes ==
  ASSUME NEW report
  PROVE  report \in Results <=>
           /\ DOMAIN report \subseteq Tasks /\ report = [n \in DOMAIN report |-> report[n]]
           /\ \A n \in DOMAIN report : report[n] \in Runtimes
BY DEF Results

LEMMA ReportedTypes ==
  ASSUME Tables, NEW report \in Results
  PROVE  Reported(report) \in Table /\ ToCleanUp(report) \subseteq Tasks
<1>1. /\ DOMAIN report \subseteq Tasks
      /\ \A n \in DOMAIN report : report[n] \in Runtimes
  BY ResultTypes
<1>2. ASSUME NEW n \in Tasks
      PROVE  (IF n \notin DOMAIN report \/ service[n] = NoTask THEN service[n]
              ELSE IF report[n].state \in Ended THEN NoTask
              ELSE WithRuntime(service[n], report[n])) \in Entries \cup {NoTask}
  <2>1. service[n] \in Entries \cup {NoTask}
    BY DEF Tables, Table
  <2>. QED
    BY <1>1, <2>1, RuntimeTypes
<1>3. Reported(report) \in Table
  BY <1>2 DEF Reported, Table
<1>4. ToCleanUp(report) \subseteq Tasks
  BY <1>1 DEF ToCleanUp
<1>. QED
  BY <1>3, <1>4

\* The two who report a single process.
LEMMA SingleReport ==
  ASSUME NEW n \in Tasks, NEW r \in Runtimes
  PROVE  [m \in {n} |-> r] \in Results
<1>1. [m \in {n} |-> r] \in [{n} -> Runtimes] /\ {n} \in SUBSET Tasks
  OBVIOUS
<1>. QED
  BY <1>1, Zenon DEF Results

\* Who is cleaned up is not to be restarted, and nobody else changes.
LEMMA CleanedUpTypes ==
  ASSUME Tables, NEW names
  PROVE  /\ CleanedUp(names) \in Table
         /\ \A n \in Tasks : CleanedUp(names)[n] # NoTask => CleanedUp(names)[n] = tasks[n]
BY DEF Tables, Table, CleanedUp

-----------------------------------------------------------------------------
(* What steps have in common *)

LEMMA ThreadsKept ==
  ASSUME Queued, Watching, Restarting, Unmarked, UNCHANGED <<queue, watch, restarter>>
  PROVE  Queued' /\ Watching' /\ Restarting' /\ Unmarked'
<1>1. queue' = queue /\ watch' = watch /\ restarter' = restarter
  OBVIOUS
<1>2. Queued'
  BY <1>1 DEF Queued
<1>3. Watching'
  BY <1>1 DEF Watching
<1>4. Restarting' /\ Unmarked'
  BY <1>1 DEF Restarting, Unmarked
<1>. QED
  BY <1>2, <1>3, <1>4

LEMMA ProcessesKept ==
  ASSUME Processes, UNCHANGED <<life, owner, unreported>>
  PROVE  Processes'
BY DEF Processes

\* A step that marks nothing and takes nothing out of anybody's hands.
LEMMA ListedKept ==
  ASSUME Listed, UNCHANGED <<queue, restarter>>, watch.at # "queueing" \/ watch' = watch,
         \A n \in Tasks : tasks'[n] # NoTask /\ tasks'[n].state = "restarting" =>
                            tasks[n] # NoTask /\ tasks[n].state = "restarting"
  PROVE  Listed'
<1>. SUFFICES ASSUME NEW n \in Tasks, tasks'[n] # NoTask, tasks'[n].state = "restarting"
              PROVE  OnAList(n)'
  BY DEF Listed, Scheduled
<1>1. OnAList(n)
  BY DEF Listed, Scheduled
<1>. QED
  BY <1>1 DEF OnAList, Handled

\* An entry is rewritten.
LEMMA Rewritten ==
  ASSUME Tables, NEW n \in Tasks, NEW e \in Entries, tasks' = [tasks EXCEPT ![n] = e]
  PROVE  /\ tasks' \in Table /\ tasks'[n] = e
         /\ \A m \in Tasks : m # n => tasks'[m] = tasks[m]
BY DEF Tables, Table

LEMMA SignalledTypes ==
  ASSUME Processes, NEW p
  PROVE  /\ Signalled(p) \in [Pids -> Lives]
         /\ \A q \in Pids : (Signalled(p)[q] = "free") <=> (life[q] = "free")
<1>1. ASSUME NEW q \in Pids
      PROVE  /\ (IF q = p /\ life[q] = "alive" THEN "signalled" ELSE life[q]) \in Lives
             /\ ((IF q = p /\ life[q] = "alive" THEN "signalled" ELSE life[q]) = "free")
                  <=> (life[q] = "free")
  BY DEF Processes, Lives
<1>. QED
  BY <1>1 DEF Signalled

\* A process is signalled.
LEMMA SignalKeeps ==
  ASSUME Processes, NEW p, life' = Signalled(p), UNCHANGED <<owner, unreported>>
  PROVE  Processes'
BY SignalledTypes DEF Processes

\* What start_task does to the processes, and what it returns.
LEMMA StartTaskTypes ==
  ASSUME Processes, NEW n \in Tasks, NEW v, NEW r, NEW lives \in [Pids -> Lives],
         \A q \in Pids : (lives[q] = "free") <=> (life[q] = "free"),
         StartTask(n, v, lives, r), unreported' = unreported
  PROVE  /\ Processes'
         /\ r # Failure => r \in Runtimes /\ r.state \in {"running", "preparing"}
<1>1. CASE r = Failure /\ life' = lives /\ UNCHANGED owner
  BY <1>1 DEF Processes
<1>2. CASE ~(r = Failure /\ life' = lives /\ UNCHANGED owner)
  <2>1. PICK p, place :
           /\ p \in Free /\ place \in {"alive", "downloading"}
           /\ Launch(n, p, place, lives)
           /\ \/ r = [pid |-> p, state |-> "running"]
              \/ r = [pid |-> NoPid, state |-> "preparing"]
    <3>1. PICK p : p = CHOOSE q \in Free : TRUE
      OBVIOUS
    <3>2. Free # {} /\ p \in Free
      BY <1>2, <3>1 DEF StartTask, Preparing
    <3>. QED
      BY <1>2, <3>1, <3>2 DEF StartTask, Preparing
  <2>2. p \in Pids /\ life[p] = "free"
    BY <2>1 DEF Free
  <2>3. r \in Runtimes /\ r.state \in {"running", "preparing"}
    BY <2>1, <2>2 DEF Runtimes, States
  <2>4. /\ owner' \in [Pids -> Tasks \cup {NoTask}] /\ owner'[p] = n
        /\ \A q \in Pids : q # p => owner'[q] = owner[q]
    BY <2>1, <2>2 DEF Processes, Launch
  <2>5. /\ life' \in [Pids -> Lives] /\ life'[p] = place
        /\ \A q \in Pids : q # p => life'[q] = lives[q]
    BY <2>1, <2>2 DEF Processes, Launch, Lives
  <2>6. n # NoTask /\ place # "free"
    BY <2>1, MonitorAssumption
  <2>7. \A q \in Pids : (life'[q] = "free") <=> (owner'[q] = NoTask)
    BY <2>4, <2>5, <2>6 DEF Processes
  <2>8. unreported' \subseteq {q \in Pids : life'[q] # "free"}
    BY <2>5, <2>6 DEF Processes
  <2>. QED
    BY <2>3, <2>4, <2>5, <2>7, <2>8 DEF Processes
<1>. QED
  BY <1>1, <1>2 DEF StartTask, Preparing

-----------------------------------------------------------------------------
(* The callers *)

\* What a caller holds while it is not idle.
LEMMA JobTypes ==
  ASSUME Executing, NEW c \in Callers, job[c].at # "idle"
  PROVE  job[c] \in Jobs
BY DEF Executing, Idle

LEMMA RequestStep ==
  ASSUME IInv, NEW c \in Callers, NEW names \in SUBSET Tasks, NEW spec \in Specs,
         NEW down \in BOOLEAN, Request(c, names, spec, down)
  PROVE  IInv'
<1>1. /\ UNCHANGED <<tasks, queue, life, owner, unreported, watch, restarter>>
      /\ updates < MaxUpdates /\ updates' = updates + 1
  BY DEF Request
<1>2. PICK existing, modified, added :
        /\ existing = {n \in names : service[n] # NoTask}
        /\ modified = {n \in existing : Differs(n, spec)}
        /\ added = IF down THEN {} ELSE modified \cup (names \ existing)
  OBVIOUS
<1>3. existing \subseteq Tasks /\ modified \subseteq Tasks /\ added \subseteq Tasks
  BY <1>2
<1>4. PICK touched :
        service' = [n \in Tasks |->
            IF n \notin touched THEN service[n]
            ELSE IF n \in existing
            THEN [service[n] EXCEPT !.version = spec.version]
            ELSE [version |-> spec.version, mode |-> spec.mode,
                  pid |-> NoPid, state |-> "unknown"]]
  BY <1>2 DEF Request
<1>5. service' \in Table
  <2>1. ASSUME NEW n \in Tasks
        PROVE  (IF n \notin touched THEN service[n]
                ELSE IF n \in existing
                THEN [service[n] EXCEPT !.version = spec.version]
                ELSE [version |-> spec.version, mode |-> spec.mode,
                      pid |-> NoPid, state |-> "unknown"]) \in Entries \cup {NoTask}
    <3>1. service[n] \in Entries \cup {NoTask}
      BY DEF IInv, Tables, Table
    <3>2. n \in existing => [service[n] EXCEPT !.version = spec.version] \in Entries
      BY <1>2, <3>1 DEF Entries, Specs
    <3>3. [version |-> spec.version, mode |-> spec.mode,
           pid |-> NoPid, state |-> "unknown"] \in Entries
      BY DEF Entries, Specs, States
    <3>. QED
      BY <3>1, <3>2, <3>3
  <2>. QED
    BY <1>4, <2>1 DEF Table
<1>6. Tables'
  BY <1>1, <1>5 DEF IInv, Tables
<1>7. updates' \in 0 .. MaxUpdates
  BY <1>1, MonitorAssumption DEF IInv
<1>8. Executing'
  <2>1. PICK j : /\ j = [at |-> "executing", spec |-> spec, added |-> added,
                         removed |-> IF down THEN existing ELSE {},
                         task |-> NoTask, results |-> [n \in {} |-> Fresh]]
                 /\ job' = [job EXCEPT ![c] = j]
    BY <1>2 DEF Request
  <2>2. [n \in {} |-> Fresh] \in Results
    <3>1. [n \in {} |-> Fresh] \in [{} -> Runtimes] /\ {} \in SUBSET Tasks
      OBVIOUS
    <3>. QED
      BY <3>1, Zenon DEF Results
  <2>3. j \in Jobs /\ j.at = "executing"
    BY <1>3, <2>1, <2>2 DEF Jobs
  <2>. QED
    BY <2>1, <2>3 DEF IInv, Executing
<1>9. Listed'
  BY <1>1, ListedKept DEF IInv
<1>. QED
  BY <1>1, <1>6, <1>7, <1>8, <1>9, ThreadsKept, ProcessesKept DEF IInv

LEMMA PrepareStep ==
  ASSUME IInv, NEW c \in Callers, NEW n \in Tasks, Prepare(c, n)
  PROVE  IInv'
<1>1. /\ UNCHANGED <<service, queue, life, owner, unreported, updates, watch, restarter>>
      /\ job[c].at = "executing"
  BY DEF Prepare
<1>2. job[c] \in Jobs
  BY <1>1, JobTypes DEF IInv
<1>3. PICK runtime : runtime = IF Scheduled(n) THEN RuntimeOf(tasks[n]) ELSE Fresh
  OBVIOUS
<1>4. /\ runtime \in Runtimes
      /\ runtime.state = "restarting" => tasks[n] # NoTask /\ tasks[n].state = "restarting"
  BY <1>3, RuntimeTypes, EntryTypes DEF IInv, Scheduled, Fresh
<1>5. PICK e : /\ e = [version |-> job[c].spec.version, mode |-> job[c].spec.mode,
                       pid |-> runtime.pid, state |-> runtime.state]
               /\ tasks' = [tasks EXCEPT ![n] = e]
  BY <1>3 DEF Prepare
<1>6. e \in Entries /\ e.state = runtime.state
  BY <1>2, <1>4, <1>5 DEF Entries, Jobs, Specs, Runtimes
<1>7. /\ tasks' \in Table /\ tasks'[n] = e
      /\ \A m \in Tasks : m # n => tasks'[m] = tasks[m]
  BY <1>5, <1>6, Rewritten DEF IInv
<1>8. Executing'
  <2>1. PICK j : /\ j = [job[c] EXCEPT !.at = "starting", !.task = n, !.added = job[c].added \ {n}]
                 /\ job' = [job EXCEPT ![c] = j]
    BY DEF Prepare
  <2>2. j \in Jobs /\ j.task = n /\ n # NoTask
    BY <1>2, <2>1, MonitorAssumption DEF Jobs
  <2>. QED
    BY <2>1, <2>2 DEF IInv, Executing
<1>9. Listed'
  BY <1>1, <1>4, <1>6, <1>7, ListedKept DEF IInv
<1>10. Tables'
  BY <1>1, <1>7 DEF IInv, Tables
<1>. QED
  BY <1>1, <1>8, <1>9, <1>10, ThreadsKept, ProcessesKept DEF IInv

LEMMA WithTypes ==
  ASSUME NEW results \in Results, NEW n \in Tasks, NEW r \in Runtimes
  PROVE  With(results, n, r) \in Results
<1>1. /\ DOMAIN results \subseteq Tasks
      /\ \A m \in DOMAIN results : results[m] \in Runtimes
  BY ResultTypes
<1>2. PICK S : S = DOMAIN results \cup {n}
  OBVIOUS
<1>3. S \in SUBSET Tasks /\ With(results, n, r) \in [S -> Runtimes]
  BY <1>1, <1>2 DEF With
<1>. QED
  BY <1>3, Zenon DEF Results

LEMMA RestartStep ==
  ASSUME IInv, NEW c \in Callers, Restart(c)
  PROVE  IInv'
<1>1. /\ UNCHANGED <<service, queue, unreported, updates, watch, restarter>>
      /\ job[c].at = "starting"
  BY DEF Restart
<1>2. PICK n : n = job[c].task
  OBVIOUS
<1>3. job[c] \in Jobs /\ n \in Tasks
  <2>1. job[c] \in Jobs /\ n # NoTask
    BY <1>1, <1>2, JobTypes DEF IInv, Executing
  <2>. QED
    BY <1>2, <2>1 DEF Jobs
<1>. DEFINE NothingMarked ==
                \A m \in Tasks : tasks'[m] # NoTask /\ tasks'[m].state = "restarting" =>
                                   tasks[m] # NoTask /\ tasks[m].state = "restarting"
<1>4. Tables' /\ Processes' /\ Executing' /\ NothingMarked
  <2>1. CASE job' = [job EXCEPT ![c] = Idle] /\ UNCHANGED <<tasks, life, owner>>
    <3>1. Executing'
      BY <2>1 DEF IInv, Executing, Idle
    <3>2. Tables'
      BY <1>1, <2>1 DEF IInv, Tables
    <3>3. Processes'
      BY <1>1, <2>1, ProcessesKept DEF IInv
    <3>. QED
      BY <2>1, <3>1, <3>2, <3>3
  <2>2. ASSUME Scheduled(n), NEW r \in Runtimes \cup {Failure},
               StartTask(n, tasks[n].version, Signalled(tasks[n].pid), r)
        PROVE  /\ Processes'
               /\ r # Failure => r \in Runtimes /\ r.state \in {"running", "preparing"}
    <3>1. PICK v, lives : v = tasks[n].version /\ lives = Signalled(tasks[n].pid)
      OBVIOUS
    <3>2. lives \in [Pids -> Lives] /\ \A q \in Pids : (lives[q] = "free") <=> (life[q] = "free")
      BY <3>1, SignalledTypes DEF IInv
    <3>3. StartTask(n, v, lives, r)
      BY <2>2, <3>1
    <3>4. Processes /\ unreported' = unreported
      BY <1>1 DEF IInv
    <3>. QED
      BY <1>3, <3>2, <3>3, <3>4, StartTaskTypes
  <2>3. ASSUME Scheduled(n), NEW r \in Runtimes \cup {Failure},
               StartTask(n, tasks[n].version, Signalled(tasks[n].pid), r),
               r = Failure, job' = [job EXCEPT ![c] = Idle], UNCHANGED tasks
        PROVE  Tables' /\ Processes' /\ Executing' /\ NothingMarked
    <3>1. Executing'
      BY <2>3 DEF IInv, Executing, Idle
    <3>2. Tables'
      BY <1>1, <2>3 DEF IInv, Tables
    <3>. QED
      BY <2>2, <2>3, <3>1, <3>2
  <2>4. ASSUME Scheduled(n), NEW r \in Runtimes \cup {Failure},
               StartTask(n, tasks[n].version, Signalled(tasks[n].pid), r), r # Failure,
               tasks' = [tasks EXCEPT ![n] = WithRuntime(@, r)],
               job' = [job EXCEPT ![c] =
                          [@ EXCEPT !.at = "executing", !.results = With(job[c].results, n, r)]]
        PROVE  Tables' /\ Processes' /\ Executing' /\ NothingMarked
    <3>1. r \in Runtimes /\ r.state \in {"running", "preparing"} /\ Processes'
      BY <2>2, <2>4
    <3>2. PICK e : e = WithRuntime(tasks[n], r)
      OBVIOUS
    <3>3. e \in Entries /\ e.state = r.state
      BY <1>3, <2>4, <3>1, <3>2, EntryTypes, RuntimeTypes DEF IInv
    <3>4. tasks' = [tasks EXCEPT ![n] = e]
      BY <2>4, <3>2
    <3>5. /\ tasks' \in Table /\ tasks'[n] = e
          /\ \A m \in Tasks : m # n => tasks'[m] = tasks[m]
      BY <1>3, <3>3, <3>4, Rewritten DEF IInv
    <3>6. PICK results : results = With(job[c].results, n, r)
      OBVIOUS
    <3>7. results \in Results
      BY <1>3, <3>1, <3>6, WithTypes DEF Jobs
    <3>8. PICK j : j = [job[c] EXCEPT !.at = "executing", !.results = results]
      OBVIOUS
    <3>9. j \in Jobs /\ j.at = "executing" /\ job' = [job EXCEPT ![c] = j]
      BY <1>3, <2>4, <3>6, <3>7, <3>8 DEF Jobs
    <3>10. Executing'
      BY <3>9 DEF IInv, Executing
    <3>11. NothingMarked
      BY <3>1, <3>3, <3>5
    <3>. QED
      BY <1>1, <3>1, <3>5, <3>10, <3>11 DEF IInv, Tables
  <2>. QED
    BY <1>2, <2>1, <2>3, <2>4 DEF Restart
<1>5. Listed'
  BY <1>1, <1>4, ListedKept DEF IInv
<1>. QED
  BY <1>1, <1>4, <1>5, ThreadsKept DEF IInv

LEMMA StopStep ==
  ASSUME IInv, NEW c \in Callers, NEW n \in Tasks, Stop(c, n)
  PROVE  IInv'
<1>1. /\ UNCHANGED <<service, queue, owner, unreported, updates, watch, restarter>>
      /\ job[c].at = "executing"
  BY DEF Stop
<1>2. job[c] \in Jobs
  BY <1>1, JobTypes DEF IInv
<1>3. CASE ~Scheduled(n)
  <2>1. job' = [job EXCEPT ![c].removed = @ \ {n}] /\ UNCHANGED <<tasks, life>>
    BY <1>3 DEF Stop
  <2>2. PICK j : j = [job[c] EXCEPT !.removed = @ \ {n}]
    OBVIOUS
  <2>3. j \in Jobs /\ j.at = "executing" /\ job' = [job EXCEPT ![c] = j]
    BY <1>1, <1>2, <2>1, <2>2 DEF Jobs
  <2>4. Executing'
    BY <2>3 DEF IInv, Executing
  <2>5. Tables'
    BY <1>1, <2>1 DEF IInv, Tables
  <2>6. Listed'
    BY <1>1, <2>1, ListedKept DEF IInv
  <2>. QED
    BY <1>1, <2>1, <2>4, <2>5, <2>6, ThreadsKept, ProcessesKept DEF IInv
<1>4. CASE Scheduled(n)
  <2>1. PICK r : r = [pid |-> tasks[n].pid, state |-> "stopped"]
    OBVIOUS
  <2>2. /\ life' = Signalled(tasks[n].pid)
        /\ tasks' = [tasks EXCEPT ![n] = WithRuntime(@, r)]
        /\ job' = [job EXCEPT ![c] =
               [@ EXCEPT !.removed = job[c].removed \ {n},
                         !.results = With(job[c].results, n, r)]]
    BY <1>4, <2>1 DEF Stop
  <2>3. tasks[n] \in Entries /\ r \in Runtimes /\ r.state = "stopped"
    <3>1. tasks[n] \in Entries
      BY <1>4, EntryTypes DEF IInv
    <3>. QED
      BY <2>1, <3>1 DEF Entries, Runtimes, States
  <2>4. PICK e : e = WithRuntime(tasks[n], r)
    OBVIOUS
  <2>5. e \in Entries /\ e.state = "stopped"
    BY <2>3, <2>4, RuntimeTypes
  <2>6. tasks' = [tasks EXCEPT ![n] = e]
    BY <2>2, <2>4
  <2>7. /\ tasks' \in Table /\ tasks'[n] = e
        /\ \A m \in Tasks : m # n => tasks'[m] = tasks[m]
    BY <2>5, <2>6, Rewritten DEF IInv
  <2>8. PICK results : results = With(job[c].results, n, r)
    OBVIOUS
  <2>9. results \in Results
    BY <1>2, <2>3, <2>8, WithTypes DEF Jobs
  <2>10. PICK j : j = [job[c] EXCEPT !.removed = job[c].removed \ {n}, !.results = results]
    OBVIOUS
  <2>11. j \in Jobs /\ j.at = "executing" /\ job' = [job EXCEPT ![c] = j]
    BY <1>1, <1>2, <2>2, <2>8, <2>9, <2>10 DEF Jobs
  <2>12. Executing'
    BY <2>11 DEF IInv, Executing
  <2>13. Tables'
    BY <1>1, <2>7 DEF IInv, Tables
  <2>14. Processes'
    BY <1>1, <2>2, SignalKeeps DEF IInv
  <2>15. Listed'
    BY <1>1, <2>5, <2>7, ListedKept DEF IInv
  <2>. QED
    BY <1>1, <2>12, <2>13, <2>14, <2>15, ThreadsKept DEF IInv
<1>. QED
  BY <1>3, <1>4

LEMMA ReportStep ==
  ASSUME IInv, NEW c \in Callers, Report(c)
  PROVE  IInv'
<1>1. /\ UNCHANGED <<tasks, queue, life, owner, unreported, updates, watch, restarter>>
      /\ job[c].at = "executing" /\ service' = Reported(job[c].results)
  BY DEF Report
<1>2. job[c] \in Jobs /\ job[c].results \in Results
  <2>1. job[c] \in Jobs
    BY <1>1, JobTypes DEF IInv
  <2>. QED
    BY <2>1 DEF Jobs
<1>3. PICK names : names = ToCleanUp(job[c].results)
  OBVIOUS
<1>4. service' \in Table /\ names \subseteq Tasks
  BY <1>1, <1>2, <1>3, ReportedTypes DEF IInv
<1>5. PICK j : j = [job[c] EXCEPT !.at = "cleaning", !.removed = names]
  OBVIOUS
<1>6. j \in Jobs /\ j.at = "cleaning" /\ job' = [job EXCEPT ![c] = j]
  BY <1>2, <1>3, <1>4, <1>5 DEF Jobs, Report
<1>7. Executing'
  BY <1>6 DEF IInv, Executing
<1>8. Tables'
  BY <1>1, <1>4 DEF IInv, Tables
<1>9. Listed'
  BY <1>1, ListedKept DEF IInv
<1>. QED
  BY <1>1, <1>7, <1>8, <1>9, ThreadsKept, ProcessesKept DEF IInv

LEMMA CleanUpStep ==
  ASSUME IInv, NEW c \in Callers, CleanUp(c)
  PROVE  IInv'
<1>1. /\ UNCHANGED <<service, queue, life, owner, unreported, updates, watch, restarter>>
      /\ tasks' = CleanedUp(job[c].removed) /\ job' = [job EXCEPT ![c] = Idle]
  BY DEF CleanUp
<1>2. /\ tasks' \in Table
      /\ \A n \in Tasks : tasks'[n] # NoTask => tasks'[n] = tasks[n]
  BY <1>1, CleanedUpTypes DEF IInv
<1>3. Executing'
  BY <1>1 DEF IInv, Executing, Idle
<1>4. Tables'
  BY <1>1, <1>2 DEF IInv, Tables
<1>5. Listed'
  BY <1>1, <1>2, ListedKept DEF IInv
<1>. QED
  BY <1>1, <1>3, <1>4, <1>5, ThreadsKept, ProcessesKept DEF IInv

LEMMA ExitStep ==
  ASSUME IInv, NEW p \in Pids, Exit(p)
  PROVE  IInv'
<1>1. /\ UNCHANGED <<service, tasks, queue, owner, unreported, updates, job, watch, restarter>>
      /\ life[p] # "free"
  BY DEF Exit, Alive
<1>2. PICK e : life' = [life EXCEPT ![p] = e] /\ e \in Lives /\ e # "free"
  BY MonitorAssumption DEF Exit, Lives
<1>3. Processes'
  BY <1>1, <1>2 DEF IInv, Processes
<1>4. Tables' /\ Executing'
  BY <1>1 DEF IInv, Tables, Executing
<1>5. Listed'
  BY <1>1, ListedKept DEF IInv
<1>. QED
  BY <1>1, <1>3, <1>4, <1>5, ThreadsKept DEF IInv

-----------------------------------------------------------------------------
(* The downloads *)

\* Somebody reports of one process; only the table of the service changes.
LEMMA DownloadStep ==
  ASSUME IInv, NEW p \in Pids, Download(p)
  PROVE  IInv'
<1>1. UNCHANGED <<tasks, queue, owner, updates, job, watch, restarter>>
  BY DEF Download, DownloadSucceeds, DownloadReports, DownloadFails
<1>2. Executing'
  BY <1>1 DEF IInv, Executing
<1>3. Listed'
  BY <1>1, ListedKept DEF IInv
<1>4. service' \in Table
  <2>1. CASE UNCHANGED service
    BY <2>1 DEF IInv, Tables
  <2>2. ASSUME NEW r \in Runtimes, life[p] # "free",
               service' = Reported([n \in {owner[p]} |-> r])
        PROVE  service' \in Table
    <3>1. owner[p] \in Tasks
      BY <2>2 DEF IInv, Processes
    <3>2. PICK report : report = [n \in {owner[p]} |-> r]
      OBVIOUS
    <3>3. report \in Results
      BY <3>1, <3>2, SingleReport
    <3>. QED
      BY <2>2, <3>2, <3>3, ReportedTypes DEF IInv
  <2>3. /\ [pid |-> p, state |-> "running"] \in Runtimes
        /\ [pid |-> NoPid, state |-> "failed"] \in Runtimes
    BY DEF Runtimes, States
  <2>4. CASE DownloadReports(p)
    <3>1. life[p] # "free"
      BY <2>4 DEF DownloadReports, IInv, Processes
    <3>. QED
      BY <2>2, <2>3, <2>4, <3>1 DEF DownloadReports
  <2>5. CASE DownloadFails(p)
    BY <2>2, <2>3, <2>5 DEF DownloadFails
  <2>6. CASE DownloadSucceeds(p)
    BY <2>1, <2>6 DEF DownloadSucceeds
  <2>. QED
    BY <2>4, <2>5, <2>6 DEF Download
<1>5. Processes'
  <2>1. CASE DownloadSucceeds(p)
    BY <1>1, <2>1 DEF DownloadSucceeds, IInv, Processes, Lives
  <2>2. CASE DownloadReports(p)
    BY <1>1, <2>2 DEF DownloadReports, IInv, Processes
  <2>3. CASE DownloadFails(p)
    BY <1>1, <2>3 DEF DownloadFails, IInv, Processes, Lives
  <2>. QED
    BY <2>1, <2>2, <2>3 DEF Download
<1>6. Tables'
  BY <1>1, <1>4 DEF IInv, Tables
<1>. QED
  BY <1>1, <1>2, <1>3, <1>5, <1>6, ThreadsKept DEF IInv

-----------------------------------------------------------------------------
(* The monitor *)

\* Where the monitor is tells what it holds.
LEMMA WatchTypes ==
  ASSUME Watching
  PROVE  /\ watch.at = "idle" => watch = Idle
         /\ watch.at = "dead" => watch = Dead
         /\ watch.at = "probing" => watch \in Probing
         /\ watch.at \in {"applying", "marking", "queueing"} => watch \in Rounds
         /\ watch.at = "cleaning" => watch \in Cleaning
         /\ watch = Idle => watch.at = "idle"
         /\ watch = Dead => watch.at = "dead"
         /\ watch \in Rounds => watch.at \in {"applying", "marking", "queueing"}
BY DEF Watching, Idle, Dead, Probing, Rounds, Cleaning

\* A step of the monitor that leaves the processes, the callers and the restart
\* thread alone.
LEMMA WatchKeeps ==
  ASSUME IInv, UNCHANGED <<life, owner, unreported, updates, job, restarter>>,
         Tables', Queued', Watching', Listed',
         watch' \in Rounds =>
           /\ \A n \in watch'.todo : watch'.report[n].state # "restarting"
           /\ watch'.at # "applying" => watch'.task \notin watch'.todo
  PROVE  IInv'
<1>1. Processes'
  BY ProcessesKept DEF IInv
<1>2. Executing' /\ Restarting' /\ updates' \in 0 .. MaxUpdates
  BY DEF IInv, Executing, Restarting
<1>3. Unmarked'
  BY DEF IInv, Unmarked
<1>. QED
  BY <1>1, <1>2, <1>3 DEF IInv

LEMMA CopyStep ==
  ASSUME IInv, Copy
  PROVE  IInv'
<1>1. /\ UNCHANGED <<service, tasks, queue, life, owner, unreported, updates, job, restarter>>
      /\ watch.at # "queueing"
  BY DEF Copy, Idle
<1>2. PICK report : report = [n \in Watched |-> RuntimeOf(tasks[n])]
  OBVIOUS
<1>3. report \in Results
  <2>1. Watched \in SUBSET Tasks
    BY DEF Watched
  <2>2. \A n \in Watched : RuntimeOf(tasks[n]) \in Runtimes
    BY EntryTypes, RuntimeTypes DEF IInv, Watched
  <2>3. report \in [Watched -> Runtimes]
    BY <1>2, <2>2
  <2>. QED
    BY <2>1, <2>3, Zenon DEF Results
<1>4. watch' = [at |-> "probing", report |-> report]
  BY <1>2 DEF Copy
<1>5. watch' \in Probing /\ watch' \notin Rounds
  BY <1>3, <1>4 DEF Probing, Rounds
<1>6. Tables' /\ Queued' /\ Watching'
  BY <1>1, <1>5 DEF IInv, Tables, Queued, Watching
<1>7. Listed'
  BY <1>1, ListedKept DEF IInv
<1>. QED
  BY <1>1, <1>5, <1>6, <1>7, WatchKeeps

LEMMA ProbedTypes ==
  ASSUME NEW p
  PROVE  ProbedState(p) \in States /\ ProbedState(p) # "restarting"
BY DEF ProbedState, States

LEMMA ProbeStep ==
  ASSUME IInv, Probe
  PROVE  IInv'
<1>1. /\ UNCHANGED <<service, tasks, queue, life, owner, unreported, updates, job, restarter>>
      /\ watch.at = "probing"
  BY DEF Probe
<1>2. PICK seen, new, report :
        /\ seen = watch.report
        /\ new = {n \in DOMAIN seen : ProbedState(seen[n].pid) # seen[n].state}
        /\ report = [n \in new |-> [pid |-> seen[n].pid, state |-> ProbedState(seen[n].pid)]]
  OBVIOUS
<1>3. watch' = [at |-> "applying", todo |-> new, task |-> NoTask, report |-> report]
  BY <1>2 DEF Probe
<1>4. seen \in Results
  <2>1. watch \in Probing
    BY <1>1, WatchTypes DEF IInv
  <2>. QED
    BY <1>2, <2>1 DEF Probing
<1>5. new \in SUBSET Tasks /\ \A n \in new : seen[n] \in Runtimes
  BY <1>2, <1>4, ResultTypes
<1>6. \A n \in new : report[n] \in Runtimes /\ report[n].state # "restarting"
  <2>1. TAKE n \in new
  <2>2. PICK s : s = ProbedState(seen[n].pid)
    OBVIOUS
  <2>3. report[n] = [pid |-> seen[n].pid, state |-> s]
    BY <1>2, <2>2
  <2>4. s \in States /\ s # "restarting"
    BY <2>2, ProbedTypes
  <2>. QED
    BY <1>5, <2>3, <2>4 DEF Runtimes
<1>7. DOMAIN report = new /\ report \in Results
  <2>1. DOMAIN report = new /\ report = [n \in DOMAIN report |-> report[n]]
    BY <1>2
  <2>. QED
    BY <1>5, <1>6, <2>1, ResultTypes
<1>8. watch' \in Rounds
  BY <1>3, <1>5, <1>7 DEF Rounds
<1>9. Tables' /\ Queued' /\ Watching'
  BY <1>1, <1>3, <1>7, <1>8 DEF IInv, Tables, Queued, Watching
<1>10. Listed'
  BY <1>1, ListedKept DEF IInv
<1>. QED
  BY <1>1, <1>3, <1>6, <1>9, <1>10, WatchKeeps

LEMMA ApplyStep ==
  ASSUME IInv, NEW n \in Tasks, Apply(n)
  PROVE  IInv'
<1>1. /\ UNCHANGED <<service, queue, life, owner, unreported, updates, job, restarter>>
      /\ watch.at = "applying" /\ n \in watch.todo
      /\ tasks' = IF Scheduled(n)
                  THEN [tasks EXCEPT ![n] = WithRuntime(@, watch.report[n])] ELSE tasks
  BY DEF Apply
<1>2. /\ watch \in Rounds /\ watch.todo \subseteq DOMAIN watch.report
      /\ watch.report[n].state # "restarting" /\ watch.report[n] \in Runtimes
  <2>1. watch \in Rounds
    BY <1>1, WatchTypes DEF IInv
  <2>2. watch.report \in Results
    BY <2>1 DEF Rounds
  <2>. QED
    BY <1>1, <2>1, <2>2, ResultTypes DEF IInv, Watching, Unmarked
<1>3. Tables' /\ Listed'
  <2>1. CASE ~Scheduled(n)
    <3>1. Tables'
      BY <1>1, <2>1 DEF IInv, Tables
    <3>2. Listed'
      BY <1>1, <2>1, ListedKept DEF IInv
    <3>. QED
      BY <3>1, <3>2
  <2>2. CASE Scheduled(n)
    <3>1. PICK e : e = WithRuntime(tasks[n], watch.report[n])
      OBVIOUS
    <3>2. e \in Entries /\ e.state # "restarting"
      BY <1>2, <2>2, <3>1, EntryTypes, RuntimeTypes DEF IInv
    <3>3. tasks' = [tasks EXCEPT ![n] = e]
      BY <1>1, <2>2, <3>1
    <3>4. /\ tasks' \in Table /\ tasks'[n] = e
          /\ \A m \in Tasks : m # n => tasks'[m] = tasks[m]
      BY <3>2, <3>3, Rewritten DEF IInv
    <3>5. Tables'
      BY <1>1, <3>4 DEF IInv, Tables
    <3>6. Listed'
      BY <1>1, <3>2, <3>4, ListedKept DEF IInv
    <3>. QED
      BY <3>5, <3>6
  <2>. QED
    BY <2>1, <2>2
<1>4. PICK at : /\ at \in {"marking", "applying"}
                /\ watch' = [watch EXCEPT !.todo = watch.todo \ {n}, !.task = n, !.at = at]
  BY DEF Apply
<1>5. /\ watch' \in Rounds /\ watch'.todo = watch.todo \ {n}
      /\ watch'.task = n /\ watch'.report = watch.report
  BY <1>2, <1>4 DEF Rounds
<1>6. Watching'
  BY <1>1, <1>2, <1>5 DEF Watching
<1>7. /\ \A m \in watch'.todo : watch'.report[m].state # "restarting"
      /\ watch'.task \notin watch'.todo
  BY <1>2, <1>5 DEF IInv, Unmarked
<1>8. Queued'
  BY <1>1 DEF IInv, Queued
<1>. QED
  BY <1>1, <1>3, <1>6, <1>7, <1>8, WatchKeeps

LEMMA MarkStep ==
  ASSUME IInv, Mark
  PROVE  IInv'
<1>1. /\ UNCHANGED <<service, queue, life, owner, unreported, updates, job, restarter>>
      /\ watch.at = "marking"
  BY DEF Mark
<1>2. PICK n : n = watch.task
  OBVIOUS
<1>3. /\ watch \in Rounds /\ watch.todo \subseteq DOMAIN watch.report
      /\ n \in DOMAIN watch.report /\ n \in Tasks /\ n \notin watch.todo
      /\ watch.report \in Results
  <2>1. watch \in Rounds
    BY <1>1, WatchTypes DEF IInv
  <2>2. watch.report \in Results
    BY <2>1 DEF Rounds
  <2>. QED
    BY <1>1, <1>2, <2>1, <2>2, ResultTypes DEF IInv, Watching, Unmarked
<1>4. PICK report : report = [watch.report EXCEPT ![n].state = "restarting"]
  OBVIOUS
<1>5. /\ report \in Results /\ DOMAIN report = DOMAIN watch.report
      /\ \A m \in DOMAIN report : m # n => report[m] = watch.report[m]
  <2>1. /\ DOMAIN watch.report \subseteq Tasks
        /\ \A m \in DOMAIN watch.report : watch.report[m] \in Runtimes
    BY <1>3, ResultTypes
  <2>2. PICK r : r = [watch.report[n] EXCEPT !.state = "restarting"]
    OBVIOUS
  <2>3. r \in Runtimes
    BY <1>3, <2>1, <2>2 DEF Runtimes, States
  <2>4. report = [watch.report EXCEPT ![n] = r]
    BY <1>4, <2>2
  <2>5. /\ DOMAIN report = DOMAIN watch.report
        /\ report = [m \in DOMAIN report |-> report[m]]
        /\ \A m \in DOMAIN report : m # n => report[m] = watch.report[m]
        /\ report[n] = r
    BY <1>3, <2>4
  <2>6. \A m \in DOMAIN report : report[m] \in Runtimes
    BY <2>1, <2>3, <2>5
  <2>. QED
    BY <2>1, <2>5, <2>6, ResultTypes
<1>6. watch' = [watch EXCEPT !.at = "queueing", !.report = report]
  BY <1>2, <1>4 DEF Mark
<1>7. /\ watch' \in Rounds /\ watch'.todo = watch.todo /\ watch'.task = n
      /\ watch'.at = "queueing" /\ watch'.report = report
  BY <1>2, <1>3, <1>5, <1>6 DEF Rounds
<1>8. Watching'
  BY <1>3, <1>5, <1>7 DEF Watching
<1>9. /\ \A m \in watch'.todo : watch'.report[m].state # "restarting"
      /\ watch'.task \notin watch'.todo
  BY <1>3, <1>5, <1>7 DEF IInv, Unmarked
<1>10. /\ tasks' \in Table
       /\ \A m \in Tasks : m # n => tasks'[m] = tasks[m]
  <2>1. CASE ~Scheduled(n)
    BY <1>2, <2>1 DEF Mark, IInv, Tables
  <2>2. CASE Scheduled(n)
    <3>1. PICK e : e = [tasks[n] EXCEPT !.state = "restarting"]
      OBVIOUS
    <3>2. e \in Entries
      <4>1. tasks[n] \in Entries
        BY <1>3, <2>2, EntryTypes DEF IInv
      <4>. QED
        BY <3>1, <4>1 DEF Entries, States
    <3>3. tasks' = [tasks EXCEPT ![n] = e]
      BY <1>2, <2>2, <3>1 DEF Mark
    <3>. QED
      BY <1>3, <3>2, <3>3, Rewritten DEF IInv
  <2>. QED
    BY <2>1, <2>2
<1>11. Tables' /\ Queued'
  BY <1>1, <1>10 DEF IInv, Tables, Queued
<1>12. Listed'
  <2>1. SUFFICES ASSUME NEW m \in Tasks, tasks'[m] # NoTask, tasks'[m].state = "restarting"
                 PROVE  OnAList(m)'
    BY DEF Listed, Scheduled
  <2>2. CASE m = n
    BY <1>7, <2>2 DEF OnAList, Handled
  <2>3. CASE m # n
    <3>1. OnAList(m)
      BY <1>10, <2>1, <2>3 DEF IInv, Listed, Scheduled
    <3>. QED
      BY <1>1, <3>1 DEF OnAList, Handled
  <2>. QED
    BY <2>2, <2>3
<1>. QED
  BY <1>1, <1>8, <1>9, <1>11, <1>12, WatchKeeps

\* u is s and then t.
Joins(u, s, t) ==
  /\ Len(u) = Len(s) + Len(t)
  /\ \A i \in 1 .. Len(s) : u[i] = s[i]
  /\ \A i \in 1 .. Len(t) : u[Len(s) + i] = t[i]

LEMMA Joined ==
  ASSUME NEW S, NEW s \in Seq(S), NEW t \in Seq(S)
  PROVE  s \o t \in Seq(S) /\ Joins(s \o t, s, t)
<1>1. s \o t \in Seq(S) /\ Len(s \o t) = Len(s) + Len(t)
  OBVIOUS
<1>2. \A i \in 1 .. Len(s) : (s \o t)[i] = s[i]
  OBVIOUS
<1>3. ASSUME NEW i \in 1 .. Len(t) PROVE (s \o t)[Len(s) + i] = t[i]
  <2>1. Len(s) \in Nat /\ Len(t) \in Nat
    OBVIOUS
  <2>2. Len(s) + i \in 1 .. Len(s) + Len(t) /\ ~(Len(s) + i <= Len(s)) /\ Len(s) + i - Len(s) = i
    BY <2>1
  <2>. QED
    BY <2>1, <2>2
<1>. QED
  BY <1>1, <1>2, <1>3 DEF Joins

\* u is the queue q with a task put behind its place i.
Inserts(u, q, n, i) ==
  /\ Len(u) = Len(q) + 1 /\ u[i + 1] = n
  /\ \A j \in 1 .. i : u[j] = q[j]
  /\ \A j \in i + 1 .. Len(q) : u[j + 1] = q[j]

LEMMA Insertion ==
  ASSUME NEW q \in Seq(Tasks), NEW n \in Tasks, NEW i \in 0 .. Len(q)
  PROVE  /\ SubSeq(q, 1, i) \o <<n>> \o SubSeq(q, i + 1, Len(q)) \in Seq(Tasks)
         /\ Inserts(SubSeq(q, 1, i) \o <<n>> \o SubSeq(q, i + 1, Len(q)), q, n, i)
<1>0. PICK u : u = SubSeq(q, 1, i) \o <<n>> \o SubSeq(q, i + 1, Len(q))
  OBVIOUS
<1>1. Len(q) \in Nat /\ i \in Nat /\ i <= Len(q)
  OBVIOUS
<1>2. PICK a, b, l : a = SubSeq(q, 1, i) /\ b = SubSeq(q, i + 1, Len(q)) /\ l = Len(q)
  OBVIOUS
<1>3. /\ a \in Seq(Tasks) /\ Len(a) = i
      /\ \A j \in 1 .. i : a[j] = q[j]
  BY <1>1, <1>2
<1>4. b \in Seq(Tasks) /\ Len(b) = l - i
  BY <1>1, <1>2
<1>5. \A j \in 1 .. l - i : b[j] = q[i + j]
  BY <1>1, <1>2
<1>6. PICK c : c = a \o <<n>>
  OBVIOUS
<1>7. /\ c \in Seq(Tasks) /\ Len(c) = i + 1 /\ c[i + 1] = n
      /\ \A j \in 1 .. i : c[j] = a[j]
  BY <1>1, <1>3, <1>6
<1>8. u = c \o b
  BY <1>0, <1>2, <1>6
<1>13. c \o b \in Seq(Tasks) /\ Joins(c \o b, c, b)
  BY <1>4, <1>7, Joined, Zenon
<1>14. u \in Seq(Tasks) /\ Joins(u, c, b)
  BY <1>8, <1>13, Zenon
<1>9. u \in Seq(Tasks) /\ Len(u) = (i + 1) + (l - i)
  BY <1>4, <1>7, <1>14 DEF Joins
<1>10. /\ \A j \in 1 .. i + 1 : u[j] = c[j]
       /\ \A j \in 1 .. l - i : u[(i + 1) + j] = b[j]
  BY <1>4, <1>7, <1>14 DEF Joins
<1>11. ASSUME NEW j \in i + 1 .. Len(q) PROVE u[j + 1] = q[j]
  <2>1. /\ j + 1 \in 1 .. (i + 1) + (l - i) /\ ~(j + 1 <= i + 1)
        /\ j - i \in 1 .. l - i /\ (i + 1) + (j - i) = j + 1 /\ i + (j - i) = j
    BY <1>1, <1>2
  <2>2. u[j + 1] = b[j - i]
    BY <1>10, <2>1
  <2>. QED
    BY <1>5, <2>1, <2>2
<1>12. (i + 1) + (l - i) = Len(q) + 1 /\ i + 1 \in 1 .. i + 1 /\ \A j \in 1 .. i : j \in 1 .. i + 1
  BY <1>1, <1>2
<1>15. u \in Seq(Tasks) /\ Inserts(u, q, n, i)
  BY <1>3, <1>7, <1>9, <1>10, <1>11, <1>12 DEF Inserts
<1>. QED
  BY <1>0, <1>15, Zenon

\* The monitor panics: only when the restart thread has done so before.
LEMMA QueuePoisonedStep ==
  ASSUME IInv, QueuePoisoned
  PROVE  IInv'
<1>1. /\ UNCHANGED <<service, tasks, queue, life, owner, unreported, updates, job, restarter>>
      /\ watch' = Dead /\ restarter' = Dead
  BY DEF QueuePoisoned
<1>2. watch' \notin Rounds
  BY <1>1 DEF Dead, Rounds
<1>3. Watching'
  BY <1>1, <1>2 DEF Watching
<1>4. Listed'
  BY <1>1 DEF Listed, OnAList
<1>5. Tables' /\ Queued'
  BY <1>1 DEF IInv, Tables, Queued
<1>. QED
  BY <1>1, <1>2, <1>3, <1>4, <1>5, WatchKeeps

LEMMA QueueRestartStep ==
  ASSUME IInv, QueueRestart
  PROVE  IInv'
<1>1. /\ UNCHANGED <<service, tasks, life, owner, unreported, updates, job, restarter>>
      /\ watch.at = "queueing" /\ restarter = Idle
      /\ watch' = [watch EXCEPT !.at = "applying"]
  BY DEF QueueRestart
<1>2. PICK n, l : n = watch.task /\ l = Len(queue)
  OBVIOUS
<1>3. watch \in Rounds /\ n \in Tasks
  <2>1. watch \in Rounds
    BY <1>1, WatchTypes DEF IInv
  <2>2. watch.report \in Results
    BY <2>1 DEF Rounds
  <2>. QED
    BY <1>1, <1>2, <2>1, <2>2, ResultTypes DEF IInv, Watching
<1>4. /\ queue \in Seq(Tasks) /\ l \in Nat
      /\ \A j \in 1 .. l - 1 : queue[j] # queue[j + 1]
  BY <1>2 DEF IInv, Queued
<1>5. /\ Queued' /\ (\E j \in DOMAIN queue' : queue'[j] = n)
      /\ \A j \in DOMAIN queue : \E k \in DOMAIN queue' : queue'[k] = queue[j]
  <2>1. PICK i \in 0 .. l :
          queue' = IF \E j \in {i, i + 1} \cap DOMAIN queue : queue[j] = n
                   THEN queue
                   ELSE SubSeq(queue, 1, i) \o <<n>> \o SubSeq(queue, i + 1, l)
    BY <1>2 DEF QueueRestart
  <2>2. CASE \E j \in {i, i + 1} \cap DOMAIN queue : queue[j] = n
    BY <2>1, <2>2 DEF IInv, Queued
  <2>3. CASE \A j \in {i, i + 1} \cap DOMAIN queue : queue[j] # n
    <3>1. PICK u : u = SubSeq(queue, 1, i) \o <<n>> \o SubSeq(queue, i + 1, Len(queue))
      OBVIOUS
    <3>2. queue' = u
      BY <1>2, <2>1, <2>3, <3>1
    <3>3. i \in 0 .. Len(queue)
      BY <1>2
    <3>4. /\ u \in Seq(Tasks) /\ Len(u) = l + 1 /\ u[i + 1] = n
          /\ \A j \in 1 .. i : u[j] = queue[j]
          /\ \A j \in i + 1 .. l : u[j + 1] = queue[j]
      <4>1. u \in Seq(Tasks) /\ Inserts(u, queue, n, i)
        BY <1>3, <1>4, <3>1, <3>3, Insertion, Zenon
      <4>. QED
        BY <1>2, <4>1 DEF Inserts
    <3>5. DOMAIN queue = 1 .. l /\ DOMAIN u = 1 .. l + 1
      BY <1>2, <1>4, <3>4
    <3>6. ASSUME NEW j \in 1 .. l PROVE u[j] # u[j + 1]
      <4>1. CASE j < i
        <5>1. j \in 1 .. i /\ j + 1 \in 1 .. i /\ j \in 1 .. l - 1
          BY <1>4, <4>1
        <5>. QED
          BY <1>4, <3>4, <5>1
      <4>2. CASE j = i
        <5>1. j \in 1 .. i /\ j \in {i, i + 1} \cap DOMAIN queue
          BY <3>5, <4>2
        <5>. QED
          BY <2>3, <3>4, <4>2, <5>1
      <4>3. CASE j = i + 1
        <5>1. j \in i + 1 .. l /\ j \in {i, i + 1} \cap DOMAIN queue
          BY <1>4, <3>5, <4>3
        <5>. QED
          BY <2>3, <3>4, <4>3, <5>1
      <4>4. CASE j > i + 1
        <5>1. PICK h : h = j - 1
          OBVIOUS
        <5>2. h \in i + 1 .. l /\ j \in i + 1 .. l /\ h + 1 = j /\ h \in 1 .. l - 1
          BY <1>4, <4>4, <5>1
        <5>3. u[j] = queue[h] /\ u[j + 1] = queue[j]
          BY <3>4, <5>2
        <5>. QED
          BY <1>4, <5>2, <5>3
      <4>. QED
        BY <1>4, <4>1, <4>2, <4>3, <4>4
    <3>7. Queued'
      <4>1. (l + 1) - 1 = l
        BY <1>4
      <4>. QED
        BY <3>2, <3>4, <3>6, <4>1 DEF Queued
    <3>8. \E j \in DOMAIN u : u[j] = n
      <4>1. i + 1 \in 1 .. l + 1
        BY <1>4
      <4>. QED
        BY <3>4, <3>5, <4>1
    <3>9. ASSUME NEW j \in DOMAIN queue PROVE \E k \in DOMAIN u : u[k] = queue[j]
      <4>1. CASE j <= i
        <5>1. j \in 1 .. i /\ j \in 1 .. l + 1
          BY <1>4, <3>5, <4>1
        <5>. QED
          BY <3>4, <3>5, <5>1
      <4>2. CASE ~(j <= i)
        <5>1. j \in i + 1 .. l /\ j + 1 \in 1 .. l + 1
          BY <1>4, <3>5, <4>2
        <5>. QED
          BY <3>4, <3>5, <5>1
      <4>. QED
        BY <4>1, <4>2
    <3>. QED
      BY <3>2, <3>7, <3>8, <3>9
  <2>. QED
    BY <2>2, <2>3
<1>6. /\ watch' \in Rounds /\ watch'.todo = watch.todo /\ watch'.at = "applying"
      /\ watch'.report = watch.report
  BY <1>1, <1>3 DEF Rounds
<1>7. Watching'
  BY <1>3, <1>6 DEF IInv, Watching
<1>8. /\ \A m \in watch'.todo : watch'.report[m].state # "restarting"
      /\ watch'.at = "applying"
  BY <1>3, <1>6 DEF IInv, Unmarked
<1>9. Tables'
  BY <1>1 DEF IInv, Tables
<1>10. Listed'
  <2>1. SUFFICES ASSUME NEW m \in Tasks, tasks'[m] # NoTask, tasks'[m].state = "restarting"
                 PROVE  OnAList(m)'
    BY DEF Listed, Scheduled
  <2>2. OnAList(m)
    BY <1>1, <2>1 DEF IInv, Listed, Scheduled
  <2>3. \E j \in DOMAIN queue' : queue'[j] = m
    <3>1. CASE \E j \in DOMAIN queue : queue[j] = m
      BY <1>5, <3>1
    <3>2. CASE m = n
      BY <1>5, <3>2
    <3>. QED
      BY <1>1, <1>2, <2>2, <3>1, <3>2 DEF OnAList, Handled, Idle, Dead
  <2>. QED
    BY <2>3 DEF OnAList, Handled
<1>. QED
  BY <1>1, <1>5, <1>7, <1>8, <1>9, <1>10, WatchKeeps

LEMMA ReportWatchedStep ==
  ASSUME IInv, ReportWatched
  PROVE  IInv'
<1>1. /\ UNCHANGED <<tasks, queue, life, owner, unreported, updates, job, restarter>>
      /\ watch.at = "applying" /\ service' = Reported(watch.report)
      /\ watch' = [at |-> "cleaning", todo |-> ToCleanUp(watch.report)]
  BY DEF ReportWatched
<1>2. watch.report \in Results
  <2>1. watch \in Rounds
    BY <1>1, WatchTypes DEF IInv
  <2>. QED
    BY <2>1 DEF Rounds
<1>3. service' \in Table /\ ToCleanUp(watch.report) \subseteq Tasks
  BY <1>1, <1>2, ReportedTypes DEF IInv
<1>4. watch' \in Cleaning /\ watch' \notin Rounds
  BY <1>1, <1>3 DEF Cleaning, Rounds
<1>5. Tables' /\ Queued' /\ Watching'
  BY <1>1, <1>3, <1>4 DEF IInv, Tables, Queued, Watching
<1>6. Listed'
  BY <1>1, ListedKept DEF IInv
<1>. QED
  BY <1>1, <1>4, <1>5, <1>6, WatchKeeps

LEMMA CleanUpWatchedStep ==
  ASSUME IInv, CleanUpWatched
  PROVE  IInv'
<1>1. /\ UNCHANGED <<service, queue, life, owner, unreported, updates, job, restarter>>
      /\ watch.at = "cleaning" /\ watch' = Idle /\ tasks' = CleanedUp(watch.todo)
  BY DEF CleanUpWatched
<1>2. /\ tasks' \in Table
      /\ \A n \in Tasks : tasks'[n] # NoTask => tasks'[n] = tasks[n]
  BY <1>1, CleanedUpTypes DEF IInv
<1>3. watch' \notin Rounds
  BY <1>1 DEF Rounds, Idle
<1>4. Tables' /\ Queued' /\ Watching'
  BY <1>1, <1>2, <1>3 DEF IInv, Tables, Queued, Watching
<1>5. Listed'
  BY <1>1, <1>2, ListedKept DEF IInv
<1>. QED
  BY <1>1, <1>3, <1>4, <1>5, WatchKeeps

-----------------------------------------------------------------------------
(* The restart thread *)

LEMMA RestarterTypes ==
  ASSUME Restarting
  PROVE  /\ restarter.at = "reading" => restarter \in Reading
         /\ restarter.at = "starting" => restarter \in Starting /\ restarter.todo # <<>>
         /\ restarter.at = "writing" => restarter \in Writing /\ restarter.todo # <<>>
         /\ restarter.at \in {"reading", "starting", "writing"} =>
              restarter # Idle /\ restarter # Dead
BY DEF Restarting, Idle, Dead, Reading, Starting, Writing

\* A step of the restart thread that leaves the callers and the monitor alone.
LEMMA RestarterKeeps ==
  ASSUME IInv, UNCHANGED <<unreported, updates, job, watch>>,
         Tables', Queued', Processes', Restarting', Listed',
         restarter' \in Writing /\ restarter'.runtime # Failure =>
           restarter'.runtime.state \in {"running", "preparing"}
  PROVE  IInv'
<1>1. Executing' /\ Watching' /\ updates' \in 0 .. MaxUpdates
  BY DEF IInv, Executing, Watching
<1>2. Unmarked'
  BY DEF IInv, Unmarked
<1>. QED
  BY <1>1, <1>2 DEF IInv

\* a are the first k tasks of a queue, b the rest of it.
Divides(a, b, q, k) ==
  /\ a \in Seq(Tasks) /\ b \in Seq(Tasks) /\ Len(b) = Len(q) - k
  /\ \A j \in 1 .. Len(q) - k : b[j] = q[k + j]
  /\ \A j \in DOMAIN q : \/ \E i \in DOMAIN a : a[i] = q[j]
                         \/ \E i \in DOMAIN b : b[i] = q[j]

LEMMA Division ==
  ASSUME NEW q \in Seq(Tasks), NEW k \in 1 .. Len(q)
  PROVE  Divides(SubSeq(q, 1, k), SubSeq(q, k + 1, Len(q)), q, k)
<1>0. PICK a, b, l : a = SubSeq(q, 1, k) /\ b = SubSeq(q, k + 1, Len(q)) /\ l = Len(q)
  OBVIOUS
<1>1. l \in Nat /\ k \in Nat /\ 1 <= k /\ k <= l /\ DOMAIN q = 1 .. l
  BY <1>0
<1>2. /\ a \in Seq(Tasks) /\ DOMAIN a = 1 .. k
      /\ \A j \in 1 .. k : a[j] = q[j]
  BY <1>0, <1>1
<1>3. b \in Seq(Tasks) /\ Len(b) = l - k
  BY <1>0, <1>1
<1>4. \A j \in 1 .. l - k : b[j] = q[k + j]
  BY <1>0, <1>1
<1>6. DOMAIN b = 1 .. l - k
  BY <1>3
<1>5. ASSUME NEW j \in DOMAIN q
      PROVE  \/ \E i \in DOMAIN a : a[i] = q[j]
             \/ \E i \in DOMAIN b : b[i] = q[j]
  <2>1. CASE j <= k
    <3>1. j \in 1 .. k
      BY <1>1, <2>1
    <3>. QED
      BY <1>2, <3>1
  <2>2. CASE ~(j <= k)
    <3>1. j - k \in 1 .. l - k /\ k + (j - k) = j
      BY <1>1, <2>2
    <3>. QED
      BY <1>4, <1>6, <3>1
  <2>. QED
    BY <2>1, <2>2
<1>7. Divides(a, b, q, k)
  BY <1>0, <1>2, <1>3, <1>4, <1>5 DEF Divides
<1>. QED
  BY <1>0, <1>7, Zenon

LEMMA TakeDueStep ==
  ASSUME IInv, NEW k \in 1 .. Len(queue), TakeDue(k)
  PROVE  IInv'
<1>1. /\ UNCHANGED <<service, tasks, life, owner, unreported, updates, job, watch>>
      /\ restarter = Idle
  BY DEF TakeDue
<1>2. PICK q, a, b, l : /\ q = queue /\ l = Len(q)
                        /\ a = SubSeq(q, 1, k) /\ b = SubSeq(q, k + 1, Len(q))
  OBVIOUS
<1>3. queue' = b /\ restarter' = [at |-> "reading", todo |-> a]
  BY <1>2 DEF TakeDue
<1>4. /\ q \in Seq(Tasks) /\ l \in Nat /\ k \in 1 .. Len(q) /\ k \in 1 .. l
      /\ \A j \in 1 .. l - 1 : q[j] # q[j + 1]
  BY <1>2 DEF IInv, Queued
<1>5. /\ a \in Seq(Tasks) /\ b \in Seq(Tasks) /\ Len(b) = l - k
      /\ \A j \in 1 .. l - k : b[j] = q[k + j]
      /\ \A j \in DOMAIN q : \/ \E i \in DOMAIN a : a[i] = q[j]
                             \/ \E i \in DOMAIN b : b[i] = q[j]
  <2>1. Divides(a, b, q, k)
    BY <1>2, <1>4, Division, Zenon
  <2>. QED
    BY <1>2, <2>1 DEF Divides
<1>6. Queued'
  <2>1. ASSUME NEW j \in 1 .. (l - k) - 1 PROVE b[j] # b[j + 1]
    <3>1. PICK h : h = k + j
      OBVIOUS
    <3>2. /\ j \in 1 .. l - k /\ j + 1 \in 1 .. l - k
          /\ k + (j + 1) = h + 1 /\ h \in 1 .. l - 1
      BY <1>4, <3>1
    <3>3. b[j] = q[h] /\ b[j + 1] = q[h + 1]
      BY <1>5, <3>1, <3>2
    <3>. QED
      BY <1>4, <3>2, <3>3
  <2>. QED
    BY <1>3, <1>5, <2>1 DEF Queued
<1>7. restarter' \in Reading /\ restarter' \notin Writing /\ restarter' \notin Starting
  BY <1>3, <1>5 DEF Reading, Writing, Starting
<1>8. Restarting'
  BY <1>7 DEF Restarting
<1>9. Listed'
  <2>1. SUFFICES ASSUME NEW m \in Tasks, tasks'[m] # NoTask, tasks'[m].state = "restarting"
                 PROVE  OnAList(m)'
    BY DEF Listed, Scheduled
  <2>2. OnAList(m)
    BY <1>1, <2>1 DEF IInv, Listed, Scheduled
  <2>3. CASE watch.at = "queueing" /\ watch.task = m
    BY <1>1, <2>3 DEF OnAList, Handled
  <2>4. CASE \E j \in DOMAIN q : q[j] = m
    <3>1. (\E i \in DOMAIN a : a[i] = m) \/ (\E i \in DOMAIN b : b[i] = m)
      BY <1>5, <2>4
    <3>2. restarter' # Idle /\ restarter'.todo = a
      BY <1>3 DEF Idle
    <3>. QED
      BY <1>3, <3>1, <3>2 DEF OnAList, Handled
  <2>. QED
    BY <1>1, <1>2, <2>2, <2>3, <2>4 DEF OnAList, Handled, Idle, Dead
<1>10. Tables' /\ Processes'
  BY <1>1, ProcessesKept DEF IInv, Tables
<1>. QED
  BY <1>1, <1>6, <1>7, <1>8, <1>9, <1>10, RestarterKeeps

\* What is left of the tasks in hand when the first is done with.
LEMMA Remainder ==
  ASSUME NEW s \in Seq(Tasks), s # <<>>
  PROVE  /\ Tail(s) \in Seq(Tasks) /\ Head(s) \in Tasks
         /\ \A i \in DOMAIN s : s[i] # Head(s) => \E j \in DOMAIN Tail(s) : Tail(s)[j] = s[i]
<1>1. /\ Len(s) \in Nat /\ Len(s) # 0 /\ DOMAIN s = 1 .. Len(s)
      /\ Tail(s) \in Seq(Tasks) /\ DOMAIN Tail(s) = 1 .. Len(s) - 1
      /\ Head(s) = s[1] /\ Head(s) \in Tasks
  OBVIOUS
<1>2. \A j \in 1 .. Len(s) - 1 : Tail(s)[j] = s[j + 1]
  OBVIOUS
<1>3. ASSUME NEW i \in DOMAIN s, s[i] # Head(s)
      PROVE  \E j \in DOMAIN Tail(s) : Tail(s)[j] = s[i]
  <2>1. i - 1 \in 1 .. Len(s) - 1 /\ (i - 1) + 1 = i
    BY <1>1, <1>3
  <2>. QED
    BY <1>1, <1>2, <2>1
<1>. QED
  BY <1>1, <1>3

LEMMA ReadDueStep ==
  ASSUME IInv, ReadDue
  PROVE  IInv'
<1>1. /\ UNCHANGED <<service, tasks, queue, life, owner, unreported, updates, job, watch>>
      /\ restarter.at = "reading" /\ restarter.todo # <<>>
  BY DEF ReadDue
<1>2. restarter \in Reading /\ restarter # Idle /\ restarter # Dead
  BY <1>1, RestarterTypes DEF IInv
<1>3. PICK todo, n : todo = restarter.todo /\ n = Head(todo)
  OBVIOUS
<1>4. todo \in Seq(Tasks) /\ todo # <<>> /\ n \in Tasks
  <2>1. todo \in Seq(Tasks) /\ todo # <<>>
    BY <1>1, <1>2, <1>3 DEF Reading
  <2>. QED
    BY <1>3, <2>1, Remainder
<1>5. \/ /\ Scheduled(n)
         /\ restarter' = [at |-> "starting", todo |-> todo, version |-> tasks[n].version]
      \/ /\ ~Scheduled(n)
         /\ restarter' = [restarter EXCEPT !.todo = Tail(todo)]
  BY <1>3 DEF ReadDue
<1>6. /\ Restarting' /\ restarter' \notin Writing /\ restarter' # Idle
      /\ \/ restarter'.todo = todo
         \/ ~Scheduled(n) /\ restarter'.todo = Tail(todo)
  <2>1. CASE /\ Scheduled(n)
             /\ restarter' = [at |-> "starting", todo |-> todo, version |-> tasks[n].version]
    <3>1. tasks[n].version \in Versions
      <4>1. tasks[n] \in Entries
        BY <1>4, <2>1, EntryTypes DEF IInv
      <4>. QED
        BY <4>1 DEF Entries
    <3>2. restarter' \in Starting /\ restarter' \notin Writing /\ restarter' # Idle
      BY <1>4, <2>1, <3>1 DEF Starting, Writing, Idle
    <3>. QED
      BY <1>4, <2>1, <3>2 DEF Restarting
  <2>2. CASE /\ ~Scheduled(n)
             /\ restarter' = [restarter EXCEPT !.todo = Tail(todo)]
    <3>1. Tail(todo) \in Seq(Tasks)
      BY <1>4, Remainder
    <3>2. /\ restarter' \in Reading /\ restarter'.todo = Tail(todo)
          /\ restarter'.at = "reading"
      BY <1>1, <1>2, <2>2, <3>1 DEF Reading
    <3>3. restarter' \notin Writing /\ restarter' \notin Starting /\ restarter' # Idle
      BY <3>2 DEF Writing, Starting, Idle
    <3>. QED
      BY <2>2, <3>2, <3>3 DEF Restarting
  <2>. QED
    BY <1>5, <2>1, <2>2
<1>7. Listed'
  <2>1. SUFFICES ASSUME NEW m \in Tasks, tasks'[m] # NoTask, tasks'[m].state = "restarting"
                 PROVE  OnAList(m)'
    BY DEF Listed, Scheduled
  <2>2. OnAList(m) /\ Scheduled(m)
    BY <1>1, <2>1 DEF IInv, Listed, Scheduled
  <2>3. CASE (\E j \in DOMAIN queue : queue[j] = m) \/ (watch.at = "queueing" /\ watch.task = m)
    BY <1>1, <2>3 DEF OnAList, Handled
  <2>4. CASE \E i \in DOMAIN todo : todo[i] = m
    <3>1. PICK i \in DOMAIN todo : todo[i] = m
      BY <2>4
    <3>2. PICK rest : rest = restarter'.todo
      OBVIOUS
    <3>3. \E j \in DOMAIN rest : rest[j] = m
      <4>1. CASE rest = todo
        BY <3>1, <4>1
      <4>2. CASE ~Scheduled(n) /\ rest = Tail(todo)
        <5>1. m # n
          BY <2>2, <4>2
        <5>. QED
          BY <1>3, <1>4, <3>1, <4>2, <5>1, Remainder
      <4>. QED
        BY <1>6, <3>2, <4>1, <4>2
    <3>. QED
      BY <1>6, <3>2, <3>3 DEF OnAList, Handled
  <2>. QED
    BY <1>2, <1>3, <2>2, <2>3, <2>4 DEF OnAList, Handled
<1>8. Tables' /\ Queued' /\ Processes'
  BY <1>1, ProcessesKept DEF IInv, Tables, Queued
<1>. QED
  BY <1>1, <1>6, <1>7, <1>8, RestarterKeeps

\* The restart thread panics.
LEMMA DownloadDueStep ==
  ASSUME IInv, DownloadDue
  PROVE  IInv'
<1>1. /\ UNCHANGED <<service, tasks, queue, life, owner, unreported, updates, job, watch>>
      /\ restarter' = Dead
  BY DEF DownloadDue
<1>2. restarter' \notin Writing /\ restarter' \notin Starting
  BY <1>1 DEF Dead, Writing, Starting
<1>3. Restarting'
  BY <1>1, <1>2 DEF Restarting
<1>4. Listed'
  BY <1>1 DEF Listed, OnAList
<1>5. Tables' /\ Queued' /\ Processes'
  BY <1>1, ProcessesKept DEF IInv, Tables, Queued
<1>. QED
  BY <1>1, <1>2, <1>3, <1>4, <1>5, RestarterKeeps

LEMMA StartDueStep ==
  ASSUME IInv, StartDue
  PROVE  IInv'
<1>1. /\ UNCHANGED <<service, tasks, queue, unreported, updates, job, watch>>
      /\ restarter.at = "starting"
  BY DEF StartDue
<1>2. restarter \in Starting /\ restarter # Idle /\ restarter # Dead
  BY <1>1, RestarterTypes DEF IInv
<1>3. PICK todo, n, v : todo = restarter.todo /\ n = Head(todo) /\ v = restarter.version
  OBVIOUS
<1>4. todo \in Seq(Tasks) /\ todo # <<>> /\ n \in Tasks
  <2>1. todo \in Seq(Tasks) /\ todo # <<>>
    BY <1>1, <1>2, <1>3, RestarterTypes DEF IInv, Starting
  <2>. QED
    BY <1>3, <2>1, Remainder
<1>5. PICK r \in Runtimes \cup {Failure} :
        /\ StartTask(n, v, life, r)
        /\ restarter' = [at |-> "writing", todo |-> todo, runtime |-> r]
  BY <1>3 DEF StartDue
<1>6. /\ Processes'
      /\ r # Failure => r \in Runtimes /\ r.state \in {"running", "preparing"}
  <2>1. life \in [Pids -> Lives] /\ \A p \in Pids : (life[p] = "free") <=> (life[p] = "free")
    BY DEF IInv, Processes
  <2>2. Processes /\ unreported' = unreported
    BY <1>1 DEF IInv
  <2>. QED
    BY <1>4, <1>5, <2>1, <2>2, StartTaskTypes
<1>7. restarter' \in Writing /\ restarter' # Idle
  BY <1>4, <1>5 DEF Writing, Idle
<1>8. restarter'.todo = todo /\ restarter'.runtime = r
  BY <1>5
<1>9. Restarting'
  BY <1>4, <1>7, <1>8 DEF Restarting
<1>10. Tables' /\ Queued'
  BY <1>1 DEF IInv, Tables, Queued
<1>11. Listed'
  <2>1. SUFFICES ASSUME NEW m \in Tasks, tasks'[m] # NoTask, tasks'[m].state = "restarting"
                 PROVE  OnAList(m)'
    BY DEF Listed, Scheduled
  <2>2. OnAList(m)
    BY <1>1, <2>1 DEF IInv, Listed, Scheduled
  <2>. QED
    BY <1>1, <1>2, <1>3, <1>7, <1>8, <2>2 DEF OnAList, Handled
<1>. QED
  BY <1>1, <1>6, <1>8, <1>9, <1>10, <1>11, RestarterKeeps

LEMMA WriteDueStep ==
  ASSUME IInv, WriteDue
  PROVE  IInv'
<1>1. /\ UNCHANGED <<service, queue, life, owner, unreported, updates, job, watch>>
      /\ restarter.at = "writing"
  BY DEF WriteDue
<1>2. restarter \in Writing /\ restarter # Idle /\ restarter # Dead
  BY <1>1, RestarterTypes DEF IInv
<1>3. PICK todo, n, r : todo = restarter.todo /\ n = Head(todo) /\ r = restarter.runtime
  OBVIOUS
<1>4. todo \in Seq(Tasks) /\ todo # <<>> /\ n \in Tasks
  <2>1. todo \in Seq(Tasks) /\ todo # <<>>
    BY <1>1, <1>2, <1>3, RestarterTypes DEF IInv, Writing
  <2>. QED
    BY <1>3, <2>1, Remainder
<1>5. r # Failure => r \in Runtimes /\ r.state \in {"running", "preparing"}
  <2>1. r \in Runtimes \cup {Failure}
    BY <1>2, <1>3 DEF Writing
  <2>. QED
    BY <1>2, <1>3, <2>1 DEF IInv, Unmarked
<1>. DEFINE Unmarks ==
                /\ tasks' \in Table
                /\ \A m \in Tasks : m # n => tasks'[m] = tasks[m]
                /\ tasks'[n] # NoTask => tasks'[n].state # "restarting"
<1>6. Unmarks
  <2>1. CASE ~Scheduled(n)
    BY <1>3, <2>1 DEF WriteDue, IInv, Tables, Scheduled
  <2>2. ASSUME NEW e \in Entries, e.state # "restarting", tasks' = [tasks EXCEPT ![n] = e]
        PROVE  Unmarks
    BY <1>4, <2>2, Rewritten DEF IInv
  <2>3. CASE Scheduled(n) /\ r = Failure
    <3>1. PICK e : e = [tasks[n] EXCEPT !.state = "failed"]
      OBVIOUS
    <3>2. e \in Entries /\ e.state # "restarting"
      <4>1. tasks[n] \in Entries
        BY <1>4, <2>3, EntryTypes DEF IInv
      <4>. QED
        BY <3>1, <4>1 DEF Entries, States
    <3>3. tasks' = [tasks EXCEPT ![n] = e]
      BY <1>3, <2>3, <3>1 DEF WriteDue
    <3>. QED
      BY <2>2, <3>2, <3>3
  <2>4. CASE Scheduled(n) /\ r # Failure
    <3>1. PICK e : e = WithRuntime(tasks[n], r)
      OBVIOUS
    <3>2. e \in Entries /\ e.state # "restarting"
      BY <1>4, <1>5, <2>4, <3>1, EntryTypes, RuntimeTypes DEF IInv
    <3>3. tasks' = [tasks EXCEPT ![n] = e]
      BY <1>3, <2>4, <3>1 DEF WriteDue
    <3>. QED
      BY <2>2, <3>2, <3>3
  <2>. QED
    BY <2>1, <2>3, <2>4
<1>7. restarter' = [at |-> "reading", todo |-> Tail(todo)]
  BY <1>3 DEF WriteDue
<1>8. /\ restarter' \in Reading /\ restarter' \notin Writing /\ restarter' \notin Starting
      /\ restarter' # Idle /\ restarter'.todo = Tail(todo)
  <2>1. Tail(todo) \in Seq(Tasks)
    BY <1>4, Remainder
  <2>. QED
    BY <1>7, <2>1 DEF Reading, Writing, Starting, Idle
<1>9. Restarting'
  BY <1>8 DEF Restarting
<1>10. Listed'
  <2>1. SUFFICES ASSUME NEW m \in Tasks, tasks'[m] # NoTask, tasks'[m].state = "restarting"
                 PROVE  OnAList(m)'
    BY DEF Listed, Scheduled
  <2>2. m # n
    BY <1>6, <2>1
  <2>3. OnAList(m)
    BY <1>6, <2>1, <2>2 DEF IInv, Listed, Scheduled
  <2>4. CASE (\E j \in DOMAIN queue : queue[j] = m) \/ (watch.at = "queueing" /\ watch.task = m)
    BY <1>1, <2>4 DEF OnAList, Handled
  <2>5. CASE \E i \in DOMAIN todo : todo[i] = m
    <3>1. PICK rest : rest = Tail(todo)
      OBVIOUS
    <3>2. \E j \in DOMAIN rest : rest[j] = m
      BY <1>3, <1>4, <2>2, <2>5, <3>1, Remainder
    <3>. QED
      BY <1>8, <3>1, <3>2 DEF OnAList, Handled
  <2>. QED
    BY <1>2, <1>3, <2>3, <2>4, <2>5 DEF OnAList, Handled
<1>11. Tables' /\ Queued' /\ Processes'
  BY <1>1, <1>6, ProcessesKept DEF IInv, Tables, Queued
<1>. QED
  BY <1>1, <1>8, <1>9, <1>10, <1>11, RestarterKeeps

LEMMA ReleaseStep ==
  ASSUME IInv, Release
  PROVE  IInv'
<1>1. /\ UNCHANGED <<service, tasks, queue, life, owner, unreported, updates, job, watch>>
      /\ restarter.todo = <<>> /\ restarter' = Idle /\ restarter # Dead
  BY DEF Release, Dead
<1>2. Listed'
  <2>1. SUFFICES ASSUME NEW m \in Tasks, tasks'[m] # NoTask, tasks'[m].state = "restarting"
                 PROVE  OnAList(m)'
    BY DEF Listed, Scheduled
  <2>2. OnAList(m)
    BY <1>1, <2>1 DEF IInv, Listed, Scheduled
  <2>. QED
    BY <1>1, <2>2 DEF OnAList, Handled
<1>3. restarter' \notin Writing /\ restarter' \notin Starting
  BY <1>1 DEF Idle, Writing, Starting
<1>4. Restarting'
  BY <1>1, <1>3 DEF Restarting
<1>5. Tables' /\ Queued' /\ Processes'
  BY <1>1, ProcessesKept DEF IInv, Tables, Queued
<1>. QED
  BY <1>1, <1>2, <1>3, <1>4, <1>5, RestarterKeeps

-----------------------------------------------------------------------------
(* The theorems *)

LEMMA InitIInv == Init => IInv
<1>. SUFFICES ASSUME Init PROVE IInv
  OBVIOUS
<1>1. Tables /\ Queued /\ Processes /\ updates \in 0 .. MaxUpdates
  BY MonitorAssumption DEF Init, Tables, Table, Queued, Processes, Lives
<1>2. Executing
  BY DEF Init, Executing, Idle
<1>3. watch \notin Rounds /\ restarter \notin Starting /\ restarter \notin Writing
  BY DEF Init, Idle, Rounds, Starting, Writing
<1>4. Watching /\ Restarting /\ Unmarked
  BY <1>3 DEF Init, Watching, Restarting, Unmarked
<1>5. Listed
  BY DEF Init, Listed, Scheduled
<1>. QED
  BY <1>1, <1>2, <1>4, <1>5 DEF IInv

\* The threads of the supervisor, the downloads and the processes keep their
\* state together, in every interleaving (monitor.rs).
THEOREM MonitorInvariance == Spec => []IInv
<1>1. IInv /\ [Next]_vars => IInv'
  <2>. SUFFICES ASSUME IInv, [Next]_vars PROVE IInv'
    OBVIOUS
  <2>1. ASSUME NEW c \in Callers, NEW names \in SUBSET Tasks \ {{}}, NEW spec \in Specs,
               NEW down \in BOOLEAN, Request(c, names, spec, down)
        PROVE  IInv'
    BY <2>1, RequestStep
  <2>2. ASSUME NEW c \in Callers, Execute(c) PROVE IInv'
    <3>1. ASSUME NEW n \in Tasks, Prepare(c, n) \/ Stop(c, n) PROVE IInv'
      BY <3>1, PrepareStep, StopStep
    <3>2. CASE Restart(c) \/ Report(c) \/ CleanUp(c)
      BY <3>2, RestartStep, ReportStep, CleanUpStep
    <3>. QED
      BY <2>2, <3>1, <3>2 DEF Execute
  <2>3. CASE Watch
    <3>1. CASE \/ Copy \/ Probe \/ Mark \/ QueueRestart \/ QueuePoisoned
               \/ ReportWatched \/ CleanUpWatched
      BY <3>1, CopyStep, ProbeStep, MarkStep, QueueRestartStep, QueuePoisonedStep,
         ReportWatchedStep, CleanUpWatchedStep
    <3>2. ASSUME NEW n \in Tasks, Apply(n) PROVE IInv'
      BY <3>2, ApplyStep
    <3>. QED
      BY <2>3, <3>1, <3>2 DEF Watch
  <2>4. CASE RestartLoop
    <3>1. ASSUME NEW k \in 1 .. Len(queue), TakeDue(k) PROVE IInv'
      BY <3>1, TakeDueStep
    <3>2. CASE ReadDue \/ DownloadDue \/ StartDue \/ WriteDue \/ Release
      BY <3>2, ReadDueStep, DownloadDueStep, StartDueStep, WriteDueStep, ReleaseStep
    <3>. QED
      BY <2>4, <3>1, <3>2 DEF RestartLoop
  <2>5. ASSUME NEW p \in Pids, Exit(p) \/ Download(p) PROVE IInv'
    BY <2>5, ExitStep, DownloadStep
  <2>6. CASE UNCHANGED vars
    <3>1. UNCHANGED <<service, tasks, queue, life, owner, unreported, updates, job, watch,
                      restarter>>
      BY <2>6 DEF vars
    <3>2. Tables' /\ Executing' /\ updates' \in 0 .. MaxUpdates
      BY <3>1 DEF IInv, Tables, Executing
    <3>3. Listed'
      BY <3>1, ListedKept DEF IInv
    <3>. QED
      BY <3>1, <3>2, <3>3, ThreadsKept, ProcessesKept DEF IInv
  <2>. QED
    BY <2>1, <2>2, <2>3, <2>4, <2>5, <2>6 DEF Next
<1>. QED
  BY InitIInv, <1>1, PTL DEF Spec

\* Every variable keeps its type; a process exists for a task, a thread that works
\* on a task has one, and no task stands twice in a row in the restart queue.
THEOREM MonitorTypes == Spec => []TypeOK
<1>1. IInv => TypeOK
  <2>. SUFFICES ASSUME IInv PROVE TypeOK
    OBVIOUS
  <2>1. /\ service \in [Tasks -> Entries \cup {NoTask}]
        /\ tasks \in [Tasks -> Entries \cup {NoTask}]
    BY DEF IInv, Tables, Table
  <2>2. /\ \A i \in DOMAIN queue : queue[i] \in Tasks
        /\ \A i \in 1 .. Len(queue) - 1 : queue[i] # queue[i + 1]
    BY DEF IInv, Queued
  <2>3. /\ owner \in [Pids -> Tasks \cup {NoTask}]
        /\ \A p \in Pids : (life[p] = "free") = (owner[p] = NoTask)
        /\ unreported \subseteq {p \in Pids : life[p] # "free"}
    BY DEF IInv, Processes
  <2>4. ASSUME NEW c \in Callers PROVE JobOK(job[c])
    BY DEF IInv, Executing, Jobs, JobOK
  <2>5. WatchOK
    <3>1. CASE watch \in Rounds
      BY <3>1 DEF IInv, Watching, Rounds, WatchOK
    <3>2. CASE watch \notin Rounds
      BY <3>2 DEF IInv, Watching, Probing, Cleaning, WatchOK
    <3>. QED
      BY <3>1, <3>2
  <2>6. RestarterOK
    <3>1. ASSUME restarter \in Reading \cup Starting \cup Writing
          PROVE  \A i \in DOMAIN restarter.todo : restarter.todo[i] \in Tasks
      <4>1. restarter.todo \in Seq(Tasks)
        BY <3>1 DEF Reading, Starting, Writing
      <4>. QED
        BY <4>1
    <3>. QED
      BY <3>1 DEF IInv, Restarting, Reading, Starting, Writing, RestarterOK
  <2>. QED
    BY <2>1, <2>2, <2>3, <2>4, <2>5, <2>6 DEF TypeOK, IInv
<1>. QED
  BY <1>1, MonitorInvariance, PTL

\* A task that is marked Restarting, and that the monitor therefore does not look
\* at any more, is always in the hands of somebody who will restart it, while there
\* is a restart thread: updates, tear-downs, downloads and reports at any moment
\* never lose it (queue_restart and restart_loop).
THEOREM NoRestartIsForgotten == Spec => []RestartingIsQueued
<1>1. IInv => RestartingIsQueued
  BY DEF IInv, Listed, OnAList, Waits, RestartingIsQueued
<1>. QED
  BY <1>1, MonitorInvariance, PTL

\* Only a binary that has to be downloaded ends the restart thread.
LEMMA OnlyDownloadsPanic ==
  ASSUME Remote = {}, IInv, restarter # Dead, [Next]_vars
  PROVE  restarter' # Dead
<1>1. CASE restarter' = restarter
  BY <1>1
<1>2. CASE RestartLoop
  <2>1. ~DownloadDue
    BY DEF DownloadDue
  <2>2. ASSUME \/ \E k \in 1 .. Len(queue) : TakeDue(k)
               \/ StartDue \/ WriteDue \/ Release
        PROVE  restarter'.at \in {"idle", "reading", "writing"}
    BY <2>2 DEF TakeDue, StartDue, WriteDue, Release, Idle
  <2>3. ASSUME ReadDue
        PROVE  restarter'.at \in {"reading", "starting"}
    <3>1. restarter \in Reading
      BY <2>3, RestarterTypes DEF ReadDue, IInv
    <3>. QED
      BY <2>3, <3>1 DEF ReadDue, Reading
  <2>. QED
    BY <1>2, <2>1, <2>2, <2>3 DEF RestartLoop, Dead
<1>3. ASSUME NEW c \in Callers, NEW names, NEW spec, NEW down, Request(c, names, spec, down)
      PROVE  restarter' = restarter
  BY <1>3 DEF Request
<1>4. ASSUME NEW c \in Callers, Execute(c)
      PROVE  restarter' = restarter
  BY <1>4 DEF Execute, Prepare, Restart, Stop, Report, CleanUp
<1>5. CASE Watch
  BY <1>1, <1>5 DEF Watch, Copy, Probe, Apply, Mark, QueueRestart, QueuePoisoned, ReportWatched,
     CleanUpWatched
<1>6. ASSUME NEW p \in Pids, Exit(p) \/ Download(p)
      PROVE  restarter' = restarter
  BY <1>6 DEF Exit, Download, DownloadSucceeds, DownloadReports, DownloadFails
<1>7. CASE UNCHANGED vars
  BY <1>1, <1>7 DEF vars
<1>. QED
  BY <1>1, <1>2, <1>3, <1>4, <1>5, <1>6, <1>7 DEF Next

\* If no binary is a URL, the restart thread never panics, and no task that waits to
\* be restarted is ever lost.
THEOREM LocalRestartsAreKept ==
    ASSUME Remote = {}
    PROVE  Spec => [](restarter # Dead /\ \A n \in Tasks : Waits(n) => Handled(n))
<1>. DEFINE Works == restarter # Dead
           Kept == \A n \in Tasks : Waits(n) => Handled(n)
<1>1. Init => Works
  BY DEF Init, Idle, Dead
<1>2. IInv /\ Works /\ [Next]_vars => Works'
  BY OnlyDownloadsPanic
<1>3. Works /\ RestartingIsQueued => Works /\ Kept
  BY DEF RestartingIsQueued
<1>. HIDE DEF Works, Kept
<1>4. Spec => []Works
  BY <1>1, <1>2, MonitorInvariance, PTL DEF Spec
<1>5. Spec => [](Works /\ Kept)
  BY <1>3, <1>4, NoRestartIsForgotten, PTL
<1>. QED
  BY <1>5 DEF Works, Kept

-----------------------------------------------------------------------------
(* One update: what holds besides until a second request comes *)

Live(p) == life[p] \in {"alive", "downloading"}
Down(n) == \A p \in Pids : owner[p] = n => ~Live(p)
Only(n, r) == \A p \in Pids : owner[p] = n /\ Live(p) => p = r /\ life[p] = "alive"

Lone == \A p, q \in Pids : Live(p) /\ Live(q) /\ owner[p] = owner[q] => p = q

Marked(n) == Scheduled(n) /\ tasks[n].state = "restarting"
Seen(n) == Scheduled(n) /\ tasks[n].state # "restarting" /\ tasks[n].pid # NoPid
Writes(n) == restarter.at = "writing" /\ Head(restarter.todo) = n

\* What the table of the monitor says of the processes of a task is true,
\* except while the restart thread has still to write back what it did.
Told(n) ==
    /\ tasks[n].state = "running" => Only(n, tasks[n].pid)
    /\ tasks[n].state = "preparing" => tasks[n].pid = NoPid
    /\ tasks[n].state \notin {"running", "preparing"} => Down(n)
Known == \A n \in Tasks : Scheduled(n) /\ ~Writes(n) => Told(n)

\* The restart thread has started one process, or none.
Returned ==
    restarter.at = "writing" =>
        \/ restarter.runtime = Failure /\ Down(Head(restarter.todo))
        \/ /\ restarter.runtime # Failure
           /\ \/ /\ restarter.runtime.state = "running"
                 /\ Only(Head(restarter.todo), restarter.runtime.pid)
              \/ /\ restarter.runtime.state = "preparing"
                 /\ restarter.runtime.pid = NoPid

\* Who waits for a restart is marked and waits once.
Waiting ==
    /\ \A i \in DOMAIN queue : Marked(queue[i])
    /\ \A i, j \in DOMAIN queue : queue[i] = queue[j] => i = j
    /\ restarter.at # "idle" =>
         /\ \A i \in DOMAIN restarter.todo : Marked(restarter.todo[i])
         /\ \A i, j \in DOMAIN restarter.todo :
              restarter.todo[i] = restarter.todo[j] => i = j
         /\ \A i \in DOMAIN queue, j \in DOMAIN restarter.todo :
              queue[i] # restarter.todo[j]

Unlisted(n) ==
    /\ \A i \in DOMAIN queue : queue[i] # n
    /\ restarter.at # "idle" => \A i \in DOMAIN restarter.todo : restarter.todo[i] # n

\* What a round of the monitor has copied and not marked is as it was.
Copied ==
    /\ watch.at = "probing" =>
         \A n \in DOMAIN watch.report :
            Seen(n) /\ watch.report[n] = RuntimeOf(tasks[n])
    /\ watch.at \in {"applying", "marking", "queueing"} =>
         /\ \A n \in DOMAIN watch.report :
              /\ watch.report[n].state # "restarting" => Seen(n)
              /\ watch.report[n].state # "preparing"
              /\ watch.report[n].pid # NoPid
         /\ \A n \in watch.todo : Down(n)
    /\ watch.at = "marking" =>
         /\ watch.report[watch.task].state # "restarting"
         /\ tasks[watch.task].state # "running"
    /\ watch.at = "queueing" => Marked(watch.task) /\ Unlisted(watch.task)
    /\ watch.at = "cleaning" =>
         \A n \in watch.todo : Seen(n)

\* The one request removes nothing, and what it has still to start was never
\* started.
Starts ==
    \A c \in Callers : job[c].at # "idle" =>
        /\ job[c].removed = {}
        /\ \A n \in DOMAIN job[c].results : job[c].results[n].state \in {"running", "preparing"}
        /\ \A n \in job[c].added : ~Scheduled(n) /\ Down(n)
        /\ job[c].at = "starting" =>
             /\ Scheduled(job[c].task) /\ Down(job[c].task)
             /\ tasks[job[c].task].pid = NoPid
             /\ tasks[job[c].task].state = "unknown"

OneJob == \A c, d \in Callers : job[c].at # "idle" /\ job[d].at # "idle" => c = d

Before ==
    updates = 0 =>
        /\ \A n \in Tasks : service[n] = NoTask /\ ~Scheduled(n) /\ Down(n)
        /\ \A c \in Callers : job[c].at = "idle"

Once == Lone /\ Known /\ Returned /\ Waiting /\ Copied /\ Starts /\ OneJob /\ Before

-----------------------------------------------------------------------------
(* One update: what becomes of processes *)

\* Nothing is started, and what was alive is alive or ended.
Quiet ==
    /\ UNCHANGED owner
    /\ \A p \in Pids : Live(p)' => Live(p) /\ (life[p] = "alive" => life'[p] = "alive")

LEMMA QuietKeeps ==
  ASSUME Quiet
  PROVE  /\ Lone => Lone'
         /\ \A n \in Tasks : Down(n) => Down(n)'
         /\ \A n \in Tasks : \A r : Only(n, r) => Only(n, r)'
BY DEF Quiet, Lone, Down, Only

LEMMA SameIsQuiet ==
  ASSUME UNCHANGED <<life, owner>>
  PROVE  Quiet
BY DEF Quiet, Live

\* Starting a task of which nothing lives leaves it with one process, that of
\* what is returned.
LEMMA StartTaskLives ==
  ASSUME Processes, NEW n \in Tasks, NEW v, NEW r, Down(n), Lone,
         StartTask(n, v, life, r)
  PROVE  /\ Lone'
         /\ \A m \in Tasks : m # n => (Down(m) => Down(m)')
         /\ \A m \in Tasks : m # n => \A x : Only(m, x) => Only(m, x)'
         /\ \/ r = Failure /\ Down(n)'
            \/ /\ r # Failure
               /\ \/ r.state = "running" /\ Only(n, r.pid)'
                  \/ r.state = "preparing" /\ r.pid = NoPid
<1>1. CASE r = Failure /\ life' = life /\ UNCHANGED owner
  <2>1. Quiet
    BY <1>1, SameIsQuiet
  <2>. QED
    BY <1>1, <2>1, QuietKeeps
<1>2. ASSUME NEW p \in Pids, life[p] = "free", NEW place \in {"alive", "downloading"},
             Launch(n, p, place, life)
      PROVE  /\ Lone'
             /\ \A m \in Tasks : m # n => (Down(m) => Down(m)')
             /\ \A m \in Tasks : m # n => \A x : Only(m, x) => Only(m, x)'
             /\ place = "alive" => Only(n, p)'
  <2>1. /\ owner'[p] = n /\ \A q \in Pids : q # p => owner'[q] = owner[q]
        /\ life'[p] = place /\ \A q \in Pids : q # p => life'[q] = life[q]
    BY <1>2 DEF Processes, Launch
  <2>2. /\ Live(p)' /\ \A q \in Pids : q # p => (Live(q)' <=> Live(q))
        /\ \A q \in Pids : q # p /\ owner'[q] = n => ~Live(q)'
    BY <2>1 DEF Live, Down
  <2>3. Lone'
    <3>1. SUFFICES ASSUME NEW q1 \in Pids, NEW q2 \in Pids, Live(q1)', Live(q2)',
                          owner'[q1] = owner'[q2]
                   PROVE  q1 = q2
      BY DEF Lone
    <3>. QED
      BY <2>1, <2>2, <3>1 DEF Lone
  <2>4. \A m \in Tasks : m # n => (Down(m) => Down(m)')
    BY <2>1, <2>2 DEF Down
  <2>5. \A m \in Tasks : m # n => \A x : Only(m, x) => Only(m, x)'
    BY <2>1, <2>2 DEF Only
  <2>6. place = "alive" => Only(n, p)'
    BY <2>1, <2>2 DEF Only
  <2>. QED
    BY <2>3, <2>4, <2>5, <2>6
<1>3. CASE ~(r = Failure /\ life' = life /\ UNCHANGED owner)
  <2>1. PICK p : p = CHOOSE q \in Free : TRUE
    OBVIOUS
  <2>2. Free # {} /\ p \in Free
    BY <1>3, <2>1 DEF StartTask, Preparing
  <2>3. p \in Pids /\ life[p] = "free"
    BY <2>2 DEF Free
  <2>4. \/ r = [pid |-> p, state |-> "running"] /\ Launch(n, p, "alive", life)
        \/ r = [pid |-> NoPid, state |-> "preparing"] /\ Launch(n, p, "downloading", life)
    BY <1>3, <2>1 DEF StartTask, Preparing
  <2>5. r # Failure
    BY <2>3, <2>4, MonitorAssumption DEF Runtimes, States
  <2>. QED
    BY <1>2, <2>3, <2>4, <2>5
<1>. QED
  BY <1>1, <1>3

-----------------------------------------------------------------------------
(* One update: what steps have in common *)

\* Nobody touches what the caller has still to start.
LEMMA StartsKept ==
  ASSUME IInv, Starts, OneJob, UNCHANGED job,
         \A n \in Tasks : (~Scheduled(n) \/ tasks[n].state = "unknown") /\ Down(n) => Down(n)',
         \A n \in Tasks : ~Scheduled(n) => ~Scheduled(n)',
         \A n \in Tasks : Scheduled(n) /\ tasks[n].pid = NoPid /\ tasks[n].state = "unknown"
                            => tasks'[n] = tasks[n]
  PROVE  Starts' /\ OneJob'
<1>1. OneJob'
  BY DEF OneJob
<1>2. SUFFICES ASSUME NEW c \in Callers, job[c].at # "idle"
               PROVE  /\ job[c].removed = {}
                      /\ \A n \in DOMAIN job[c].results : job[c].results[n].state \in {"running", "preparing"}
                      /\ \A n \in job[c].added : ~Scheduled(n)' /\ Down(n)'
                      /\ job[c].at = "starting" =>
                           /\ Scheduled(job[c].task)' /\ Down(job[c].task)'
                           /\ tasks'[job[c].task].pid = NoPid
                           /\ tasks'[job[c].task].state = "unknown"
  BY <1>1 DEF Starts
<1>3. job[c] \in Jobs
  BY <1>2, JobTypes DEF IInv
<1>4. job[c].removed = {} /\ \A n \in DOMAIN job[c].results : job[c].results[n].state \in {"running", "preparing"}
  BY <1>2 DEF Starts
<1>5. \A n \in job[c].added : ~Scheduled(n)' /\ Down(n)'
  BY <1>2, <1>3 DEF Starts, Jobs
<1>6. ASSUME job[c].at = "starting"
      PROVE  /\ Scheduled(job[c].task)' /\ Down(job[c].task)'
             /\ tasks'[job[c].task].pid = NoPid
             /\ tasks'[job[c].task].state = "unknown"
  <2>1. PICK n : n = job[c].task
    OBVIOUS
  <2>2. n \in Tasks
    BY <1>3, <1>6, <2>1 DEF Jobs, IInv, Executing
  <2>3. Scheduled(n) /\ Down(n) /\ tasks[n].pid = NoPid /\ tasks[n].state = "unknown"
    BY <1>2, <1>6, <2>1 DEF Starts
  <2>4. tasks'[n] = tasks[n] /\ Down(n)'
    BY <2>2, <2>3
  <2>. QED
    BY <2>1, <2>3, <2>4 DEF Scheduled, Down, Live
<1>. QED
  BY <1>4, <1>5, <1>6

LEMMA WaitingKept ==
  ASSUME IInv, Waiting, UNCHANGED <<queue, restarter>>,
         \A n \in Tasks : Marked(n) => Marked(n)'
  PROVE  Waiting' /\ \A n \in Tasks : Unlisted(n) => Unlisted(n)'
<1>1. queue' = queue /\ restarter' = restarter
  OBVIOUS
<1>2. queue \in Seq(Tasks)
  BY DEF IInv, Queued
<1>3. restarter.at # "idle" => restarter.todo \in Seq(Tasks)
  <2>1. CASE restarter = Idle
    BY <2>1 DEF Idle
  <2>2. CASE restarter = Dead
    BY <2>2 DEF Dead
  <2>3. CASE restarter \in Reading \cup Starting \cup Writing
    BY <2>3 DEF Reading, Starting, Writing
  <2>. QED
    BY <2>1, <2>2, <2>3 DEF IInv, Restarting
<1>4. \A i \in DOMAIN queue : Marked(queue[i])'
  BY <1>2 DEF Waiting, Marked, Scheduled
<1>5. ASSUME restarter.at # "idle"
      PROVE  \A i \in DOMAIN restarter.todo : Marked(restarter.todo[i])'
  BY <1>3, <1>5 DEF Waiting, Marked, Scheduled
<1>6. Waiting'
  BY <1>1, <1>4, <1>5 DEF Waiting, Marked, Scheduled
<1>7. \A n \in Tasks : Unlisted(n) => Unlisted(n)'
  BY <1>1 DEF Unlisted
<1>. QED
  BY <1>6, <1>7

LEMMA CopiedKept ==
  ASSUME IInv, Copied, UNCHANGED watch,
         \A n \in Tasks : Seen(n) => tasks'[n] = tasks[n] /\ (Down(n) => Down(n)'),
         \A n \in Tasks : Marked(n) /\ Unlisted(n) => Marked(n)' /\ Unlisted(n)'
  PROVE  Copied'
<1>1. watch' = watch
  OBVIOUS
<1>2. \A n \in Tasks : Seen(n) => Seen(n)'
  BY DEF Seen, Scheduled
<1>3. CASE watch.at = "probing"
  <2>1. DOMAIN watch.report \subseteq Tasks
    BY <1>3, WatchTypes, ResultTypes DEF IInv, Probing
  <2>2. \A n \in DOMAIN watch.report : Seen(n)' /\ watch.report[n] = RuntimeOf(tasks'[n])
    BY <1>2, <1>3, <2>1 DEF Copied
  <2>. QED
    BY <1>1, <1>3, <2>2 DEF Copied, Seen, Scheduled, RuntimeOf
<1>4. CASE watch.at \in {"applying", "marking", "queueing"}
  <2>1. watch \in Rounds
    BY <1>4, WatchTypes DEF IInv
  <2>2. DOMAIN watch.report \subseteq Tasks /\ watch.todo \subseteq DOMAIN watch.report
    BY <2>1, ResultTypes DEF IInv, Rounds, Watching
  <2>3. \A n \in DOMAIN watch.report :
          /\ watch.report[n].state # "restarting" => Seen(n)'
          /\ watch.report[n].state # "preparing"
          /\ watch.report[n].pid # NoPid
    BY <1>2, <1>4, <2>2 DEF Copied
  <2>4. \A n \in watch.todo : Down(n)'
    BY <1>4, <2>1, <2>2 DEF Copied, IInv, Unmarked
  <2>5. watch.at = "marking" =>
          /\ watch.report[watch.task].state # "restarting"
          /\ tasks'[watch.task].state # "running"
    <3>1. SUFFICES ASSUME watch.at = "marking"
                   PROVE  /\ watch.report[watch.task].state # "restarting"
                          /\ tasks'[watch.task].state # "running"
      OBVIOUS
    <3>2. watch.task \in DOMAIN watch.report
      BY <2>1, <3>1 DEF IInv, Watching
    <3>3. watch.report[watch.task].state # "restarting" /\ tasks[watch.task].state # "running"
      BY <3>1 DEF Copied
    <3>4. Seen(watch.task) /\ watch.task \in Tasks
      BY <1>4, <2>2, <3>2, <3>3 DEF Copied
    <3>. QED
      BY <3>3, <3>4
  <2>6. watch.at = "queueing" => Marked(watch.task)' /\ Unlisted(watch.task)'
    <3>1. watch.at = "queueing" => watch.task \in Tasks
      BY <2>1, <2>2 DEF IInv, Watching
    <3>2. watch.at = "queueing" => Marked(watch.task) /\ Unlisted(watch.task)
      BY DEF Copied
    <3>. QED
      BY <1>1, <3>1, <3>2 DEF Marked, Scheduled, Unlisted
  <2>. QED
    BY <1>1, <1>4, <2>3, <2>4, <2>5, <2>6 DEF Copied, Seen, Scheduled, Down, Live
<1>5. CASE watch.at = "cleaning"
  <2>1. watch.todo \subseteq Tasks
    BY <1>5, WatchTypes DEF IInv, Cleaning
  <2>2. \A n \in watch.todo : Seen(n)'
    BY <1>2, <1>5, <2>1 DEF Copied
  <2>. QED
    BY <1>1, <1>5, <2>2 DEF Copied, Seen, Scheduled
<1>6. CASE watch.at \notin {"probing", "applying", "marking", "queueing", "cleaning"}
  BY <1>1, <1>6 DEF Copied
<1>. QED
  BY <1>3, <1>4, <1>5, <1>6

\* What is told of a task stays true while its entry stays and nothing is started.
LEMMA ToldKept ==
  ASSUME Quiet, NEW n \in Tasks, Told(n), tasks'[n] = tasks[n]
  PROVE  Told(n)'
<1>1. PICK r : r = tasks[n].pid
  OBVIOUS
<1>2. (Only(n, r) => Only(n, r)') /\ (Down(n) => Down(n)')
  BY QuietKeeps
<1>. QED
  BY <1>1, <1>2 DEF Told, Only, Down, Live

\* What the restart thread has to write back stays true while nothing is started.
LEMMA ReturnedKept ==
  ASSUME IInv, Returned, Quiet, UNCHANGED restarter
  PROVE  Returned'
<1>1. SUFFICES ASSUME restarter.at = "writing" PROVE Returned'
  BY DEF Returned
<1>2. PICK n, r : n = Head(restarter.todo) /\ r = restarter.runtime.pid
  OBVIOUS
<1>3. n \in Tasks
  <2>1. restarter.todo \in Seq(Tasks) /\ restarter.todo # <<>>
    BY <1>1, RestarterTypes DEF IInv, Writing
  <2>. QED
    BY <1>2, <2>1
<1>4. (Down(n) => Down(n)') /\ (Only(n, r) => Only(n, r)')
  BY <1>3, QuietKeeps
<1>. QED
  BY <1>2, <1>4 DEF Returned, Down, Only, Live

\* The table of the monitor and the restart thread are left alone, and nothing
\* is started.
LEMMA KnownKept ==
  ASSUME Known, Returned, Quiet, UNCHANGED <<tasks, restarter>>, IInv
  PROVE  Known' /\ Returned'
<1>1. tasks' = tasks /\ restarter' = restarter
  OBVIOUS
<1>2. Known'
  BY <1>1, ToldKept DEF Known, Scheduled, Writes
<1>3. Returned'
  BY <1>1, ReturnedKept
<1>. QED
  BY <1>2, <1>3

\* Nothing changes but processes that come to life after a download, or end.
LEMMA LivesOnce ==
  ASSUME IInv, Once, Quiet,
         UNCHANGED <<tasks, queue, updates, job, watch, restarter>>,
         \A n \in Tasks : service[n] = NoTask => service'[n] = NoTask
  PROVE  Once'
<1>1. Lone' /\ \A n \in Tasks : Down(n) => Down(n)'
  BY QuietKeeps DEF Once
<1>2. Known' /\ Returned'
  BY KnownKept DEF Once
<1>3. \A n \in Tasks : Scheduled(n)' = Scheduled(n) /\ Marked(n)' = Marked(n)
  BY DEF Scheduled, Marked
<1>4. Waiting' /\ \A n \in Tasks : Unlisted(n) => Unlisted(n)'
  BY <1>3, WaitingKept DEF Once
<1>5. Copied'
  BY <1>1, <1>3, <1>4, CopiedKept DEF Once
<1>6. Starts' /\ OneJob'
  BY <1>1, <1>3, StartsKept DEF Once
<1>7. Before'
  BY <1>1, <1>3 DEF Once, Before
<1>. QED
  BY <1>1, <1>2, <1>4, <1>5, <1>6, <1>7 DEF Once

LEMMA StutterOnce ==
  ASSUME IInv, Once, UNCHANGED vars
  PROVE  Once'
<1>1. /\ UNCHANGED <<tasks, queue, updates, job, watch, restarter, life, owner>>
      /\ service' = service
  BY DEF vars
<1>2. Quiet
  BY <1>1, SameIsQuiet
<1>. QED
  BY <1>1, <1>2, LivesOnce

LEMMA ExitOnce ==
  ASSUME IInv, Once, NEW p \in Pids, Exit(p)
  PROVE  Once'
<1>1. /\ UNCHANGED <<service, tasks, queue, owner, updates, job, watch, restarter>>
      /\ Alive(p)
  BY DEF Exit
<1>2. PICK e \in Exits \cup {"killed"} : life' = [life EXCEPT ![p] = e]
  BY DEF Exit
<1>3. e \notin {"alive", "downloading"}
  BY <1>2, MonitorAssumption
<1>4. life'[p] = e /\ \A q \in Pids : q # p => life'[q] = life[q]
  BY <1>2 DEF IInv, Processes
<1>5. Quiet
  BY <1>1, <1>3, <1>4 DEF Quiet, Live
<1>. QED
  BY <1>1, <1>5, LivesOnce

LEMMA DownloadOnce ==
  ASSUME IInv, Once, NEW p \in Pids, Download(p)
  PROVE  Once'
<1>. DEFINE Alone == UNCHANGED <<tasks, queue, updates, job, watch, restarter>>
<1>1. ASSUME NEW report PROVE \A n \in Tasks : service[n] = NoTask => Reported(report)[n] = NoTask
  BY DEF Reported
<1>2. CASE DownloadSucceeds(p)
  <2>1. /\ Alone /\ UNCHANGED <<service, owner>>
        /\ life[p] = "downloading" /\ life' = [life EXCEPT ![p] = "alive"]
    BY <1>2 DEF DownloadSucceeds
  <2>2. life'[p] = "alive" /\ \A q \in Pids : q # p => life'[q] = life[q]
    BY <2>1 DEF IInv, Processes
  <2>3. Quiet
    BY <2>1, <2>2 DEF Quiet, Live
  <2>. QED
    BY <2>1, <2>3, LivesOnce
<1>3. CASE DownloadReports(p)
  <2>1. PICK report : report = [n \in {owner[p]} |-> [pid |-> p, state |-> "running"]]
    OBVIOUS
  <2>2. Alone /\ UNCHANGED <<life, owner>> /\ service' = Reported(report)
    BY <1>3, <2>1 DEF DownloadReports
  <2>3. Quiet
    BY <2>2, SameIsQuiet
  <2>. QED
    BY <1>1, <2>2, <2>3, LivesOnce
<1>4. CASE DownloadFails(p)
  <2>1. PICK report : report = [n \in {owner[p]} |-> [pid |-> NoPid, state |-> "failed"]]
    OBVIOUS
  <2>2. Alone /\ UNCHANGED owner /\ service' = Reported(report) /\ life' = [life EXCEPT ![p] = "never"]
    BY <1>4, <2>1 DEF DownloadFails
  <2>3. life'[p] = "never" /\ \A q \in Pids : q # p => life'[q] = life[q]
    BY <2>2 DEF IInv, Processes
  <2>4. Quiet
    BY <2>2, <2>3 DEF Quiet, Live
  <2>. QED
    BY <1>1, <2>2, <2>4, LivesOnce
<1>. QED
  BY <1>2, <1>3, <1>4 DEF Download

-----------------------------------------------------------------------------
(* One update: the callers *)

\* Nothing is started, and tasks that are watched, marked or waiting stay as
\* they are: a step of a caller.
LEMMA CallerOnce ==
  ASSUME IInv, Lone, Known, Returned, Waiting, Copied, Quiet, UNCHANGED <<queue, watch, restarter>>,
         \A n \in Tasks : Seen(n) \/ Marked(n) => tasks'[n] = tasks[n],
         \A n \in Tasks : Scheduled(n)' /\ tasks'[n] # tasks[n] =>
            tasks'[n].state \notin {"running", "preparing"} /\ Down(n)
  PROVE  Lone' /\ Known' /\ Returned' /\ Waiting' /\ Copied'
<1>1. Lone' /\ \A n \in Tasks : Down(n) => Down(n)'
  BY QuietKeeps
<1>2. \A n \in Tasks : Marked(n) => Marked(n)'
  BY DEF Marked, Scheduled
<1>3. Waiting' /\ \A n \in Tasks : Unlisted(n) => Unlisted(n)'
  BY <1>2, WaitingKept
<1>4. Copied'
  BY <1>1, <1>2, <1>3, CopiedKept
<1>5. Known'
  <2>1. SUFFICES ASSUME NEW n \in Tasks, Scheduled(n)', ~Writes(n)'
                 PROVE  Told(n)'
    BY DEF Known
  <2>2. CASE tasks'[n] = tasks[n]
    <3>1. Scheduled(n) /\ ~Writes(n)
      BY <2>1, <2>2 DEF Scheduled, Writes
    <3>2. Told(n)
      BY <3>1 DEF Known
    <3>. QED
      BY <2>2, <3>2, ToldKept
  <2>3. CASE tasks'[n] # tasks[n]
    BY <1>1, <2>1, <2>3 DEF Told
  <2>. QED
    BY <2>2, <2>3
<1>6. Returned'
  BY ReturnedKept
<1>. QED
  BY <1>1, <1>3, <1>4, <1>5, <1>6

LEMMA RequestOnce ==
  ASSUME IInv, Once, updates = 0, NEW c \in Callers, NEW names \in SUBSET Tasks,
         NEW spec \in Specs, NEW down \in BOOLEAN, Request(c, names, spec, down)
  PROVE  Once'
<1>1. /\ UNCHANGED <<tasks, queue, life, owner, unreported, watch, restarter>>
      /\ updates' = 1
  BY DEF Request
<1>2. /\ \A n \in Tasks : service[n] = NoTask /\ ~Scheduled(n) /\ Down(n)
      /\ \A d \in Callers : job[d].at = "idle"
  BY DEF Once, Before
<1>3. Quiet
  BY <1>1, SameIsQuiet
<1>4. Lone' /\ Known' /\ Returned' /\ Waiting' /\ Copied'
  BY <1>1, <1>3, CallerOnce DEF Once
<1>5. {n \in names : service[n] # NoTask} = {}
  BY <1>2
<1>6. PICK added : /\ added \subseteq Tasks
                   /\ job' = [job EXCEPT ![c] =
                        [at |-> "executing", spec |-> spec, added |-> added, removed |-> {},
                         task |-> NoTask, results |-> [n \in {} |-> Fresh]]]
  BY <1>5 DEF Request
<1>7. /\ job'[c].at = "executing" /\ job'[c].removed = {} /\ job'[c].added = added
      /\ DOMAIN job'[c].results = {}
      /\ \A d \in Callers : d # c => job'[d].at = "idle"
  BY <1>2, <1>6 DEF IInv, Executing
<1>8. Starts'
  <2>1. \A n \in Tasks : ~Scheduled(n)' /\ Down(n)'
    BY <1>1, <1>2, <1>3, QuietKeeps DEF Scheduled
  <2>2. \A n \in added : ~Scheduled(n)' /\ Down(n)'
    BY <1>6, <2>1
  <2>. QED
    BY <1>7, <2>2 DEF Starts, Scheduled, Down, Live
<1>9. OneJob' /\ Before'
  BY <1>1, <1>7 DEF OneJob, Before
<1>. QED
  BY <1>4, <1>8, <1>9 DEF Once

\* A caller that works has had its request.
LEMMA Working ==
  ASSUME Once, NEW c \in Callers, job[c].at # "idle"
  PROVE  /\ updates # 0 /\ \A d \in Callers : d # c => job[d].at = "idle"
BY DEF Once, Before, OneJob

LEMMA PrepareOnce ==
  ASSUME IInv, Once, NEW c \in Callers, NEW n \in Tasks, Prepare(c, n)
  PROVE  Once'
<1>1. /\ UNCHANGED <<service, queue, life, owner, unreported, updates, watch, restarter>>
      /\ job[c].at = "executing" /\ n \in job[c].added
  BY DEF Prepare
<1>2. job[c] \in Jobs
  BY <1>1, JobTypes DEF IInv
<1>3. /\ ~Scheduled(n) /\ Down(n) /\ job[c].removed = {}
      /\ \A m \in job[c].added : ~Scheduled(m) /\ Down(m)
      /\ \A m \in DOMAIN job[c].results : job[c].results[m].state \in {"running", "preparing"}
  BY <1>1 DEF Once, Starts
<1>4. /\ updates # 0 /\ \A d \in Callers : d # c => job[d].at = "idle"
  BY <1>1, Working
<1>5. PICK e : /\ e = [version |-> job[c].spec.version, mode |-> job[c].spec.mode,
                       pid |-> NoPid, state |-> "unknown"]
               /\ tasks' = [tasks EXCEPT ![n] = e]
  BY <1>3 DEF Prepare, Fresh
<1>6. e \in Entries
  BY <1>2, <1>5 DEF Entries, Jobs, Specs, States
<1>7. /\ tasks'[n] = e /\ e # NoTask /\ e.pid = NoPid /\ e.state = "unknown"
      /\ \A m \in Tasks : m # n => tasks'[m] = tasks[m]
  BY <1>5, <1>6, Rewritten, MonitorAssumption DEF IInv
<1>8. Quiet
  BY <1>1, SameIsQuiet
<1>9. Lone' /\ Known' /\ Returned' /\ Waiting' /\ Copied'
  <2>1. \A m \in Tasks : Seen(m) \/ Marked(m) => tasks'[m] = tasks[m]
    BY <1>3, <1>7 DEF Seen, Marked
  <2>2. \A m \in Tasks : Scheduled(m)' /\ tasks'[m] # tasks[m] =>
          tasks'[m].state \notin {"running", "preparing"} /\ Down(m)
    BY <1>3, <1>7
  <2>. QED
    BY <1>1, <1>8, <2>1, <2>2, CallerOnce DEF Once
<1>10. /\ job'[c].at = "starting" /\ job'[c].task = n /\ job'[c].removed = {}
       /\ job'[c].added = job[c].added \ {n} /\ job'[c].results = job[c].results
       /\ \A d \in Callers : d # c => job'[d].at = "idle"
  <2>1. PICK j : /\ j = [job[c] EXCEPT !.at = "starting", !.task = n, !.added = job[c].added \ {n}]
                 /\ job' = [job EXCEPT ![c] = j]
    BY DEF Prepare
  <2>2. /\ j.at = "starting" /\ j.task = n /\ j.removed = {}
        /\ j.added = job[c].added \ {n} /\ j.results = job[c].results
    BY <1>2, <1>3, <2>1 DEF Jobs
  <2>3. job'[c] = j /\ \A d \in Callers : d # c => job'[d] = job[d]
    BY <2>1 DEF IInv, Executing
  <2>. QED
    BY <1>4, <2>2, <2>3
<1>11. Starts'
  <2>1. \A m \in Tasks : Down(m) => Down(m)'
    BY <1>8, QuietKeeps
  <2>2. \A m \in job[c].added \ {n} : ~Scheduled(m)' /\ Down(m)'
    BY <1>2, <1>3, <1>7, <2>1 DEF Scheduled, Jobs
  <2>3. Scheduled(n)' /\ Down(n)' /\ tasks'[n].pid = NoPid /\ tasks'[n].state = "unknown"
    BY <1>3, <1>7, <2>1 DEF Scheduled
  <2>. QED
    BY <1>3, <1>10, <2>2, <2>3 DEF Starts, Scheduled, Down, Live
<1>12. OneJob' /\ Before'
  BY <1>1, <1>4, <1>10 DEF OneJob, Before
<1>. QED
  BY <1>9, <1>11, <1>12 DEF Once

\* The restart thread works on a task that is marked.
LEMMA AtWork ==
  ASSUME IInv, Waiting, restarter.at \in {"starting", "writing"}
  PROVE  /\ Head(restarter.todo) \in Tasks /\ Marked(Head(restarter.todo))
         /\ restarter.todo \in Seq(Tasks) /\ restarter.todo # <<>>
<1>1. restarter.todo \in Seq(Tasks) /\ restarter.todo # <<>>
  BY RestarterTypes DEF IInv, Starting, Writing
<1>2. 1 \in DOMAIN restarter.todo /\ Head(restarter.todo) = restarter.todo[1]
  BY <1>1
<1>3. restarter.at # "idle"
  OBVIOUS
<1>. QED
  BY <1>1, <1>2, <1>3 DEF Waiting

\* What is told of the others stays true when a task is started.
LEMMA ToldOfOthers ==
  ASSUME NEW n \in Tasks, NEW m \in Tasks, m # n, Told(m), tasks'[m] = tasks[m],
         Down(m) => Down(m)', \A x : Only(m, x) => Only(m, x)'
  PROVE  Told(m)'
<1>1. PICK r : r = tasks[m].pid
  OBVIOUS
<1>2. Only(m, r) => Only(m, r)'
  OBVIOUS
<1>. QED
  BY <1>1, <1>2 DEF Told, Only, Down, Live

LEMMA RestartOnce ==
  ASSUME IInv, Once, NEW c \in Callers, Restart(c)
  PROVE  Once'
<1>1. /\ UNCHANGED <<service, queue, unreported, updates, watch, restarter>>
      /\ job[c].at = "starting"
  BY DEF Restart
<1>2. PICK n : n = job[c].task
  OBVIOUS
<1>3. job[c] \in Jobs /\ n \in Tasks
  <2>1. job[c] \in Jobs /\ n # NoTask
    BY <1>1, <1>2, JobTypes DEF IInv, Executing
  <2>. QED
    BY <1>2, <2>1 DEF Jobs
<1>4. /\ Scheduled(n) /\ Down(n) /\ tasks[n].pid = NoPid /\ tasks[n].state = "unknown"
      /\ job[c].removed = {} /\ \A m \in job[c].added : ~Scheduled(m) /\ Down(m)
      /\ \A m \in DOMAIN job[c].results : job[c].results[m].state \in {"running", "preparing"}
  BY <1>1, <1>2 DEF Once, Starts
<1>5. /\ updates # 0 /\ \A d \in Callers : d # c => job[d].at = "idle"
  BY <1>1, Working
<1>6. Signalled(tasks[n].pid) = life
  BY <1>4, MonitorAssumption DEF Signalled, IInv, Processes
<1>7. PICK r \in Runtimes \cup {Failure} :
         /\ StartTask(n, tasks[n].version, Signalled(tasks[n].pid), r)
         /\ IF r = Failure
            THEN job' = [job EXCEPT ![c] = Idle] /\ UNCHANGED tasks
            ELSE /\ tasks' = [tasks EXCEPT ![n] = WithRuntime(@, r)]
                 /\ job' = [job EXCEPT ![c] =
                        [@ EXCEPT !.at = "executing",
                                  !.results = With(job[c].results, n, r)]]
  BY <1>2, <1>4 DEF Restart
<1>8. StartTask(n, tasks[n].version, life, r)
  BY <1>6, <1>7
<1>9. /\ Lone'
      /\ \A m \in Tasks : m # n => (Down(m) => Down(m)')
      /\ \A m \in Tasks : m # n => \A x : Only(m, x) => Only(m, x)'
      /\ \/ r = Failure /\ Down(n)'
         \/ /\ r # Failure
            /\ \/ r.state = "running" /\ Only(n, r.pid)'
               \/ r.state = "preparing" /\ r.pid = NoPid
  BY <1>3, <1>4, <1>8, StartTaskLives DEF IInv, Once
<1>10. /\ r = Failure => tasks' = tasks
       /\ r # Failure => Scheduled(n)' /\ tasks'[n].pid = r.pid /\ tasks'[n].state = r.state
       /\ \A m \in Tasks : m # n => tasks'[m] = tasks[m]
  <2>1. CASE r = Failure
    BY <1>7, <2>1
  <2>2. CASE r # Failure
    <3>1. PICK e : e = WithRuntime(tasks[n], r)
      OBVIOUS
    <3>2. e \in Entries /\ e.pid = r.pid /\ e.state = r.state
      <4>1. tasks[n] \in Entries /\ r \in Runtimes
        BY <1>3, <1>4, <1>7, <2>2, EntryTypes DEF IInv
      <4>. QED
        BY <3>1, <4>1 DEF WithRuntime, Entries, Runtimes
    <3>3. tasks' = [tasks EXCEPT ![n] = e]
      BY <1>7, <2>2, <3>1
    <3>. QED
      BY <1>3, <2>2, <3>2, <3>3, Rewritten, MonitorAssumption DEF IInv, Scheduled
  <2>. QED
    BY <2>1, <2>2
<1>11. Told(n)'
  <2>1. CASE r = Failure
    BY <1>4, <1>9, <1>10, <2>1 DEF Told
  <2>2. CASE r # Failure
    <3>1. PICK x : x = r.pid
      OBVIOUS
    <3>. QED
      BY <1>9, <1>10, <2>2, <3>1 DEF Told, Only, Live
  <2>. QED
    BY <2>1, <2>2
<1>12. ~Seen(n) /\ ~Marked(n)
  BY <1>4 DEF Seen, Marked
<1>13. Known'
  <2>1. SUFFICES ASSUME NEW m \in Tasks, Scheduled(m)', ~Writes(m)', m # n
                 PROVE  Told(m)'
    BY <1>11 DEF Known
  <2>2. tasks'[m] = tasks[m] /\ Scheduled(m) /\ ~Writes(m)
    BY <1>1, <1>10, <2>1 DEF Scheduled, Writes
  <2>3. Told(m)
    BY <2>2 DEF Once, Known
  <2>. QED
    BY <1>3, <1>9, <2>1, <2>2, <2>3, ToldOfOthers
<1>14. \A m \in Tasks : Marked(m) => Marked(m)'
  BY <1>10, <1>12 DEF Marked, Scheduled
<1>15. Waiting' /\ \A m \in Tasks : Unlisted(m) => Unlisted(m)'
  BY <1>1, <1>14, WaitingKept DEF Once
<1>16. Copied'
  <2>1. \A m \in Tasks : Seen(m) => tasks'[m] = tasks[m] /\ (Down(m) => Down(m)')
    BY <1>9, <1>10, <1>12
  <2>. QED
    BY <1>1, <1>14, <1>15, <2>1, CopiedKept DEF Once
<1>17. Returned'
  <2>1. SUFFICES ASSUME restarter.at = "writing" PROVE Returned'
    BY <1>1 DEF Returned
  <2>2. PICK m, x : m = Head(restarter.todo) /\ x = restarter.runtime.pid
    OBVIOUS
  <2>3. m \in Tasks /\ m # n
    BY <1>12, <2>1, <2>2, AtWork DEF Once
  <2>4. (Down(m) => Down(m)') /\ (Only(m, x) => Only(m, x)')
    BY <1>9, <2>3
  <2>. QED
    BY <1>1, <2>2, <2>4 DEF Once, Returned, Down, Only, Live
<1>18. /\ \A d \in Callers : d # c => job'[d].at = "idle"
       /\ job'[c].at \in {"idle", "executing"}
       /\ job'[c].at # "idle" =>
            /\ job'[c].removed = {} /\ job'[c].added = job[c].added
            /\ \A m \in DOMAIN job'[c].results : job'[c].results[m].state \in {"running", "preparing"}
  <2>1. CASE r = Failure
    BY <1>5, <1>7, <2>1 DEF IInv, Executing, Idle
  <2>2. CASE r # Failure
    <3>1. PICK j, results :
            /\ results = With(job[c].results, n, r)
            /\ j = [job[c] EXCEPT !.at = "executing", !.results = results]
      OBVIOUS
    <3>2. job' = [job EXCEPT ![c] = j]
      BY <1>7, <2>2, <3>1
    <3>3. j.at = "executing" /\ j.removed = {} /\ j.added = job[c].added /\ j.results = results
      BY <1>3, <1>4, <3>1 DEF Jobs
    <3>4. \A m \in DOMAIN results : results[m].state \in {"running", "preparing"}
      BY <1>4, <1>9, <2>2, <3>1 DEF With
    <3>5. job'[c] = j /\ \A d \in Callers : d # c => job'[d] = job[d]
      BY <3>2 DEF IInv, Executing
    <3>. QED
      BY <1>5, <3>3, <3>4, <3>5
  <2>. QED
    BY <2>1, <2>2
<1>19. Starts'
  <2>1. \A m \in job[c].added : m \in Tasks /\ m # n
    BY <1>3, <1>4 DEF Jobs
  <2>2. \A m \in job[c].added : ~Scheduled(m)' /\ Down(m)'
    BY <1>4, <1>9, <1>10, <2>1 DEF Scheduled
  <2>. QED
    BY <1>18, <2>2 DEF Starts, Scheduled, Down, Live
<1>20. OneJob' /\ Before'
  BY <1>1, <1>5, <1>18 DEF OneJob, Before
<1>. QED
  BY <1>9, <1>13, <1>15, <1>16, <1>17, <1>19, <1>20 DEF Once

LEMMA StopNever ==
  ASSUME IInv, Once, NEW c \in Callers, NEW n \in Tasks, Stop(c, n)
  PROVE  FALSE
BY DEF Once, Starts, Stop

LEMMA ReportOnce ==
  ASSUME IInv, Once, NEW c \in Callers, Report(c) \/ CleanUp(c)
  PROVE  Once'
<1>1. /\ UNCHANGED <<queue, life, owner, unreported, updates, watch, restarter>>
      /\ job[c].at \in {"executing", "cleaning"}
  BY DEF Report, CleanUp
<1>2. /\ job[c].removed = {}
      /\ \A m \in job[c].added : ~Scheduled(m) /\ Down(m)
      /\ \A m \in DOMAIN job[c].results : job[c].results[m].state \in {"running", "preparing"}
  BY <1>1 DEF Once, Starts
<1>3. /\ updates # 0 /\ \A d \in Callers : d # c => job[d].at = "idle"
  BY <1>1, Working
<1>4. job[c] \in Jobs
  BY <1>1, JobTypes DEF IInv
<1>5. tasks' = tasks
  <2>1. CleanedUp({}) = tasks
    BY DEF CleanedUp, IInv, Tables, Table
  <2>. QED
    BY <1>2, <2>1 DEF Report, CleanUp
<1>6. Quiet
  BY <1>1, SameIsQuiet
<1>7. Lone' /\ Known' /\ Returned' /\ Waiting' /\ Copied'
  BY <1>1, <1>5, <1>6, CallerOnce DEF Once
<1>8. /\ \A d \in Callers : d # c => job'[d].at = "idle"
      /\ job'[c].at \in {"idle", "cleaning"}
      /\ job'[c].at # "idle" =>
           /\ job'[c].removed = {} /\ job'[c].added = job[c].added
           /\ job'[c].results = job[c].results
  <2>1. CASE Report(c)
    <3>1. ToCleanUp(job[c].results) = {}
      BY <1>2 DEF ToCleanUp, Ended
    <3>2. PICK j : /\ j = [job[c] EXCEPT !.at = "cleaning", !.removed = {}]
                   /\ job' = [job EXCEPT ![c] = j]
      BY <2>1, <3>1 DEF Report
    <3>3. j.at = "cleaning" /\ j.removed = {} /\ j.added = job[c].added /\ j.results = job[c].results
      BY <1>4, <3>2 DEF Jobs
    <3>4. job'[c] = j /\ \A d \in Callers : d # c => job'[d] = job[d]
      BY <3>2 DEF IInv, Executing
    <3>. QED
      BY <1>3, <3>3, <3>4
  <2>2. CASE CleanUp(c)
    BY <1>3, <2>2 DEF CleanUp, IInv, Executing, Idle
  <2>. QED
    BY <2>1, <2>2
<1>9. Starts'
  <2>1. \A m \in job[c].added : ~Scheduled(m)' /\ Down(m)'
    BY <1>2, <1>4, <1>5, <1>6, QuietKeeps DEF Scheduled, Jobs
  <2>. QED
    BY <1>2, <1>8, <2>1 DEF Starts, Scheduled, Down, Live
<1>10. OneJob' /\ Before'
  BY <1>1, <1>3, <1>8 DEF OneJob, Before
<1>. QED
  BY <1>7, <1>9, <1>10 DEF Once

-----------------------------------------------------------------------------
(* One update: the monitor *)

\* Nobody restarts a task that is not marked.
LEMMA NotMarked ==
  ASSUME IInv, Waiting, NEW n \in Tasks, ~Marked(n)
  PROVE  Unlisted(n) /\ ~Writes(n)
<1>1. Unlisted(n)
  BY DEF Waiting, Unlisted
<1>2. ~Writes(n)
  BY AtWork DEF Writes
<1>. QED
  BY <1>1, <1>2

\* Of a task that is watched and not found running no process is alive.
LEMMA SeenIsDown ==
  ASSUME IInv, Waiting, Known, NEW n \in Tasks, Seen(n),
         tasks[n].state # "running" \/ ProbedState(tasks[n].pid) # "running"
  PROVE  Down(n)
<1>1. Told(n)
  BY NotMarked DEF Known, Seen, Marked
<1>2. CASE tasks[n].state = "running"
  <2>1. PICK p : p = tasks[n].pid
    OBVIOUS
  <2>2. Alive(p) => ProbedState(p) = "running"
    BY DEF Alive, ProbedState
  <2>3. Only(n, p) /\ ~Alive(p)
    BY <1>1, <1>2, <2>1, <2>2 DEF Told
  <2>. QED
    BY <2>3 DEF Only, Down, Alive
<1>3. CASE tasks[n].state # "running"
  BY <1>1, <1>3 DEF Told, Seen
<1>. QED
  BY <1>2, <1>3

\* A step of the monitor changes nothing but tasks it has seen.
LEMMA MonitorOnce ==
  ASSUME IInv, Once, UNCHANGED <<life, owner, updates, job, restarter>>,
         \A n \in Tasks : service[n] = NoTask => service'[n] = NoTask,
         \A n \in Tasks : tasks'[n] # tasks[n] => Seen(n) /\ (Scheduled(n)' => Told(n)'),
         Waiting', Copied'
  PROVE  Once'
<1>1. Quiet
  BY SameIsQuiet
<1>2. Lone' /\ \A n \in Tasks : Down(n) => Down(n)'
  BY <1>1, QuietKeeps DEF Once
<1>3. \A n \in Tasks : ~Scheduled(n) => ~Scheduled(n)'
  BY DEF Seen, Scheduled
<1>4. Known'
  <2>1. SUFFICES ASSUME NEW n \in Tasks, Scheduled(n)', ~Writes(n)', tasks'[n] = tasks[n]
                 PROVE  Told(n)'
    BY DEF Known
  <2>2. Scheduled(n) /\ ~Writes(n)
    BY <2>1 DEF Scheduled, Writes
  <2>. QED
    BY <1>1, <2>1, <2>2, ToldKept DEF Once, Known
<1>5. Returned'
  BY <1>1, ReturnedKept DEF Once
<1>6. Starts' /\ OneJob'
  BY <1>2, <1>3, StartsKept DEF Once, Seen
<1>7. Before'
  BY <1>2, <1>3 DEF Once, Before
<1>. QED
  BY <1>2, <1>4, <1>5, <1>6, <1>7 DEF Once

LEMMA CopyOnce ==
  ASSUME IInv, Once, Copy
  PROVE  Once'
<1>1. /\ UNCHANGED <<service, tasks, queue, life, owner, updates, job, restarter>>
      /\ watch' = [at |-> "probing", report |-> [n \in Watched |-> RuntimeOf(tasks[n])]]
  BY DEF Copy
<1>2. \A n \in Watched : Seen(n)
  BY DEF Watched, Seen
<1>3. Copied'
  <2>1. PICK report : report = [n \in Watched |-> RuntimeOf(tasks[n])]
    OBVIOUS
  <2>2. watch'.at = "probing" /\ watch'.report = report
    BY <1>1, <2>1
  <2>3. \A n \in DOMAIN report : Seen(n) /\ report[n] = RuntimeOf(tasks[n])
    BY <1>2, <2>1
  <2>. QED
    BY <1>1, <2>2, <2>3 DEF Copied, Seen, Scheduled, RuntimeOf
<1>4. Waiting'
  BY <1>1, WaitingKept DEF Once, Marked, Scheduled
<1>. QED
  BY <1>1, <1>3, <1>4, MonitorOnce

LEMMA ProbeOnce ==
  ASSUME IInv, Once, Probe
  PROVE  Once'
<1>1. /\ UNCHANGED <<service, tasks, queue, life, owner, updates, job, restarter>>
      /\ watch.at = "probing"
  BY DEF Probe
<1>2. PICK seen, new, report :
        /\ seen = watch.report
        /\ new = {n \in DOMAIN seen : ProbedState(seen[n].pid) # seen[n].state}
        /\ report = [n \in new |-> [pid |-> seen[n].pid, state |-> ProbedState(seen[n].pid)]]
  OBVIOUS
<1>3. watch' = [at |-> "applying", todo |-> new, task |-> NoTask, report |-> report]
  BY <1>2 DEF Probe
<1>4. DOMAIN seen \subseteq Tasks
  BY <1>1, <1>2, WatchTypes, ResultTypes DEF IInv, Probing
<1>5. ASSUME NEW n \in new
      PROVE  /\ n \in Tasks /\ Seen(n) /\ Down(n)
             /\ report[n].state \notin {"restarting", "preparing"}
             /\ report[n].pid # NoPid
  <2>1. n \in Tasks /\ Seen(n) /\ seen[n] = RuntimeOf(tasks[n])
    BY <1>1, <1>2, <1>4 DEF Once, Copied
  <2>2. seen[n].pid = tasks[n].pid /\ seen[n].state = tasks[n].state
    BY <2>1 DEF RuntimeOf
  <2>3. tasks[n].state # "running" \/ ProbedState(tasks[n].pid) # "running"
    BY <1>2, <2>2
  <2>4. Down(n)
    BY <2>1, <2>3, SeenIsDown DEF Once
  <2>5. PICK p : p = ProbedState(seen[n].pid)
    OBVIOUS
  <2>6. p \notin {"restarting", "preparing"}
    BY <2>5 DEF ProbedState
  <2>7. report[n].pid = seen[n].pid /\ report[n].state = p
    BY <1>2, <2>5
  <2>. QED
    BY <2>1, <2>2, <2>4, <2>6, <2>7 DEF Seen
<1>6. DOMAIN report = new
  BY <1>2
<1>7. Copied'
  BY <1>1, <1>3, <1>5, <1>6 DEF Copied, Seen, Scheduled, Down, Live
<1>8. Waiting'
  BY <1>1, WaitingKept DEF Once, Marked, Scheduled
<1>. QED
  BY <1>1, <1>7, <1>8, MonitorOnce

\* The parts of a round.
LEMMA RoundOnce ==
  ASSUME IInv, Once, watch.at \in {"applying", "marking", "queueing"}
  PROVE  /\ watch \in Rounds
         /\ DOMAIN watch.report \subseteq Tasks /\ watch.todo \subseteq DOMAIN watch.report
         /\ watch.at # "applying" => watch.task \in DOMAIN watch.report /\ watch.task \notin watch.todo
         /\ \A n \in DOMAIN watch.report :
              /\ watch.report[n].state # "restarting" => Seen(n)
              /\ watch.report[n].state # "preparing"
              /\ watch.report[n].pid # NoPid
              /\ watch.report[n] \in Runtimes
         /\ \A n \in watch.todo : Down(n) /\ watch.report[n].state # "restarting"
         /\ watch.at = "marking" =>
              watch.report[watch.task].state # "restarting" /\ tasks[watch.task].state # "running"
<1>1. watch \in Rounds
  BY WatchTypes DEF IInv
<1>2. /\ DOMAIN watch.report \subseteq Tasks /\ watch.todo \subseteq DOMAIN watch.report
      /\ \A n \in DOMAIN watch.report : watch.report[n] \in Runtimes
      /\ watch.at # "applying" => watch.task \in DOMAIN watch.report /\ watch.task \notin watch.todo
      /\ \A n \in watch.todo : watch.report[n].state # "restarting"
  <2>1. watch.report \in Results
    BY <1>1 DEF Rounds
  <2>. QED
    BY <1>1, <2>1, ResultTypes DEF IInv, Watching, Unmarked
<1>. QED
  BY <1>1, <1>2 DEF Once, Copied

LEMMA ApplyOnce ==
  ASSUME IInv, Once, NEW n \in Tasks, Apply(n)
  PROVE  Once'
<1>1. /\ UNCHANGED <<service, queue, life, owner, updates, job, restarter>>
      /\ watch.at = "applying" /\ n \in watch.todo
      /\ tasks' = IF Scheduled(n)
                  THEN [tasks EXCEPT ![n] = WithRuntime(@, watch.report[n])] ELSE tasks
  BY DEF Apply
<1>2. PICK report, todo : report = watch.report /\ todo = watch.todo
  OBVIOUS
<1>3. /\ watch \in Rounds
      /\ DOMAIN report \subseteq Tasks /\ todo \subseteq DOMAIN report /\ n \in DOMAIN report
      /\ \A m \in DOMAIN report :
           /\ report[m].state # "restarting" => Seen(m)
           /\ report[m].state # "preparing"
           /\ report[m].pid # NoPid
      /\ report[n] \in Runtimes
      /\ \A m \in todo : Down(m) /\ report[m].state # "restarting"
  BY <1>1, <1>2, RoundOnce
<1>4. Seen(n) /\ Down(n) /\ Scheduled(n)
  BY <1>1, <1>2, <1>3 DEF Seen
<1>5. PICK e : e = WithRuntime(tasks[n], report[n])
  OBVIOUS
<1>6. e \in Entries /\ e.pid = report[n].pid /\ e.state = report[n].state
  <2>1. tasks[n] \in Entries /\ report[n] \in Runtimes
    BY <1>3, <1>4, EntryTypes DEF IInv
  <2>. QED
    BY <1>5, <2>1 DEF WithRuntime, Entries, Runtimes
<1>7. tasks' = [tasks EXCEPT ![n] = e]
  BY <1>1, <1>2, <1>4, <1>5
<1>8. /\ tasks'[n] = e /\ e # NoTask
      /\ \A m \in Tasks : m # n => tasks'[m] = tasks[m]
  BY <1>6, <1>7, Rewritten, MonitorAssumption DEF IInv
<1>9. /\ tasks'[n] # NoTask /\ tasks'[n].pid # NoPid
      /\ tasks'[n].state = report[n].state
      /\ tasks'[n].state \notin {"restarting", "preparing"}
  BY <1>1, <1>2, <1>3, <1>6, <1>8
<1>10. Quiet
  BY <1>1, SameIsQuiet
<1>11. \A m \in Tasks : Down(m) => Down(m)'
  BY <1>10, QuietKeeps
<1>12. Told(n)'
  <2>1. Down(n)'
    BY <1>4, <1>11
  <2>. QED
    BY <1>9, <2>1 DEF Told, Down, Only
<1>13. ~Marked(n)
  BY <1>4 DEF Seen, Marked
<1>14. Waiting'
  <2>1. \A m \in Tasks : Marked(m) => Marked(m)'
    BY <1>8, <1>13 DEF Marked, Scheduled
  <2>. QED
    BY <1>1, <2>1, WaitingKept DEF Once
<1>15. PICK at : /\ at \in {"marking", "applying"}
                 /\ at = "marking" => Restarts(tasks[n].mode, report[n].state)
                 /\ watch' = [watch EXCEPT !.todo = @ \ {n}, !.task = n, !.at = at]
  BY <1>2 DEF Apply
<1>16. /\ watch'.at = at /\ watch'.todo = todo \ {n} /\ watch'.task = n
       /\ watch'.report = report
  BY <1>2, <1>3, <1>15 DEF Rounds
<1>17. Copied'
  <2>1. \A m \in Tasks : Seen(m) => Seen(m)'
    BY <1>8, <1>9 DEF Seen, Scheduled
  <2>2. \A m \in DOMAIN report :
           /\ report[m].state # "restarting" => Seen(m)'
           /\ report[m].state # "preparing"
           /\ report[m].pid # NoPid
    BY <1>3, <2>1
  <2>3. \A m \in todo \ {n} : Down(m)'
    BY <1>3, <1>11
  <2>4. at = "marking" => report[n].state # "restarting" /\ tasks'[n].state # "running"
    BY <1>9, <1>15 DEF Restarts
  <2>. QED
    BY <1>15, <1>16, <2>2, <2>3, <2>4 DEF Copied, Seen, Scheduled, Down, Live
<1>. QED
  BY <1>1, <1>4, <1>8, <1>12, <1>14, <1>17, MonitorOnce

LEMMA MarkOnce ==
  ASSUME IInv, Once, Mark
  PROVE  Once'
<1>1. /\ UNCHANGED <<service, queue, life, owner, updates, job, restarter>>
      /\ watch.at = "marking"
  BY DEF Mark
<1>2. PICK report, todo, n : report = watch.report /\ todo = watch.todo /\ n = watch.task
  OBVIOUS
<1>3. /\ watch \in Rounds
      /\ DOMAIN report \subseteq Tasks /\ todo \subseteq DOMAIN report
      /\ n \in DOMAIN report /\ n \in Tasks /\ n \notin todo
      /\ \A m \in DOMAIN report :
           /\ report[m].state # "restarting" => Seen(m)
           /\ report[m].state # "preparing"
           /\ report[m].pid # NoPid
           /\ report[m] \in Runtimes
      /\ \A m \in todo : Down(m)
      /\ report[n].state # "restarting" /\ tasks[n].state # "running"
  BY <1>1, <1>2, RoundOnce
<1>4. Seen(n) /\ Scheduled(n)
  BY <1>3 DEF Seen
<1>5. Down(n) /\ ~Marked(n) /\ Unlisted(n)
  BY <1>3, <1>4, SeenIsDown, NotMarked DEF Once, Seen, Marked
<1>6. PICK e : e = [tasks[n] EXCEPT !.state = "restarting"]
  OBVIOUS
<1>7. e \in Entries /\ e.state = "restarting"
  <2>1. tasks[n] \in Entries
    BY <1>3, <1>4, EntryTypes DEF IInv
  <2>. QED
    BY <1>6, <2>1 DEF Entries, States
<1>8. tasks' = [tasks EXCEPT ![n] = e]
  BY <1>2, <1>4, <1>6 DEF Mark
<1>9. /\ tasks'[n] = e /\ e # NoTask
      /\ \A m \in Tasks : m # n => tasks'[m] = tasks[m]
  BY <1>3, <1>7, <1>8, Rewritten, MonitorAssumption DEF IInv
<1>10. Marked(n)'
  BY <1>7, <1>9 DEF Marked, Scheduled
<1>11. Quiet
  BY <1>1, SameIsQuiet
<1>12. \A m \in Tasks : Down(m) => Down(m)'
  BY <1>11, QuietKeeps
<1>13. Told(n)'
  <2>1. Down(n)'
    BY <1>3, <1>5, <1>12
  <2>. QED
    BY <1>7, <1>9, <2>1 DEF Told
<1>14. Waiting' /\ Unlisted(n)'
  <2>1. \A m \in Tasks : Marked(m) => Marked(m)'
    BY <1>5, <1>9 DEF Marked, Scheduled
  <2>. QED
    BY <1>1, <1>3, <1>5, <2>1, WaitingKept DEF Once
<1>15. PICK marked : marked = [report EXCEPT ![n].state = "restarting"]
  OBVIOUS
<1>16. /\ DOMAIN marked = DOMAIN report
       /\ \A m \in DOMAIN report : m # n => marked[m] = report[m]
       /\ marked[n].state = "restarting" /\ marked[n].pid = report[n].pid
  <2>1. PICK r : r = [report[n] EXCEPT !.state = "restarting"]
    OBVIOUS
  <2>2. r.state = "restarting" /\ r.pid = report[n].pid
    BY <1>3, <2>1 DEF Runtimes
  <2>3. marked = [report EXCEPT ![n] = r]
    BY <1>15, <2>1
  <2>. QED
    BY <1>3, <2>2, <2>3
<1>17. watch' = [watch EXCEPT !.at = "queueing", !.report = marked]
  BY <1>2, <1>15 DEF Mark
<1>18. /\ watch'.at = "queueing" /\ watch'.todo = todo /\ watch'.task = n
       /\ watch'.report = marked
  BY <1>2, <1>3, <1>17 DEF Rounds
<1>19. Copied'
  <2>1. \A m \in Tasks : m # n /\ Seen(m) => Seen(m)'
    BY <1>9 DEF Seen, Scheduled
  <2>2. \A m \in DOMAIN marked :
           /\ marked[m].state # "restarting" => Seen(m)'
           /\ marked[m].state # "preparing"
           /\ marked[m].pid # NoPid
    BY <1>3, <1>16, <2>1
  <2>3. \A m \in todo : Down(m)'
    BY <1>3, <1>12
  <2>. QED
    BY <1>10, <1>14, <1>18, <2>2, <2>3
    DEF Copied, Seen, Marked, Unlisted, Scheduled, Down, Live
<1>. QED
  BY <1>1, <1>4, <1>9, <1>13, <1>14, <1>19, MonitorOnce

\* A task that waits once more, where it did not wait.
LEMMA InsertsOnce ==
  ASSUME NEW q \in Seq(Tasks), NEW n \in Tasks, NEW i \in 0 .. Len(q),
         NEW u \in Seq(Tasks), Inserts(u, q, n, i),
         \A j \in DOMAIN q : q[j] # n,
         \A j, k \in DOMAIN q : q[j] = q[k] => j = k
  PROVE  /\ \A j, k \in DOMAIN u : u[j] = u[k] => j = k
         /\ \A j \in DOMAIN u : u[j] = n \/ \E k \in DOMAIN q : u[j] = q[k]
<1>1. PICK l : l = Len(q)
  OBVIOUS
<1>2. /\ l \in Nat /\ i \in Nat /\ i <= l
      /\ DOMAIN q = 1 .. l /\ DOMAIN u = 1 .. l + 1
  BY <1>1 DEF Inserts
<1>. DEFINE old(j) == IF j <= i THEN j ELSE j - 1
<1>3. ASSUME NEW j \in 1 .. l + 1, j # i + 1
      PROVE  old(j) \in 1 .. l /\ u[j] = q[old(j)]
  <2>1. CASE j <= i
    <3>1. j \in 1 .. i /\ j \in 1 .. l
      BY <1>2, <2>1
    <3>. QED
      BY <2>1, <3>1 DEF Inserts
  <2>2. CASE ~(j <= i)
    <3>1. PICK h : h = j - 1
      OBVIOUS
    <3>2. h \in i + 1 .. Len(q) /\ h \in 1 .. l /\ h + 1 = j
      BY <1>1, <1>2, <1>3, <2>2, <3>1
    <3>3. u[j] = q[h]
      BY <3>2 DEF Inserts
    <3>. QED
      BY <2>2, <3>1, <3>2, <3>3
  <2>. QED
    BY <2>1, <2>2
<1>4. u[i + 1] = n
  BY DEF Inserts
<1>5. ASSUME NEW j \in 1 .. l + 1, NEW k \in 1 .. l + 1, j # i + 1, k # i + 1, old(j) = old(k)
      PROVE  j = k
  BY <1>2, <1>5
<1>6. ASSUME NEW j \in 1 .. l + 1, NEW k \in 1 .. l + 1, u[j] = u[k]
      PROVE  j = k
  <2>1. CASE j = i + 1 /\ k = i + 1
    BY <2>1
  <2>2. CASE j = i + 1 /\ k # i + 1
    BY <1>2, <1>3, <1>4, <1>6, <2>2
  <2>3. CASE j # i + 1 /\ k = i + 1
    BY <1>2, <1>3, <1>4, <1>6, <2>3
  <2>4. CASE j # i + 1 /\ k # i + 1
    BY <1>2, <1>3, <1>5, <1>6, <2>4
  <2>. QED
    BY <2>1, <2>2, <2>3, <2>4
<1>7. ASSUME NEW j \in 1 .. l + 1
      PROVE  u[j] = n \/ \E k \in DOMAIN q : u[j] = q[k]
  BY <1>2, <1>3, <1>4
<1>. QED
  BY <1>2, <1>6, <1>7

LEMMA QueueRestartOnce ==
  ASSUME IInv, Once, QueueRestart
  PROVE  Once'
<1>1. /\ UNCHANGED <<service, tasks, life, owner, updates, job, restarter>>
      /\ watch.at = "queueing" /\ restarter = Idle
      /\ watch' = [watch EXCEPT !.at = "applying"]
  BY DEF QueueRestart
<1>2. PICK report, todo, n, q : /\ report = watch.report /\ todo = watch.todo
                                /\ n = watch.task /\ q = queue
  OBVIOUS
<1>3. /\ watch \in Rounds
      /\ DOMAIN report \subseteq Tasks /\ todo \subseteq DOMAIN report /\ n \in Tasks
      /\ \A m \in DOMAIN report :
           /\ report[m].state # "restarting" => Seen(m)
           /\ report[m].state # "preparing"
           /\ report[m].pid # NoPid
      /\ \A m \in todo : Down(m)
  BY <1>1, <1>2, RoundOnce
<1>4. Marked(n) /\ Unlisted(n)
  BY <1>1, <1>2 DEF Once, Copied
<1>5. q \in Seq(Tasks)
  BY <1>2 DEF IInv, Queued
<1>6. /\ \A j \in DOMAIN q : Marked(q[j]) /\ q[j] # n
      /\ \A j, k \in DOMAIN q : q[j] = q[k] => j = k
  BY <1>2, <1>4 DEF Once, Waiting, Unlisted
<1>7. /\ \A j, k \in DOMAIN queue' : queue'[j] = queue'[k] => j = k
      /\ \A j \in DOMAIN queue' : Marked(queue'[j])
  <2>1. PICK i \in 0 .. Len(q) :
          queue' = IF \E j \in {i, i + 1} \cap DOMAIN q : q[j] = n
                   THEN q
                   ELSE SubSeq(q, 1, i) \o <<n>> \o SubSeq(q, i + 1, Len(q))
    BY <1>2 DEF QueueRestart
  <2>2. PICK u : u = SubSeq(q, 1, i) \o <<n>> \o SubSeq(q, i + 1, Len(q))
    OBVIOUS
  <2>3. u \in Seq(Tasks) /\ Inserts(u, q, n, i)
    BY <1>3, <1>5, <2>2, Insertion, Zenon
  <2>4. /\ \A j, k \in DOMAIN u : u[j] = u[k] => j = k
        /\ \A j \in DOMAIN u : u[j] = n \/ \E k \in DOMAIN q : u[j] = q[k]
    BY <1>3, <1>5, <1>6, <2>3, InsertsOnce
  <2>5. queue' = q \/ queue' = u
    BY <2>1, <2>2
  <2>6. CASE queue' = q
    BY <1>6, <2>6
  <2>7. CASE queue' = u
    <3>1. \A j \in DOMAIN u : Marked(u[j])
      BY <1>4, <1>6, <2>4
    <3>. QED
      BY <2>4, <2>7, <3>1
  <2>. QED
    BY <2>5, <2>6, <2>7
<1>8. Waiting'
  BY <1>1, <1>7 DEF Waiting, Marked, Scheduled, Idle
<1>9. /\ watch'.at = "applying" /\ watch'.todo = todo /\ watch'.report = report
  BY <1>1, <1>2, <1>3 DEF Rounds
<1>10. Copied'
  BY <1>1, <1>3, <1>9 DEF Copied, Seen, Scheduled, Down, Live
<1>. QED
  BY <1>1, <1>8, <1>10, MonitorOnce

LEMMA QueuePoisonedOnce ==
  ASSUME IInv, Once, QueuePoisoned
  PROVE  Once'
<1>1. /\ UNCHANGED <<service, tasks, queue, life, owner, updates, job, restarter>>
      /\ watch'.at = "dead"
  BY DEF QueuePoisoned, Dead
<1>2. Waiting'
  BY <1>1, WaitingKept DEF Once, Marked, Scheduled
<1>3. Copied'
  BY <1>1 DEF Copied
<1>. QED
  BY <1>1, <1>2, <1>3, MonitorOnce

LEMMA ReportWatchedOnce ==
  ASSUME IInv, Once, ReportWatched
  PROVE  Once'
<1>1. /\ UNCHANGED <<tasks, queue, life, owner, updates, job, restarter>>
      /\ watch.at = "applying"
      /\ watch' = [at |-> "cleaning", todo |-> ToCleanUp(watch.report)]
      /\ service' = Reported(watch.report)
  BY DEF ReportWatched
<1>2. \A n \in ToCleanUp(watch.report) : Seen(n)
  BY <1>1, RoundOnce DEF ToCleanUp, Ended
<1>3. Copied'
  BY <1>1, <1>2 DEF Copied, Seen, Scheduled
<1>4. Waiting'
  BY <1>1, WaitingKept DEF Once, Marked, Scheduled
<1>5. \A n \in Tasks : service[n] = NoTask => service'[n] = NoTask
  BY <1>1 DEF Reported
<1>. QED
  BY <1>1, <1>3, <1>4, <1>5, MonitorOnce

LEMMA CleanUpWatchedOnce ==
  ASSUME IInv, Once, CleanUpWatched
  PROVE  Once'
<1>1. /\ UNCHANGED <<service, queue, life, owner, updates, job, restarter>>
      /\ watch.at = "cleaning" /\ watch' = Idle
      /\ tasks' = CleanedUp(watch.todo)
  BY DEF CleanUpWatched
<1>2. \A n \in watch.todo : Seen(n)
  BY <1>1 DEF Once, Copied
<1>3. \A n \in Tasks : IF n \in watch.todo THEN tasks'[n] = NoTask ELSE tasks'[n] = tasks[n]
  BY <1>1 DEF CleanedUp
<1>4. \A n \in Tasks : tasks'[n] # tasks[n] => Seen(n) /\ ~Scheduled(n)'
  BY <1>2, <1>3 DEF Scheduled
<1>5. \A n \in Tasks : Marked(n) => Marked(n)'
  BY <1>4 DEF Seen, Marked, Scheduled
<1>6. Waiting'
  BY <1>1, <1>5, WaitingKept DEF Once
<1>7. Copied'
  BY <1>1 DEF Copied, Idle
<1>. QED
  BY <1>1, <1>4, <1>6, <1>7, MonitorOnce

-----------------------------------------------------------------------------
(* One update: the restart thread *)

\* Lists of tasks: nobody is twice on it; who is on s is on t; nobody is on both.
Distinct(s) == \A i, j \in DOMAIN s : s[i] = s[j] => i = j
PartOf(s, t) == \A i \in DOMAIN s : \E j \in DOMAIN t : s[i] = t[j]
Apart(s, t) == \A i \in DOMAIN s, j \in DOMAIN t : s[i] # t[j]

\* The two parts of a queue in which nobody waits twice.
LEMMA PartsOnce ==
  ASSUME NEW q \in Seq(Tasks), NEW k \in 1 .. Len(q), Distinct(q)
  PROVE  /\ Distinct(SubSeq(q, 1, k)) /\ Distinct(SubSeq(q, k + 1, Len(q)))
         /\ PartOf(SubSeq(q, 1, k), q) /\ PartOf(SubSeq(q, k + 1, Len(q)), q)
         /\ Apart(SubSeq(q, k + 1, Len(q)), SubSeq(q, 1, k))
<1>0. PICK a, b, l : a = SubSeq(q, 1, k) /\ b = SubSeq(q, k + 1, Len(q)) /\ l = Len(q)
  OBVIOUS
<1>1. l \in Nat /\ k \in Nat /\ 1 <= k /\ k <= l /\ DOMAIN q = 1 .. l
  BY <1>0
<1>2. DOMAIN a = 1 .. k /\ \A j \in 1 .. k : a[j] = q[j]
  BY <1>0, <1>1
<1>3. DOMAIN b = 1 .. l - k
  <2>1. b \in Seq(Tasks) /\ Len(b) = l - k
    BY <1>0, <1>1
  <2>. QED
    BY <2>1
<1>4. \A j \in 1 .. l - k : b[j] = q[k + j]
  BY <1>0, <1>1
<1>5. \A j \in 1 .. l - k : k + j \in 1 .. l /\ k + j \notin 1 .. k
  BY <1>1
<1>6. \A j \in 1 .. k : j \in 1 .. l
  BY <1>1
<1>7. Distinct(a) /\ PartOf(a, q)
  BY <1>1, <1>2, <1>6 DEF Distinct, PartOf
<1>8. Distinct(b)
  <2>1. SUFFICES ASSUME NEW i \in 1 .. l - k, NEW j \in 1 .. l - k, b[i] = b[j]
                 PROVE  i = j
    BY <1>3 DEF Distinct
  <2>2. q[k + i] = q[k + j]
    BY <1>4, <2>1
  <2>3. k + i = k + j
    BY <1>1, <1>5, <2>2 DEF Distinct
  <2>. QED
    BY <1>1, <2>3
<1>9. PartOf(b, q)
  BY <1>1, <1>3, <1>4, <1>5 DEF PartOf
<1>10. Apart(b, a)
  <2>1. SUFFICES ASSUME NEW i \in 1 .. l - k, NEW j \in 1 .. k, b[i] = a[j]
                 PROVE  FALSE
    BY <1>2, <1>3 DEF Apart
  <2>2. q[k + i] = q[j]
    BY <1>2, <1>4, <2>1
  <2>. QED
    BY <1>1, <1>5, <1>6, <2>2 DEF Distinct
<1>11. /\ Distinct(a) /\ Distinct(b) /\ PartOf(a, q) /\ PartOf(b, q) /\ Apart(b, a)
  BY <1>7, <1>8, <1>9, <1>10
<1>. QED
  BY <1>0, <1>11, Zenon

\* What is left when the first of those is done with.
LEMMA RestOnce ==
  ASSUME NEW s \in Seq(Tasks), s # <<>>, Distinct(s)
  PROVE  /\ Distinct(Tail(s)) /\ PartOf(Tail(s), s)
         /\ \A i \in DOMAIN Tail(s) : Tail(s)[i] # Head(s)
<1>0. PICK t, l, h : t = Tail(s) /\ l = Len(s) /\ h = Head(s)
  OBVIOUS
<1>1. /\ l \in Nat /\ l # 0 /\ DOMAIN s = 1 .. l /\ h = s[1]
      /\ DOMAIN t = 1 .. l - 1
  BY <1>0
<1>2. \A j \in 1 .. l - 1 : t[j] = s[j + 1]
  BY <1>0
<1>3. \A j \in 1 .. l - 1 : j + 1 \in 1 .. l /\ j + 1 # 1
  BY <1>1
<1>4. Distinct(t)
  <2>1. SUFFICES ASSUME NEW i \in 1 .. l - 1, NEW j \in 1 .. l - 1, t[i] = t[j]
                 PROVE  i = j
    BY <1>1 DEF Distinct
  <2>2. s[i + 1] = s[j + 1]
    BY <1>2, <2>1
  <2>3. i + 1 = j + 1
    BY <1>1, <1>3, <2>2 DEF Distinct
  <2>. QED
    BY <2>3
<1>5. PartOf(t, s)
  BY <1>1, <1>2, <1>3 DEF PartOf
<1>6. \A i \in DOMAIN t : t[i] # h
  <2>1. 1 \in 1 .. l
    BY <1>1
  <2>. QED
    BY <1>1, <1>2, <1>3, <2>1 DEF Distinct
<1>. QED
  BY <1>0, <1>4, <1>5, <1>6, Zenon

\* A step in which the restart thread only changes what it has in hand.
LEMMA HandsOnce ==
  ASSUME IInv, Once, UNCHANGED <<service, tasks, life, owner, updates, job, watch>>,
         restarter.at # "writing", restarter'.at # "writing",
         Waiting', \A n \in Tasks : Unlisted(n) => Unlisted(n)'
  PROVE  Once'
<1>1. Quiet
  BY SameIsQuiet
<1>2. Lone' /\ \A n \in Tasks : Down(n) => Down(n)'
  BY <1>1, QuietKeeps DEF Once
<1>3. Known' /\ Returned'
  <2>1. ASSUME NEW n \in Tasks, Scheduled(n)' PROVE Told(n)'
    <3>1. Told(n)
      BY <2>1 DEF Once, Known, Scheduled, Writes
    <3>. QED
      BY <1>1, <3>1, ToldKept
  <2>. QED
    BY <2>1 DEF Known, Returned
<1>4. Copied'
  BY <1>2, CopiedKept DEF Once, Marked, Scheduled
<1>5. Starts' /\ OneJob'
  BY <1>2, StartsKept DEF Once, Scheduled
<1>6. Before'
  BY <1>2 DEF Once, Before, Scheduled
<1>. QED
  BY <1>2, <1>3, <1>4, <1>5, <1>6 DEF Once

LEMMA TakeDueOnce ==
  ASSUME IInv, Once, NEW k \in 1 .. Len(queue), TakeDue(k)
  PROVE  Once'
<1>1. /\ UNCHANGED <<service, tasks, life, owner, updates, job, watch>>
      /\ restarter = Idle
  BY DEF TakeDue
<1>2. PICK q, a, b : /\ q = queue /\ k \in 1 .. Len(q)
                     /\ a = SubSeq(q, 1, k) /\ b = SubSeq(q, k + 1, Len(q))
  OBVIOUS
<1>3. queue' = b /\ restarter' = [at |-> "reading", todo |-> a]
  BY <1>2 DEF TakeDue
<1>4. q \in Seq(Tasks) /\ Distinct(q) /\ \A i \in DOMAIN q : Marked(q[i])
  BY <1>2 DEF IInv, Queued, Once, Waiting, Distinct
<1>5. /\ Distinct(a) /\ Distinct(b) /\ PartOf(a, q) /\ PartOf(b, q) /\ Apart(b, a)
  BY <1>2, <1>4, PartsOnce, Zenon
<1>6. restarter'.at = "reading" /\ restarter'.todo = a
  BY <1>3
<1>7. Waiting'
  <2>1. \A i \in DOMAIN a : Marked(a[i])'
    BY <1>1, <1>4, <1>5 DEF PartOf, Marked, Scheduled
  <2>2. \A i \in DOMAIN b : Marked(b[i])'
    BY <1>1, <1>4, <1>5 DEF PartOf, Marked, Scheduled
  <2>. QED
    BY <1>3, <1>5, <1>6, <2>1, <2>2 DEF Waiting, Distinct, Apart, Marked, Scheduled
<1>8. \A n \in Tasks : Unlisted(n) => Unlisted(n)'
  BY <1>2, <1>3, <1>5, <1>6 DEF Unlisted, PartOf
<1>. QED
  BY <1>1, <1>6, <1>7, <1>8, HandsOnce DEF Idle

LEMMA ReadDueOnce ==
  ASSUME IInv, Once, ReadDue
  PROVE  Once'
<1>1. /\ UNCHANGED <<service, tasks, queue, life, owner, updates, job, watch>>
      /\ restarter.at = "reading" /\ restarter.todo # <<>>
  BY DEF ReadDue
<1>2. PICK todo, n : todo = restarter.todo /\ n = Head(todo)
  OBVIOUS
<1>3. restarter \in Reading /\ todo \in Seq(Tasks) /\ todo # <<>>
  <2>1. restarter \in Reading
    BY <1>1, RestarterTypes DEF IInv
  <2>. QED
    BY <1>1, <1>2, <2>1 DEF Reading
<1>4. /\ Distinct(todo) /\ \A i \in DOMAIN todo : Marked(todo[i])
      /\ Apart(queue, todo)
  BY <1>1, <1>2 DEF Once, Waiting, Distinct, Apart
<1>5. PICK rest : rest = restarter'.todo
  OBVIOUS
<1>6. /\ restarter'.at \in {"reading", "starting"}
      /\ rest = todo \/ rest = Tail(todo)
  <2>1. CASE Scheduled(n)
    BY <1>2, <1>5, <2>1 DEF ReadDue
  <2>2. CASE ~Scheduled(n)
    <3>1. restarter' = [restarter EXCEPT !.todo = Tail(todo)]
      BY <1>2, <2>2 DEF ReadDue
    <3>. QED
      BY <1>1, <1>3, <1>5, <3>1 DEF Reading
  <2>. QED
    BY <2>1, <2>2
<1>7. Distinct(rest) /\ PartOf(rest, todo)
  <2>1. Distinct(todo) /\ PartOf(todo, todo)
    BY <1>4 DEF PartOf
  <2>2. Distinct(Tail(todo)) /\ PartOf(Tail(todo), todo)
    BY <1>3, <1>4, RestOnce
  <2>. QED
    BY <1>6, <2>1, <2>2, Zenon
<1>8. Waiting'
  <2>1. \A i \in DOMAIN rest : Marked(rest[i])'
    BY <1>1, <1>4, <1>7 DEF PartOf, Marked, Scheduled
  <2>2. Apart(queue, rest)
    BY <1>4, <1>7 DEF PartOf, Apart
  <2>. QED
    BY <1>1, <1>5, <1>7, <2>1, <2>2 DEF Once, Waiting, Distinct, Apart, Marked, Scheduled
<1>9. \A n_1 \in Tasks : Unlisted(n_1) => Unlisted(n_1)'
  BY <1>1, <1>2, <1>5, <1>7 DEF Unlisted, PartOf
<1>. QED
  BY <1>1, <1>6, <1>8, <1>9, HandsOnce

LEMMA ReleaseOnce ==
  ASSUME IInv, Once, Release
  PROVE  Once'
<1>1. /\ UNCHANGED <<service, tasks, queue, life, owner, updates, job, watch>>
      /\ restarter.at = "reading" /\ restarter'.at = "idle"
  BY DEF Release, Idle
<1>2. Waiting'
  BY <1>1 DEF Once, Waiting, Marked, Scheduled
<1>3. \A n \in Tasks : Unlisted(n) => Unlisted(n)'
  BY <1>1 DEF Unlisted
<1>. QED
  BY <1>1, <1>2, <1>3, HandsOnce

LEMMA DownloadDueOnce ==
  ASSUME IInv, Once, DownloadDue
  PROVE  Once'
<1>1. /\ UNCHANGED <<service, tasks, queue, life, owner, updates, job, watch>>
      /\ restarter.at = "starting" /\ restarter'.at = "dead"
  BY DEF DownloadDue, Dead
<1>2. restarter' = Dead /\ Dead.todo = <<>>
  BY DEF DownloadDue, Dead
<1>3. Waiting'
  BY <1>1, <1>2 DEF Once, Waiting, Marked, Scheduled
<1>4. \A n \in Tasks : Unlisted(n) => Unlisted(n)'
  BY <1>1, <1>2 DEF Unlisted
<1>. QED
  BY <1>1, <1>3, <1>4, HandsOnce

LEMMA StartDueOnce ==
  ASSUME IInv, Once, StartDue
  PROVE  Once'
<1>1. /\ UNCHANGED <<service, tasks, queue, unreported, updates, job, watch>>
      /\ restarter.at = "starting"
  BY DEF StartDue
<1>2. PICK todo, n, v : todo = restarter.todo /\ n = Head(todo) /\ v = restarter.version
  OBVIOUS
<1>3. n \in Tasks /\ Marked(n)
  BY <1>1, <1>2, AtWork DEF Once
<1>4. PICK r \in Runtimes \cup {Failure} :
        /\ StartTask(n, v, life, r)
        /\ restarter' = [at |-> "writing", todo |-> todo, runtime |-> r]
  BY <1>2 DEF StartDue
<1>5. restarter'.at = "writing" /\ restarter'.todo = todo /\ restarter'.runtime = r
  BY <1>4
<1>6. \A m \in Tasks : Scheduled(m) => Told(m)
  BY <1>1 DEF Once, Known, Writes
<1>7. Down(n)
  BY <1>3, <1>6 DEF Told, Marked
<1>8. /\ Lone'
      /\ \A m \in Tasks : m # n => (Down(m) => Down(m)')
      /\ \A m \in Tasks : m # n => \A x : Only(m, x) => Only(m, x)'
      /\ \/ r = Failure /\ Down(n)'
         \/ /\ r # Failure
            /\ \/ r.state = "running" /\ Only(n, r.pid)'
               \/ r.state = "preparing" /\ r.pid = NoPid
  BY <1>3, <1>4, <1>7, StartTaskLives DEF IInv, Once
<1>9. Known'
  <2>1. SUFFICES ASSUME NEW m \in Tasks, Scheduled(m)', ~Writes(m)'
                 PROVE  Told(m)'
    BY DEF Known
  <2>2. m # n
    BY <1>2, <1>5, <2>1 DEF Writes
  <2>3. tasks'[m] = tasks[m] /\ Told(m)
    BY <1>1, <1>6, <2>1 DEF Scheduled
  <2>. QED
    BY <1>3, <1>8, <2>2, <2>3, ToldOfOthers
<1>10. Returned'
  <2>1. PICK x : x = r.pid
    OBVIOUS
  <2>. QED
    BY <1>2, <1>5, <1>8, <2>1 DEF Returned, Down, Only, Live
<1>11. Waiting' /\ \A m \in Tasks : Unlisted(m) => Unlisted(m)'
  <2>1. restarter'.at # "idle" /\ restarter'.todo = todo
    BY <1>5
  <2>. QED
    BY <1>1, <1>2, <2>1 DEF Once, Waiting, Unlisted, Marked, Scheduled
<1>12. Copied'
  BY <1>1, <1>3, <1>8, <1>11, CopiedKept DEF Once, Seen, Marked, Scheduled
<1>13. Starts' /\ OneJob'
  BY <1>1, <1>3, <1>8, StartsKept DEF Once, Marked, Scheduled
<1>14. Before'
  BY <1>1, <1>3 DEF Once, Before, Marked
<1>. QED
  BY <1>8, <1>9, <1>10, <1>11, <1>12, <1>13, <1>14 DEF Once

LEMMA WriteDueOnce ==
  ASSUME IInv, Once, WriteDue
  PROVE  Once'
<1>1. /\ UNCHANGED <<service, queue, life, owner, unreported, updates, job, watch>>
      /\ restarter.at = "writing"
  BY DEF WriteDue
<1>2. PICK todo, n, r : todo = restarter.todo /\ n = Head(todo) /\ r = restarter.runtime
  OBVIOUS
<1>3. n \in Tasks /\ Marked(n) /\ Scheduled(n) /\ todo \in Seq(Tasks) /\ todo # <<>>
  BY <1>1, <1>2, AtWork DEF Once, Marked
<1>4. r \in Runtimes \cup {Failure}
  <2>1. restarter \in Writing
    BY <1>1, RestarterTypes DEF IInv
  <2>. QED
    BY <1>2, <2>1 DEF Writing
<1>5. \/ r = Failure /\ Down(n)
      \/ /\ r # Failure
         /\ \/ r.state = "running" /\ Only(n, r.pid)
            \/ r.state = "preparing" /\ r.pid = NoPid
  BY <1>1, <1>2 DEF Once, Returned
<1>6. PICK e \in Entries :
        /\ tasks' = [tasks EXCEPT ![n] = e]
        /\ \/ r = Failure /\ e.state = "failed"
           \/ r # Failure /\ e.state = r.state /\ e.pid = r.pid
  <2>1. tasks[n] \in Entries
    BY <1>3, EntryTypes DEF IInv
  <2>2. CASE r = Failure
    <3>1. PICK e : e = [tasks[n] EXCEPT !.state = "failed"]
      OBVIOUS
    <3>2. e \in Entries /\ e.state = "failed"
      BY <2>1, <3>1 DEF Entries, States
    <3>3. tasks' = [tasks EXCEPT ![n] = e]
      BY <1>2, <1>3, <2>2, <3>1 DEF WriteDue
    <3>. QED
      BY <2>2, <3>2, <3>3
  <2>3. CASE r # Failure
    <3>1. PICK e : e = WithRuntime(tasks[n], r)
      OBVIOUS
    <3>2. e \in Entries /\ e.state = r.state /\ e.pid = r.pid
      BY <1>4, <2>1, <2>3, <3>1 DEF WithRuntime, Entries, Runtimes
    <3>3. tasks' = [tasks EXCEPT ![n] = e]
      BY <1>2, <1>3, <2>3, <3>1 DEF WriteDue
    <3>. QED
      BY <2>3, <3>2, <3>3
  <2>. QED
    BY <2>2, <2>3
<1>7. /\ tasks'[n] = e /\ e # NoTask
      /\ \A m \in Tasks : m # n => tasks'[m] = tasks[m]
  BY <1>3, <1>6, Rewritten, MonitorAssumption DEF IInv
<1>8. PICK rest : rest = Tail(todo)
  OBVIOUS
<1>9. restarter'.at = "reading" /\ restarter'.todo = rest
  BY <1>2, <1>8 DEF WriteDue
<1>10. Quiet
  BY <1>1, SameIsQuiet
<1>11. Lone' /\ \A m \in Tasks : Down(m) => Down(m)'
  BY <1>10, QuietKeeps DEF Once
<1>12. Told(n)'
  <2>1. PICK x : x = e.pid
    OBVIOUS
  <2>2. (Down(n) => Down(n)') /\ (Only(n, x) => Only(n, x)')
    BY <1>3, <1>10, QuietKeeps
  <2>. QED
    BY <1>5, <1>6, <1>7, <2>1, <2>2 DEF Told, Only, Down, Live
<1>13. Known'
  <2>1. SUFFICES ASSUME NEW m \in Tasks, Scheduled(m)', m # n PROVE Told(m)'
    BY <1>12 DEF Known
  <2>2. tasks'[m] = tasks[m] /\ Scheduled(m) /\ ~Writes(m)
    BY <1>2, <1>7, <2>1 DEF Scheduled, Writes
  <2>3. Told(m)
    BY <2>2 DEF Once, Known
  <2>. QED
    BY <1>10, <2>2, <2>3, ToldKept
<1>14. /\ Distinct(todo) /\ Distinct(queue) /\ Apart(queue, todo)
       /\ \A i \in DOMAIN todo : Marked(todo[i]) /\ todo[i] \in Tasks
       /\ \A i \in DOMAIN queue : Marked(queue[i]) /\ queue[i] \in Tasks
  BY <1>1, <1>2, <1>3 DEF Once, Waiting, Distinct, Apart, IInv, Queued
<1>15. Distinct(rest) /\ PartOf(rest, todo) /\ \A i \in DOMAIN rest : rest[i] # n
  BY <1>2, <1>3, <1>8, <1>14, RestOnce, Zenon
<1>16. \A i \in DOMAIN queue : queue[i] # n
  <2>1. 1 \in DOMAIN todo /\ n = todo[1]
    BY <1>2, <1>3
  <2>. QED
    BY <1>14, <2>1 DEF Apart
<1>17. \A m \in Tasks : m # n /\ Marked(m) => Marked(m)'
  BY <1>7 DEF Marked, Scheduled
<1>18. Waiting'
  <2>1. ASSUME NEW i \in DOMAIN rest PROVE Marked(rest[i])'
    <3>1. PICK m : m = rest[i]
      OBVIOUS
    <3>2. m \in Tasks /\ Marked(m) /\ m # n
      BY <1>14, <1>15, <3>1 DEF PartOf
    <3>. QED
      BY <1>17, <3>1, <3>2
  <2>2. \A i \in DOMAIN queue : Marked(queue[i])'
    BY <1>1, <1>14, <1>16, <1>17 DEF Marked, Scheduled
  <2>3. Apart(queue, rest)
    BY <1>14, <1>15 DEF PartOf, Apart
  <2>. QED
    BY <1>1, <1>9, <1>14, <1>15, <2>1, <2>2, <2>3
    DEF Waiting, Distinct, Apart, Marked, Scheduled
<1>19. \A m \in Tasks : Unlisted(m) => m # n /\ Unlisted(m)'
  <2>1. 1 \in DOMAIN todo /\ n = todo[1]
    BY <1>2, <1>3
  <2>. QED
    BY <1>1, <1>2, <1>9, <1>15, <2>1 DEF Unlisted, PartOf
<1>20. Copied'
  <2>1. \A m \in Tasks : Seen(m) => tasks'[m] = tasks[m] /\ (Down(m) => Down(m)')
    BY <1>3, <1>7, <1>11 DEF Seen, Marked
  <2>2. \A m \in Tasks : Marked(m) /\ Unlisted(m) => Marked(m)' /\ Unlisted(m)'
    BY <1>17, <1>19
  <2>. QED
    BY <1>1, <2>1, <2>2, CopiedKept DEF Once
<1>21. Starts' /\ OneJob'
  <2>1. \A m \in Tasks : ~Scheduled(m) => ~Scheduled(m)'
    BY <1>3, <1>7 DEF Scheduled
  <2>2. \A m \in Tasks : Scheduled(m) /\ tasks[m].pid = NoPid /\ tasks[m].state = "unknown"
                           => tasks'[m] = tasks[m]
    BY <1>3, <1>7 DEF Marked
  <2>. QED
    BY <1>1, <1>11, <2>1, <2>2, StartsKept DEF Once
<1>22. Returned' /\ Before'
  BY <1>1, <1>3, <1>9 DEF Returned, Once, Before
<1>. QED
  BY <1>11, <1>13, <1>18, <1>20, <1>21, <1>22 DEF Once

-----------------------------------------------------------------------------
(* One process until there is a second update *)

LEMMA InitOnce == Init => Once
<1>. SUFFICES ASSUME Init PROVE Once
  OBVIOUS
<1>1. \A p \in Pids : ~Live(p)
  BY DEF Init, Live
<1>2. \A n \in Tasks : service[n] = NoTask /\ ~Scheduled(n) /\ Down(n)
  BY <1>1 DEF Init, Scheduled, Down
<1>3. Lone /\ Known
  BY <1>1, <1>2 DEF Lone, Known
<1>4. /\ restarter.at = "idle" /\ watch.at = "idle" /\ queue = <<>>
      /\ \A c \in Callers : job[c].at = "idle"
  BY DEF Init, Idle
<1>5. Returned /\ Waiting /\ Copied /\ Starts /\ OneJob
  BY <1>4 DEF Returned, Waiting, Copied, Starts, OneJob
<1>6. Before
  BY <1>2, <1>4 DEF Before
<1>. QED
  BY <1>3, <1>5, <1>6 DEF Once

LEMMA NextOnce ==
  ASSUME IInv, updates <= 1 => Once, [Next]_vars, updates' <= 1
  PROVE  Once'
<1>1. ASSUME NEW c \in Callers, NEW names \in SUBSET Tasks \ {{}}, NEW spec \in Specs,
             NEW down \in BOOLEAN, Request(c, names, spec, down)
      PROVE  Once'
  <2>1. updates = 0
    BY <1>1 DEF Request, IInv
  <2>. QED
    BY <1>1, <2>1, RequestOnce
<1>2. ASSUME NEW c \in Callers, Execute(c) PROVE Once'
  <2>1. Once
    BY <1>2 DEF Execute, Prepare, Stop, Restart, Report, CleanUp
  <2>2. ASSUME NEW n \in Tasks, Prepare(c, n) \/ Stop(c, n) PROVE Once'
    BY <2>1, <2>2, PrepareOnce, StopNever
  <2>3. CASE Restart(c) \/ Report(c) \/ CleanUp(c)
    BY <2>1, <2>3, RestartOnce, ReportOnce
  <2>. QED
    BY <1>2, <2>2, <2>3 DEF Execute
<1>3. CASE Watch
  <2>1. Once
    BY <1>3 DEF Watch, Copy, Probe, Mark, QueueRestart, QueuePoisoned, ReportWatched,
       CleanUpWatched, Apply
  <2>2. CASE \/ Copy \/ Probe \/ Mark \/ QueueRestart \/ QueuePoisoned
             \/ ReportWatched \/ CleanUpWatched
    BY <2>1, <2>2, CopyOnce, ProbeOnce, MarkOnce, QueueRestartOnce, QueuePoisonedOnce,
       ReportWatchedOnce, CleanUpWatchedOnce
  <2>3. ASSUME NEW n \in Tasks, Apply(n) PROVE Once'
    BY <2>1, <2>3, ApplyOnce
  <2>. QED
    BY <1>3, <2>2, <2>3 DEF Watch
<1>4. CASE RestartLoop
  <2>1. Once
    BY <1>4 DEF RestartLoop, TakeDue, ReadDue, DownloadDue, StartDue, WriteDue, Release
  <2>2. ASSUME NEW k \in 1 .. Len(queue), TakeDue(k) PROVE Once'
    BY <2>1, <2>2, TakeDueOnce
  <2>3. CASE ReadDue \/ DownloadDue \/ StartDue \/ WriteDue \/ Release
    BY <2>1, <2>3, ReadDueOnce, DownloadDueOnce, StartDueOnce, WriteDueOnce, ReleaseOnce
  <2>. QED
    BY <1>4, <2>2, <2>3 DEF RestartLoop
<1>5. ASSUME NEW p \in Pids, Exit(p) \/ Download(p) PROVE Once'
  <2>1. Once
    BY <1>5 DEF Exit, Download, DownloadSucceeds, DownloadReports, DownloadFails
  <2>. QED
    BY <1>5, <2>1, ExitOnce, DownloadOnce
<1>6. CASE UNCHANGED vars
  <2>1. Once
    BY <1>6 DEF vars
  <2>. QED
    BY <1>6, <2>1, StutterOnce
<1>. QED
  BY <1>1, <1>2, <1>3, <1>4, <1>5, <1>6 DEF Next

\* Until there is a second update, no task ever has two processes that run and
\* were not told to stop, whatever ends, is downloaded, is restarted and fails:
\* restart_loop starts a task only while nothing of it lives, because the monitor
\* marks only tasks whose process it found ended, each waits for its restart once,
\* and what execute() starts was never started before.
THEOREM OneProcessUntilUpdated == Spec => [](updates <= 1 => OneLiveProcess)
<1>. DEFINE OnceInv == updates <= 1 => Once
<1>1. Init => OnceInv
  BY InitOnce
<1>2. IInv /\ OnceInv /\ [Next]_vars => OnceInv'
  BY NextOnce
<1>3. OnceInv => (updates <= 1 => OneLiveProcess)
  BY DEF Once, Lone, Live, OneLiveProcess
<1>. QED
  BY <1>1, <1>2, <1>3, MonitorInvariance, PTL DEF Spec

-----------------------------------------------------------------------------
(* One update: the restart modes *)

Ends == Supervised!Ends

\* After the end of this process the mode of the task asks for another one.
Spent(n, p) == Supervised!Renewed(tasks[n].mode, life[p])
AllSpent(n) == \A p \in Pids : owner[p] = n => Spent(n, p)
OthersSpent(n, x) == \A p \in Pids : owner[p] = n /\ p # x => Spent(n, p)

Untouched(n) == \A p \in Pids : owner[p] # n

\* A process of the task that runs or ran.
Own(n, p) == p \in Pids /\ owner[p] = n /\ life[p] \in {"alive"} \cup Ends

\* The table of the monitor names a process of the task, or none.
Named == \A n \in Tasks : Scheduled(n) /\ tasks[n].pid # NoPid => Own(n, tasks[n].pid)

\* The processes before the one it names are spent, that of a marked task is, too.
Renewals ==
    \A n \in Tasks : Scheduled(n) /\ ~Writes(n) =>
        /\ Marked(n) => AllSpent(n)
        /\ tasks[n].state # "preparing" => OthersSpent(n, tasks[n].pid)

\* So are those before the one the restart thread has still to write back.
HandedOver ==
    restarter.at = "writing" =>
        LET n == Head(restarter.todo)
            r == restarter.runtime
        IN  /\ r = Failure => AllSpent(n)
            /\ r # Failure /\ r.state = "running" =>
                 Own(n, r.pid) /\ OthersSpent(n, r.pid)

\* What a round of the monitor reports and does not have restarted has ended
\* and is done; what it marks is spent.
Judged ==
    /\ watch.at \in {"applying", "marking", "queueing"} =>
         \A n \in DOMAIN watch.report : watch.report[n].state # "restarting" =>
            /\ watch.report[n].pid = tasks[n].pid
            /\ life[tasks[n].pid] \in Ends
            /\ watch.report[n].state = ProbedState(tasks[n].pid)
            /\ \/ n \in watch.todo
               \/ watch.at = "marking" /\ n = watch.task
               \/ ~Restarts(tasks[n].mode, watch.report[n].state)
    /\ watch.at = "marking" =>
         Restarts(tasks[watch.task].mode, watch.report[watch.task].state)
    /\ watch.at = "cleaning" =>
         \A n \in watch.todo : Supervised!Finished(tasks[n].mode, life[tasks[n].pid])

\* What the one request has still to start has no process at all.
Begun ==
    /\ updates = 0 => \A n \in Tasks : Untouched(n)
    /\ \A c \in Callers : job[c].at # "idle" =>
         /\ \A n \in job[c].added : Untouched(n)
         /\ job[c].at = "starting" => Untouched(job[c].task)

Policy == Named /\ Renewals /\ HandedOver /\ Judged /\ Begun

-----------------------------------------------------------------------------
(* One update: what processes were is kept *)

\* A process keeps its task and its end, and comes to one of these ends.
Ages ==
    /\ \A p \in Pids : owner[p] # NoTask => owner'[p] = owner[p]
    /\ \A p \in Pids : life[p] \in Ends => life'[p] = life[p]
    /\ \A p \in Pids : life[p] = "alive" => life'[p] \in {"alive"} \cup Ends

NoneStarted(n) == \A p \in Pids : owner'[p] = n => owner[p] = n

LEMMA SameAges ==
  ASSUME UNCHANGED <<life, owner>>
  PROVE  Ages /\ \A n \in Tasks : NoneStarted(n)
BY DEF Ages, NoneStarted

LEMMA OwnKept ==
  ASSUME Ages, NEW n \in Tasks, NEW p, Own(n, p)
  PROVE  Own(n, p)'
BY MonitorAssumption DEF Ages, Own, Ends, Supervised!Ends

LEMMA SpentKept ==
  ASSUME Ages, NEW n \in Tasks, NoneStarted(n), tasks'[n].mode = tasks[n].mode
  PROVE  /\ AllSpent(n) => AllSpent(n)'
         /\ \A x : OthersSpent(n, x) => OthersSpent(n, x)'
<1>1. \A p \in Pids : Spent(n, p) => Spent(n, p)'
  BY DEF Ages, Spent, Ends, Supervised!Renewed, Supervised!Ends
<1>. QED
  BY <1>1 DEF AllSpent, OthersSpent, NoneStarted

LEMMA UntouchedKept ==
  ASSUME NEW n \in Tasks, NoneStarted(n), Untouched(n)
  PROVE  Untouched(n)'
BY DEF NoneStarted, Untouched

\* Entries keep the process they name, or name one of the task.
LEMMA NamedKept ==
  ASSUME Named, Ages,
         \A n \in Tasks : Scheduled(n)' /\ tasks'[n].pid # NoPid =>
            \/ Scheduled(n) /\ tasks'[n].pid = tasks[n].pid
            \/ Own(n, tasks[n].pid)'
  PROVE  Named'
<1>. SUFFICES ASSUME NEW n \in Tasks, Scheduled(n)', tasks'[n].pid # NoPid
              PROVE  Own(n, tasks[n].pid)'
  BY DEF Named
<1>1. PICK p : p = tasks'[n].pid
  OBVIOUS
<1>2. Own(n, p)'
  <2>1. CASE Scheduled(n) /\ tasks'[n].pid = tasks[n].pid
    <3>1. Own(n, p)
      BY <1>1, <2>1 DEF Named
    <3>. QED
      BY <3>1, OwnKept
  <2>2. CASE Own(n, tasks[n].pid)'
    BY <1>1, <2>2 DEF Own
  <2>. QED
    BY <2>1, <2>2
<1>. QED
  BY <1>1, <1>2 DEF Own

RenewalsOf(n) ==
    /\ Marked(n) => AllSpent(n)
    /\ tasks[n].state # "preparing" => OthersSpent(n, tasks[n].pid)

LEMMA RenewalsKept ==
  ASSUME Renewals, Ages,
         \A n \in Tasks : Scheduled(n)' /\ ~Writes(n)' =>
            \/ tasks'[n] = tasks[n] /\ ~Writes(n) /\ NoneStarted(n)
            \/ RenewalsOf(n)'
  PROVE  Renewals'
<1>. SUFFICES ASSUME NEW n \in Tasks, Scheduled(n)', ~Writes(n)'
              PROVE  RenewalsOf(n)'
  BY DEF Renewals, RenewalsOf
<1>1. ASSUME tasks'[n] = tasks[n], ~Writes(n), NoneStarted(n)
      PROVE  RenewalsOf(n)'
  <2>1. RenewalsOf(n)
    BY <1>1 DEF Renewals, RenewalsOf, Scheduled
  <2>2. PICK x : x = tasks[n].pid
    OBVIOUS
  <2>3. (AllSpent(n) => AllSpent(n)') /\ (OthersSpent(n, x) => OthersSpent(n, x)')
    BY <1>1, SpentKept
  <2>. QED
    BY <1>1, <2>1, <2>2, <2>3 DEF RenewalsOf, Marked, Scheduled, OthersSpent, Spent
<1>. QED
  BY <1>1

\* What the restart thread has still to write back stays as it is while it does
\* nothing and its task is left alone.
LEMMA HandedKept ==
  ASSUME IInv, Once, HandedOver, Ages, UNCHANGED restarter,
         \A n \in Tasks : Marked(n) => tasks'[n] = tasks[n] /\ NoneStarted(n)
  PROVE  HandedOver'
<1>. SUFFICES ASSUME restarter.at = "writing" PROVE HandedOver'
  BY DEF HandedOver
<1>1. PICK n, r, x : n = Head(restarter.todo) /\ r = restarter.runtime /\ x = r.pid
  OBVIOUS
<1>2. n \in Tasks /\ tasks'[n] = tasks[n] /\ NoneStarted(n)
  BY <1>1, AtWork DEF Once
<1>3. /\ AllSpent(n) => AllSpent(n)'
      /\ OthersSpent(n, x) => OthersSpent(n, x)'
      /\ Own(n, x) => Own(n, x)'
  BY <1>2, SpentKept, OwnKept
<1>4. /\ r = Failure => AllSpent(n)
      /\ r # Failure /\ r.state = "running" => Own(n, x) /\ OthersSpent(n, x)
  BY <1>1 DEF HandedOver
<1>5. restarter'.runtime = r /\ Head(restarter'.todo) = n
  BY <1>1
<1>. QED
  BY <1>1, <1>3, <1>4, <1>5 DEF HandedOver, AllSpent, OthersSpent, Own, Spent

\* What a round has judged stays true while it does nothing and the tasks it
\* has seen are left alone.
LEMMA JudgedKept ==
  ASSUME IInv, Once, Judged, Named, Ages, UNCHANGED watch,
         \A n \in Tasks : Seen(n) => tasks'[n] = tasks[n]
  PROVE  Judged'
<1>1. watch' = watch
  OBVIOUS
<1>2. ASSUME NEW n \in Tasks, life[tasks[n].pid] \in Ends, Seen(n)
      PROVE  /\ life'[tasks[n].pid] = life[tasks[n].pid]
             /\ ProbedState(tasks[n].pid)' = ProbedState(tasks[n].pid)
             /\ tasks'[n] = tasks[n]
  <2>1. PICK p : p = tasks[n].pid
    OBVIOUS
  <2>2. tasks'[n] = tasks[n]
    BY <1>2
  <2>3. p \in Pids
    BY <1>2, <2>1 DEF Named, Own, Seen
  <2>4. life'[p] = life[p]
    BY <1>2, <2>1, <2>3 DEF Ages
  <2>5. ProbedState(p)' = ProbedState(p)
    BY <2>4 DEF ProbedState, Alive
  <2>. QED
    BY <2>1, <2>2, <2>4, <2>5 DEF ProbedState, Alive
<1>3. CASE watch.at \in {"applying", "marking", "queueing"}
  <2>1. PICK report : report = watch.report
    OBVIOUS
  <2>2. DOMAIN report \subseteq Tasks
    BY <1>3, <2>1, RoundOnce
  <2>3. ASSUME NEW n \in DOMAIN report, report[n].state # "restarting"
        PROVE  /\ report[n].pid = tasks'[n].pid
               /\ life'[tasks'[n].pid] \in Ends
               /\ report[n].state = ProbedState(tasks[n].pid)'
               /\ \/ n \in watch.todo
                  \/ watch.at = "marking" /\ n = watch.task
                  \/ ~Restarts(tasks'[n].mode, report[n].state)
    <3>1. n \in Tasks /\ Seen(n)
      BY <1>3, <2>1, <2>2, <2>3, RoundOnce
    <3>2. /\ report[n].pid = tasks[n].pid
          /\ life[tasks[n].pid] \in Ends
          /\ report[n].state = ProbedState(tasks[n].pid)
          /\ \/ n \in watch.todo
             \/ watch.at = "marking" /\ n = watch.task
             \/ ~Restarts(tasks[n].mode, report[n].state)
      BY <1>3, <2>1, <2>3 DEF Judged
    <3>3. /\ life'[tasks[n].pid] = life[tasks[n].pid]
          /\ ProbedState(tasks[n].pid)' = ProbedState(tasks[n].pid)
          /\ tasks'[n] = tasks[n]
      BY <1>2, <3>1, <3>2
    <3>. QED
      BY <3>2, <3>3
  <2>4. watch.at = "marking" => Restarts(tasks'[watch.task].mode, report[watch.task].state)
    <3>. SUFFICES ASSUME watch.at = "marking"
                  PROVE  Restarts(tasks'[watch.task].mode, report[watch.task].state)
      OBVIOUS
    <3>1. watch.task \in DOMAIN report /\ report[watch.task].state # "restarting"
      BY <1>3, <2>1, RoundOnce
    <3>2. watch.task \in Tasks /\ Seen(watch.task)
      BY <1>3, <2>1, <2>2, <3>1, RoundOnce
    <3>. QED
      BY <2>1, <3>2 DEF Judged
  <2>. QED
    BY <1>1, <1>3, <2>1, <2>3, <2>4 DEF Judged
<1>4. CASE watch.at = "cleaning"
  <2>1. \A n \in watch.todo : n \in Tasks /\ Seen(n)
    BY <1>4, WatchTypes DEF IInv, Cleaning, Once, Copied
  <2>2. ASSUME NEW n \in watch.todo
        PROVE  Supervised!Finished(tasks'[n].mode, life'[tasks'[n].pid])
    <3>1. Supervised!Finished(tasks[n].mode, life[tasks[n].pid])
      BY <1>4 DEF Judged
    <3>2. life[tasks[n].pid] \in Ends
      BY <3>1 DEF Supervised!Finished, Ends
    <3>3. life'[tasks[n].pid] = life[tasks[n].pid] /\ tasks'[n] = tasks[n]
      BY <1>2, <2>1, <3>2
    <3>. QED
      BY <3>1, <3>3
  <2>. QED
    BY <1>1, <1>4, <2>2 DEF Judged
<1>5. CASE watch.at \notin {"applying", "marking", "queueing", "cleaning"}
  BY <1>1, <1>5 DEF Judged
<1>. QED
  BY <1>3, <1>4, <1>5

\* Nothing is started for a task that the callers have still to start.
LEMMA BegunKept ==
  ASSUME IInv, Once, Begun, UNCHANGED <<updates, job>>,
         \A n \in Tasks : (~Scheduled(n) \/ tasks[n].state = "unknown") => NoneStarted(n)
  PROVE  Begun'
<1>1. updates' = updates /\ job' = job
  OBVIOUS
<1>2. updates = 0 => \A n \in Tasks : Untouched(n)'
  <2>1. SUFFICES ASSUME updates = 0, NEW n \in Tasks PROVE Untouched(n)'
    OBVIOUS
  <2>2. ~Scheduled(n) /\ Untouched(n)
    BY <2>1 DEF Once, Before, Begun
  <2>. QED
    BY <2>2, UntouchedKept
<1>3. ASSUME NEW c \in Callers, job[c].at # "idle", NEW n \in job[c].added
      PROVE  Untouched(n)'
  <2>1. n \in Tasks
    BY <1>3, JobTypes DEF IInv, Jobs
  <2>2. ~Scheduled(n) /\ Untouched(n)
    BY <1>3 DEF Once, Starts, Begun
  <2>. QED
    BY <2>1, <2>2, UntouchedKept
<1>4. ASSUME NEW c \in Callers, job[c].at = "starting"
      PROVE  Untouched(job[c].task)'
  <2>1. PICK n : n = job[c].task
    OBVIOUS
  <2>2. n \in Tasks
    BY <1>4, <2>1, JobTypes DEF IInv, Executing, Jobs
  <2>3. tasks[n].state = "unknown" /\ Untouched(n)
    BY <1>4, <2>1 DEF Once, Starts, Begun
  <2>4. Untouched(n)'
    BY <2>2, <2>3, UntouchedKept
  <2>. QED
    BY <1>1, <2>1, <2>4 DEF Untouched
<1>. QED
  BY <1>1, <1>2, <1>3, <1>4 DEF Begun, Untouched

-----------------------------------------------------------------------------
(* One update: each step keeps to the restart modes *)

\* Nothing changes but processes that come to life after a download, or end.
LEMMA LivesPolicy ==
  ASSUME IInv, Once, Policy, Ages, \A n \in Tasks : NoneStarted(n),
         UNCHANGED <<tasks, updates, job, watch, restarter>>
  PROVE  Policy'
<1>1. Named'
  BY NamedKept DEF Policy, Scheduled
<1>2. Renewals'
  BY RenewalsKept DEF Policy, Writes
<1>3. HandedOver' /\ Judged' /\ Begun'
  BY HandedKept, JudgedKept, BegunKept DEF Policy
<1>. QED
  BY <1>1, <1>2, <1>3 DEF Policy

LEMMA ExitPolicy ==
  ASSUME IInv, Once, Policy, NEW p \in Pids, Exit(p)
  PROVE  Policy'
<1>1. UNCHANGED <<tasks, owner, updates, job, watch, restarter>> /\ Alive(p)
  BY DEF Exit
<1>2. PICK e \in Exits \cup {"killed"} : life' = [life EXCEPT ![p] = e]
  BY DEF Exit
<1>3. e \in Ends
  BY <1>2, MonitorAssumption DEF Ends, Supervised!Ends
<1>4. life'[p] = e /\ \A q \in Pids : q # p => life'[q] = life[q]
  BY <1>2 DEF IInv, Processes
<1>5. Ages /\ \A n \in Tasks : NoneStarted(n)
  BY <1>1, <1>3, <1>4 DEF Ages, NoneStarted, Alive, Ends, Supervised!Ends
<1>. QED
  BY <1>1, <1>5, LivesPolicy

LEMMA DownloadPolicy ==
  ASSUME IInv, Once, Policy, NEW p \in Pids, Download(p)
  PROVE  Policy'
<1>1. UNCHANGED <<tasks, owner, updates, job, watch, restarter>>
  BY DEF Download, DownloadSucceeds, DownloadReports, DownloadFails
<1>2. \/ life' = life
      \/ /\ life[p] = "downloading"
         /\ \A q \in Pids : q # p => life'[q] = life[q]
  BY DEF Download, DownloadSucceeds, DownloadReports, DownloadFails, IInv, Processes
<1>3. Ages /\ \A n \in Tasks : NoneStarted(n)
  BY <1>1, <1>2 DEF Ages, NoneStarted, Ends, Supervised!Ends
<1>. QED
  BY <1>1, <1>3, LivesPolicy

LEMMA RequestPolicy ==
  ASSUME IInv, Once, Policy, updates = 0, NEW c \in Callers, NEW names \in SUBSET Tasks,
         NEW spec \in Specs, NEW down \in BOOLEAN, Request(c, names, spec, down)
  PROVE  Policy'
<1>1. /\ UNCHANGED <<tasks, life, owner, watch, restarter>>
      /\ updates' = 1
  BY DEF Request
<1>2. Ages /\ \A n \in Tasks : NoneStarted(n)
  BY <1>1, SameAges
<1>3. Named'
  BY <1>1, <1>2, NamedKept DEF Policy, Scheduled
<1>4. Renewals'
  BY <1>1, <1>2, RenewalsKept DEF Policy, Writes
<1>5. HandedOver' /\ Judged'
  BY <1>1, <1>2, HandedKept, JudgedKept DEF Policy
<1>6. \A d \in Callers : job[d].at = "idle"
  BY DEF Once, Before
<1>7. PICK j : j.at = "executing" /\ j.added \subseteq Tasks /\ job' = [job EXCEPT ![c] = j]
  <2>1. PICK existing, modified, added :
          /\ existing = {n \in names : service[n] # NoTask}
          /\ modified = {n \in existing : Differs(n, spec)}
          /\ added = IF down THEN {} ELSE modified \cup (names \ existing)
    OBVIOUS
  <2>2. PICK j :
          /\ j = [at |-> "executing", spec |-> spec, added |-> added,
                  removed |-> IF down THEN existing ELSE {},
                  task |-> NoTask, results |-> [n \in {} |-> Fresh]]
          /\ job' = [job EXCEPT ![c] = j]
    BY <2>1 DEF Request
  <2>3. added \subseteq Tasks
    BY <2>1
  <2>. QED
    BY <2>2, <2>3
<1>8. job'[c] = j /\ \A d \in Callers : d # c => job'[d].at = "idle"
  BY <1>6, <1>7 DEF IInv, Executing
<1>9. \A n \in Tasks : Untouched(n)'
  BY <1>2, UntouchedKept DEF Policy, Begun
<1>10. Begun'
  BY <1>1, <1>7, <1>8, <1>9 DEF Begun, Untouched
<1>. QED
  BY <1>3, <1>4, <1>5, <1>10 DEF Policy

LEMMA PreparePolicy ==
  ASSUME IInv, Once, Policy, NEW c \in Callers, NEW n \in Tasks, Prepare(c, n)
  PROVE  Policy'
<1>1. /\ UNCHANGED <<life, owner, updates, watch, restarter>>
      /\ job[c].at = "executing" /\ n \in job[c].added
  BY DEF Prepare
<1>2. job[c] \in Jobs
  BY <1>1, JobTypes DEF IInv
<1>3. ~Scheduled(n) /\ Untouched(n)
  BY <1>1 DEF Once, Starts, Policy, Begun
<1>4. /\ updates # 0 /\ \A d \in Callers : d # c => job[d].at = "idle"
  BY <1>1, Working DEF Policy
<1>5. PICK e : /\ e = [version |-> job[c].spec.version, mode |-> job[c].spec.mode,
                       pid |-> NoPid, state |-> "unknown"]
               /\ tasks' = [tasks EXCEPT ![n] = e]
  BY <1>3 DEF Prepare, Fresh
<1>6. e \in Entries
  BY <1>2, <1>5 DEF Entries, Jobs, Specs, States
<1>7. /\ tasks'[n] = e /\ e.pid = NoPid /\ e.state = "unknown"
      /\ \A m \in Tasks : m # n => tasks'[m] = tasks[m]
  BY <1>5, <1>6, Rewritten DEF IInv
<1>8. Ages /\ \A m \in Tasks : NoneStarted(m)
  BY <1>1, SameAges
<1>9. Named'
  BY <1>7, <1>8, NamedKept DEF Policy, Scheduled
<1>10. Untouched(n)'
  BY <1>3, <1>8, UntouchedKept
<1>11. RenewalsOf(n)'
  BY <1>7, <1>10 DEF RenewalsOf, Marked, AllSpent, OthersSpent, Untouched
<1>12. Renewals'
  BY <1>1, <1>7, <1>8, <1>11, RenewalsKept DEF Policy, Writes
<1>13. HandedOver' /\ Judged'
  BY <1>1, <1>3, <1>7, <1>8, HandedKept, JudgedKept DEF Policy, Marked, Seen
<1>14. /\ job'[c].at = "starting" /\ job'[c].task = n /\ job'[c].added \subseteq job[c].added
       /\ \A d \in Callers : d # c => job'[d].at = "idle"
  <2>1. PICK j : /\ j = [job[c] EXCEPT !.at = "starting", !.task = n, !.added = job[c].added \ {n}]
                 /\ job' = [job EXCEPT ![c] = j]
    BY DEF Prepare
  <2>2. j.at = "starting" /\ j.task = n /\ j.added = job[c].added \ {n}
    BY <1>2, <2>1 DEF Jobs
  <2>3. job'[c] = j /\ \A d \in Callers : d # c => job'[d] = job[d]
    BY <2>1 DEF IInv, Executing
  <2>. QED
    BY <1>4, <2>2, <2>3
<1>15. \A m \in job[c].added : Untouched(m)'
  <2>1. \A m \in job[c].added : m \in Tasks /\ Untouched(m)
    BY <1>1, <1>2 DEF Policy, Begun, Jobs
  <2>. QED
    BY <1>8, <2>1, UntouchedKept
<1>16. Begun'
  BY <1>1, <1>4, <1>10, <1>14, <1>15 DEF Begun, Untouched
<1>. QED
  BY <1>9, <1>12, <1>13, <1>16 DEF Policy

\* What start_task does for a task, and to no other.
LEMMA StartTaskStarts ==
  ASSUME Processes, NEW n \in Tasks, NEW v, NEW r, StartTask(n, v, life, r)
  PROVE  /\ Ages /\ \A m \in Tasks : m # n => NoneStarted(m)
         /\ \/ r = Failure /\ UNCHANGED <<life, owner>>
            \/ \E p \in Pids :
                 /\ r # Failure
                 /\ life[p] = "free" /\ owner[p] = NoTask
                 /\ owner' = [owner EXCEPT ![p] = n]
                 /\ \/ r.pid = p /\ r.state = "running" /\ life' = [life EXCEPT ![p] = "alive"]
                    \/ /\ r.pid = NoPid /\ r.state = "preparing"
                       /\ life' = [life EXCEPT ![p] = "downloading"]
<1>1. CASE r = Failure /\ life' = life /\ UNCHANGED owner
  BY <1>1, SameAges
<1>2. CASE ~(r = Failure /\ life' = life /\ UNCHANGED owner)
  <2>1. PICK p : p = CHOOSE q \in Free : TRUE
    OBVIOUS
  <2>2. Free # {} /\ p \in Free
    BY <1>2, <2>1 DEF StartTask, Preparing
  <2>3. p \in Pids /\ life[p] = "free" /\ owner[p] = NoTask
    BY <2>2 DEF Free, Processes
  <2>4. \/ r = [pid |-> p, state |-> "running"] /\ Launch(n, p, "alive", life)
        \/ r = [pid |-> NoPid, state |-> "preparing"] /\ Launch(n, p, "downloading", life)
    BY <1>2, <2>1 DEF StartTask, Preparing
  <2>5. r # Failure
    BY <2>3, <2>4, MonitorAssumption DEF Runtimes, States
  <2>6. \/ r.pid = p /\ r.state = "running" /\ life' = [life EXCEPT ![p] = "alive"]
        \/ /\ r.pid = NoPid /\ r.state = "preparing"
           /\ life' = [life EXCEPT ![p] = "downloading"]
    BY <2>4 DEF Launch
  <2>7. owner' = [owner EXCEPT ![p] = n]
    BY <2>4 DEF Launch
  <2>8. \A q \in Pids : q # p => owner'[q] = owner[q] /\ life'[q] = life[q]
    BY <2>3, <2>6, <2>7 DEF Processes
  <2>9. owner'[p] = n
    BY <2>3, <2>7 DEF Processes
  <2>10. Ages /\ \A m \in Tasks : m # n => NoneStarted(m)
    BY <2>3, <2>8, <2>9 DEF Ages, NoneStarted, Ends, Supervised!Ends
  <2>. QED
    BY <2>3, <2>5, <2>6, <2>7, <2>10
<1>. QED
  BY <1>1, <1>2

\* A task all of whose processes are spent is started.
LEMMA StartedOf ==
  ASSUME Processes, NEW n \in Tasks, NEW v, NEW r, StartTask(n, v, life, r), AllSpent(n),
         tasks'[n].mode = tasks[n].mode
  PROVE  /\ r = Failure => AllSpent(n)'
         /\ r # Failure /\ r.state = "running" => Own(n, r.pid)' /\ OthersSpent(n, r.pid)'
<1>1. Ages
  BY StartTaskStarts
<1>2. CASE r = Failure
  BY <1>1, <1>2, StartTaskStarts, SameAges, SpentKept
<1>3. CASE r # Failure /\ r.state = "running"
  <2>1. PICK p \in Pids : /\ life[p] = "free"
                          /\ owner' = [owner EXCEPT ![p] = n]
                          /\ r.pid = p /\ life' = [life EXCEPT ![p] = "alive"]
    BY <1>3, StartTaskStarts
  <2>2. /\ owner'[p] = n /\ life'[p] = "alive"
        /\ \A q \in Pids : q # p => owner'[q] = owner[q] /\ life'[q] = life[q]
    BY <2>1 DEF Processes
  <2>3. Own(n, p)'
    BY <2>2 DEF Own
  <2>4. OthersSpent(n, p)'
    BY <2>2 DEF OthersSpent, AllSpent, Spent
  <2>. QED
    BY <1>3, <2>1, <2>3, <2>4 DEF Own, OthersSpent, Spent
<1>. QED
  BY <1>2, <1>3

LEMMA RestartPolicy ==
  ASSUME IInv, Once, Policy, NEW c \in Callers, Restart(c)
  PROVE  Policy'
<1>1. /\ UNCHANGED <<updates, watch, restarter>>
      /\ job[c].at = "starting"
  BY DEF Restart
<1>2. PICK n : n = job[c].task
  OBVIOUS
<1>3. job[c] \in Jobs /\ n \in Tasks
  <2>1. job[c] \in Jobs /\ n # NoTask
    BY <1>1, <1>2, JobTypes DEF IInv, Executing
  <2>. QED
    BY <1>2, <2>1 DEF Jobs
<1>4. /\ Scheduled(n) /\ tasks[n].pid = NoPid /\ tasks[n].state = "unknown"
      /\ \A m \in job[c].added : ~Scheduled(m) /\ Untouched(m)
      /\ Untouched(n)
  BY <1>1, <1>2 DEF Once, Starts, Policy, Begun
<1>5. /\ updates # 0 /\ \A d \in Callers : d # c => job[d].at = "idle"
  BY <1>1, Working
<1>6. Signalled(tasks[n].pid) = life
  BY <1>4, MonitorAssumption DEF Signalled, IInv, Processes
<1>7. PICK r \in Runtimes \cup {Failure} :
         /\ StartTask(n, tasks[n].version, Signalled(tasks[n].pid), r)
         /\ IF r = Failure
            THEN job' = [job EXCEPT ![c] = Idle] /\ UNCHANGED tasks
            ELSE /\ tasks' = [tasks EXCEPT ![n] = WithRuntime(@, r)]
                 /\ job' = [job EXCEPT ![c] =
                        [@ EXCEPT !.at = "executing",
                                  !.results = With(job[c].results, n, r)]]
  BY <1>2, <1>4 DEF Restart
<1>8. StartTask(n, tasks[n].version, life, r)
  BY <1>6, <1>7
<1>9. /\ r = Failure => tasks' = tasks
      /\ r # Failure => /\ Scheduled(n)' /\ tasks'[n].pid = r.pid /\ tasks'[n].state = r.state
                        /\ tasks'[n].mode = tasks[n].mode
      /\ \A m \in Tasks : m # n => tasks'[m] = tasks[m]
  <2>1. CASE r = Failure
    BY <1>7, <2>1
  <2>2. CASE r # Failure
    <3>1. PICK e : e = WithRuntime(tasks[n], r)
      OBVIOUS
    <3>2. e \in Entries /\ e.pid = r.pid /\ e.state = r.state /\ e.mode = tasks[n].mode
      <4>1. tasks[n] \in Entries /\ r \in Runtimes
        BY <1>3, <1>4, <1>7, <2>2, EntryTypes DEF IInv
      <4>. QED
        BY <3>1, <4>1 DEF WithRuntime, Entries, Runtimes
    <3>3. tasks' = [tasks EXCEPT ![n] = e]
      BY <1>7, <2>2, <3>1
    <3>. QED
      BY <1>3, <2>2, <3>2, <3>3, Rewritten, MonitorAssumption DEF IInv, Scheduled
  <2>. QED
    BY <2>1, <2>2
<1>10. Ages /\ \A m \in Tasks : m # n => NoneStarted(m)
  BY <1>3, <1>8, StartTaskStarts DEF IInv
<1>11. /\ r = Failure => AllSpent(n)'
       /\ r # Failure /\ r.state = "running" => Own(n, r.pid)' /\ OthersSpent(n, r.pid)'
  <2>1. AllSpent(n)
    BY <1>4 DEF AllSpent, Untouched
  <2>2. tasks'[n].mode = tasks[n].mode
    BY <1>9
  <2>. QED
    BY <1>3, <1>8, <2>1, <2>2, StartedOf DEF IInv
<1>12. r # Failure => \/ r.state = "running"
                      \/ r.state = "preparing" /\ r.pid = NoPid
  BY <1>3, <1>8, StartTaskStarts DEF IInv
<1>13. Named'
  <2>1. Scheduled(n)' /\ tasks'[n].pid # NoPid => Own(n, tasks[n].pid)'
    <3>1. SUFFICES ASSUME tasks'[n].pid # NoPid PROVE Own(n, tasks[n].pid)'
      OBVIOUS
    <3>2. r # Failure /\ tasks'[n].pid = r.pid /\ r.state = "running"
      BY <1>4, <1>9, <1>12, <3>1
    <3>. QED
      BY <1>11, <3>2 DEF Own
  <2>. QED
    BY <1>9, <1>10, <2>1, NamedKept DEF Policy, Scheduled
<1>14. RenewalsOf(n)'
  <2>1. CASE r = Failure
    BY <1>11, <2>1 DEF RenewalsOf, AllSpent, OthersSpent
  <2>2. CASE r # Failure
    <3>1. ~Marked(n)'
      BY <1>9, <1>12, <2>2 DEF Marked
    <3>2. tasks'[n].state # "preparing" => OthersSpent(n, tasks[n].pid)'
      BY <1>9, <1>11, <1>12, <2>2 DEF OthersSpent, Spent
    <3>. QED
      BY <3>1, <3>2 DEF RenewalsOf
  <2>. QED
    BY <2>1, <2>2
<1>15. Renewals'
  BY <1>1, <1>9, <1>10, <1>14, RenewalsKept DEF Policy, Writes
<1>16. HandedOver' /\ Judged'
  <2>1. \A m \in Tasks : Marked(m) => tasks'[m] = tasks[m] /\ NoneStarted(m)
    BY <1>4, <1>9, <1>10 DEF Marked
  <2>2. \A m \in Tasks : Seen(m) => tasks'[m] = tasks[m]
    BY <1>4, <1>9 DEF Seen
  <2>. QED
    BY <1>1, <1>10, <2>1, <2>2, HandedKept, JudgedKept DEF Policy
<1>17. /\ \A d \in Callers : d # c => job'[d].at = "idle"
       /\ job'[c].at \in {"idle", "executing"}
       /\ job'[c].at # "idle" => job'[c].added = job[c].added
  <2>1. CASE r = Failure
    BY <1>5, <1>7, <2>1 DEF IInv, Executing, Idle
  <2>2. CASE r # Failure
    <3>1. PICK j, results :
            /\ results = With(job[c].results, n, r)
            /\ j = [job[c] EXCEPT !.at = "executing", !.results = results]
      OBVIOUS
    <3>2. job' = [job EXCEPT ![c] = j]
      BY <1>7, <2>2, <3>1
    <3>3. j.at = "executing" /\ j.added = job[c].added
      BY <1>3, <3>1 DEF Jobs
    <3>4. job'[c] = j /\ \A d \in Callers : d # c => job'[d] = job[d]
      BY <3>2 DEF IInv, Executing
    <3>. QED
      BY <1>5, <3>3, <3>4
  <2>. QED
    BY <2>1, <2>2
<1>18. \A m \in job[c].added : Untouched(m)'
  <2>1. \A m \in job[c].added : m \in Tasks /\ m # n
    BY <1>3, <1>4 DEF Jobs
  <2>. QED
    BY <1>4, <1>10, <2>1, UntouchedKept
<1>19. Begun'
  BY <1>1, <1>5, <1>17, <1>18 DEF Begun, Untouched
<1>. QED
  BY <1>13, <1>15, <1>16, <1>19 DEF Policy

LEMMA ReportPolicy ==
  ASSUME IInv, Once, Policy, NEW c \in Callers, Report(c) \/ CleanUp(c)
  PROVE  Policy'
<1>1. /\ UNCHANGED <<life, owner, updates, watch, restarter>>
      /\ job[c].at \in {"executing", "cleaning"}
  BY DEF Report, CleanUp
<1>2. job[c].removed = {} /\ \A m \in job[c].added : Untouched(m)
  BY <1>1 DEF Once, Starts, Policy, Begun
<1>3. /\ updates # 0 /\ \A d \in Callers : d # c => job[d].at = "idle"
  BY <1>1, Working
<1>4. job[c] \in Jobs
  BY <1>1, JobTypes DEF IInv
<1>5. tasks' = tasks
  <2>1. CleanedUp({}) = tasks
    BY DEF CleanedUp, IInv, Tables, Table
  <2>. QED
    BY <1>2, <2>1 DEF Report, CleanUp
<1>6. Ages /\ \A n \in Tasks : NoneStarted(n)
  BY <1>1, SameAges
<1>7. Named'
  BY <1>5, <1>6, NamedKept DEF Policy, Scheduled
<1>8. Renewals'
  BY <1>1, <1>5, <1>6, RenewalsKept DEF Policy, Writes
<1>9. HandedOver' /\ Judged'
  BY <1>1, <1>5, <1>6, HandedKept, JudgedKept DEF Policy
<1>10. /\ \A d \in Callers : d # c => job'[d].at = "idle"
       /\ job'[c].at \in {"idle", "cleaning"}
       /\ job'[c].at # "idle" => job'[c].added = job[c].added
  <2>1. CASE Report(c)
    <3>1. PICK j, names :
            /\ j = [job[c] EXCEPT !.at = "cleaning", !.removed = names]
            /\ job' = [job EXCEPT ![c] = j]
      BY <2>1 DEF Report
    <3>2. j.at = "cleaning" /\ j.added = job[c].added
      BY <1>4, <3>1 DEF Jobs
    <3>3. job'[c] = j /\ \A d \in Callers : d # c => job'[d] = job[d]
      BY <3>1 DEF IInv, Executing
    <3>. QED
      BY <1>3, <3>2, <3>3
  <2>2. CASE CleanUp(c)
    BY <1>3, <2>2 DEF CleanUp, IInv, Executing, Idle
  <2>. QED
    BY <2>1, <2>2
<1>11. \A m \in job[c].added : Untouched(m)'
  BY <1>2, <1>4, <1>6, UntouchedKept DEF Jobs
<1>12. Begun'
  BY <1>1, <1>3, <1>10, <1>11 DEF Begun, Untouched
<1>. QED
  BY <1>7, <1>8, <1>9, <1>12 DEF Policy

-----------------------------------------------------------------------------
(* One update: the monitor keeps to the restart modes *)

\* What the monitor makes of the state it probed is what the mode says of the
\* end of the process.
LEMMA ProbedEnds ==
  ASSUME NEW m \in Modes, NEW p, life[p] \in Ends
  PROVE  /\ Restarts(m, ProbedState(p)) <=> Supervised!Renewed(m, life[p])
         /\ ProbedState(p) # "restarting"
BY MonitorAssumption
   DEF Restarts, ProbedState, Alive, Ends, Supervised!Renewed, Supervised!Ends

\* The processes of a task that the monitor watches.
LEMMA SeenNames ==
  ASSUME IInv, Once, Policy, NEW n \in Tasks, Seen(n)
  PROVE  /\ tasks[n] \in Entries /\ Own(n, tasks[n].pid) /\ OthersSpent(n, tasks[n].pid)
         /\ Down(n) => life[tasks[n].pid] \in Ends
<1>1. tasks[n] \in Entries /\ Own(n, tasks[n].pid)
  BY EntryTypes DEF IInv, Policy, Named, Seen
<1>2. ~Writes(n) /\ Scheduled(n)
  BY NotMarked DEF Once, Marked, Seen
<1>3. tasks[n].state # "preparing"
  BY <1>2 DEF Once, Known, Told, Seen
<1>4. OthersSpent(n, tasks[n].pid)
  BY <1>2, <1>3 DEF Policy, Renewals
<1>5. Down(n) => life[tasks[n].pid] \in Ends
  BY <1>1 DEF Own, Down, Live
<1>. QED
  BY <1>1, <1>4, <1>5

\* A step of the monitor changes nothing but tasks it has seen, and marks only
\* those whose processes are spent.
LEMMA MonitorPolicy ==
  ASSUME IInv, Once, Policy, UNCHANGED <<life, owner, updates, job, restarter>>,
         \A n \in Tasks : tasks'[n] # tasks[n] =>
            /\ Seen(n)
            /\ Scheduled(n)' => /\ tasks'[n].pid = tasks[n].pid
                                /\ tasks'[n].mode = tasks[n].mode
                                /\ Marked(n)' => AllSpent(n),
         Judged'
  PROVE  Policy'
<1>1. Ages /\ \A n \in Tasks : NoneStarted(n)
  BY SameAges
<1>2. Named'
  BY <1>1, NamedKept DEF Policy, Scheduled, Seen
<1>3. ASSUME NEW n \in Tasks, Scheduled(n)', ~Writes(n)', tasks'[n] # tasks[n]
      PROVE  RenewalsOf(n)'
  <2>1. /\ Seen(n) /\ tasks'[n].pid = tasks[n].pid /\ tasks'[n].mode = tasks[n].mode
        /\ Marked(n)' => AllSpent(n)
    BY <1>3
  <2>2. PICK x : x = tasks[n].pid
    OBVIOUS
  <2>3. OthersSpent(n, x)
    BY <2>1, <2>2, SeenNames
  <2>4. (AllSpent(n) => AllSpent(n)') /\ (OthersSpent(n, x) => OthersSpent(n, x)')
    BY <1>1, <2>1, SpentKept
  <2>. QED
    BY <2>1, <2>2, <2>3, <2>4 DEF RenewalsOf, OthersSpent, Spent
<1>4. Renewals'
  <2>1. \A n \in Tasks : Scheduled(n)' /\ ~Writes(n)' =>
            \/ tasks'[n] = tasks[n] /\ ~Writes(n) /\ NoneStarted(n)
            \/ RenewalsOf(n)'
    BY <1>1, <1>3 DEF Writes
  <2>. QED
    BY <1>1, <2>1, RenewalsKept DEF Policy
<1>5. HandedOver'
  BY <1>1, HandedKept DEF Policy, Marked, Seen
<1>6. Begun'
  BY <1>1, BegunKept DEF Policy
<1>. QED
  BY <1>2, <1>4, <1>5, <1>6 DEF Policy

LEMMA CopyPolicy ==
  ASSUME IInv, Once, Policy, Copy
  PROVE  Policy'
<1>1. UNCHANGED <<tasks, life, owner, updates, job, restarter>> /\ watch'.at = "probing"
  BY DEF Copy
<1>2. Judged'
  BY <1>1 DEF Judged
<1>. QED
  BY <1>1, <1>2, MonitorPolicy

LEMMA ProbePolicy ==
  ASSUME IInv, Once, Policy, Probe
  PROVE  Policy'
<1>1. /\ UNCHANGED <<tasks, life, owner, updates, job, restarter>>
      /\ watch.at = "probing"
  BY DEF Probe
<1>2. PICK seen, new, report :
        /\ seen = watch.report
        /\ new = {n \in DOMAIN seen : ProbedState(seen[n].pid) # seen[n].state}
        /\ report = [n \in new |-> [pid |-> seen[n].pid, state |-> ProbedState(seen[n].pid)]]
  OBVIOUS
<1>3. watch' = [at |-> "applying", todo |-> new, task |-> NoTask, report |-> report]
  BY <1>2 DEF Probe
<1>4. DOMAIN seen \subseteq Tasks
  BY <1>1, <1>2, WatchTypes, ResultTypes DEF IInv, Probing
<1>5. ASSUME NEW n \in new
      PROVE  /\ report[n].pid = tasks[n].pid
             /\ life[tasks[n].pid] \in Ends
             /\ report[n].state = ProbedState(tasks[n].pid)
  <2>1. n \in Tasks /\ Seen(n) /\ seen[n] = RuntimeOf(tasks[n])
    BY <1>1, <1>2, <1>4 DEF Once, Copied
  <2>2. seen[n].pid = tasks[n].pid /\ seen[n].state = tasks[n].state
    BY <2>1 DEF RuntimeOf
  <2>3. tasks[n].state # "running" \/ ProbedState(tasks[n].pid) # "running"
    BY <1>2, <2>2
  <2>4. Down(n)
    BY <2>1, <2>3, SeenIsDown DEF Once
  <2>5. life[tasks[n].pid] \in Ends
    BY <2>1, <2>4, SeenNames
  <2>. QED
    BY <1>2, <2>2, <2>5
<1>6. watch'.at = "applying" /\ watch'.todo = new /\ watch'.report = report /\ DOMAIN report = new
  BY <1>2, <1>3
<1>7. Judged'
  BY <1>1, <1>5, <1>6 DEF Judged, ProbedState, Alive
<1>. QED
  BY <1>1, <1>7, MonitorPolicy

\* What a round has judged of a task that it does not have restarted.
JudgedOf(n, report) ==
    /\ report[n].pid = tasks[n].pid
    /\ life[tasks[n].pid] \in Ends
    /\ report[n].state = ProbedState(tasks[n].pid)

LEMMA ApplyPolicy ==
  ASSUME IInv, Once, Policy, NEW n \in Tasks, Apply(n)
  PROVE  Policy'
<1>1. /\ UNCHANGED <<life, owner, updates, job, restarter>>
      /\ watch.at = "applying" /\ n \in watch.todo
      /\ tasks' = IF Scheduled(n)
                  THEN [tasks EXCEPT ![n] = WithRuntime(@, watch.report[n])] ELSE tasks
  BY DEF Apply
<1>2. PICK report, todo : report = watch.report /\ todo = watch.todo
  OBVIOUS
<1>3. /\ watch \in Rounds
      /\ DOMAIN report \subseteq Tasks /\ todo \subseteq DOMAIN report /\ n \in DOMAIN report
      /\ report[n].state # "restarting" /\ report[n] \in Runtimes
  BY <1>1, <1>2, RoundOnce
<1>4. Seen(n) /\ Scheduled(n)
  BY <1>1, <1>2, <1>3, RoundOnce DEF Seen
<1>5. \A m \in DOMAIN report : report[m].state # "restarting" =>
        /\ JudgedOf(m, report)
        /\ m \in todo \/ ~Restarts(tasks[m].mode, report[m].state)
  BY <1>1, <1>2 DEF Policy, Judged, JudgedOf
<1>6. PICK e : e = WithRuntime(tasks[n], report[n])
  OBVIOUS
<1>7. /\ e \in Entries /\ e.pid = report[n].pid /\ e.state = report[n].state
      /\ e.mode = tasks[n].mode
  <2>1. tasks[n] \in Entries /\ report[n] \in Runtimes
    BY <1>3, <1>4, EntryTypes DEF IInv
  <2>. QED
    BY <1>6, <2>1 DEF WithRuntime, Entries, Runtimes
<1>8. tasks' = [tasks EXCEPT ![n] = e]
  BY <1>1, <1>2, <1>4, <1>6
<1>9. /\ tasks'[n] = e /\ \A m \in Tasks : m # n => tasks'[m] = tasks[m]
  BY <1>7, <1>8, Rewritten DEF IInv
<1>10. \A m \in Tasks : tasks'[m] # tasks[m] =>
            /\ Seen(m)
            /\ Scheduled(m)' => /\ tasks'[m].pid = tasks[m].pid
                                /\ tasks'[m].mode = tasks[m].mode
                                /\ Marked(m)' => AllSpent(m)
  BY <1>3, <1>4, <1>5, <1>7, <1>9 DEF JudgedOf, Marked
<1>11. PICK at : /\ at = IF Restarts(tasks[n].mode, report[n].state)
                         THEN "marking" ELSE "applying"
                 /\ watch' = [watch EXCEPT !.todo = @ \ {n}, !.task = n, !.at = at]
  BY <1>2, <1>4 DEF Apply
<1>12. /\ watch'.at = at /\ watch'.todo = todo \ {n} /\ watch'.task = n
       /\ watch'.report = report
  BY <1>2, <1>3, <1>11 DEF Rounds
<1>13. Judged'
  <2>1. \A m \in DOMAIN report : report[m].state # "restarting" =>
           /\ report[m].pid = tasks'[m].pid /\ life'[tasks'[m].pid] \in Ends
           /\ report[m].state = ProbedState(tasks[m].pid)'
           /\ \/ m \in todo \ {n}
              \/ at = "marking" /\ m = n
              \/ ~Restarts(tasks'[m].mode, report[m].state)
    <3>1. SUFFICES ASSUME NEW m \in DOMAIN report, report[m].state # "restarting"
                   PROVE  /\ report[m].pid = tasks'[m].pid /\ life'[tasks'[m].pid] \in Ends
                          /\ report[m].state = ProbedState(tasks[m].pid)'
                          /\ \/ m \in todo \ {n}
                             \/ at = "marking" /\ m = n
                             \/ ~Restarts(tasks'[m].mode, report[m].state)
      OBVIOUS
    <3>2. /\ JudgedOf(m, report)
          /\ m \in todo \/ ~Restarts(tasks[m].mode, report[m].state)
          /\ m \in Tasks
      BY <1>3, <1>5, <3>1
    <3>3. tasks'[m].pid = tasks[m].pid /\ tasks'[m].mode = tasks[m].mode
      BY <1>7, <1>9, <3>2 DEF JudgedOf
    <3>4. life' = life
      BY <1>1
    <3>5. ProbedState(tasks[m].pid)' = ProbedState(tasks[m].pid)
      BY <3>3, <3>4 DEF ProbedState, Alive
    <3>6. \/ m \in todo \ {n}
          \/ at = "marking" /\ m = n
          \/ ~Restarts(tasks'[m].mode, report[m].state)
      BY <1>11, <3>2, <3>3
    <3>. QED
      BY <3>2, <3>3, <3>4, <3>5, <3>6 DEF JudgedOf
  <2>2. at = "marking" => Restarts(tasks'[n].mode, report[n].state)
    BY <1>7, <1>9, <1>11
  <2>3. at \in {"applying", "marking"}
    BY <1>11
  <2>. QED
    BY <1>12, <2>1, <2>2, <2>3 DEF Judged
<1>. QED
  BY <1>1, <1>10, <1>13, MonitorPolicy

LEMMA MarkPolicy ==
  ASSUME IInv, Once, Policy, Mark
  PROVE  Policy'
<1>1. /\ UNCHANGED <<life, owner, updates, job, restarter>>
      /\ watch.at = "marking"
  BY DEF Mark
<1>2. PICK report, todo, n : report = watch.report /\ todo = watch.todo /\ n = watch.task
  OBVIOUS
<1>3. /\ watch \in Rounds
      /\ DOMAIN report \subseteq Tasks /\ todo \subseteq DOMAIN report
      /\ n \in DOMAIN report /\ n \in Tasks
      /\ report[n].state # "restarting" /\ report[n] \in Runtimes
  BY <1>1, <1>2, RoundOnce
<1>4. Seen(n) /\ Scheduled(n)
  BY <1>1, <1>2, <1>3, RoundOnce DEF Seen
<1>5. /\ \A m \in DOMAIN report : report[m].state # "restarting" =>
           /\ JudgedOf(m, report)
           /\ \/ m \in todo \/ m = n
              \/ ~Restarts(tasks[m].mode, report[m].state)
      /\ Restarts(tasks[n].mode, report[n].state)
  BY <1>1, <1>2 DEF Policy, Judged, JudgedOf
<1>6. AllSpent(n)
  <2>1. PICK x, m : x = tasks[n].pid /\ m = tasks[n].mode
    OBVIOUS
  <2>2. m \in Modes /\ OthersSpent(n, x)
    BY <1>3, <1>4, <2>1, SeenNames DEF Entries
  <2>3. life[x] \in Ends /\ Restarts(m, ProbedState(x))
    BY <1>3, <1>5, <2>1 DEF JudgedOf
  <2>4. Supervised!Renewed(m, life[x])
    BY <2>2, <2>3, ProbedEnds
  <2>. QED
    BY <2>1, <2>2, <2>4 DEF AllSpent, OthersSpent, Spent
<1>7. PICK e : e = [tasks[n] EXCEPT !.state = "restarting"]
  OBVIOUS
<1>8. e \in Entries /\ e.pid = tasks[n].pid /\ e.mode = tasks[n].mode
  <2>1. tasks[n] \in Entries
    BY <1>3, <1>4, EntryTypes DEF IInv
  <2>. QED
    BY <1>7, <2>1 DEF Entries, States
<1>9. tasks' = [tasks EXCEPT ![n] = e]
  BY <1>2, <1>4, <1>7 DEF Mark
<1>10. /\ tasks'[n] = e /\ \A m \in Tasks : m # n => tasks'[m] = tasks[m]
  BY <1>3, <1>8, <1>9, Rewritten DEF IInv
<1>11. \A m \in Tasks : tasks'[m] # tasks[m] =>
            /\ Seen(m)
            /\ Scheduled(m)' => /\ tasks'[m].pid = tasks[m].pid
                                /\ tasks'[m].mode = tasks[m].mode
                                /\ Marked(m)' => AllSpent(m)
  BY <1>4, <1>6, <1>8, <1>10
<1>12. PICK marked : marked = [report EXCEPT ![n].state = "restarting"]
  OBVIOUS
<1>13. /\ DOMAIN marked = DOMAIN report
       /\ \A m \in DOMAIN report : m # n => marked[m] = report[m]
       /\ marked[n].state = "restarting"
  <2>1. PICK r : r = [report[n] EXCEPT !.state = "restarting"]
    OBVIOUS
  <2>2. r.state = "restarting"
    BY <1>3, <2>1 DEF Runtimes
  <2>3. marked = [report EXCEPT ![n] = r]
    BY <1>12, <2>1
  <2>. QED
    BY <1>3, <2>2, <2>3
<1>14. watch' = [watch EXCEPT !.at = "queueing", !.report = marked]
  BY <1>2, <1>12 DEF Mark
<1>15. watch'.at = "queueing" /\ watch'.todo = todo /\ watch'.report = marked
  BY <1>2, <1>3, <1>14 DEF Rounds
<1>16. Judged'
  <2>1. \A m \in DOMAIN marked : marked[m].state # "restarting" =>
           /\ marked[m].pid = tasks'[m].pid /\ life'[tasks'[m].pid] \in Ends
           /\ marked[m].state = ProbedState(tasks[m].pid)'
           /\ m \in todo \/ ~Restarts(tasks'[m].mode, marked[m].state)
    <3>1. SUFFICES ASSUME NEW m \in DOMAIN marked, marked[m].state # "restarting"
                   PROVE  /\ marked[m].pid = tasks'[m].pid /\ life'[tasks'[m].pid] \in Ends
                          /\ marked[m].state = ProbedState(tasks[m].pid)'
                          /\ m \in todo \/ ~Restarts(tasks'[m].mode, marked[m].state)
      OBVIOUS
    <3>2. /\ m # n /\ m \in Tasks /\ marked[m] = report[m]
          /\ JudgedOf(m, report)
          /\ m \in todo \/ ~Restarts(tasks[m].mode, report[m].state)
      BY <1>3, <1>5, <1>13, <3>1
    <3>3. tasks'[m] = tasks[m] /\ life' = life
      BY <1>1, <1>10, <3>2
    <3>4. ProbedState(tasks[m].pid)' = ProbedState(tasks[m].pid)
      BY <3>3 DEF ProbedState, Alive
    <3>. QED
      BY <3>2, <3>3, <3>4 DEF JudgedOf
  <2>. QED
    BY <1>15, <2>1 DEF Judged
<1>. QED
  BY <1>1, <1>11, <1>16, MonitorPolicy

LEMMA QueueRestartPolicy ==
  ASSUME IInv, Once, Policy, QueueRestart
  PROVE  Policy'
<1>1. /\ UNCHANGED <<tasks, life, owner, updates, job, restarter>>
      /\ watch.at = "queueing"
      /\ watch' = [watch EXCEPT !.at = "applying"]
  BY DEF QueueRestart
<1>2. PICK report, todo : report = watch.report /\ todo = watch.todo
  OBVIOUS
<1>3. watch \in Rounds
  BY <1>1, RoundOnce
<1>4. watch'.at = "applying" /\ watch'.todo = todo /\ watch'.report = report
  BY <1>1, <1>2, <1>3 DEF Rounds
<1>5. \A m \in DOMAIN report : report[m].state # "restarting" =>
        /\ JudgedOf(m, report)
        /\ m \in todo \/ ~Restarts(tasks[m].mode, report[m].state)
  BY <1>1, <1>2 DEF Policy, Judged, JudgedOf
<1>6. Judged'
  BY <1>1, <1>4, <1>5 DEF Judged, JudgedOf, ProbedState, Alive
<1>. QED
  BY <1>1, <1>6, MonitorPolicy

LEMMA QueuePoisonedPolicy ==
  ASSUME IInv, Once, Policy, QueuePoisoned
  PROVE  Policy'
<1>1. UNCHANGED <<tasks, life, owner, updates, job, restarter>> /\ watch'.at = "dead"
  BY DEF QueuePoisoned, Dead
<1>2. Judged'
  BY <1>1 DEF Judged
<1>. QED
  BY <1>1, <1>2, MonitorPolicy

LEMMA ReportWatchedPolicy ==
  ASSUME IInv, Once, Policy, ReportWatched
  PROVE  Policy'
<1>1. /\ UNCHANGED <<tasks, life, owner, updates, job, restarter>>
      /\ watch.at = "applying" /\ watch.todo = {}
  BY DEF ReportWatched
<1>2. PICK report, todo : report = watch.report /\ todo = ToCleanUp(report)
  OBVIOUS
<1>3. watch'.at = "cleaning" /\ watch'.todo = todo
  BY <1>2 DEF ReportWatched
<1>4. ASSUME NEW n \in todo
      PROVE  Supervised!Finished(tasks[n].mode, life[tasks[n].pid])
  <2>1. n \in DOMAIN report /\ report[n].state # "restarting"
    BY <1>2, <1>4 DEF ToCleanUp, Ended
  <2>2. n \in Tasks /\ Seen(n)
    BY <1>1, <1>2, <2>1, RoundOnce
  <2>3. JudgedOf(n, report) /\ ~Restarts(tasks[n].mode, report[n].state)
    BY <1>1, <1>2, <2>1 DEF Policy, Judged, JudgedOf
  <2>4. PICK x, m : x = tasks[n].pid /\ m = tasks[n].mode
    OBVIOUS
  <2>5. m \in Modes
    BY <2>2, <2>4, SeenNames DEF Entries
  <2>6. life[x] \in Ends /\ ~Restarts(m, ProbedState(x))
    BY <2>3, <2>4 DEF JudgedOf
  <2>7. ~Supervised!Renewed(m, life[x])
    BY <2>5, <2>6, ProbedEnds
  <2>. QED
    BY <2>4, <2>6, <2>7 DEF Supervised!Finished, Ends
<1>5. Judged'
  BY <1>1, <1>3, <1>4 DEF Judged
<1>. QED
  BY <1>1, <1>5, MonitorPolicy

LEMMA CleanUpWatchedPolicy ==
  ASSUME IInv, Once, Policy, CleanUpWatched
  PROVE  Policy'
<1>1. /\ UNCHANGED <<life, owner, updates, job, restarter>>
      /\ watch.at = "cleaning" /\ watch' = Idle
      /\ tasks' = CleanedUp(watch.todo)
  BY DEF CleanUpWatched
<1>2. \A n \in watch.todo : Seen(n)
  BY <1>1 DEF Once, Copied
<1>3. \A n \in Tasks : IF n \in watch.todo THEN tasks'[n] = NoTask ELSE tasks'[n] = tasks[n]
  BY <1>1 DEF CleanedUp
<1>4. \A n \in Tasks : tasks'[n] # tasks[n] => Seen(n) /\ ~Scheduled(n)'
  BY <1>2, <1>3 DEF Scheduled
<1>5. Judged'
  BY <1>1 DEF Judged, Idle
<1>. QED
  BY <1>1, <1>4, <1>5, MonitorPolicy

-----------------------------------------------------------------------------
(* One update: the restart thread keeps to the restart modes *)

\* A step in which the restart thread only changes what it has in hand.
LEMMA HandsPolicy ==
  ASSUME IInv, Once, Policy, (\E k \in 1 .. Len(queue) : TakeDue(k))
                              \/ ReadDue \/ DownloadDue \/ Release
  PROVE  Policy'
<1>1. /\ UNCHANGED <<tasks, life, owner, updates, job, watch>>
      /\ restarter.at # "writing" /\ restarter'.at # "writing"
  <2>1. CASE \E k \in 1 .. Len(queue) : TakeDue(k)
    BY <2>1 DEF TakeDue, Idle
  <2>2. CASE ReadDue
    <3>1. restarter \in Reading
      BY <2>2, RestarterTypes DEF ReadDue, IInv
    <3>. QED
      BY <2>2, <3>1 DEF ReadDue, Reading
  <2>3. CASE DownloadDue \/ Release
    BY <2>3 DEF DownloadDue, Release, Idle, Dead
  <2>. QED
    BY <2>1, <2>2, <2>3
<1>2. Ages /\ \A n \in Tasks : NoneStarted(n)
  BY <1>1, SameAges
<1>3. Named'
  BY <1>1, <1>2, NamedKept DEF Policy, Scheduled
<1>4. Renewals'
  BY <1>1, <1>2, RenewalsKept DEF Policy, Writes
<1>5. HandedOver'
  BY <1>1 DEF HandedOver
<1>6. Judged' /\ Begun'
  BY <1>1, <1>2, JudgedKept, BegunKept DEF Policy
<1>. QED
  BY <1>3, <1>4, <1>5, <1>6 DEF Policy

LEMMA StartDuePolicy ==
  ASSUME IInv, Once, Policy, StartDue
  PROVE  Policy' /\ AllSpent(Head(restarter.todo))
<1>1. UNCHANGED <<tasks, updates, job, watch>> /\ restarter.at = "starting"
  BY DEF StartDue
<1>2. PICK todo, n, v : todo = restarter.todo /\ n = Head(todo) /\ v = restarter.version
  OBVIOUS
<1>3. n \in Tasks /\ Marked(n) /\ \A m \in Tasks : ~Writes(m)
  BY <1>1, <1>2, AtWork DEF Once, Writes
<1>4. PICK r \in Runtimes \cup {Failure} :
        /\ StartTask(n, v, life, r)
        /\ restarter' = [at |-> "writing", todo |-> todo, runtime |-> r]
  BY <1>2 DEF StartDue
<1>5. restarter'.at = "writing" /\ restarter'.todo = todo /\ restarter'.runtime = r
  BY <1>4
<1>6. AllSpent(n)
  BY <1>3 DEF Policy, Renewals, Marked
<1>7. Ages /\ \A m \in Tasks : m # n => NoneStarted(m)
  BY <1>3, <1>4, StartTaskStarts DEF IInv
<1>8. /\ r = Failure => AllSpent(n)'
      /\ r # Failure /\ r.state = "running" => Own(n, r.pid)' /\ OthersSpent(n, r.pid)'
  <2>1. tasks'[n].mode = tasks[n].mode
    BY <1>1
  <2>. QED
    BY <1>3, <1>4, <1>6, <2>1, StartedOf DEF IInv
<1>9. Named'
  BY <1>1, <1>7, NamedKept DEF Policy, Scheduled
<1>10. Renewals'
  <2>1. \A m \in Tasks : ~Writes(m)' => m # n
    BY <1>2, <1>5 DEF Writes
  <2>. QED
    BY <1>1, <1>3, <1>7, <2>1, RenewalsKept DEF Policy
<1>11. HandedOver'
  <2>1. PICK x : x = r.pid
    OBVIOUS
  <2>. QED
    BY <1>2, <1>5, <1>8, <2>1 DEF HandedOver, AllSpent, OthersSpent, Own, Spent
<1>12. Judged'
  BY <1>1, <1>7, JudgedKept DEF Policy
<1>13. Begun'
  BY <1>1, <1>3, <1>7, BegunKept DEF Policy, Marked
<1>. QED
  BY <1>2, <1>6, <1>9, <1>10, <1>11, <1>12, <1>13 DEF Policy

\* The entry that the restart thread leaves for what it was returned.
Written(n, r, e) ==
    /\ n \in Tasks /\ Marked(n)
    /\ tasks' = [tasks EXCEPT ![n] = e]
    /\ e.mode = tasks[n].mode
    /\ \/ r = Failure /\ e.state = "failed" /\ e.pid = tasks[n].pid
       \/ /\ r # Failure /\ e.state = r.state /\ e.pid = r.pid
          /\ r.state = "running" \/ (r.state = "preparing" /\ r.pid = NoPid)

LEMMA WrittenEntry ==
  ASSUME IInv, Once, WriteDue
  PROVE  \E e \in Entries : Written(Head(restarter.todo), restarter.runtime, e)
<1>1. restarter.at = "writing"
  BY DEF WriteDue
<1>2. PICK n, r : n = Head(restarter.todo) /\ r = restarter.runtime
  OBVIOUS
<1>3. n \in Tasks /\ Marked(n) /\ Scheduled(n) /\ tasks[n] \in Entries
  BY <1>1, <1>2, AtWork, EntryTypes DEF Once, Marked, IInv
<1>4. r \in Runtimes \cup {Failure}
  <2>1. restarter \in Writing
    BY <1>1, RestarterTypes DEF IInv
  <2>. QED
    BY <1>2, <2>1 DEF Writing
<1>5. r # Failure => \/ r.state = "running"
                     \/ r.state = "preparing" /\ r.pid = NoPid
  BY <1>1, <1>2 DEF Once, Returned
<1>6. CASE r = Failure
  <2>1. PICK e : e = [tasks[n] EXCEPT !.state = "failed"]
    OBVIOUS
  <2>2. e \in Entries /\ e.state = "failed" /\ e.pid = tasks[n].pid /\ e.mode = tasks[n].mode
    BY <1>3, <2>1 DEF Entries, States
  <2>3. tasks' = [tasks EXCEPT ![n] = e]
    BY <1>2, <1>3, <1>6, <2>1 DEF WriteDue
  <2>. QED
    BY <1>2, <1>3, <1>6, <2>2, <2>3 DEF Written
<1>7. CASE r # Failure
  <2>1. PICK e : e = WithRuntime(tasks[n], r)
    OBVIOUS
  <2>2. e \in Entries /\ e.state = r.state /\ e.pid = r.pid /\ e.mode = tasks[n].mode
    BY <1>3, <1>4, <1>7, <2>1 DEF WithRuntime, Entries, Runtimes
  <2>3. tasks' = [tasks EXCEPT ![n] = e]
    BY <1>2, <1>3, <1>7, <2>1 DEF WriteDue
  <2>4. Written(n, r, e)
    BY <1>3, <1>5, <1>7, <2>2, <2>3 DEF Written
  <2>. QED
    BY <1>2, <2>2, <2>4
<1>. QED
  BY <1>6, <1>7

LEMMA WriteDuePolicy ==
  ASSUME IInv, Once, Policy, WriteDue
  PROVE  Policy'
<1>1. /\ UNCHANGED <<life, owner, updates, job, watch>>
      /\ restarter.at = "writing" /\ restarter'.at = "reading"
  BY DEF WriteDue
<1>2. PICK n, r : n = Head(restarter.todo) /\ r = restarter.runtime
  OBVIOUS
<1>3. PICK e \in Entries :
        /\ n \in Tasks /\ Marked(n)
        /\ tasks' = [tasks EXCEPT ![n] = e]
        /\ e.mode = tasks[n].mode
        /\ \/ r = Failure /\ e.state = "failed" /\ e.pid = tasks[n].pid
           \/ /\ r # Failure /\ e.state = r.state /\ e.pid = r.pid
              /\ r.state = "running" \/ (r.state = "preparing" /\ r.pid = NoPid)
  BY <1>2, WrittenEntry DEF Written
<1>4. /\ tasks'[n] = e /\ \A m \in Tasks : m # n => tasks'[m] = tasks[m]
  BY <1>3, Rewritten DEF IInv
<1>5. Ages /\ \A m \in Tasks : NoneStarted(m)
  BY <1>1, SameAges
<1>6. PICK x : x = e.pid
  OBVIOUS
<1>7. /\ r = Failure => AllSpent(n)
      /\ r # Failure /\ r.state = "running" => Own(n, r.pid) /\ OthersSpent(n, r.pid)
  BY <1>1, <1>2 DEF Policy, HandedOver
<1>8. /\ AllSpent(n) => AllSpent(n)'
      /\ OthersSpent(n, x) => OthersSpent(n, x)'
      /\ Own(n, x) => Own(n, x)'
  BY <1>3, <1>4, <1>5, SpentKept, OwnKept
<1>9. Named'
  <2>1. e.pid # NoPid => e.pid = tasks[n].pid \/ Own(n, x)
    BY <1>3, <1>6, <1>7
  <2>2. e.pid # NoPid => e.pid = tasks[n].pid \/ Own(n, tasks[n].pid)'
    BY <1>4, <1>6, <1>8, <2>1 DEF Own
  <2>. QED
    BY <1>3, <1>4, <1>5, <2>2, NamedKept DEF Policy, Scheduled, Marked
<1>10. RenewalsOf(n)'
  <2>1. ~Marked(n)'
    BY <1>3, <1>4 DEF Marked
  <2>2. e.state # "preparing" => AllSpent(n) \/ OthersSpent(n, x)
    BY <1>3, <1>6, <1>7
  <2>3. e.state # "preparing" => AllSpent(n)' \/ OthersSpent(n, x)'
    BY <1>8, <2>2
  <2>. QED
    BY <1>4, <1>6, <2>1, <2>3 DEF RenewalsOf, AllSpent, OthersSpent, Spent
<1>11. Renewals'
  <2>1. \A m \in Tasks : m # n => ~Writes(m)
    BY <1>2 DEF Writes
  <2>. QED
    BY <1>4, <1>5, <1>10, <2>1, RenewalsKept DEF Policy
<1>12. HandedOver'
  BY <1>1 DEF HandedOver
<1>13. Judged'
  BY <1>1, <1>3, <1>4, <1>5, JudgedKept DEF Policy, Seen, Marked
<1>14. Begun'
  BY <1>1, <1>5, BegunKept DEF Policy
<1>. QED
  BY <1>9, <1>11, <1>12, <1>13, <1>14 DEF Policy

-----------------------------------------------------------------------------
(* The restart modes until there is a second update *)

LEMMA InitPolicy == Init => Policy
<1>. SUFFICES ASSUME Init PROVE Policy
  OBVIOUS
<1>1. \A n \in Tasks : ~Scheduled(n) /\ Untouched(n)
  BY MonitorAssumption DEF Init, Scheduled, Untouched
<1>2. restarter.at = "idle" /\ watch.at = "idle" /\ \A c \in Callers : job[c].at = "idle"
  BY DEF Init, Idle
<1>. QED
  BY <1>1, <1>2 DEF Policy, Named, Renewals, HandedOver, Judged, Begun

LEMMA NextPolicy ==
  ASSUME IInv, updates <= 1 => Once /\ Policy, [Next]_vars, updates' <= 1
  PROVE  Policy'
<1>1. ASSUME NEW c \in Callers, NEW names \in SUBSET Tasks \ {{}}, NEW spec \in Specs,
             NEW down \in BOOLEAN, Request(c, names, spec, down)
      PROVE  Policy'
  <2>1. updates = 0
    BY <1>1 DEF Request, IInv
  <2>. QED
    BY <1>1, <2>1, RequestPolicy
<1>2. ASSUME NEW c \in Callers, Execute(c) PROVE Policy'
  <2>1. Once /\ Policy
    BY <1>2 DEF Execute, Prepare, Stop, Restart, Report, CleanUp
  <2>2. ASSUME NEW n \in Tasks, Prepare(c, n) \/ Stop(c, n) PROVE Policy'
    BY <2>1, <2>2, PreparePolicy, StopNever
  <2>3. CASE Restart(c) \/ Report(c) \/ CleanUp(c)
    BY <2>1, <2>3, RestartPolicy, ReportPolicy
  <2>. QED
    BY <1>2, <2>2, <2>3 DEF Execute
<1>3. CASE Watch
  <2>1. Once /\ Policy
    BY <1>3 DEF Watch, Copy, Probe, Mark, QueueRestart, QueuePoisoned, ReportWatched,
       CleanUpWatched, Apply
  <2>2. CASE \/ Copy \/ Probe \/ Mark \/ QueueRestart \/ QueuePoisoned
             \/ ReportWatched \/ CleanUpWatched
    BY <2>1, <2>2, CopyPolicy, ProbePolicy, MarkPolicy, QueueRestartPolicy,
       QueuePoisonedPolicy, ReportWatchedPolicy, CleanUpWatchedPolicy
  <2>3. ASSUME NEW n \in Tasks, Apply(n) PROVE Policy'
    BY <2>1, <2>3, ApplyPolicy
  <2>. QED
    BY <1>3, <2>2, <2>3 DEF Watch
<1>4. CASE RestartLoop
  <2>1. Once /\ Policy
    BY <1>4 DEF RestartLoop, TakeDue, ReadDue, DownloadDue, StartDue, WriteDue, Release
  <2>2. CASE (\E k \in 1 .. Len(queue) : TakeDue(k)) \/ ReadDue \/ DownloadDue \/ Release
    BY <2>1, <2>2, HandsPolicy
  <2>3. CASE StartDue \/ WriteDue
    BY <2>1, <2>3, StartDuePolicy, WriteDuePolicy
  <2>. QED
    BY <1>4, <2>2, <2>3 DEF RestartLoop
<1>5. ASSUME NEW p \in Pids, Exit(p) \/ Download(p) PROVE Policy'
  <2>1. Once /\ Policy
    BY <1>5 DEF Exit, Download, DownloadSucceeds, DownloadReports, DownloadFails
  <2>. QED
    BY <1>5, <2>1, ExitPolicy, DownloadPolicy
<1>6. CASE UNCHANGED vars
  <2>1. Once /\ Policy /\ UNCHANGED <<life, owner, tasks, updates, job, watch, restarter>>
    BY <1>6 DEF vars
  <2>. QED
    BY <2>1, SameAges, LivesPolicy
<1>. QED
  BY <1>1, <1>2, <1>3, <1>4, <1>5, <1>6 DEF Next

\* Until there is a second update ...
LEMMA PolicyInvariance == Spec => [](IInv /\ (updates <= 1 => Once /\ Policy))
<1>. DEFINE PInv == updates <= 1 => Once /\ Policy
<1>1. Init => PInv
  BY InitOnce, InitPolicy
<1>2. IInv /\ PInv /\ [Next]_vars => PInv'
  <2>. SUFFICES ASSUME IInv, PInv, [Next]_vars, updates' <= 1
                PROVE  Once' /\ Policy'
    OBVIOUS
  <2>. QED
    BY NextOnce, NextPolicy
<1>. QED
  BY <1>1, <1>2, MonitorInvariance, PTL DEF Spec

-----------------------------------------------------------------------------
(* One update: every step is one of the abstract supervisor, or none *)

bars == <<modeBar, owner, lifeBar>>

LEMMA BarValues ==
  ASSUME Processes
  PROVE  /\ \A n \in Tasks : modeBar[n] = IF Scheduled(n) THEN tasks[n].mode ELSE "none"
         /\ \A p \in Pids : lifeBar[p] = LifeOf(p)
         /\ \A p \in Pids : life[p] \in Ends => lifeBar[p] = life[p]
         /\ lifeBar = [p \in Pids |-> lifeBar[p]]
         /\ modeBar = [n \in Tasks |-> modeBar[n]]
BY DEF modeBar, lifeBar, LifeOf, Ends, Supervised!Ends

LEMMA ModesStay ==
  ASSUME \A n \in Tasks : /\ Scheduled(n)' = Scheduled(n)
                          /\ Scheduled(n) => tasks'[n].mode = tasks[n].mode
  PROVE  modeBar' = modeBar
BY DEF modeBar

\* The entry of a task is rewritten, its mode is not.
LEMMA EntryModes ==
  ASSUME IInv, NEW n \in Tasks, Scheduled(n), NEW e \in Entries, e.mode = tasks[n].mode,
         tasks' = [tasks EXCEPT ![n] = e]
  PROVE  modeBar' = modeBar
<1>1. /\ tasks'[n] = e /\ e # NoTask
      /\ \A m \in Tasks : m # n => tasks'[m] = tasks[m]
  BY Rewritten, MonitorAssumption DEF IInv
<1>. QED
  BY <1>1, ModesStay DEF Scheduled

LEMMA RuntimeModes ==
  ASSUME IInv, NEW n \in Tasks, Scheduled(n), NEW r \in Runtimes,
         tasks' = [tasks EXCEPT ![n] = WithRuntime(@, r)]
  PROVE  modeBar' = modeBar
<1>1. PICK e : e = WithRuntime(tasks[n], r)
  OBVIOUS
<1>2. e \in Entries /\ e.mode = tasks[n].mode
  <2>1. tasks[n] \in Entries
    BY EntryTypes DEF IInv
  <2>. QED
    BY <1>1, <2>1 DEF WithRuntime, Entries, Runtimes
<1>3. tasks' = [tasks EXCEPT ![n] = e]
  BY <1>1
<1>. QED
  BY <1>2, <1>3, EntryModes

\* Starting a task whose processes are spent is a start of the abstract
\* supervisor, if it starts anything.
LEMMA StartTaskImplements ==
  ASSUME IInv, NEW n \in Tasks, NEW v, NEW r, StartTask(n, v, life, r), AllSpent(n),
         Scheduled(n), modeBar' = modeBar
  PROVE  (\E p \in Pids : Supervised!Start(n, p)) \/ UNCHANGED bars
<1>1. CASE r = Failure
  <2>1. UNCHANGED <<life, owner>>
    BY <1>1, StartTaskStarts DEF IInv
  <2>. QED
    BY <2>1 DEF bars, lifeBar, LifeOf
<1>2. CASE r # Failure
  <2>1. PICK p \in Pids : /\ life[p] = "free" /\ owner[p] = NoTask
                          /\ owner' = [owner EXCEPT ![p] = n]
                          /\ \/ life' = [life EXCEPT ![p] = "alive"]
                             \/ life' = [life EXCEPT ![p] = "downloading"]
    BY <1>2, StartTaskStarts DEF IInv
  <2>2. tasks[n] \in Entries
    BY EntryTypes DEF IInv
  <2>3. modeBar[n] = tasks[n].mode /\ modeBar[n] # "none"
    BY <2>2, BarValues, MonitorAssumption DEF Entries, IInv
  <2>4. \A q \in Pids : owner[q] = n => Supervised!Renewed(modeBar[n], lifeBar[q])
    <3>1. \A q \in Pids : owner[q] = n => Supervised!Renewed(tasks[n].mode, life[q])
      BY DEF AllSpent, Spent
    <3>2. \A q \in Pids : owner[q] = n => life[q] \in Ends
      BY <3>1 DEF Supervised!Renewed, Ends
    <3>. QED
      BY <2>3, <3>1, <3>2, BarValues DEF IInv
  <2>5. lifeBar' = [lifeBar EXCEPT ![p] = "alive"]
    <3>1. life'[p] \in {"alive", "downloading"} /\ \A q \in Pids : q # p => life'[q] = life[q]
      BY <2>1 DEF IInv, Processes
    <3>. QED
      BY <3>1 DEF lifeBar, LifeOf
  <2>6. Supervised!Start(n, p)
    BY <2>1, <2>3, <2>4, <2>5 DEF Supervised!Start
  <2>. QED
    BY <2>6
<1>. QED
  BY <1>1, <1>2

LEMMA RequestImplements ==
  ASSUME NEW c, NEW names, NEW spec, NEW down, Request(c, names, spec, down)
  PROVE  UNCHANGED bars
BY DEF Request, bars, modeBar, lifeBar, LifeOf, Scheduled

LEMMA PrepareImplements ==
  ASSUME IInv, Once, Policy, NEW c \in Callers, NEW n \in Tasks, Prepare(c, n)
  PROVE  \E m \in Modes : Supervised!Take(n, m)
<1>1. /\ UNCHANGED <<life, owner>>
      /\ job[c].at = "executing" /\ n \in job[c].added
  BY DEF Prepare
<1>2. job[c] \in Jobs
  BY <1>1, JobTypes DEF IInv
<1>3. ~Scheduled(n) /\ Untouched(n)
  BY <1>1 DEF Once, Starts, Policy, Begun
<1>4. PICK e : /\ e = [version |-> job[c].spec.version, mode |-> job[c].spec.mode,
                       pid |-> NoPid, state |-> "unknown"]
               /\ tasks' = [tasks EXCEPT ![n] = e]
  BY <1>3 DEF Prepare, Fresh
<1>5. e \in Entries
  BY <1>2, <1>4 DEF Entries, Jobs, Specs, States
<1>6. /\ tasks'[n] = e /\ e # NoTask
      /\ \A k \in Tasks : k # n => tasks'[k] = tasks[k]
  BY <1>4, <1>5, Rewritten, MonitorAssumption DEF IInv
<1>7. PICK m \in Modes : m = e.mode
  BY <1>5 DEF Entries
<1>8. modeBar' = [modeBar EXCEPT ![n] = m]
  BY <1>6, <1>7 DEF modeBar, Scheduled
<1>9. modeBar[n] = "none"
  BY <1>3 DEF modeBar
<1>10. UNCHANGED lifeBar
  BY <1>1 DEF lifeBar, LifeOf
<1>. QED
  BY <1>1, <1>3, <1>8, <1>9, <1>10 DEF Supervised!Take, Untouched

LEMMA RestartImplements ==
  ASSUME IInv, Once, Policy, NEW c \in Callers, Restart(c)
  PROVE  (\E n \in Tasks, p \in Pids : Supervised!Start(n, p)) \/ UNCHANGED bars
<1>1. job[c].at = "starting"
  BY DEF Restart
<1>2. PICK n : n = job[c].task
  OBVIOUS
<1>3. n \in Tasks
  <2>1. job[c] \in Jobs /\ n # NoTask
    BY <1>1, <1>2, JobTypes DEF IInv, Executing
  <2>. QED
    BY <1>2, <2>1 DEF Jobs
<1>4. Scheduled(n) /\ tasks[n].pid = NoPid /\ AllSpent(n)
  BY <1>1, <1>2 DEF Once, Starts, Policy, Begun, Untouched, AllSpent
<1>5. Signalled(tasks[n].pid) = life
  BY <1>4, MonitorAssumption DEF Signalled, IInv, Processes
<1>6. PICK r \in Runtimes \cup {Failure} :
         /\ StartTask(n, tasks[n].version, Signalled(tasks[n].pid), r)
         /\ IF r = Failure
            THEN UNCHANGED tasks
            ELSE tasks' = [tasks EXCEPT ![n] = WithRuntime(@, r)]
  BY <1>2, <1>4 DEF Restart
<1>7. modeBar' = modeBar
  <2>1. CASE r = Failure
    BY <1>6, <2>1 DEF modeBar, Scheduled
  <2>2. CASE r # Failure
    BY <1>3, <1>4, <1>6, <2>2, RuntimeModes
  <2>. QED
    BY <2>1, <2>2
<1>8. StartTask(n, tasks[n].version, life, r)
  BY <1>5, <1>6
<1>. QED
  BY <1>3, <1>4, <1>7, <1>8, StartTaskImplements

LEMMA ReportImplements ==
  ASSUME IInv, Once, NEW c \in Callers, Report(c) \/ CleanUp(c)
  PROVE  UNCHANGED bars
<1>1. UNCHANGED <<life, owner>> /\ job[c].at \in {"executing", "cleaning"}
  BY DEF Report, CleanUp
<1>2. job[c].removed = {}
  BY <1>1 DEF Once, Starts
<1>3. tasks' = tasks
  <2>1. CleanedUp({}) = tasks
    BY DEF CleanedUp, IInv, Tables, Table
  <2>. QED
    BY <1>2, <2>1 DEF Report, CleanUp
<1>. QED
  BY <1>1, <1>3 DEF bars, modeBar, lifeBar, LifeOf, Scheduled

LEMMA RoundImplements ==
  ASSUME IInv, Once, (\E n \in Tasks : Apply(n)) \/ Mark
  PROVE  UNCHANGED bars
<1>1. UNCHANGED <<life, owner>>
  BY DEF Apply, Mark
<1>2. ASSUME NEW n \in Tasks, Apply(n) PROVE modeBar' = modeBar
  <2>1. /\ watch.at = "applying" /\ n \in watch.todo
        /\ tasks' = IF Scheduled(n)
                    THEN [tasks EXCEPT ![n] = WithRuntime(@, watch.report[n])] ELSE tasks
    BY <1>2 DEF Apply
  <2>2. PICK r : r = watch.report[n]
    OBVIOUS
  <2>3. r \in Runtimes
    BY <2>1, <2>2, RoundOnce
  <2>4. CASE Scheduled(n)
    BY <2>1, <2>2, <2>3, <2>4, RuntimeModes
  <2>5. CASE ~Scheduled(n)
    BY <2>1, <2>5 DEF modeBar, Scheduled
  <2>. QED
    BY <2>4, <2>5
<1>3. ASSUME Mark PROVE modeBar' = modeBar
  <2>1. watch.at = "marking"
    BY <1>3 DEF Mark
  <2>2. PICK n : n = watch.task
    OBVIOUS
  <2>3. n \in Tasks
    BY <2>1, <2>2, RoundOnce
  <2>4. CASE Scheduled(n)
    <3>1. PICK e : e = [tasks[n] EXCEPT !.state = "restarting"]
      OBVIOUS
    <3>2. e \in Entries /\ e.mode = tasks[n].mode
      <4>1. tasks[n] \in Entries
        BY <2>3, <2>4, EntryTypes DEF IInv
      <4>. QED
        BY <3>1, <4>1 DEF Entries, States
    <3>3. tasks' = [tasks EXCEPT ![n] = e]
      BY <1>3, <2>2, <2>4, <3>1 DEF Mark
    <3>. QED
      BY <2>3, <2>4, <3>2, <3>3, EntryModes
  <2>5. CASE ~Scheduled(n)
    BY <1>3, <2>2, <2>5 DEF Mark, modeBar, Scheduled
  <2>. QED
    BY <2>4, <2>5
<1>. QED
  BY <1>1, <1>2, <1>3 DEF bars, lifeBar, LifeOf

LEMMA CleanUpWatchedImplements ==
  ASSUME IInv, Once, Policy, CleanUpWatched
  PROVE  \E names \in SUBSET Tasks : Supervised!Forget(names)
<1>1. /\ UNCHANGED <<life, owner>>
      /\ watch.at = "cleaning" /\ tasks' = CleanedUp(watch.todo)
  BY DEF CleanUpWatched
<1>2. PICK names : names = watch.todo
  OBVIOUS
<1>3. names \in SUBSET Tasks /\ \A n \in names : Seen(n)
  BY <1>1, <1>2, WatchTypes DEF IInv, Cleaning, Once, Copied
<1>4. ASSUME NEW n \in names
      PROVE  \E p \in Pids : owner[p] = n /\ Supervised!Finished(modeBar[n], lifeBar[p])
  <2>1. PICK p : p = tasks[n].pid
    OBVIOUS
  <2>2. n \in Tasks /\ Scheduled(n) /\ Own(n, p)
    BY <1>3, <2>1, SeenNames DEF Seen
  <2>3. Supervised!Finished(tasks[n].mode, life[p])
    BY <1>1, <1>2, <2>1 DEF Policy, Judged
  <2>4. life[p] \in Ends
    BY <2>3 DEF Supervised!Finished, Ends
  <2>5. p \in Pids /\ owner[p] = n /\ lifeBar[p] = life[p] /\ modeBar[n] = tasks[n].mode
    BY <2>2, <2>4, BarValues DEF Own, IInv
  <2>. QED
    BY <2>3, <2>5
<1>5. modeBar' = [n \in Tasks |-> IF n \in names THEN "none" ELSE modeBar[n]]
  <2>1. \A n \in Tasks : IF n \in names THEN tasks'[n] = NoTask ELSE tasks'[n] = tasks[n]
    BY <1>1, <1>2 DEF CleanedUp
  <2>. QED
    BY <2>1 DEF modeBar, Scheduled
<1>6. UNCHANGED lifeBar
  BY <1>1 DEF lifeBar, LifeOf
<1>7. Supervised!Forget(names)
  BY <1>1, <1>4, <1>5, <1>6 DEF Supervised!Forget
<1>. QED
  BY <1>3, <1>7

LEMMA StartDueImplements ==
  ASSUME IInv, Once, Policy, StartDue
  PROVE  (\E n \in Tasks, p \in Pids : Supervised!Start(n, p)) \/ UNCHANGED bars
<1>1. UNCHANGED tasks /\ restarter.at = "starting"
  BY DEF StartDue
<1>2. PICK n, v : n = Head(restarter.todo) /\ v = restarter.version
  OBVIOUS
<1>3. n \in Tasks /\ Scheduled(n)
  BY <1>1, <1>2, AtWork DEF Once, Marked
<1>4. PICK r : StartTask(n, v, life, r)
  BY <1>2 DEF StartDue
<1>5. AllSpent(n)
  BY <1>2, StartDuePolicy
<1>6. modeBar' = modeBar
  BY <1>1 DEF modeBar, Scheduled
<1>. QED
  BY <1>3, <1>4, <1>5, <1>6, StartTaskImplements

LEMMA WriteDueImplements ==
  ASSUME IInv, Once, WriteDue
  PROVE  UNCHANGED bars
<1>1. UNCHANGED <<life, owner>>
  BY DEF WriteDue
<1>2. PICK n, r : n = Head(restarter.todo) /\ r = restarter.runtime
  OBVIOUS
<1>3. PICK e \in Entries : Written(n, r, e)
  BY <1>2, WrittenEntry
<1>4. modeBar' = modeBar
  BY <1>3, EntryModes DEF Written, Marked
<1>. QED
  BY <1>1, <1>4 DEF bars, lifeBar, LifeOf

LEMMA ExitImplements ==
  ASSUME IInv, NEW p \in Pids, Exit(p)
  PROVE  \E end \in Ends : Supervised!End(p, end)
<1>1. UNCHANGED <<tasks, owner>> /\ Alive(p)
  BY DEF Exit
<1>2. PICK e \in Exits \cup {"killed"} : life' = [life EXCEPT ![p] = e]
  BY DEF Exit
<1>3. e \in Ends
  BY <1>2, MonitorAssumption DEF Ends, Supervised!Ends
<1>4. life'[p] = e /\ \A q \in Pids : q # p => life'[q] = life[q]
  BY <1>2 DEF IInv, Processes
<1>5. lifeBar[p] = "alive" /\ lifeBar' = [lifeBar EXCEPT ![p] = e]
  BY <1>1, <1>3, <1>4 DEF lifeBar, LifeOf, Alive, Ends, Supervised!Ends
<1>6. UNCHANGED modeBar
  BY <1>1 DEF modeBar, Scheduled
<1>. QED
  BY <1>1, <1>3, <1>5, <1>6 DEF Supervised!End

LEMMA DownloadImplements ==
  ASSUME IInv, NEW p \in Pids, Download(p)
  PROVE  (\E end \in Ends : Supervised!End(p, end)) \/ UNCHANGED bars
<1>1. UNCHANGED <<tasks, owner>>
  BY DEF Download, DownloadSucceeds, DownloadReports, DownloadFails
<1>2. UNCHANGED modeBar
  BY <1>1 DEF modeBar, Scheduled
<1>3. CASE DownloadSucceeds(p)
  <2>1. /\ life[p] = "downloading" /\ life'[p] = "alive"
        /\ \A q \in Pids : q # p => life'[q] = life[q]
    BY <1>3 DEF DownloadSucceeds, IInv, Processes
  <2>2. UNCHANGED lifeBar
    BY <2>1 DEF lifeBar, LifeOf
  <2>. QED
    BY <1>1, <1>2, <2>2 DEF bars
<1>4. CASE DownloadReports(p)
  <2>1. UNCHANGED lifeBar
    BY <1>4 DEF DownloadReports, lifeBar, LifeOf
  <2>. QED
    BY <1>1, <1>2, <2>1 DEF bars
<1>5. CASE DownloadFails(p)
  <2>1. /\ life[p] = "downloading" /\ life'[p] = "never"
        /\ \A q \in Pids : q # p => life'[q] = life[q]
    BY <1>5 DEF DownloadFails, IInv, Processes
  <2>2. lifeBar[p] = "alive" /\ lifeBar' = [lifeBar EXCEPT ![p] = "failure"]
    BY <2>1 DEF lifeBar, LifeOf
  <2>3. "failure" \in Ends
    BY DEF Ends, Supervised!Ends
  <2>. QED
    BY <1>1, <1>2, <2>2, <2>3 DEF Supervised!End
<1>. QED
  BY <1>3, <1>4, <1>5 DEF Download

LEMMA SupervisorInit == Init => Supervised!Init
<1>. SUFFICES ASSUME Init PROVE Supervised!Init
  OBVIOUS
<1>1. modeBar = [n \in Tasks |-> "none"]
  BY DEF Init, modeBar, Scheduled
<1>2. lifeBar = [p \in Pids |-> "free"]
  BY DEF Init, lifeBar, LifeOf
<1>. QED
  BY <1>1, <1>2 DEF Init, Supervised!Init

LEMMA SupervisorStep ==
  ASSUME IInv, updates <= 1 => Once /\ Policy, [Next]_vars, updates' <= 1
  PROVE  Supervised!Next \/ UNCHANGED bars
<1>1. ASSUME NEW c \in Callers, NEW names \in SUBSET Tasks \ {{}}, NEW spec \in Specs,
             NEW down \in BOOLEAN, Request(c, names, spec, down)
      PROVE  UNCHANGED bars
  BY <1>1, RequestImplements
<1>2. ASSUME NEW c \in Callers, Execute(c) PROVE Supervised!Next \/ UNCHANGED bars
  <2>1. Once /\ Policy
    BY <1>2 DEF Execute, Prepare, Stop, Restart, Report, CleanUp
  <2>2. ASSUME NEW n \in Tasks, Prepare(c, n) \/ Stop(c, n) PROVE Supervised!Next
    BY <2>1, <2>2, PrepareImplements, StopNever DEF Supervised!Next
  <2>3. CASE Restart(c)
    BY <2>1, <2>3, RestartImplements DEF Supervised!Next
  <2>4. CASE Report(c) \/ CleanUp(c)
    BY <2>1, <2>4, ReportImplements
  <2>. QED
    BY <1>2, <2>2, <2>3, <2>4 DEF Execute
<1>3. CASE Watch
  <2>1. Once /\ Policy
    BY <1>3 DEF Watch, Copy, Probe, Mark, QueueRestart, QueuePoisoned, ReportWatched,
       CleanUpWatched, Apply
  <2>2. CASE Copy \/ Probe \/ QueueRestart \/ QueuePoisoned \/ ReportWatched
    <3>1. UNCHANGED <<tasks, life, owner>>
      BY <2>2 DEF Copy, Probe, QueueRestart, QueuePoisoned, ReportWatched
    <3>. QED
      BY <3>1 DEF bars, modeBar, lifeBar, LifeOf, Scheduled
  <2>3. CASE Mark \/ \E n \in Tasks : Apply(n)
    BY <2>1, <2>3, RoundImplements
  <2>4. CASE CleanUpWatched
    BY <2>1, <2>4, CleanUpWatchedImplements DEF Supervised!Next
  <2>. QED
    BY <1>3, <2>2, <2>3, <2>4 DEF Watch
<1>4. CASE RestartLoop
  <2>1. Once /\ Policy
    BY <1>4 DEF RestartLoop, TakeDue, ReadDue, DownloadDue, StartDue, WriteDue, Release
  <2>2. CASE (\E k \in 1 .. Len(queue) : TakeDue(k)) \/ ReadDue \/ DownloadDue \/ Release
    <3>1. UNCHANGED <<tasks, life, owner>>
      BY <2>2 DEF TakeDue, ReadDue, DownloadDue, Release
    <3>. QED
      BY <3>1 DEF bars, modeBar, lifeBar, LifeOf, Scheduled
  <2>3. CASE StartDue
    BY <2>1, <2>3, StartDueImplements DEF Supervised!Next
  <2>4. CASE WriteDue
    BY <2>1, <2>4, WriteDueImplements
  <2>. QED
    BY <1>4, <2>2, <2>3, <2>4 DEF RestartLoop
<1>5. ASSUME NEW p \in Pids, Exit(p) \/ Download(p) PROVE Supervised!Next \/ UNCHANGED bars
  BY <1>5, ExitImplements, DownloadImplements DEF Supervised!Next, Ends
<1>6. CASE UNCHANGED vars
  BY <1>6 DEF vars, bars, modeBar, lifeBar, LifeOf, Scheduled
<1>. QED
  BY <1>1, <1>2, <1>3, <1>4, <1>5, <1>6 DEF Next

\* Until there is a second update every step of the threads, whatever they
\* copied, probed, marked and queued before and whatever ends or is downloaded in
\* between, is a step of the abstract supervisor: a task is started only when it
\* has no process or when its restart mode asks for another after each one it had
\* (restart_loop, execute), and is cleaned up only after an end its mode leaves it
\* at (monitor).
THEOREM SupervisedUntilUpdated ==
  Spec => Supervised!Init /\ [][updates' <= 1 => [Supervised!Next]_bars]_vars
<1>1. IInv /\ (updates <= 1 => Once /\ Policy) /\ [Next]_vars
        => [updates' <= 1 => [Supervised!Next]_bars]_vars
  BY SupervisorStep
<1>. QED
  BY <1>1, SupervisorInit, PolicyInvariance, PTL DEF Spec

\* One update is supervised as the abstract supervisor does it.
THEOREM SupervisorImplemented ==
  ASSUME MaxUpdates <= 1
  PROVE  Spec => ImplementsSupervisor
<1>1. IInv /\ (updates <= 1 => Once /\ Policy) /\ IInv' /\ [Next]_vars
        => [Supervised!Next]_<<modeBar, owner, lifeBar>>
  <2>. SUFFICES ASSUME IInv, updates <= 1 => Once /\ Policy, IInv', [Next]_vars
                PROVE  Supervised!Next \/ UNCHANGED bars
    BY DEF bars
  <2>1. updates' <= 1
    BY MonitorAssumption DEF IInv
  <2>. QED
    BY <2>1, SupervisorStep
<1>. QED
  BY <1>1, SupervisorInit, PolicyInvariance, PTL DEF Spec, ImplementsSupervisor, Supervised!Spec

=============================================================================
