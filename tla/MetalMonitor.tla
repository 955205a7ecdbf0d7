---------------------------- MODULE MetalMonitor ----------------------------
(***************************************************************************)
(* The task supervisor of metal: the threads of the RPC server that apply  *)
(* updates (service.rs, update, and monitor.rs, execute), the thread that  *)
(* watches the processes (monitor), the thread that restarts them          *)
(* (restart_loop), the downloads, and the processes themselves.            *)
(*                                                                         *)
(* An action is a stretch of code between two acquisitions of locks.  Of   *)
(* the service only the table of tasks matters here.  Ports, times and     *)
(* exit codes go with the process that has them, so the runtime            *)
(* information of a task is a process and a state.                         *)
(***************************************************************************)
EXTENDS Naturals, Sequences, FiniteSets

CONSTANTS
    Tasks,       \* names of tasks
    Versions,    \* what the diff of two tasks sees but the restart mode
    Remote,      \* the versions whose binary is a URL
    Modes,       \* restart modes: {"oneshot", "onfailure", "always"}
    Exits,       \* how processes end: {"success", "failure", "killed"}
    Callers,     \* threads of the RPC server
    Pids,        \* processes; when none is left, spawning fails
    MaxUpdates,  \* bound on the number of update requests
    Failure,     \* what start_task returns when it fails
    NoTask,      \* no entry in a table
    NoPid        \* pid 0

States == {"unknown", "preparing", "running", "success", "failed",
           "restarting", "stopped"}
Runtimes == [pid : Pids \cup {NoPid}, state : States]
Entries == [version : Versions, mode : Modes, pid : Pids \cup {NoPid},
            state : States]

ASSUME MonitorAssumption ==
    /\ IsFiniteSet(Tasks) /\ IsFiniteSet(Pids)
    /\ Remote \subseteq Versions
    /\ Modes \subseteq {"oneshot", "onfailure", "always"}
    /\ Exits \subseteq {"success", "failure", "killed"}
    /\ MaxUpdates \in Nat
    /\ NoTask \notin Entries /\ NoTask \notin Tasks
    /\ NoPid \notin Pids
    /\ Failure \notin Runtimes

VARIABLES
    service,    \* MetalServiceHandlerInner.tasks
    tasks,      \* MetalMonitorInner.tasks
    queue,      \* restart_queue, in the order of the start times
    life,       \* what became of each process
    owner,      \* the task a process was started for
    unreported, \* processes started after a download, not reported yet
    updates,    \* number of updates so far
    job,        \* per caller: what execute() has still to do
    watch,      \* the monitor thread
    restarter   \* the restart thread, which holds the queue while it works

vars == <<service, tasks, queue, life, owner, unreported, updates, job, watch,
          restarter>>

-----------------------------------------------------------------------------
(* Tables *)

Fresh == [pid |-> NoPid, state |-> "unknown"]
WithRuntime(entry, r) == [entry EXCEPT !.pid = r.pid, !.state = r.state]
RuntimeOf(entry) == [pid |-> entry.pid, state |-> entry.state]
Scheduled(n) == tasks[n] # NoTask

Ended == {"success", "failed", "stopped"}
\* Mutant: the entries of the tasks that ended are left as they are.
ReportedRunning(report) ==
    [n \in Tasks |->
        IF n \notin DOMAIN report \/ service[n] = NoTask THEN service[n]
        ELSE IF report[n].state \in Ended THEN service[n]
        ELSE WithRuntime(service[n], report[n])]

\* report_tasks: the table of the service, and the tasks it asks to clean up,
\* after a report, which is a function from names to runtimes.
Reported(report) ==
    [n \in Tasks |->
        IF n \notin DOMAIN report \/ service[n] = NoTask THEN service[n]
        ELSE IF report[n].state \in Ended THEN NoTask
        ELSE WithRuntime(service[n], report[n])]
ToCleanUp(report) == {n \in DOMAIN report : report[n].state \in Ended}

With(results, n, r) ==
    [m \in DOMAIN results \cup {n} |-> IF m = n THEN r ELSE results[m]]

CleanedUp(names) ==
    [n \in Tasks |-> IF n \in names THEN NoTask ELSE tasks[n]]

-----------------------------------------------------------------------------
(* Processes *)

Alive(p) == life[p] \in {"alive", "signalled"}
Free == {p \in Pids : life[p] = "free"}

\* stop_task: SIGTERM, unless there is no process or it is gone.
Signalled(p) ==
    [q \in Pids |-> IF q = p /\ life[q] = "alive" THEN "signalled" ELSE life[q]]

Launch(n, p, place, lives) ==
    /\ owner' = [owner EXCEPT ![p] = n]
    /\ life' = [lives EXCEPT ![p] = place]

\* What start_task returns when the binary has to be downloaded.
Preparing == [pid |-> NoPid, state |-> "preparing"]

\* start_task, which returns r or fails.  The download of a binary that is
\* not in the cache has the process it will start set aside.
StartTask(n, version, lives, r) ==
    \/ /\ r = Failure
       /\ life' = lives
       /\ UNCHANGED owner
    \/ /\ Free # {}
       /\ LET p == CHOOSE q \in Free : TRUE
          IN  \/ /\ r = [pid |-> p, state |-> "running"]
                 /\ Launch(n, p, "alive", lives)
              \/ /\ version \in Remote
                 /\ r = Preparing
                 /\ Launch(n, p, "downloading", lives)

\* A process ends by itself, or of the signal it got.
Exit(p) ==
    /\ Alive(p)
    /\ \E e \in Exits \cup (IF life[p] = "signalled" THEN {"killed"} ELSE {}) :
          life' = [life EXCEPT ![p] = e]
    /\ UNCHANGED <<service, tasks, queue, owner, unreported, updates, job,
                   watch, restarter>>

\* What check_tasks finds: /proc, then the exit status file, which a killed
\* process does not leave.
ProbedState(p) ==
    CASE Alive(p) -> "running"
      [] life[p] = "success" -> "success"
      [] life[p] = "failure" -> "failed"
      [] OTHER -> "unknown"

-----------------------------------------------------------------------------

Idle == [at |-> "idle"]

\* A thread that panicked does nothing more.
Dead == [at |-> "dead", todo |-> <<>>]

Init ==
    /\ service = [n \in Tasks |-> NoTask]
    /\ tasks = [n \in Tasks |-> NoTask]
    /\ queue = <<>>
    /\ life = [p \in Pids |-> "free"]
    /\ owner = [p \in Pids |-> NoTask]
    /\ unreported = {}
    /\ updates = 0
    /\ job = [c \in Callers |-> Idle]
    /\ watch = Idle
    /\ restarter = Idle

-----------------------------------------------------------------------------
(* update and execute, by the callers *)

\* diff_task, for a task the service has.
Differs(n, spec) ==
    service[n].version # spec.version \/ service[n].mode # spec.mode

\* compute_diff and the critical section of update.  The tasks of a request
\* have one version and one mode.  For a modified task update copies the
\* version only, for a removed one the environment, which may be all that
\* tells the versions apart.
Request(c, names, spec, down) ==
    LET existing == {n \in names : service[n] # NoTask}
        modified == {n \in existing : Differs(n, spec)}
        added == IF down THEN {} ELSE modified \cup (names \ existing)
    IN  /\ job[c] = Idle
        /\ updates < MaxUpdates
        /\ updates' = updates + 1
        /\ \E touched \in IF down THEN SUBSET modified ELSE {added} :
              service' = [n \in Tasks |->
                  IF n \notin touched THEN service[n]
                  ELSE IF n \in existing
                  THEN [service[n] EXCEPT !.version = spec.version]
                  ELSE [version |-> spec.version, mode |-> spec.mode,
                        pid |-> NoPid, state |-> "unknown"]]
        /\ job' = [job EXCEPT ![c] =
               [at |-> "executing", spec |-> spec, added |-> added,
                removed |-> IF down THEN existing ELSE {},
                task |-> NoTask, results |-> [n \in {} |-> Fresh]]]
        /\ UNCHANGED <<tasks, queue, life, owner, unreported, watch, restarter>>

\* The entry of an added task is updated or created, under the write lock.
Prepare(c, n) ==
    LET runtime == IF Scheduled(n) THEN RuntimeOf(tasks[n]) ELSE Fresh
    IN  /\ job[c].at = "executing"
        /\ n \in job[c].added
        /\ tasks' = [tasks EXCEPT ![n] =
               [version |-> job[c].spec.version, mode |-> job[c].spec.mode,
                pid |-> runtime.pid, state |-> runtime.state]]
        /\ job' = [job EXCEPT ![c] =
               [@ EXCEPT !.at = "starting", !.task = n, !.added = job[c].added \ {n}]]
        /\ UNCHANGED <<service, queue, life, owner, unreported, updates, watch,
                       restarter>>

\* The entry is locked again: the old process is told to stop and a new one
\* started.  A failure, or an entry that is gone, ends execute().
Restart(c) ==
    LET n == job[c].task
    IN  /\ job[c].at = "starting"
        /\ IF ~Scheduled(n)
           THEN job' = [job EXCEPT ![c] = Idle] /\ UNCHANGED <<tasks, life, owner>>
           ELSE \E r \in Runtimes \cup {Failure} :
                   /\ StartTask(n, tasks[n].version, Signalled(tasks[n].pid), r)
                   /\ IF r = Failure
                      THEN job' = [job EXCEPT ![c] = Idle] /\ UNCHANGED tasks
                      ELSE /\ tasks' = [tasks EXCEPT ![n] = WithRuntime(@, r)]
                           /\ job' = [job EXCEPT ![c] =
                                  [@ EXCEPT !.at = "executing",
                                            !.results = With(job[c].results, n, r)]]
        /\ UNCHANGED <<service, queue, unreported, updates, watch, restarter>>

\* A removed task: its process is told to stop.
Stop(c, n) ==
    LET r == [pid |-> tasks[n].pid, state |-> "stopped"]
    IN  /\ job[c].at = "executing"
        /\ job[c].added = {}
        /\ n \in job[c].removed
        /\ IF ~Scheduled(n)
           THEN /\ job' = [job EXCEPT ![c].removed = @ \ {n}]
                /\ UNCHANGED <<tasks, life>>
           ELSE /\ life' = Signalled(tasks[n].pid)
                /\ tasks' = [tasks EXCEPT ![n] = WithRuntime(@, r)]
                /\ job' = [job EXCEPT ![c] =
                       [@ EXCEPT !.removed = job[c].removed \ {n},
                                 !.results = With(job[c].results, n, r)]]
        /\ UNCHANGED <<service, queue, owner, unreported, updates, watch,
                       restarter>>

\* The results are reported to the service.
Report(c) ==
    /\ job[c].at = "executing"
    /\ job[c].added = {} /\ job[c].removed = {}
    /\ service' = Reported(job[c].results)
    /\ job' = [job EXCEPT ![c] =
           [@ EXCEPT !.at = "cleaning", !.removed = ToCleanUp(job[c].results)]]
    /\ UNCHANGED <<tasks, queue, life, owner, unreported, updates, watch,
                   restarter>>

CleanUp(c) ==
    /\ job[c].at = "cleaning"
    /\ tasks' = CleanedUp(job[c].removed)
    /\ job' = [job EXCEPT ![c] = Idle]
    /\ UNCHANGED <<service, queue, life, owner, unreported, updates, watch,
                   restarter>>

Execute(c) ==
    \/ \E n \in Tasks : Prepare(c, n) \/ Stop(c, n)
    \/ Restart(c)
    \/ Report(c)
    \/ CleanUp(c)

-----------------------------------------------------------------------------
(* monitor: the thread that watches the processes *)

\* Mutant: tasks that wait to be restarted are probed too.
WatchedAll == {n \in Tasks : Scheduled(n) /\ tasks[n].pid # NoPid}

\* check_tasks copies what it knows of the processes that are not waiting to
\* be restarted ...
Watched == {n \in Tasks : /\ Scheduled(n)
                          /\ tasks[n].pid # NoPid
                          /\ tasks[n].state # "restarting"}

Copy ==
    /\ watch = Idle
    /\ watch' = [at |-> "probing",
                 report |-> [n \in Watched |-> RuntimeOf(tasks[n])]]
    /\ UNCHANGED <<service, tasks, queue, life, owner, unreported, updates,
                   job, restarter>>

\* ... and then looks at them, keeping what is new.
Probe ==
    LET seen == watch.report
        new == {n \in DOMAIN seen : ProbedState(seen[n].pid) # seen[n].state}
    IN  /\ watch.at = "probing"
        /\ watch' = [at |-> "applying", todo |-> new, task |-> NoTask,
                     report |-> [n \in new |->
                         [pid |-> seen[n].pid,
                          state |-> ProbedState(seen[n].pid)]]]
        /\ UNCHANGED <<service, tasks, queue, life, owner, unreported, updates,
                       job, restarter>>

\* Whether a task of this mode is restarted in this state.
Restarts(mode, state) ==
    \/ mode = "always" /\ state # "running"
    \/ mode = "onfailure" /\ state \notin {"running", "success"}

Apply(n) ==
    /\ watch.at = "applying"
    /\ n \in watch.todo
    /\ tasks' = IF Scheduled(n)
                THEN [tasks EXCEPT ![n] = WithRuntime(@, watch.report[n])]
                ELSE tasks
    /\ watch' = [watch EXCEPT
           !.todo = @ \ {n}, !.task = n,
           !.at = IF /\ Scheduled(n)
                     /\ Restarts(tasks[n].mode, watch.report[n].state)
                  THEN "marking" ELSE "applying"]
    /\ UNCHANGED <<service, queue, life, owner, unreported, updates, job,
                   restarter>>

\* The state becomes Restarting, if the task is still there.
Mark ==
    LET n == watch.task
    IN  /\ watch.at = "marking"
        /\ tasks' = IF Scheduled(n)
                    THEN [tasks EXCEPT ![n].state = "restarting"] ELSE tasks
        /\ watch' = [watch EXCEPT !.at = "queueing",
                                  !.report[n].state = "restarting"]
        /\ UNCHANGED <<service, queue, life, owner, unreported, updates, job,
                       restarter>>

\* Mutant: no dedup.
QueueRestartTwice ==
    /\ watch.at = "queueing"
    /\ restarter = Idle
    /\ \E i \in 0 .. Len(queue) :
          queue' = SubSeq(queue, 1, i) \o <<watch.task>>
                   \o SubSeq(queue, i + 1, Len(queue))
    /\ watch' = [watch EXCEPT !.at = "applying"]
    /\ UNCHANGED <<service, tasks, life, owner, unreported, updates, job,
                   restarter>>

\* queue_restart: the task goes to the place its start time gives it, which
\* may be any, and is dropped if a neighbour is the same task.
QueueRestart ==
    /\ watch.at = "queueing"
    /\ restarter = Idle
    /\ \E i \in 0 .. Len(queue) :
          queue' = IF \E j \in {i, i + 1} \cap DOMAIN queue : queue[j] = watch.task
                   THEN queue
                   ELSE SubSeq(queue, 1, i) \o <<watch.task>>
                        \o SubSeq(queue, i + 1, Len(queue))
    /\ watch' = [watch EXCEPT !.at = "applying"]
    /\ UNCHANGED <<service, tasks, life, owner, unreported, updates, job,
                   restarter>>

\* When the restart thread panicked it held the lock of the queue, and taking a
\* poisoned lock panics: the monitor ends in the middle of its round.
QueuePoisoned ==
    /\ watch.at = "queueing"
    /\ restarter = Dead
    /\ watch' = Dead
    /\ UNCHANGED <<service, tasks, queue, life, owner, unreported, updates, job,
                   restarter>>

ReportWatched ==
    /\ watch.at = "applying"
    /\ watch.todo = {}
    /\ service' = Reported(watch.report)
    /\ watch' = [at |-> "cleaning", todo |-> ToCleanUp(watch.report)]
    /\ UNCHANGED <<tasks, queue, life, owner, unreported, updates, job,
                   restarter>>

CleanUpWatched ==
    /\ watch.at = "cleaning"
    /\ tasks' = CleanedUp(watch.todo)
    /\ watch' = Idle
    /\ UNCHANGED <<service, queue, life, owner, unreported, updates, job,
                   restarter>>

Watch ==
    \/ Copy \/ Probe \/ Mark \/ QueueRestart \/ QueuePoisoned
    \/ ReportWatched \/ CleanUpWatched
    \/ \E n \in Tasks : Apply(n)

-----------------------------------------------------------------------------
(* restart_loop *)

\* Mutant: what is taken off the queue is one more than what is started.
TakeDueShort(k) ==
    /\ restarter = Idle
    /\ queue' = SubSeq(queue, k + 1, Len(queue))
    /\ restarter' = [at |-> "reading", todo |-> SubSeq(queue, 1, k - 1)]
    /\ UNCHANGED <<service, tasks, life, owner, unreported, updates, job,
                   watch>>

\* The tasks whose time has come are taken off the queue, which stays locked
\* until they are started.
TakeDue(k) ==
    /\ restarter = Idle
    /\ queue' = SubSeq(queue, k + 1, Len(queue))
    /\ restarter' = [at |-> "reading", todo |-> SubSeq(queue, 1, k)]
    /\ UNCHANGED <<service, tasks, life, owner, unreported, updates, job,
                   watch>>

\* The entry is cloned, unless the task was unscheduled.
ReadDue ==
    LET n == Head(restarter.todo)
    IN  /\ restarter.at = "reading"
        /\ restarter.todo # <<>>
        /\ restarter' = IF Scheduled(n)
               THEN [at |-> "starting", todo |-> restarter.todo,
                     version |-> tasks[n].version]
               ELSE [restarter EXCEPT !.todo = Tail(@)]
        /\ UNCHANGED <<service, tasks, queue, life, owner, unreported, updates,
                       job, watch>>

\* restart_loop has a thread of its own, outside the runtime of tokio, where no
\* download can be started: the tasks that were taken off the queue are lost.
DownloadDue ==
    /\ restarter.at = "starting"
    /\ restarter.version \in Remote
    /\ restarter' = Dead
    /\ UNCHANGED <<service, tasks, queue, life, owner, unreported, updates, job,
                   watch>>

StartDue ==
    /\ restarter.at = "starting"
    /\ \E r \in (Runtimes \ {Preparing}) \cup {Failure} :
          /\ StartTask(Head(restarter.todo), restarter.version, life, r)
          /\ restarter' = [at |-> "writing", todo |-> restarter.todo,
                           runtime |-> r]
    /\ UNCHANGED <<service, tasks, queue, unreported, updates, job, watch>>

\* Mutant: the process is written back, its state is not.
WritePidOnly ==
    LET n == Head(restarter.todo)
    IN  /\ restarter.at = "writing"
        /\ tasks' = IF ~Scheduled(n) \/ restarter.runtime = Failure THEN tasks
                    ELSE [tasks EXCEPT ![n].pid = restarter.runtime.pid]
        /\ restarter' = [at |-> "reading", todo |-> Tail(restarter.todo)]
        /\ UNCHANGED <<service, queue, life, owner, unreported, updates, job,
                       watch>>

\* The runtime is written back, if the task is still there.
WriteDue ==
    LET n == Head(restarter.todo)
    IN  /\ restarter.at = "writing"
        /\ tasks' = IF ~Scheduled(n) THEN tasks
                    ELSE IF restarter.runtime = Failure
                    THEN [tasks EXCEPT ![n].state = "failed"]
                    ELSE [tasks EXCEPT ![n] = WithRuntime(@, restarter.runtime)]
        /\ restarter' = [at |-> "reading", todo |-> Tail(restarter.todo)]
        /\ UNCHANGED <<service, queue, life, owner, unreported, updates, job,
                       watch>>

Release ==
    /\ restarter.at = "reading"
    /\ restarter.todo = <<>>
    /\ restarter' = Idle
    /\ UNCHANGED <<service, tasks, queue, life, owner, unreported, updates,
                   job, watch>>

RestartLoop ==
    \/ \E k \in 1 .. Len(queue) : TakeDue(k)
    \/ ReadDue \/ DownloadDue \/ StartDue \/ WriteDue \/ Release

-----------------------------------------------------------------------------
(* download_and_start_task *)

\* The task is started from the clone that came with the download; nobody
\* tells the table of the monitor.
DownloadSucceeds(p) ==
    /\ life[p] = "downloading"
    /\ life' = [life EXCEPT ![p] = "alive"]
    /\ unreported' = unreported \cup {p}
    /\ UNCHANGED <<service, tasks, queue, owner, updates, job, watch,
                   restarter>>

DownloadReports(p) ==
    /\ p \in unreported
    /\ unreported' = unreported \ {p}
    /\ service' = Reported([n \in {owner[p]} |->
                               [pid |-> p, state |-> "running"]])
    /\ UNCHANGED <<tasks, queue, life, owner, updates, job, watch, restarter>>

\* The download or the start fails; what report_tasks returns is dropped.
DownloadFails(p) ==
    /\ life[p] = "downloading"
    /\ life' = [life EXCEPT ![p] = "never"]
    /\ service' = Reported([n \in {owner[p]} |->
                               [pid |-> NoPid, state |-> "failed"]])
    /\ UNCHANGED <<tasks, queue, owner, unreported, updates, job, watch,
                   restarter>>

Download(p) == DownloadSucceeds(p) \/ DownloadReports(p) \/ DownloadFails(p)

-----------------------------------------------------------------------------

Specs == [version : Versions, mode : Modes]

Next ==
    \/ \E c \in Callers :
          \/ \E names \in SUBSET Tasks \ {{}}, spec \in Specs, down \in BOOLEAN :
                Request(c, names, spec, down)
          \/ Execute(c)
    \/ Watch
    \/ RestartLoop
    \/ \E p \in Pids : Exit(p) \/ Download(p)

Spec == Init /\ [][Next]_vars

\* The threads are scheduled and their locks are granted; downloads end.
\* Processes may run forever.
Fairness ==
    /\ \A c \in Callers : WF_vars(Execute(c))
    /\ WF_vars(Watch)
    /\ WF_vars(RestartLoop)
    /\ \A p \in Pids : WF_vars(Download(p))

FairSpec == Spec /\ Fairness

-----------------------------------------------------------------------------
(* Properties *)

Results == UNION {[S -> Runtimes] : S \in SUBSET Tasks}
JobOK(j) ==
    \/ j = Idle
    \/ /\ j.at \in {"executing", "starting", "cleaning"}
       /\ j.spec \in Specs
       /\ j.added \subseteq Tasks /\ j.removed \subseteq Tasks
       /\ j.task \in Tasks \cup {NoTask}
       /\ j.results \in Results
       /\ j.at = "starting" => j.task # NoTask
WatchOK ==
    \/ watch \in {Idle, Dead}
    \/ watch.at = "probing" /\ watch.report \in Results
    \/ /\ watch.at \in {"applying", "marking", "queueing"}
       /\ watch.report \in Results
       /\ watch.todo \subseteq DOMAIN watch.report
       /\ watch.at # "applying" => watch.task \in DOMAIN watch.report
    \/ watch.at = "cleaning" /\ watch.todo \subseteq Tasks
RestarterOK ==
    \/ restarter \in {Idle, Dead}
    \/ /\ restarter.at \in {"reading", "starting", "writing"}
       /\ \A i \in DOMAIN restarter.todo : restarter.todo[i] \in Tasks
       /\ restarter.at # "reading" => restarter.todo # <<>>
       /\ restarter.at = "starting" => restarter.version \in Versions
       /\ restarter.at = "writing" => restarter.runtime \in Runtimes \cup {Failure}

\* Every variable has its type; a process exists for a task, and a thread that
\* works on a task has one to work on.
TypeOK ==
    /\ service \in [Tasks -> Entries \cup {NoTask}]
    /\ tasks \in [Tasks -> Entries \cup {NoTask}]
    /\ \A i \in DOMAIN queue : queue[i] \in Tasks
    /\ \A i \in 1 .. Len(queue) - 1 : queue[i] # queue[i + 1]
    /\ owner \in [Pids -> Tasks \cup {NoTask}]
    /\ \A p \in Pids : (life[p] = "free") = (owner[p] = NoTask)
    /\ unreported \subseteq {p \in Pids : life[p] # "free"}
    /\ updates \in 0 .. MaxUpdates
    /\ \A c \in Callers : JobOK(job[c])
    /\ WatchOK
    /\ RestarterOK

\* Two processes of one task never run at the same time, unless one of them
\* was told to stop: execute() stops what runs before it starts another, and
\* restart_loop starts only what the monitor found ended.
OneLiveProcess ==
    \A p, q \in Pids : life[p] = "alive" /\ life[q] = "alive" /\ owner[p] = owner[q]
                          => p = q

\* A task that waits to be restarted.
Waits(n) == Scheduled(n) /\ tasks[n].state = "restarting"

\* The monitor does not probe a task it marked Restarting, so somebody has to
\* have it on a list: the queue, the restart thread, or the monitor itself
\* between the mark and the queue.
Handled(n) ==
    \/ \E i \in DOMAIN queue : queue[i] = n
    \/ watch.at = "queueing" /\ watch.task = n
    \/ restarter # Idle /\ \E i \in DOMAIN restarter.todo : restarter.todo[i] = n

\* Every task that waits to be restarted is on a list for as long as there is a
\* restart thread; one that panicked at a download has lost what it held.
RestartingIsQueued == restarter # Dead => \A n \in Tasks : Waits(n) => Handled(n)

\* A task that waits to be restarted is started, fails to start or is removed,
\* unless the restart thread comes to a download: then nothing is restarted any
\* more.
RestartHappens ==
    \A n \in Tasks : Waits(n) ~> ~Waits(n) \/ restarter = Dead

\* The service shows p, which ended by itself, as the process of a one-shot task.
ShownAlive(n, p) ==
    IF service[n] = NoTask THEN FALSE
    ELSE /\ service[n].mode = "oneshot"
         /\ service[n].state = "running" /\ service[n].pid = p
         /\ life[p] \in {"success", "failure"}

\* The service does not take a one-shot task that ended for a running one
\* forever (monitor: "If the task is no longer running, we may need to restart
\* it, or else clean it up"), whichever of the reports of execute() and
\* monitor() comes first.
ServiceLearnsEnd ==
    \A n \in Tasks, p \in Pids : ShownAlive(n, p) ~> ~ShownAlive(n, p)

\* What the supervisor knows of a running task it tells the service, which
\* answers resolve() from it (monitor: "Report task state to coordinator").
RunningIsReported ==
    \A n \in Tasks :
        Scheduled(n) /\ tasks[n].state = "running"
            ~> \/ ~Scheduled(n) \/ tasks[n].state # "running"
               \/ service[n] # NoTask /\ RuntimeOf(service[n]) = RuntimeOf(tasks[n])

-----------------------------------------------------------------------------
(* One update: the abstract supervisor *)

\* A process is on its way while its binary is downloaded; the end of a
\* download that fails is a failure.
LifeOf(p) ==
    CASE life[p] \in {"downloading", "signalled"} -> "alive"
      [] life[p] = "never" -> "failure"
      [] OTHER -> life[p]

modeBar == [n \in Tasks |-> IF Scheduled(n) THEN tasks[n].mode ELSE "none"]
lifeBar == [p \in Pids |-> LifeOf(p)]

Supervised == INSTANCE Supervisor WITH mode <- modeBar, life <- lifeBar

\* After one update execute(), monitor() and restart_loop() start, watch,
\* restart and clean up its tasks as their restart modes say: what the monitor
\* copied, probed and applied in between, and what waits in the queue or is
\* downloaded, never makes a second process of a task or one its mode does not
\* ask for, and never loses a task that is not done.
ImplementsSupervisor == Supervised!Spec

=============================================================================
