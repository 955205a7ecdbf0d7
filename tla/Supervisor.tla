----------------------------- MODULE Supervisor -----------------------------
(***************************************************************************)
(* What a supervisor promises of the tasks of one update, without tables,  *)
(* queues, reports and threads: a task has one process at a time, the next *)
(* one is started only when the ends of all before it call for another in  *)
(* its restart mode, and a task is forgotten only when a process of it     *)
(* came to an end that its mode leaves it at.                              *)
(***************************************************************************)
CONSTANTS
    Tasks,   \* names of tasks
    Pids,    \* processes
    Modes,   \* restart modes, of {"oneshot", "onfailure", "always"}
    NoTask   \* the owner of a process that was not started

VARIABLES
    mode,    \* per task, its restart mode, or "none": it is not supervised
    owner,   \* the task a process was started for
    life     \* what became of each process

Ends == {"success", "failure", "killed"}

\* After this end of a process the task is to be started again ...
Renewed(m, end) ==
    end \in Ends /\ (m = "always" \/ (m = "onfailure" /\ end # "success"))

\* ... and after this one it is done.
Finished(m, end) == end \in Ends /\ ~Renewed(m, end)

Init ==
    /\ mode = [n \in Tasks |-> "none"]
    /\ owner = [p \in Pids |-> NoTask]
    /\ life = [p \in Pids |-> "free"]

Take(n, m) ==
    /\ mode[n] = "none"
    /\ \A p \in Pids : owner[p] # n
    /\ mode' = [mode EXCEPT ![n] = m]
    /\ UNCHANGED <<owner, life>>

Start(n, p) ==
    /\ mode[n] # "none"
    /\ owner[p] = NoTask
    /\ \A q \in Pids : owner[q] = n => Renewed(mode[n], life[q])
    /\ owner' = [owner EXCEPT ![p] = n]
    /\ life' = [life EXCEPT ![p] = "alive"]
    /\ UNCHANGED mode

End(p, end) ==
    /\ life[p] = "alive"
    /\ life' = [life EXCEPT ![p] = end]
    /\ UNCHANGED <<mode, owner>>

Forget(names) ==
    /\ \A n \in names :
          \E p \in Pids : owner[p] = n /\ Finished(mode[n], life[p])
    /\ mode' = [n \in Tasks |-> IF n \in names THEN "none" ELSE mode[n]]
    /\ UNCHANGED <<owner, life>>

Next ==
    \/ \E n \in Tasks, m \in Modes : Take(n, m)
    \/ \E n \in Tasks, p \in Pids : Start(n, p)
    \/ \E p \in Pids, end \in Ends : End(p, end)
    \/ \E names \in SUBSET Tasks : Forget(names)

Spec == Init /\ [][Next]_<<mode, owner, life>>

=============================================================================
