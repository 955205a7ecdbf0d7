----------------------------- MODULE MetalLocks -----------------------------
(***************************************************************************)
(* The locks of the control plane of metal, taken one by one.  The threads *)
(* of the RPC server and of the proxies answer requests (service.rs); an   *)
(* update goes on in execute(), which reports to the service under the     *)
(* lock of the coordinator (monitor.rs); so do the thread of monitor() and *)
(* the downloads.                                                          *)
(*                                                                         *)
(* A request is the script of its locks: what the tables hold decides      *)
(* which of its scripts it follows, and of the tables themselves only the  *)
(* number of the last update is kept.  Locks are those of std::sync, where *)
(* a reader that finds a writer waiting waits, too.  A thread that holds a *)
(* lock of the monitor asks for none of these, except in execute() and     *)
(* monitor() for a map it has released before, so that the locks of the    *)
(* monitor are left out.                                                   *)
(***************************************************************************)
EXTENDS Naturals, Sequences, SequencesExt, FiniteSets

CONSTANTS
    Threads,     \* threads that answer requests or report
    MaxRequests  \* bound: requests in all

ASSUME LocksAssumption == MaxRequests \in Nat

Tables == {"tasks", "tasksets", "service_bindings"}
Locks == Tables \cup {"coordinator"}

-----------------------------------------------------------------------------
(* Scripts.  A mutex is a lock that is only written. *)

Read(lock) == [do |-> "read", lock |-> lock]
Write(lock) == [do |-> "write", lock |-> lock]
Drop(lock) == [do |-> "drop", lock |-> lock]
Change(table) == [do |-> "change", lock |-> table]
See(table) == [do |-> "see", lock |-> table]

\* report_tasks, called under the lock of the coordinator.
ReportTasks ==
    <<Write("coordinator"), Write("tasks"), Drop("tasks"), Drop("coordinator")>>

\* update: the locks go at the end of a block, the last one first; then
\* execute(), which reports unless nothing was started or stopped.
UpdateTables ==
    <<Write("tasks"), Write("tasksets"), Write("service_bindings"),
      Change("tasks"), Change("service_bindings"), Change("tasksets")>>
EndOfBlock == <<Drop("service_bindings"), Drop("tasksets"), Drop("tasks")>>

\* Mutant: execute() is called before the block ends.
UpdateInBlock ==
    {UpdateTables \o EndOfBlock, UpdateTables \o ReportTasks \o EndOfBlock}
Update ==
    {UpdateTables \o EndOfBlock, UpdateTables \o EndOfBlock \o ReportTasks}

Diff ==
    {<<Read("tasks"), Read("tasksets"), See("tasks"), See("tasksets"),
       Drop("tasksets"), Drop("tasks")>>}

\* A port is looked up in the bindings; it may be bound or not.
LookUp == <<Read("service_bindings"), Drop("service_bindings")>>

\* The name of a taskset: the tasks are read while the taskset is.
\* Mutant: the tasksets are released before the tasks are read.
ListedBriefly ==
    <<Read("tasksets"), See("tasksets"), Drop("tasksets"),
      Read("tasks"), See("tasks"), Drop("tasks")>>
Listed ==
    <<Read("tasksets"), See("tasksets"), Read("tasks"), See("tasks"),
      Drop("tasks"), Drop("tasksets")>>
Unlisted == <<Read("tasksets"), Drop("tasksets")>>

\* The name of a task.
Single == <<Read("tasks"), Drop("tasks")>>

Resolve ==
    {LookUp} \cup
    {first \o second \o Single : first \in {<< >>, LookUp},
                                 second \in {Listed, Unlisted}}

Scripts == Update \cup Diff \cup Resolve \cup {ReportTasks}

-----------------------------------------------------------------------------

VARIABLES
    rest,      \* what is left of the script of each thread
    readers,   \* for each lock, the threads that read under it
    writer,    \* for each lock, the set of the thread that writes under it
    waiting,   \* threads that found the lock taken that they want to write
    update,    \* for each table, the number of the last update in it
    seen,      \* for each thread, what it saw of the tables in this request
    requests   \* requests so far

vars == <<rest, readers, writer, waiting, update, seen, requests>>

Busy(p) == rest[p] # << >>
At(p, do) == Busy(p) /\ Head(rest[p]).do = do
Wanted(p) == Head(rest[p]).lock
Go(p) == rest' = [rest EXCEPT ![p] = Tail(@)]

Waiting(lock) == {p \in waiting : Wanted(p) = lock}

Readable(lock) == writer[lock] = {} /\ Waiting(lock) = {}
Writable(lock) == writer[lock] = {} /\ readers[lock] = {}

Init ==
    /\ rest = [p \in Threads |-> << >>]
    /\ readers = [lock \in Locks |-> {}]
    /\ writer = [lock \in Locks |-> {}]
    /\ waiting = {}
    /\ update = [table \in Tables |-> 0]
    /\ seen = [p \in Threads |-> [table \in {} |-> 0]]
    /\ requests = 0

Request(p) ==
    /\ ~Busy(p)
    /\ requests < MaxRequests
    /\ \E script \in Scripts : rest' = [rest EXCEPT ![p] = script]
    /\ seen' = [seen EXCEPT ![p] = [table \in {} |-> 0]]
    /\ requests' = requests + 1
    /\ UNCHANGED <<readers, writer, waiting, update>>

TakeRead(p) ==
    /\ At(p, "read")
    /\ Readable(Wanted(p))
    /\ readers' = [readers EXCEPT ![Wanted(p)] = @ \cup {p}]
    /\ Go(p)
    /\ UNCHANGED <<writer, waiting, update, seen, requests>>

TakeWrite(p) ==
    /\ At(p, "write")
    /\ Writable(Wanted(p))
    /\ writer' = [writer EXCEPT ![Wanted(p)] = {p}]
    /\ waiting' = waiting \ {p}
    /\ Go(p)
    /\ UNCHANGED <<readers, update, seen, requests>>

\* A writer that has to wait keeps new readers out.
Wait(p) ==
    /\ At(p, "write")
    /\ ~Writable(Wanted(p))
    /\ p \notin waiting
    /\ waiting' = waiting \cup {p}
    /\ UNCHANGED <<rest, readers, writer, update, seen, requests>>

Release(p) ==
    /\ At(p, "drop")
    /\ readers' = [readers EXCEPT ![Wanted(p)] = @ \ {p}]
    /\ writer' = [writer EXCEPT ![Wanted(p)] = @ \ {p}]
    /\ Go(p)
    /\ UNCHANGED <<waiting, update, seen, requests>>

\* Updates are serialised by the lock of the tasks: the tables of one update
\* get one number.
Changes(p) ==
    /\ At(p, "change")
    /\ update' = [update EXCEPT ![Wanted(p)] = @ + 1]
    /\ Go(p)
    /\ UNCHANGED <<readers, writer, waiting, seen, requests>>

Sees(p) ==
    /\ At(p, "see")
    /\ seen' = [seen EXCEPT ![p] = [table \in DOMAIN @ \cup {Wanted(p)} |->
           IF table = Wanted(p) THEN update[table] ELSE @[table]]]
    /\ Go(p)
    /\ UNCHANGED <<readers, writer, waiting, update, requests>>

Step(p) ==
    \/ TakeRead(p) \/ TakeWrite(p) \/ Wait(p)
    \/ Release(p) \/ Changes(p) \/ Sees(p)

Next == \E p \in Threads : Request(p) \/ Step(p)

\* A thread that can go on does, one that waits for a lock gets it when it is
\* free; requests come or not.
Spec == Init /\ [][Next]_vars /\ \A p \in Threads : WF_vars(Step(p))

-----------------------------------------------------------------------------
(* Properties *)

\* diff() compares tasks and tasksets, resolve() looks up the tasks of a
\* taskset: both see the two tables as one update left them, never a taskset
\* whose tasks are not in the table yet or are the tasks of the update before.
ReadersSeeWholeUpdates ==
    \A p \in Threads : \A t1, t2 \in DOMAIN seen[p] : seen[p][t1] = seen[p][t2]

\* An update waits for the tasksets that a resolve reads, which waits for the
\* tasks that the update writes.
UpdateMeetsResolve ==
    \E p, q \in Threads :
        /\ p \in writer["tasks"] /\ p \in Waiting("tasksets")
        /\ q \in readers["tasksets"] /\ At(q, "read") /\ Wanted(q) = "tasks"

\* Every request and every report ends - except behind an update and a
\* resolve that wait for each other (service.rs:176 and 276), the one pair of
\* requests that can.
RequestsEnd ==
    \A p \in Threads : Busy(p) ~> (~Busy(p) \/ UpdateMeetsResolve)

=============================================================================
