------------------------- MODULE MetalServiceProofs -------------------------
(***************************************************************************)
(* Proofs about MetalService, for any tasks, tasksets and bindings and any *)
(* sequence of requests and reports.                                       *)
(***************************************************************************)
EXTENDS MetalService, TLAPS

-----------------------------------------------------------------------------
(* The parts of a request *)

LEMMA RequestParts ==
    ASSUME NEW req \in Requests
    PROVE  /\ req.down \in BOOLEAN
           /\ DOMAIN req.tasks \subseteq Tasks
           /\ \A n \in DOMAIN req.tasks : req.tasks[n] \in Specs
           /\ DOMAIN req.tasksets \subseteq Tasksets
           /\ \A S \in DOMAIN req.tasksets :
                 /\ req.tasksets[S] \in Sets
                 /\ \A b \in req.tasksets[S].bindings :
                       b \in Bindings /\ b.name[1] = S
<1>1. \A S \in DOMAIN req.tasksets :
         /\ req.tasksets[S] \in Sets
         /\ \A b \in req.tasksets[S].bindings : b.name[1] = S
  BY ServiceAssumption
<1>. QED
  BY <1>1, ServiceAssumption DEF Sets

\* What is added or removed is asked for, and what is removed exists.
LEMMA ChangedTasks ==
    ASSUME NEW req \in Requests
    PROVE  /\ Added(req) \subseteq DOMAIN req.tasks
           /\ Removed(req) \subseteq Existing(req)
           /\ Existing(req) \subseteq DOMAIN req.tasks
           /\ \A n \in Existing(req) : tasks[n] # NoTask
           /\ \A n \in DOMAIN req.tasks \ Existing(req) : tasks[n] = NoTask
BY DEF Added, Removed, Existing

\* A task that an update changes has an entry afterwards.
LEMMA UpdatedType ==
    ASSUME TypeOK, NEW req \in Requests, NEW n \in Added(req) \cup Removed(req)
    PROVE  Updated(n, req) \in Entries
<1>. USE ChangedTasks, RequestParts
<1>1. n \in Tasks /\ n \in DOMAIN req.tasks /\ req.tasks[n] \in Specs
  OBVIOUS
<1>2. CASE n \in Added(req) \ Existing(req)
  BY <1>1, <1>2, ServiceAssumption DEF Updated, Entries
<1>3. CASE n \in Existing(req)
  <2>1. tasks[n] \in Entries
    BY <1>1, <1>3 DEF TypeOK
  <2>. QED
    BY <1>1, <1>3, <2>1 DEF Updated, Entries, Specs
<1>. QED
  BY <1>2, <1>3

\* A report leaves a task what it specifies.
LEMMA ReportedType ==
    ASSUME TypeOK, NEW n \in Tasks, tasks[n] # NoTask, NEW s \in States
    PROVE  [tasks[n] EXCEPT !.state = s] \in Entries
<1>1. tasks[n] \in Entries
  BY DEF TypeOK
<1>. QED
  BY <1>1 DEF Entries

LEMMA OverlayType ==
    ASSUME TypeOK, NEW req \in Requests,
           NEW table \in [Tasks -> Entries \cup {NoTask}]
    PROVE  Overlay(table, req) \in [Tasks -> Entries \cup {NoTask}]
BY UpdatedType DEF Overlay

\* The key of a binding that a modified taskset inserts is a port and a
\* hostname, and clients asked for the binding in this taskset.
LEMMA InsertedParts ==
    ASSUME NEW req \in Requests, NEW S \in Modified(req),
           NEW b \in req.tasksets[S].bindings
    PROVE  /\ S \in Tasksets /\ b \in Asked(S) /\ b.name[1] = S
           /\ b \in Bindings /\ Key(b) \in Ports \X Hosts
<1>1. S \in DOMAIN req.tasksets
  BY DEF Modified
<1>2. b \in Bindings /\ b.name[1] = S /\ S \in Tasksets
  BY <1>1, RequestParts
<1>3. Key(b) \in Ports \X Hosts
  BY <1>2 DEF Key, Bindings
<1>4. b \in Asked(S)
  BY <1>1 DEF Asked
<1>. QED
  BY <1>2, <1>3, <1>4

-----------------------------------------------------------------------------
(* What an update makes of the bindings *)

\* Where a key of the new table is from, and what the last taskset that
\* touched a key makes of it.
LEMMA BindingsUpdate ==
    ASSUME NEW req \in Requests, Update(req)
    PROVE  \E last \in [Touched(req) -> Modified(req)] :
              /\ \A k \in Touched(req) : k \in TouchedBy(last[k], req)
              /\ bindings' \in [Rebound(last, req) -> Names]
              /\ \A k \in Rebound(last, req) :
                    /\ k \in Touched(req) =>
                          \E b \in req.tasksets[last[k]].bindings :
                              Key(b) = k /\ bindings'[k] = b.name
                    /\ k \notin Touched(req) =>
                          k \in DOMAIN bindings /\ bindings'[k] = bindings[k]
<1>1. PICK last \in [Touched(req) -> Modified(req)] :
          /\ InTurn(last, req)
          /\ bindings' \in [Rebound(last, req) -> Names]
          /\ \A k \in Rebound(last, req) :
                IF k \in Touched(req)
                THEN \E b \in req.tasksets[last[k]].bindings : Key(b) = k /\ bindings'[k] = b.name
                ELSE bindings'[k] = bindings[k]
  BY DEF Update
<1>2. \A k \in Touched(req) : k \in TouchedBy(last[k], req)
  BY <1>1 DEF InTurn
<1>3. \A k \in Rebound(last, req) \ Touched(req) : k \in DOMAIN bindings
  BY DEF Rebound, Kept
<1>. QED
  BY <1>1, <1>2, <1>3

LEMMA TypeInit == Init => TypeOK
BY DEF Init, TypeOK, Range

LEMMA TypeStep ==
    ASSUME TypeOK, [Next]_vars
    PROVE  TypeOK'
<1>1. ASSUME NEW req \in Requests, Update(req)
      PROVE  TypeOK'
  <2>1. tasks' = Overlay(tasks, req) /\ stored' = Overlay(stored, req)
    BY <1>1 DEF Update
  <2>2. /\ tasks' \in [Tasks -> Entries \cup {NoTask}]
        /\ stored' \in [Tasks -> Entries \cup {NoTask}]
    BY <2>1, OverlayType DEF TypeOK
  <2>3. tasksets' \in [Tasksets -> Sets \cup {NoTaskset}]
    <3>1. ASSUME NEW S \in Modified(req)
          PROVE  [req.tasksets[S] EXCEPT !.tasks = Members(S, req)] \in Sets
      <4>1. S \in DOMAIN req.tasksets /\ S \in Tasksets
            /\ req.tasksets[S] \in Sets
        BY RequestParts DEF Modified
      <4>2. Current(S) \subseteq Tasks
        BY <4>1 DEF Current, TypeOK, Sets
      <4>3. Members(S, req) \subseteq Tasks
        BY <4>1, <4>2 DEF Members, Sets
      <4>. QED
        BY <4>1, <4>3 DEF Sets
    <3>2. tasksets' = [S \in Tasksets |->
             IF S \in Deleted(req) THEN NoTaskset
             ELSE IF S \in Modified(req)
             THEN [req.tasksets[S] EXCEPT !.tasks = Members(S, req)]
             ELSE tasksets[S]]
      BY <1>1 DEF Update
    <3>. QED
      BY <3>1, <3>2 DEF TypeOK
  <2>4. DOMAIN bindings' \subseteq Ports \X Hosts /\ Range(bindings') \subseteq Names
    <3>1. PICK last \in [Touched(req) -> Modified(req)] :
             /\ bindings' \in [Rebound(last, req) -> Names]
             /\ \A k \in Rebound(last, req) :
                   /\ k \in Touched(req) =>
                         \E b \in req.tasksets[last[k]].bindings : Key(b) = k
                   /\ k \notin Touched(req) => k \in DOMAIN bindings
      BY <1>1, BindingsUpdate
    <3>2. ASSUME NEW k \in Rebound(last, req)
          PROVE  k \in Ports \X Hosts
      <4>1. CASE k \in Touched(req)
        <5>1. PICK b \in req.tasksets[last[k]].bindings : Key(b) = k
          BY <3>1, <4>1
        <5>2. last[k] \in Modified(req)
          BY <4>1
        <5>. QED
          BY <5>1, <5>2, InsertedParts
      <4>2. CASE k \notin Touched(req)
        BY <3>1, <4>2 DEF TypeOK
      <4>. QED
        BY <4>1, <4>2
    <3>. QED
      BY <3>1, <3>2 DEF Range
  <2>. QED
    BY <2>2, <2>3, <2>4 DEF TypeOK
<1>2. ASSUME NEW D \in SUBSET Tasks, NEW report \in [D -> States],
             Report(report)
      PROVE  TypeOK'
  <2>1. \A n \in Tasks : n \in DOMAIN report /\ tasks[n] # NoTask =>
           [tasks[n] EXCEPT !.state = report[n]] \in Entries
    BY ReportedType
  <2>2. Store(report) \in [Tasks -> Entries \cup {NoTask}]
    BY <2>1 DEF Store, TypeOK
  <2>3. tasks' \in [Tasks -> Entries \cup {NoTask}]
    BY <1>2, <2>1 DEF Report, TypeOK
  <2>. QED
    BY <1>2, <2>2, <2>3 DEF Report, TypeOK
<1>3. CASE UNCHANGED vars
  BY <1>3 DEF vars, TypeOK
<1>. QED
  BY <1>1, <1>2, <1>3 DEF Next

-----------------------------------------------------------------------------
(* The status *)

LEMMA StatusStep ==
    ASSUME TypeOK, StatusIsCurrent, [Next]_vars
    PROVE  StatusIsCurrent'
<1>. SUFFICES ASSUME NEW n \in Tasks
              PROVE  /\ tasks'[n] # NoTask => stored'[n] = tasks'[n]
                     /\ tasks'[n] = NoTask /\ stored'[n] # NoTask =>
                           stored'[n].state \in Ended
  BY DEF StatusIsCurrent
<1>0. /\ tasks[n] # NoTask => stored[n] = tasks[n]
      /\ tasks[n] = NoTask /\ stored[n] # NoTask => stored[n].state \in Ended
  BY DEF StatusIsCurrent
<1>1. ASSUME NEW req \in Requests, Update(req)
      PROVE  /\ tasks'[n] # NoTask => stored'[n] = tasks'[n]
             /\ tasks'[n] = NoTask /\ stored'[n] # NoTask =>
                   stored'[n].state \in Ended
  <2>1. tasks' = Overlay(tasks, req) /\ stored' = Overlay(stored, req)
    BY <1>1 DEF Update
  <2>2. CASE n \in Added(req) \cup Removed(req)
    <3>1. tasks'[n] = Updated(n, req) /\ stored'[n] = Updated(n, req)
      BY <2>1, <2>2 DEF Overlay
    <3>2. Updated(n, req) \in Entries
      BY <2>2, UpdatedType
    <3>. QED
      BY <3>1, <3>2, ServiceAssumption
  <2>3. CASE n \notin Added(req) \cup Removed(req)
    <3>1. tasks'[n] = tasks[n] /\ stored'[n] = stored[n]
      BY <2>1, <2>3 DEF Overlay
    <3>. QED
      BY <1>0, <3>1
  <2>. QED
    BY <2>2, <2>3
<1>2. ASSUME NEW D \in SUBSET Tasks, NEW report \in [D -> States],
             Report(report)
      PROVE  /\ tasks'[n] # NoTask => stored'[n] = tasks'[n]
             /\ tasks'[n] = NoTask /\ stored'[n] # NoTask =>
                   stored'[n].state \in Ended
  <2>1. CASE n \notin DOMAIN report \/ tasks[n] = NoTask
    BY <1>0, <1>2, <2>1 DEF Report, Store
  <2>2. CASE n \in DOMAIN report /\ tasks[n] # NoTask
    <3>1. stored'[n] = [tasks[n] EXCEPT !.state = report[n]]
      BY <1>2, <2>2 DEF Report, Store
    <3>2. tasks'[n] = IF report[n] \in Ended THEN NoTask ELSE stored'[n]
      BY <1>2, <2>2, <3>1 DEF Report
    <3>3. stored'[n].state = report[n]
      BY <2>2, <3>1 DEF TypeOK, Entries
    <3>. QED
      BY <3>2, <3>3
  <2>. QED
    BY <2>1, <2>2
<1>3. CASE UNCHANGED vars
  BY <1>0, <1>3 DEF vars
<1>. QED
  BY <1>1, <1>2, <1>3 DEF Next

-----------------------------------------------------------------------------
(* The bindings *)

\* A key that is asked for in one taskset and not disputed is touched by no
\* other one.
LEMMA OnlyItsOwn ==
    ASSUME TypeOK, BindingsLead, NEW req \in Requests,
           NEW S \in Tasksets, NEW b \in Asked(S), Key(b) \in Ports \X Hosts,
           Key(b) \notin Disputed,
           NEW T \in Modified(req) \cup Deleted(req), T # S
    PROVE  /\ Key(b) \notin StaleOf(T)
           /\ T \in Modified(req) => Key(b) \notin TouchedBy(T, req)
<1>1. T \in Tasksets
  BY RequestParts DEF Modified, Deleted
<1>2. \A c \in Asked(T) : Key(b) # Key(c) /\ Key(b) # NameKey(c)
  BY <1>1 DEF Disputed
<1>3. Key(b) \notin StaleOf(T)
  BY <1>1, <1>2 DEF StaleOf, BindingsLead
<1>4. ASSUME T \in Modified(req)
      PROVE  Key(b) \notin InsertedBy(T, req)
  BY <1>2, <1>4, InsertedParts DEF InsertedBy
<1>. QED
  BY <1>3, <1>4 DEF TouchedBy

LEMMA BindingsStep ==
    ASSUME TypeOK, BindingsLead, [Next]_vars
    PROVE  BindingsLead'
<1>1. ASSUME NEW req \in Requests, Update(req)
      PROVE  BindingsLead'
  <2>. SUFFICES ASSUME NEW S \in Tasksets, NEW b \in Bound(S)'
                PROVE  /\ b \in Asked(S)
                       /\ \/ Key(b) \in Disputed
                          \/ /\ Key(b) \in DOMAIN bindings'
                             /\ bindings'[Key(b)][1] = S
    BY DEF BindingsLead, Key, NameKey, Asked, Disputed
  <2>1. /\ S \notin Deleted(req)
        /\ S \in Modified(req) => b \in req.tasksets[S].bindings
        /\ S \notin Modified(req) => b \in Bound(S)
    <3>1. tasksets'[S] =
             IF S \in Deleted(req) THEN NoTaskset
             ELSE IF S \in Modified(req)
             THEN [req.tasksets[S] EXCEPT !.tasks = Members(S, req)]
             ELSE tasksets[S]
      BY <1>1 DEF Update
    <3>2. S \notin Deleted(req) /\ b \in tasksets'[S].bindings
      BY <3>1 DEF Bound
    <3>3. S \in Modified(req) => req.tasksets[S] \in Sets
      BY RequestParts DEF Modified
    <3>4. S \in Modified(req) => tasksets'[S].bindings = req.tasksets[S].bindings
      BY <3>1, <3>2, <3>3 DEF Sets
    <3>5. S \notin Modified(req) => tasksets'[S] = tasksets[S]
      BY <3>1, <3>2
    <3>. QED
      BY <3>2, <3>4, <3>5 DEF Bound
  <2>2. b \in Asked(S) /\ Key(b) \in Ports \X Hosts
    <3>1. CASE S \in Modified(req)
      BY <2>1, <3>1, InsertedParts
    <3>2. CASE S \notin Modified(req)
      <4>1. b \in Bound(S) /\ b \in Bindings
        BY <2>1, <3>2 DEF Bound, TypeOK, Sets
      <4>. QED
        BY <4>1 DEF BindingsLead, Key, Bindings
    <3>. QED
      BY <3>1, <3>2
  <2>3. ASSUME Key(b) \notin Disputed
        PROVE  Key(b) \in DOMAIN bindings' /\ bindings'[Key(b)][1] = S
    <3>1. PICK last \in [Touched(req) -> Modified(req)] :
             /\ \A k \in Touched(req) : k \in TouchedBy(last[k], req)
             /\ bindings' \in [Rebound(last, req) -> Names]
             /\ \A k \in Rebound(last, req) :
                   /\ k \in Touched(req) =>
                         \E c \in req.tasksets[last[k]].bindings :
                             Key(c) = k /\ bindings'[k] = c.name
                   /\ k \notin Touched(req) =>
                         k \in DOMAIN bindings /\ bindings'[k] = bindings[k]
      BY <1>1, BindingsUpdate
    <3>2. \A T \in Deleted(req) : Key(b) \notin StaleOf(T)
      BY <2>1, <2>2, <2>3, OnlyItsOwn
    <3>3. \A T \in Modified(req) : Key(b) \in TouchedBy(T, req) => T = S
      BY <2>2, <2>3, OnlyItsOwn
    <3>4. CASE S \in Modified(req)
      <4>1. Key(b) \in InsertedBy(S, req)
        BY <2>1, <3>4 DEF InsertedBy
      <4>2. Key(b) \in Touched(req) /\ last[Key(b)] = S
        BY <3>1, <3>3, <3>4, <4>1 DEF Touched, TouchedBy
      <4>3. Key(b) \in Rebound(last, req)
        BY <3>2, <4>1, <4>2 DEF Rebound, Kept
      <4>. QED
        BY <3>1, <3>4, <4>2, <4>3, InsertedParts
    <3>5. CASE S \notin Modified(req)
      <4>1. Key(b) \notin Touched(req)
        BY <3>3, <3>5 DEF Touched
      <4>2. Key(b) \in DOMAIN bindings /\ bindings[Key(b)][1] = S
        BY <2>1, <2>3, <3>5 DEF BindingsLead
      <4>3. Key(b) \in Rebound(last, req)
        BY <3>2, <4>1, <4>2 DEF Rebound, Kept
      <4>. QED
        BY <3>1, <4>1, <4>2, <4>3
    <3>. QED
      BY <3>4, <3>5
  <2>. QED
    BY <2>2, <2>3
<1>2. ASSUME NEW D \in SUBSET Tasks, NEW report \in [D -> States],
             Report(report)
      PROVE  BindingsLead'
  BY <1>2 DEF Report, BindingsLead, Bound, Key, NameKey, Asked, Disputed
<1>3. CASE UNCHANGED vars
  BY <1>3 DEF vars, BindingsLead, Bound, Key, NameKey, Asked, Disputed
<1>. QED
  BY <1>1, <1>2, <1>3 DEF Next

LEMMA InvInit == Init => IInv
<1>. SUFFICES ASSUME Init PROVE IInv
  OBVIOUS
<1>1. StatusIsCurrent
  BY DEF Init, StatusIsCurrent
<1>2. BindingsLead
  BY DEF Init, BindingsLead, Bound
<1>. QED
  BY <1>1, <1>2, TypeInit DEF IInv

LEMMA InvStep == IInv /\ [Next]_vars => IInv'
BY TypeStep, StatusStep, BindingsStep DEF IInv

\* The tables keep their types, the state manager follows them and every
\* binding of a taskset leads to it, after any requests and reports.
THEOREM TablesInvariance == Spec => []IInv
BY InvInit, InvStep, PTL DEF Spec

\* status() and resolve() never disagree about a task (service.rs, update and
\* report_tasks): an update writes both places alike, and a task that ended is
\* stored with its final state before it leaves the table.
THEOREM StatusFollows == Spec => []StatusIsCurrent
BY TablesInvariance, PTL DEF IInv

LEMMA LeadsResolve ==
    ASSUME IInv
    PROVE  BoundServicesResolve
<1>. SUFFICES ASSUME NEW S \in Tasksets, NEW b \in Bound(S),
                     Key(b) \notin Disputed, S \notin Scheduled({S})
              PROVE  Resolve(b.port, b.hostname)
                     = Scheduled(tasksets[S].tasks)
  BY DEF BoundServicesResolve
<1>1. Key(b) \in DOMAIN bindings /\ bindings[Key(b)][1] = S
  BY DEF IInv, BindingsLead
<1>2. Resolve(b.port, b.hostname) = ResolveName(bindings[Key(b)])
  BY <1>1 DEF Resolve, Key
<1>3. Scheduled({S}) = {}
  BY DEF Scheduled
<1>4. tasksets[S] # NoTaskset
  BY DEF Bound
<1>. QED
  BY <1>1, <1>2, <1>3, <1>4 DEF ResolveName, Current

\* A hostname and port that one taskset alone asks for, and no other one has as
\* the name of a binding, resolve to its tasks, although updates insert under
\* one key and remove under another (service.rs, resolve and update).
THEOREM ServicesResolve == Spec => []BoundServicesResolve
BY LeadsResolve, TablesInvariance, PTL

-----------------------------------------------------------------------------
(* The tasks of tasksets *)

\* No entry leaves the state manager.
LEMMA StoredKept ==
    ASSUME TypeOK, [Next]_vars, NEW n \in Tasks, stored[n] # NoTask
    PROVE  stored'[n] # NoTask
<1>1. ASSUME NEW req \in Requests, Update(req)
      PROVE  stored'[n] # NoTask
  <2>1. CASE n \in Added(req) \cup Removed(req)
    <3>1. stored'[n] = Updated(n, req)
      BY <1>1, <2>1 DEF Update, Overlay
    <3>. QED
      BY <2>1, <3>1, UpdatedType, ServiceAssumption
  <2>2. CASE n \notin Added(req) \cup Removed(req)
    BY <1>1, <2>2 DEF Update, Overlay
  <2>. QED
    BY <2>1, <2>2
<1>2. ASSUME NEW D \in SUBSET Tasks, NEW report \in [D -> States],
             Report(report)
      PROVE  stored'[n] # NoTask
  <2>1. CASE n \in DOMAIN report /\ tasks[n] # NoTask
    <3>1. stored'[n] = [tasks[n] EXCEPT !.state = report[n]]
      BY <1>2, <2>1 DEF Report, Store
    <3>. QED
      BY <2>1, <3>1, ReportedType, ServiceAssumption
  <2>2. CASE ~(n \in DOMAIN report /\ tasks[n] # NoTask)
    BY <1>2, <2>2 DEF Report, Store
  <2>. QED
    BY <2>1, <2>2
<1>. QED
  BY <1>1, <1>2 DEF Next, vars

LEMMA HoldStep ==
    ASSUME TypeOK, TasksetsHoldTasks, [Next]_vars
    PROVE  TasksetsHoldTasks'
<1>. SUFFICES ASSUME NEW S \in Tasksets, tasksets'[S] # NoTaskset
              PROVE  /\ tasksets'[S].tasks # {}
                     /\ \A n \in tasksets'[S].tasks : stored'[n] # NoTask
  BY DEF TasksetsHoldTasks
<1>1. ASSUME tasksets[S] # NoTaskset
      PROVE  \A n \in tasksets[S].tasks : n \in Tasks /\ stored'[n] # NoTask
  <2>1. tasksets[S].tasks \subseteq Tasks
    BY <1>1 DEF TypeOK, Sets
  <2>. QED
    BY <1>1, <2>1, StoredKept DEF TasksetsHoldTasks
<1>2. CASE tasksets'[S] = tasksets[S]
  BY <1>1, <1>2 DEF TasksetsHoldTasks
<1>3. ASSUME NEW req \in Requests, Update(req), tasksets'[S] # tasksets[S]
      PROVE  /\ tasksets'[S].tasks # {}
             /\ \A n \in tasksets'[S].tasks : stored'[n] # NoTask
  <2>1. /\ S \notin Deleted(req) /\ S \in Modified(req)
        /\ tasksets'[S] = [req.tasksets[S] EXCEPT !.tasks = Members(S, req)]
    BY <1>3 DEF Update
  <2>2. S \in DOMAIN req.tasksets /\ req.tasksets[S] \in Sets
    BY <2>1, RequestParts DEF Modified
  <2>3. tasksets'[S].tasks = Members(S, req)
    BY <2>1, <2>2 DEF Sets
  <2>4. Members(S, req) # {}
    BY <2>1, <2>2 DEF Deleted
  <2>5. ASSUME NEW n \in Members(S, req)
        PROVE  stored'[n] # NoTask
    <3>1. n \in Current(S) \/ n \in Added(req)
      BY DEF Members
    <3>2. CASE n \in Current(S)
      BY <1>1, <3>2 DEF Current
    <3>3. CASE n \in Added(req)
      <4>1. n \in Tasks
        BY <3>3, ChangedTasks, RequestParts
      <4>2. stored'[n] = Updated(n, req)
        BY <1>3, <3>3, <4>1 DEF Update, Overlay
      <4>. QED
        BY <3>3, <4>2, UpdatedType, ServiceAssumption
    <3>. QED
      BY <3>1, <3>2, <3>3
  <2>. QED
    BY <2>3, <2>4, <2>5
<1>. QED
  BY <1>2, <1>3 DEF Next, vars, Report

\* A taskset that a client sees has tasks, and each of them was scheduled: a
\* taskset is deleted when no task remains (compute_diff), and what left the table
\* stays with the state manager (report_tasks).
THEOREM TasksetsHold == Spec => []TasksetsHoldTasks
<1>1. Init => TasksetsHoldTasks
  BY DEF Init, TasksetsHoldTasks
<1>2. IInv /\ TasksetsHoldTasks /\ [Next]_vars => TasksetsHoldTasks'
  BY HoldStep DEF IInv
<1>. QED
  BY <1>1, <1>2, TablesInvariance, PTL DEF Spec

=============================================================================
