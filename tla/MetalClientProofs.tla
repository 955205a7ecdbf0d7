------------------------- MODULE MetalClientProofs -------------------------
(***************************************************************************)
(* Proofs about MetalClient, for any number of endpoints, requests and     *)
(* changes of what the service resolves to.                                *)
(***************************************************************************)
EXTENDS MetalClient, FiniteSetTheorems, SequenceTheorems, Functions, TLAPS

-----------------------------------------------------------------------------
(* Lists *)

Distinct(s) == \A j, k \in DOMAIN s : s[j] = s[k] => j = k

\* A list without repetitions is as long as its set of entries is large.
LEMMA DistinctLength ==
    ASSUME NEW s \in Seq(Endpoints), Distinct(s)
    PROVE  Len(s) = Cardinality(ListOf(s))
<1>1. s \in Bijection(1 .. Len(s), ListOf(s))
  BY DEF Bijection, Injection, Surjection, IsInjective, ListOf, Distinct
<1>2. ExistsBijection(1 .. Len(s), ListOf(s))
  BY <1>1 DEF ExistsBijection
<1>. QED
  BY <1>2, FS_CountingElements

\* What swap_remove leaves: one entry less, the ones before the hole in their
\* places, the others still without repetition.
LEMMA SwapRemoveProperties ==
    ASSUME NEW s \in Seq(Endpoints), Distinct(s), NEW k \in 1 .. Len(s)
    PROVE  /\ SwapRemove(s, k) \in Seq(Endpoints)
           /\ Len(SwapRemove(s, k)) = Len(s) - 1
           /\ Distinct(SwapRemove(s, k))
           /\ \A j \in 1 .. k - 1 : SwapRemove(s, k)[j] = s[j]
<1>. DEFINE t == SwapRemove(s, k)
<1>1. /\ Len(s) - 1 \in Nat
      /\ t \in [1 .. Len(s) - 1 -> Endpoints]
  BY DEF SwapRemove
<1>2. t \in Seq(Endpoints) /\ Len(t) = Len(s) - 1
  BY <1>1, IsASeq, LenProperties
<1>3. \A j \in 1 .. Len(s) - 1 : t[j] = IF j = k THEN s[Len(s)] ELSE s[j]
  BY DEF SwapRemove
<1>4. Distinct(t)
  BY <1>1, <1>3 DEF Distinct
<1>. QED
  BY <1>2, <1>3, <1>4

\* What push leaves.
LEMMA AppendDistinct ==
    ASSUME NEW s \in Seq(Endpoints), Distinct(s), NEW e \in Endpoints,
           e \notin ListOf(s)
    PROVE  /\ Append(s, e) \in Seq(Endpoints)
           /\ Len(Append(s, e)) = Len(s) + 1
           /\ Distinct(Append(s, e))
           /\ ListOf(Append(s, e)) = ListOf(s) \cup {e}
<1>. DEFINE t == Append(s, e)
<1>1. /\ t \in Seq(Endpoints) /\ Len(t) = Len(s) + 1
      /\ DOMAIN t = 1 .. Len(s) + 1
      /\ \A j \in 1 .. Len(s) : t[j] = s[j]
      /\ t[Len(s) + 1] = e
  BY AppendProperties
<1>2. Distinct(t)
  BY <1>1 DEF Distinct, ListOf
<1>3. ListOf(t) = ListOf(s) \cup {e}
  BY <1>1 DEF ListOf
<1>. QED
  BY <1>1, <1>2, <1>3

-----------------------------------------------------------------------------
(* The inductive invariant *)

\* The endpoints the loop has looked at so far.
Kept == IF at = "extending" THEN ListOf(endpoints)
        ELSE {endpoints[j] : j \in 1 .. i - 1}

\* Types, with the absence of repetitions in place of the count of TypeOK.
Types ==
    /\ actual \in SUBSET Endpoints /\ moves \in 0 .. MaxMoves
    /\ at \in {"asking", "comparing", "pruning", "extending", "sending", "ended"}
    /\ resolved \in SUBSET Endpoints
    /\ i \in Nat \ {0}
    /\ endpoints \in Seq(Endpoints)
    /\ idx \in Nat /\ version \in Nat
    /\ pc \in [Requests -> {"selecting", "waiting", "resolved", "done"}]
    /\ client \in [Requests -> Endpoints \cup {NoClient}]

\* An endpoint that was kept is not added a second time.
NoRepetition ==
    /\ Distinct(endpoints)
    /\ Locked => resolved \cap Kept = {}

\* An answer that is not empty leaves lists that are not empty.
NeverEmpties ==
    /\ at = "comparing" => resolved # {}
    /\ Locked => resolved # {} \/ Kept # {}
    /\ at = "sending" => endpoints # <<>>
    /\ ~Locked /\ (\E r \in Requests : pc[r] = "resolved") => endpoints # <<>>

IInv ==
    /\ Types
    /\ i <= Len(endpoints) + 1
    /\ Aligned
    /\ NoRepetition
    /\ NeverEmpties

\* The invariant is what the run checks, and more.
LEMMA Implied == IInv => TypeOK /\ Aligned /\ ResolvedHasClient
<1>. SUFFICES ASSUME IInv PROVE TypeOK /\ Aligned /\ ResolvedHasClient
  OBVIOUS
<1>. USE DEF IInv
<1>1. Len(endpoints) = Cardinality(ListOf(endpoints))
  BY DistinctLength DEF Types, NoRepetition
<1>2. Len(endpoints) \in Nat
  BY LenProperties DEF Types
<1>3. TypeOK
  BY <1>1, <1>2 DEF Types, TypeOK, Aligned
<1>4. ResolvedHasClient
  BY DEF ResolvedHasClient, NeverEmpties, Aligned
<1>. QED
  BY <1>3, <1>4

LEMMA InvInit == Init => IInv
<1>. SUFFICES ASSUME Init PROVE IInv
  OBVIOUS
<1>. USE ClientAssumption DEF Init
<1>1. endpoints \in Seq(Endpoints) /\ Len(endpoints) = 0
  BY EmptySeq
<1>2. Types
  BY <1>1 DEF Types
<1>3. NoRepetition
  BY DEF NoRepetition, Distinct, Locked
<1>4. NeverEmpties
  BY DEF NeverEmpties, Locked
<1>. QED
  BY <1>1, <1>2, <1>3, <1>4 DEF IInv, Aligned

\* A step that leaves the lists and the loop alone.
LEMMA KeepLists ==
    ASSUME IInv, UNCHANGED loop, moves' \in 0 .. MaxMoves,
           actual' \in SUBSET Endpoints, idx' \in Nat,
           pc' \in [Requests -> {"selecting", "waiting", "resolved", "done"}],
           client' \in [Requests -> Endpoints \cup {NoClient}],
           ~Locked /\ (\E r \in Requests : pc'[r] = "resolved") =>
               endpoints # <<>>
    PROVE  IInv'
<1>1. Types'
  BY DEF IInv, Types, loop
<1>2. Aligned' /\ i' <= Len(endpoints') + 1
  BY DEF IInv, Aligned, loop
<1>3. NoRepetition' /\ Kept' = Kept
  BY DEF IInv, NoRepetition, Kept, Locked, loop
<1>4. NeverEmpties'
  BY <1>3 DEF IInv, NeverEmpties, Locked, loop
<1>. QED
  BY <1>1, <1>2, <1>3, <1>4 DEF IInv

-----------------------------------------------------------------------------
(* The loop *)

LEMMA AskStep == IInv /\ Ask => IInv'
<1>. SUFFICES ASSUME IInv, Ask PROVE IInv'
  OBVIOUS
<1>. USE DEF IInv, Ask, request
<1>1. Types' /\ Aligned' /\ i' <= Len(endpoints') + 1
  BY DEF Types, Aligned
<1>2. NoRepetition'
  BY DEF NoRepetition, Locked
<1>3. NeverEmpties'
  BY DEF NeverEmpties, Locked
<1>. QED
  BY <1>1, <1>2, <1>3

LEMMA CompareStep == IInv /\ Compare => IInv'
<1>. SUFFICES ASSUME IInv, Compare PROVE IInv'
  OBVIOUS
<1>. USE DEF IInv, Compare, request
<1>1. Len(endpoints) \in Nat
  BY LenProperties DEF Types
<1>2. Types' /\ Aligned' /\ i' <= Len(endpoints') + 1
  BY <1>1 DEF Types, Aligned
<1>3. at' = "pruning" => Kept' = {}
  BY DEF Kept
<1>4. NoRepetition'
  BY <1>3 DEF NoRepetition, Locked
<1>5. NeverEmpties'
  BY DEF NeverEmpties, Locked
<1>. QED
  BY <1>2, <1>4, <1>5

\* The two outcomes of a round of the while loop.
LEMMA PruneStep == IInv /\ Prune => IInv'
<1>. SUFFICES ASSUME IInv, Prune PROVE IInv'
  OBVIOUS
<1>. USE DEF IInv, Prune, request
<1>1. /\ Len(endpoints) \in Nat /\ DOMAIN endpoints = 1 .. Len(endpoints)
      /\ i \in 1 .. Len(endpoints) /\ endpoints[i] \in Endpoints
  BY LenProperties, ElementOfSeq DEF Types
<1>2. at = "pruning" /\ at' = "pruning" /\ Locked /\ Locked'
  BY DEF Locked
<1>3. CASE endpoints[i] \in resolved
  <2>1. Types' /\ Aligned' /\ i' <= Len(endpoints') + 1
    BY <1>1, <1>3 DEF Types, Aligned, Without
  <2>2. Kept' = Kept \cup {endpoints[i]}
    BY <1>1, <1>2, <1>3 DEF Kept
  <2>3. NoRepetition'
    BY <1>2, <1>3, <2>2 DEF NoRepetition, Without
  <2>4. NeverEmpties'
    BY <1>2, <2>2 DEF NeverEmpties
  <2>. QED
    BY <2>1, <2>3, <2>4
<1>4. CASE endpoints[i] \notin resolved
  <2>1. /\ endpoints' = SwapRemove(endpoints, i)
        /\ clients' = SwapRemove(clients, i)
        /\ resolved' = resolved /\ i' = i
    BY <1>4 DEF RemoveClient
  <2>2. /\ endpoints' \in Seq(Endpoints)
        /\ Len(endpoints') = Len(endpoints) - 1
        /\ Distinct(endpoints')
        /\ \A j \in 1 .. i - 1 : endpoints'[j] = endpoints[j]
    BY <1>1, <2>1, SwapRemoveProperties DEF Types, NoRepetition
  <2>3. Types' /\ Aligned' /\ i' <= Len(endpoints') + 1
    BY <1>1, <2>1, <2>2 DEF Types, Aligned
  <2>4. Kept' = Kept
    BY <1>2, <2>1, <2>2 DEF Kept
  <2>5. NoRepetition'
    BY <1>2, <2>1, <2>2, <2>4 DEF NoRepetition
  <2>6. NeverEmpties'
    BY <1>2, <2>1, <2>4 DEF NeverEmpties
  <2>. QED
    BY <2>3, <2>5, <2>6
<1>. QED
  BY <1>3, <1>4

\* Once every endpoint was looked at, the kept ones are all there are.
LEMMA PrunedKept ==
    ASSUME IInv, Pruned
    PROVE  Locked /\ Kept = ListOf(endpoints)
<1>1. Len(endpoints) \in Nat /\ DOMAIN endpoints = 1 .. Len(endpoints)
  BY LenProperties DEF IInv, Types
<1>2. CASE at = "extending"
  BY <1>2 DEF Locked, Kept
<1>3. CASE at = "pruning" /\ i > Len(endpoints)
  <2>1. i - 1 = Len(endpoints)
    BY <1>1, <1>3 DEF IInv, Types
  <2>. QED
    BY <1>1, <1>3, <2>1 DEF Locked, Kept, ListOf
<1>. QED
  BY <1>2, <1>3 DEF Pruned

LEMMA ExtendStep == \A ep \in Endpoints : IInv /\ Extend(ep) => IInv'
<1>. SUFFICES ASSUME NEW ep \in Endpoints, IInv, Extend(ep) PROVE IInv'
  OBVIOUS
<1>. USE DEF IInv, Extend, request
<1>1. Locked /\ Locked' /\ Kept = ListOf(endpoints)
  BY PrunedKept DEF Locked
<1>2. ep \notin ListOf(endpoints)
  BY <1>1 DEF NoRepetition
<1>3. /\ endpoints' \in Seq(Endpoints)
      /\ Len(endpoints') = Len(endpoints) + 1
      /\ Distinct(endpoints')
      /\ ListOf(endpoints') = ListOf(endpoints) \cup {ep}
  BY <1>2, AppendDistinct DEF Types, NoRepetition
<1>4. Len(endpoints) \in Nat
  BY LenProperties DEF Types
<1>5. Types' /\ Aligned' /\ i' <= Len(endpoints') + 1
  BY <1>3, <1>4 DEF Types, Aligned
<1>6. Kept' = Kept \cup {ep}
  BY <1>1, <1>3 DEF Kept
<1>7. NoRepetition'
  BY <1>1, <1>3, <1>6 DEF NoRepetition
<1>8. NeverEmpties'
  BY <1>1, <1>6 DEF NeverEmpties
<1>. QED
  BY <1>5, <1>7, <1>8

LEMMA ReleaseStep == IInv /\ Release => IInv'
<1>. SUFFICES ASSUME IInv, Release PROVE IInv'
  OBVIOUS
<1>. USE DEF IInv, Release, request
<1>1. Locked /\ Kept = ListOf(endpoints)
  BY PrunedKept
<1>2. endpoints # <<>>
  BY <1>1 DEF NeverEmpties, ListOf
<1>3. Types' /\ Aligned' /\ i' <= Len(endpoints') + 1
  BY DEF Types, Aligned
<1>4. NoRepetition' /\ NeverEmpties'
  BY <1>2 DEF NoRepetition, NeverEmpties, Locked
<1>. QED
  BY <1>3, <1>4

LEMMA SendStep == IInv /\ Send => IInv'
<1>. SUFFICES ASSUME IInv, Send PROVE IInv'
  OBVIOUS
<1>. USE DEF IInv, Send, request
<1>1. Types' /\ Aligned' /\ i' <= Len(endpoints') + 1
  BY DEF Types, Aligned
<1>2. NoRepetition' /\ NeverEmpties'
  BY DEF NoRepetition, NeverEmpties, Locked
<1>. QED
  BY <1>1, <1>2

-----------------------------------------------------------------------------
(* The requests, and the service *)

LEMMA ServeStep == \A r \in Requests : IInv /\ Serve(r) => IInv'
<1>. SUFFICES ASSUME NEW r \in Requests, IInv, Serve(r) PROVE IInv'
  OBVIOUS
<1>. USE DEF IInv, Types
<1>1. CASE Select(r)
  <2>1. clients \in Seq(Endpoints) /\ clients # <<>>
    BY <1>1 DEF Aligned, Select
  <2>2. Len(clients) \in Nat \ {0} /\ DOMAIN clients = 1 .. Len(clients)
    BY <2>1, LenProperties, EmptySeq
  <2>3. (idx % Len(clients)) + 1 \in 1 .. Len(clients)
    BY <2>2
  <2>4. clients[(idx % Len(clients)) + 1] \in Endpoints
    BY <2>1, <2>3, ElementOfSeq
  <2>5. client' \in [Requests -> Endpoints \cup {NoClient}]
    BY <1>1, <2>4 DEF Select
  <2>. QED
    BY <1>1, <2>1, <2>5, KeepLists DEF Select, Aligned
<1>2. CASE Await(r)
  BY <1>2, KeepLists DEF Await, NeverEmpties
<1>3. CASE Changed(r)
  BY <1>3, KeepLists DEF Changed, NeverEmpties
<1>. QED
  BY <1>1, <1>2, <1>3 DEF Serve

LEMMA MoveStep == \A S \in SUBSET Endpoints : IInv /\ Move(S) => IInv'
BY ClientAssumption, KeepLists DEF IInv, Types, Move, request, NeverEmpties

LEMMA InvNext == IInv /\ [Next]_vars => IInv'
<1>. SUFFICES ASSUME IInv, [Next]_vars PROVE IInv'
  OBVIOUS
<1>1. CASE Resolution
  BY <1>1, AskStep, CompareStep, PruneStep, ExtendStep, ReleaseStep, SendStep
     DEF Resolution
<1>2. CASE \E r \in Requests : Serve(r)
  BY <1>2, ServeStep
<1>3. CASE \E S \in SUBSET Endpoints : Move(S)
  BY <1>3, MoveStep
<1>4. CASE UNCHANGED vars
  BY <1>4, KeepLists DEF vars, request, IInv, Types, NeverEmpties
<1>. QED
  BY <1>1, <1>2, <1>3, <1>4 DEF Next

-----------------------------------------------------------------------------
(* Theorems *)

\* The loop never shows anybody lists with a repetition, or lists it emptied.
THEOREM ClientInvariance == Spec => []IInv
BY InvInit, InvNext, PTL DEF Spec

\* Types are kept by any number of resolutions and requests.
THEOREM ClientTypes == Spec => []TypeOK
BY ClientInvariance, Implied, PTL

\* swap_remove and push keep the clients at the positions of their endpoints.
THEOREM ClientsAreAligned == Spec => []Aligned
BY ClientInvariance, Implied, PTL

\* A request that was told that the name is resolved finds a client.
THEOREM ResolvedFindsClient == Spec => []ResolvedHasClient
BY ClientInvariance, Implied, PTL

=============================================================================
