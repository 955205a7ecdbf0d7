-------------------------- MODULE MetalLocksProofs --------------------------
(***************************************************************************)
(* What diff() and resolve() see of the tables is what one update left     *)
(* there, for any number of threads and requests.                          *)
(*                                                                         *)
(* One lock is enough for it, that of the tasksets: it is the lock under   *)
(* which a request looks at all it compares, and the one under which an    *)
(* update changes all three tables.  The argument has two halves.  What    *)
(* the scripts promise is static (Tidy): a script takes the tasksets once, *)
(* looks and changes only between that and the release, and an update      *)
(* changes every table, once.  What is left of a tidy script is tidy       *)
(* (TidyTail), so that the rest of it need not be traced back to the       *)
(* request it came from.  What the threads promise each other is dynamic   *)
(* (IInv): whoever is between its take and its release holds the lock, the *)
(* tables have one number unless a writer is between two changes, and what *)
(* a reader has seen is what it would see now.                             *)
(*                                                                         *)
(* The second part shows that the locks deadlock in one way only: every    *)
(* script takes them in one order (Leads), but that resolve() reads the    *)
(* tasks under the tasksets, and a thread holds what its script says       *)
(* (Holding), so that threads that wait for each other wait behind that.   *)
(***************************************************************************)
EXTENDS MetalLocks, TLAPS

-----------------------------------------------------------------------------
(* Scripts *)

Instructions ==
    [do : {"read", "write", "drop"}, lock : Locks] \cup
    [do : {"change", "see"}, lock : Tables]

\* The positions in s at which the tasksets are taken and released, and those
\* at which tables are looked at and changed.
Takes(s) ==
    {i \in DOMAIN s : s[i].lock = "tasksets" /\ s[i].do \in {"read", "write"}}
Drops(s) == {i \in DOMAIN s : s[i] = Drop("tasksets")}
Looks(s) == {i \in DOMAIN s : s[i].do = "see"}
Edits(s) == {i \in DOMAIN s : s[i].do = "change"}

\* The tables that are still to be changed.
Pending(s) == {s[i].lock : i \in Edits(s)}

\* The tasksets are taken once, before they are released.
TakesOnce(s) ==
    /\ \A i, j \in Takes(s) : i = j
    /\ \A i \in Takes(s) : \E j \in Drops(s) : i < j

\* Looks and changes are between the two, under the lock they need.
UsesInside(s) ==
    /\ \A i \in Looks(s) \cup Edits(s) :
           (\A j \in Takes(s) : j < i) /\ (\A j \in Drops(s) : i < j)
    /\ \A i \in Looks(s), j \in Takes(s) : s[j].do = "read"
    /\ \A i \in Edits(s), j \in Takes(s) : s[j].do = "write"

\* An update changes every table, and none twice.
ChangesAll(s) ==
    /\ \A i, j \in Edits(s) : s[i].lock = s[j].lock => i = j
    /\ Takes(s) # {} => Pending(s) \in {{}, Tables}

Tidy(s) ==
    s \in Seq(Instructions) /\ TakesOnce(s) /\ UsesInside(s) /\ ChangesAll(s)

\* A script that nobody has begun looks and changes only if it has a take.
Whole(s) == Takes(s) = {} => Looks(s) = {} /\ Edits(s) = {}

-----------------------------------------------------------------------------
(* The inductive invariant *)

Readers == readers["tasksets"]
Writers == writer["tasksets"]

Types ==
    /\ \A p \in Threads : Tidy(rest[p])
    /\ DOMAIN rest = Threads
    /\ readers \in [Locks -> SUBSET Threads]
    /\ writer \in [Locks -> SUBSET Threads]
    /\ update \in [Tables -> Nat]
    /\ DOMAIN seen = Threads
    /\ \A p \in Threads : DOMAIN seen[p] \subseteq Tables

\* Readers and writers of the tasksets keep each other out.
Exclusive ==
    /\ Readers # {} => Writers = {}
    /\ \A p, q \in Writers : p = q

\* A thread holds the tasksets from its take to its release.
Guarded ==
    \A p \in Threads :
        /\ Takes(rest[p]) = {} /\ Looks(rest[p]) # {} => p \in Readers
        /\ Takes(rest[p]) = {} /\ Edits(rest[p]) # {} => p \in Writers
        /\ p \in Readers \cup Writers =>
               Takes(rest[p]) = {} /\ Drops(rest[p]) # {}

\* The tables are of one update, unless a writer still has some to change:
\* then those it has changed are one ahead.
InStep ==
    /\ Writers = {} => \A t, u \in Tables : update[t] = update[u]
    /\ \A p \in Writers : \A t, u \in Tables :
           /\ (t \in Pending(rest[p]) <=> u \in Pending(rest[p])) =>
                  update[t] = update[u]
           /\ t \in Pending(rest[p]) /\ u \notin Pending(rest[p]) =>
                  update[u] = update[t] + 1

\* What a thread that will look again has seen is still there.
Fresh ==
    \A p \in Threads :
        DOMAIN seen[p] # {} /\ Looks(rest[p]) # {} =>
            /\ Takes(rest[p]) = {}
            /\ \A t \in DOMAIN seen[p] : seen[p][t] = update[t]

IInv ==
    Types /\ Exclusive /\ Guarded /\ InStep /\ Fresh /\ ReadersSeeWholeUpdates

-----------------------------------------------------------------------------
(* The scripts of the requests are tidy. *)

LEMMA DiffIsTidy == ASSUME NEW s, s \in Diff PROVE Tidy(s) /\ Whole(s)
<1>. DEFINE e == <<Read("tasks"), Read("tasksets"), See("tasks"), See("tasksets"),
       Drop("tasksets"), Drop("tasks")>>
<1>1. s = e
  BY DEF Diff
<1>. USE DEF Read, Write, Drop, Change, See
<1>2. Takes(s) = {2} /\ Drops(s) = {5} /\ Looks(s) = {3, 4} /\ Edits(s) = {}
  BY <1>1 DEF Takes, Drops, Looks, Edits
<1>3. s[2].do = "read" /\ Pending(s) = {}
  BY <1>1, <1>2 DEF Pending
<1>4. s \in Seq(Instructions)
  BY <1>1 DEF Instructions, Locks, Tables
<1>. QED
  BY <1>2, <1>3, <1>4 DEF Tidy, TakesOnce, UsesInside, ChangesAll, Whole

LEMMA UpdateIsTidy == ASSUME NEW s, s \in Update PROVE Tidy(s) /\ Whole(s)
<1>. USE DEF Read, Write, Drop, Change, See, UpdateTables, EndOfBlock, ReportTasks
<1>1. \/ s = UpdateTables \o EndOfBlock 
      \/ s = (UpdateTables \o EndOfBlock) \o ReportTasks
  BY DEF Update
<1>2. Takes(s) = {2} /\ Drops(s) = {8} /\ Looks(s) = {} /\ Edits(s) = {4, 5, 6}
  BY <1>1 DEF Takes, Drops, Looks, Edits
<1>3. s[2].do = "write" /\ s[4].lock = "tasks" /\ s[5].lock = "service_bindings" /\ s[6].lock = "tasksets"
  BY <1>1
<1>5. Pending(s) = Tables
  BY <1>3, <1>2 DEF Pending, Tables
<1>4. s \in Seq(Instructions)
  <2>1. CASE s = UpdateTables \o EndOfBlock
    BY <2>1 DEF Instructions, Locks, Tables
  <2>2. CASE s = (UpdateTables \o EndOfBlock) \o ReportTasks
    BY <2>2 DEF Instructions, Locks, Tables
  <2>. QED
    BY <1>1, <2>1, <2>2
<1>. QED
  BY <1>2, <1>3, <1>4, <1>5 DEF Tidy, TakesOnce, UsesInside, ChangesAll, Whole

LEMMA ReportIsTidy == Tidy(ReportTasks) /\ Whole(ReportTasks)
<1>. USE DEF Read, Write, Drop, Change, See, ReportTasks
<1>2. Takes(ReportTasks) = {} /\ Looks(ReportTasks) = {} /\ Edits(ReportTasks) = {}
  BY DEF Takes, Looks, Edits
<1>4. ReportTasks \in Seq(Instructions)
  BY DEF Instructions, Locks, Tables
<1>. QED
  BY <1>2, <1>4 DEF Tidy, TakesOnce, UsesInside, ChangesAll, Whole, Pending

LEMMA ResolveIsTidy == ASSUME NEW s, s \in Resolve PROVE Tidy(s) /\ Whole(s)
<1>. USE DEF Read, Write, Drop, Change, See, LookUp, Listed, Unlisted, Single
<1>1. \/ s = LookUp
      \/ s = (<< >> \o Listed) \o Single
      \/ s = (<< >> \o Unlisted) \o Single
      \/ s = (LookUp \o Listed) \o Single
      \/ s = (LookUp \o Unlisted) \o Single
  BY DEF Resolve
<1>2. CASE s = LookUp
  <2>1. Takes(s) = {} /\ Drops(s) = {} /\ Looks(s) = {} /\ Edits(s) = {}
    BY <1>2 DEF Takes, Drops, Looks, Edits
  <2>2. \A i \in Takes(s) : s[i].do = "read"
    BY <1>2, <2>1
  <2>3. s \in Seq(Instructions)
    BY <1>2 DEF Instructions, Locks, Tables
  <2>. QED
    BY <2>1, <2>2, <2>3 DEF Tidy, TakesOnce, UsesInside, ChangesAll, Whole, Pending
<1>3. CASE s = (<< >> \o Listed) \o Single
  <2>1. Takes(s) = {1} /\ Drops(s) = {6} /\ Looks(s) = {2, 4} /\ Edits(s) = {}
    BY <1>3 DEF Takes, Drops, Looks, Edits
  <2>2. \A i \in Takes(s) : s[i].do = "read"
    BY <1>3, <2>1
  <2>3. s \in Seq(Instructions)
    BY <1>3 DEF Instructions, Locks, Tables
  <2>. QED
    BY <2>1, <2>2, <2>3 DEF Tidy, TakesOnce, UsesInside, ChangesAll, Whole, Pending
<1>4. CASE s = (<< >> \o Unlisted) \o Single
  <2>1. Takes(s) = {1} /\ Drops(s) = {2} /\ Looks(s) = {} /\ Edits(s) = {}
    BY <1>4 DEF Takes, Drops, Looks, Edits
  <2>2. \A i \in Takes(s) : s[i].do = "read"
    BY <1>4, <2>1
  <2>3. s \in Seq(Instructions)
    BY <1>4 DEF Instructions, Locks, Tables
  <2>. QED
    BY <2>1, <2>2, <2>3 DEF Tidy, TakesOnce, UsesInside, ChangesAll, Whole, Pending
<1>5. CASE s = (LookUp \o Listed) \o Single
  <2>1. Takes(s) = {3} /\ Drops(s) = {8} /\ Looks(s) = {4, 6} /\ Edits(s) = {}
    BY <1>5 DEF Takes, Drops, Looks, Edits
  <2>2. \A i \in Takes(s) : s[i].do = "read"
    BY <1>5, <2>1
  <2>3. s \in Seq(Instructions)
    BY <1>5 DEF Instructions, Locks, Tables
  <2>. QED
    BY <2>1, <2>2, <2>3 DEF Tidy, TakesOnce, UsesInside, ChangesAll, Whole, Pending
<1>6. CASE s = (LookUp \o Unlisted) \o Single
  <2>1. Takes(s) = {3} /\ Drops(s) = {4} /\ Looks(s) = {} /\ Edits(s) = {}
    BY <1>6 DEF Takes, Drops, Looks, Edits
  <2>2. \A i \in Takes(s) : s[i].do = "read"
    BY <1>6, <2>1
  <2>3. s \in Seq(Instructions)
    BY <1>6 DEF Instructions, Locks, Tables
  <2>. QED
    BY <2>1, <2>2, <2>3 DEF Tidy, TakesOnce, UsesInside, ChangesAll, Whole, Pending
<1>. QED
  BY <1>1, <1>2, <1>3, <1>4, <1>5, <1>6

LEMMA ScriptsAreTidy == \A s \in Scripts : Tidy(s) /\ Whole(s)
BY DiffIsTidy, UpdateIsTidy, ReportIsTidy, ResolveIsTidy DEF Scripts

-----------------------------------------------------------------------------
(* What is left of a tidy script *)

\* The positions of the tail are those of the script, moved by one.
LEMMA TailPositions ==
    ASSUME NEW s, s \in Seq(Instructions), s # << >>, NEW i
    PROVE  /\ Tail(s) \in Seq(Instructions)
           /\ Head(s) = s[1] /\ 1 \in DOMAIN s
           /\ i \in DOMAIN Tail(s) =>
                 i \in Nat \ {0} /\ i + 1 \in DOMAIN s /\ Tail(s)[i] = s[i + 1]
           /\ i \in DOMAIN s => i \in Nat \ {0} /\ s[i] \in Instructions
           /\ i \in DOMAIN s /\ i # 1 =>
                 i - 1 \in DOMAIN Tail(s) /\ (i - 1) + 1 = i
OBVIOUS

LEMMA TailParts ==
    ASSUME NEW s, s \in Seq(Instructions), s # << >>, NEW i
    PROVE  /\ i \in Takes(Tail(s)) => i \in Nat \ {0} /\ i + 1 \in Takes(s)
           /\ i \in Drops(Tail(s)) => i \in Nat \ {0} /\ i + 1 \in Drops(s)
           /\ i \in Looks(Tail(s)) => i \in Nat \ {0} /\ i + 1 \in Looks(s)
           /\ i \in Edits(Tail(s)) =>
                 i \in Nat \ {0} /\ i + 1 \in Edits(s) /\ Tail(s)[i] = s[i + 1]
           /\ i \in Takes(s) => i \in Nat \ {0}
           /\ i \in Drops(s) => i \in Nat \ {0}
           /\ i \in Looks(s) => i \in Nat \ {0}
           /\ i \in Edits(s) => i \in Nat \ {0}
           /\ i \in Takes(s) /\ i # 1 => i - 1 \in Takes(Tail(s))
           /\ i \in Drops(s) /\ i # 1 => i - 1 \in Drops(Tail(s))
           /\ i \in Looks(s) /\ i # 1 => i - 1 \in Looks(Tail(s))
           /\ i \in Edits(s) /\ i # 1 =>
                 i - 1 \in Edits(Tail(s)) /\ Tail(s)[i - 1] = s[i]
<1>1. PICK r : r = Tail(s)
  OBVIOUS
<1>. QED
  BY TailPositions, <1>1 DEF Takes, Drops, Looks, Edits

\* Only a change in front takes something from what is to be changed.
LEMMA TailPending ==
    ASSUME NEW s, s \in Seq(Instructions), s # << >>
    PROVE  /\ Pending(Tail(s)) = {s[i].lock : i \in Edits(s) \ {1}}
           /\ 1 \notin Edits(s) => Pending(Tail(s)) = Pending(s)
<1>1. PICK r : r = Tail(s)
  OBVIOUS
<1>2. ASSUME NEW l \in Pending(r) PROVE l \in {s[i].lock : i \in Edits(s) \ {1}}
  <2>1. PICK j \in Edits(r) : l = r[j].lock
    BY DEF Pending
  <2>2. j \in Nat \ {0} /\ j + 1 \in Edits(s) /\ r[j] = s[j + 1]
    BY <1>1, TailParts
  <2>. QED
    BY <2>1, <2>2
<1>3. ASSUME NEW i \in Edits(s) \ {1} PROVE s[i].lock \in Pending(r)
  <2>1. i - 1 \in Edits(r) /\ r[i - 1] = s[i]
    BY <1>1, TailParts
  <2>. QED
    BY <2>1 DEF Pending
<1>4. Pending(r) = {s[i].lock : i \in Edits(s) \ {1}}
  BY <1>2, <1>3
<1>. QED
  BY <1>1, <1>4 DEF Pending

LEMMA TidyTail ==
    ASSUME NEW s, Tidy(s), s # << >>
    PROVE  Tidy(Tail(s))
<1>1. PICK r : r = Tail(s)
  OBVIOUS
<1>2. s \in Seq(Instructions) /\ r \in Seq(Instructions)
  BY <1>1, TailPositions DEF Tidy
<1>3. TakesOnce(r)
  <2>1. \A i, j \in Takes(r) : i = j
    BY <1>1, <1>2, TailParts DEF Tidy, TakesOnce
  <2>2. ASSUME NEW i \in Takes(r) PROVE \E j \in Drops(r) : i < j
    <3>1. i \in Nat \ {0} /\ i + 1 \in Takes(s)
      BY <1>1, <1>2, TailParts
    <3>2. PICK j \in Drops(s) : i + 1 < j
      BY <3>1 DEF Tidy, TakesOnce
    <3>3. j \in Nat /\ j # 1
      BY <1>2, <3>1, <3>2, TailParts
    <3>. QED
      BY <1>1, <1>2, <3>1, <3>2, <3>3, TailParts
  <2>. QED
    BY <2>1, <2>2 DEF TakesOnce
<1>4. UsesInside(r)
  <2>1. ASSUME NEW i \in Looks(r) \cup Edits(r), NEW j \in Takes(r) \cup Drops(r)
        PROVE  (j \in Takes(r) => j < i) /\ (j \in Drops(r) => i < j)
    <3>1. i \in Nat /\ i + 1 \in Looks(s) \cup Edits(s)
      BY <1>1, <1>2, TailParts
    <3>2. j \in Nat /\ (j \in Takes(r) => j + 1 \in Takes(s))
                    /\ (j \in Drops(r) => j + 1 \in Drops(s))
      BY <1>1, <1>2, TailParts
    <3>. QED
      BY <3>1, <3>2 DEF Tidy, UsesInside
  <2>2. \A j \in Takes(r) : r[j] = s[j + 1]
    BY <1>1, <1>2, TailPositions DEF Takes
  <2>3. ASSUME NEW i \in Looks(r), NEW j \in Takes(r) PROVE r[j].do = "read"
    <3>1. i + 1 \in Looks(s) /\ j + 1 \in Takes(s)
      BY <1>1, <1>2, TailParts
    <3>. QED
      BY <2>2, <3>1 DEF Tidy, UsesInside
  <2>4. ASSUME NEW i \in Edits(r), NEW j \in Takes(r) PROVE r[j].do = "write"
    <3>1. i + 1 \in Edits(s) /\ j + 1 \in Takes(s)
      BY <1>1, <1>2, TailParts
    <3>. QED
      BY <2>2, <3>1 DEF Tidy, UsesInside
  <2>. QED
    BY <2>1, <2>3, <2>4 DEF UsesInside
<1>5. ChangesAll(r)
  <2>1. \A i, j \in Edits(r) : r[i].lock = r[j].lock => i = j
    <3>1. SUFFICES ASSUME NEW i \in Edits(r), NEW j \in Edits(r), r[i].lock = r[j].lock
                   PROVE  i = j
      OBVIOUS
    <3>2. /\ i \in Nat /\ i + 1 \in Edits(s) /\ r[i] = s[i + 1]
          /\ j \in Nat /\ j + 1 \in Edits(s) /\ r[j] = s[j + 1]
      BY <1>1, <1>2, TailParts
    <3>3. i + 1 = j + 1
      BY <3>1, <3>2 DEF Tidy, ChangesAll
    <3>. QED
      BY <3>2, <3>3
  <2>2. ASSUME Takes(r) # {} PROVE Pending(r) \in {{}, Tables}
    <3>1. PICK i : i \in Nat \ {0} /\ i + 1 \in Takes(s)
      BY <1>1, <1>2, <2>2, TailParts
    <3>2. \A j \in Edits(s) : j # 1
      BY <1>2, <3>1, TailParts DEF Tidy, UsesInside
    <3>3. Pending(r) = Pending(s)
      BY <1>1, <1>2, <3>2, TailPending
    <3>. QED
      BY <3>1, <3>3 DEF Tidy, ChangesAll
  <2>. QED
    BY <2>1, <2>2 DEF ChangesAll
<1>. QED
  BY <1>1, <1>2, <1>3, <1>4, <1>5 DEF Tidy

\* What the first instruction of a tidy script says of the others.
LEMMA HeadSays ==
    ASSUME NEW s, Tidy(s), s # << >>, NEW r, r = Tail(s)
    PROVE  /\ Head(s) \in Instructions
           /\ Looks(r) # {} => Looks(s) # {}
           /\ Edits(r) # {} => Edits(s) # {}
           /\ Takes(r) # {} => Takes(s) # {}
           /\ Takes(s) # {} =>
                 \/ Takes(r) # {}
                 \/ Head(s).lock = "tasksets" /\ Head(s).do \in {"read", "write"}
           /\ Head(s) # Drop("tasksets") /\ Drops(s) # {} => Drops(r) # {}
           /\ Head(s).do # "change" => Pending(r) = Pending(s)
<1>1. s \in Seq(Instructions)
  BY DEF Tidy
<1>2. Head(s) = s[1] /\ 1 \in DOMAIN s /\ s[1] \in Instructions
  BY <1>1, TailPositions
<1>3. /\ Looks(r) # {} => Looks(s) # {}
      /\ Edits(r) # {} => Edits(s) # {}
      /\ Takes(r) # {} => Takes(s) # {}
  BY <1>1, TailParts
<1>4. ASSUME Takes(s) # {}, Takes(r) = {}
      PROVE  Head(s).lock = "tasksets" /\ Head(s).do \in {"read", "write"}
  <2>1. 1 \in Takes(s)
    BY <1>1, <1>4, TailParts
  <2>. QED
    BY <1>2, <2>1 DEF Takes
<1>5. ASSUME Head(s) # Drop("tasksets"), Drops(s) # {} PROVE Drops(r) # {}
  BY <1>1, <1>2, <1>5, TailParts DEF Drops
<1>6. ASSUME Head(s).do # "change" PROVE Pending(r) = Pending(s)
  BY <1>1, <1>2, <1>6, TailPending DEF Edits
<1>. QED
  BY <1>2, <1>3, <1>4, <1>5, <1>6

\* The tasksets are taken: all that follows is done under this lock.
LEMMA HeadTakes ==
    ASSUME NEW s, Tidy(s), s # << >>, NEW r, r = Tail(s),
           Head(s).lock = "tasksets", Head(s).do \in {"read", "write"}
    PROVE  /\ Takes(r) = {} /\ Drops(r) # {}
           /\ Looks(r) # {} => Head(s).do = "read"
           /\ Edits(r) # {} => Head(s).do = "write"
           /\ Pending(r) \in {{}, Tables}
<1>1. s \in Seq(Instructions)
  BY DEF Tidy
<1>2. Head(s) = s[1] /\ 1 \in Takes(s) /\ s[1] # Drop("tasksets")
  BY <1>1, TailPositions DEF Takes, Drop
<1>3. Takes(r) = {}
  <2>1. SUFFICES ASSUME NEW i \in Takes(r) PROVE FALSE
    OBVIOUS
  <2>2. i \in Nat \ {0} /\ i + 1 \in Takes(s)
    BY <1>1, TailParts
  <2>3. i + 1 = 1
    BY <1>2, <2>2 DEF Tidy, TakesOnce
  <2>. QED
    BY <2>2, <2>3
<1>4. Drops(r) # {}
  <2>1. Drops(s) # {}
    BY <1>2 DEF Tidy, TakesOnce
  <2>. QED
    BY <1>2, <2>1, HeadSays
<1>5. (Looks(r) # {} => s[1].do = "read") /\ (Edits(r) # {} => s[1].do = "write")
  BY <1>2, HeadSays DEF Tidy, UsesInside
<1>6. Head(s).do # "change"
  OBVIOUS
<1>7. Pending(r) \in {{}, Tables}
  BY <1>2, <1>6, HeadSays DEF Tidy, ChangesAll
<1>. QED
  BY <1>2, <1>3, <1>4, <1>5, <1>7

\* The tasksets are released: nothing is looked at or changed any more.
LEMMA HeadDrops ==
    ASSUME NEW s, Tidy(s), s # << >>, Head(s) = Drop("tasksets")
    PROVE  Looks(s) = {} /\ Edits(s) = {} /\ Pending(s) = {}
<1>1. s \in Seq(Instructions)
  BY DEF Tidy
<1>2. 1 \in Drops(s)
  BY <1>1, TailPositions DEF Drops
<1>3. \A i \in Looks(s) \cup Edits(s) : i \in Nat \ {0} /\ i < 1
  BY <1>1, <1>2, TailParts DEF Tidy, UsesInside
<1>4. Looks(s) \cup Edits(s) = {}
  BY <1>3
<1>. QED
  BY <1>4 DEF Pending

\* A look or a change is not before the take.
LEMMA HeadUses ==
    ASSUME NEW s, Tidy(s), s # << >>, NEW r, r = Tail(s),
           Head(s).do \in {"see", "change"}
    PROVE  /\ Takes(s) = {} /\ Head(s).lock \in Tables
           /\ Head(s).do = "see" => Looks(s) # {}
           /\ Head(s).do = "change" =>
                 /\ Head(s).lock \in Pending(s) /\ Edits(s) # {}
                 /\ Pending(r) = Pending(s) \ {Head(s).lock}
<1>1. s \in Seq(Instructions)
  BY DEF Tidy
<1>2. Head(s) = s[1] /\ 1 \in DOMAIN s /\ s[1] \in Instructions
  BY <1>1, TailPositions
<1>3. 1 \in Looks(s) \cup Edits(s)
  BY <1>2 DEF Looks, Edits
<1>4. Takes(s) = {}
  <2>1. \A j \in Takes(s) : j \in Nat \ {0} /\ j < 1
    BY <1>1, <1>3, TailParts DEF Tidy, UsesInside
  <2>. QED
    BY <2>1
<1>5. Head(s).lock \in Tables
  BY <1>2 DEF Instructions
<1>6. Head(s).do = "see" => Looks(s) # {}
  BY <1>2 DEF Looks
<1>7. ASSUME Head(s).do = "change"
      PROVE  /\ Head(s).lock \in Pending(s) /\ Edits(s) # {}
             /\ Pending(r) = Pending(s) \ {Head(s).lock}
  <2>1. 1 \in Edits(s)
    BY <1>2, <1>7 DEF Edits
  <2>2. \A i \in Edits(s) : s[i].lock = s[1].lock => i = 1
    BY <2>1 DEF Tidy, ChangesAll
  <2>3. Pending(r) = {s[i].lock : i \in Edits(s) \ {1}}
    BY <1>1, TailPending
  <2>4. {s[i].lock : i \in Edits(s) \ {1}} = {s[i].lock : i \in Edits(s)} \ {s[1].lock}
    BY <2>1, <2>2
  <2>. QED
    BY <1>2, <2>1, <2>3, <2>4 DEF Pending
<1>. QED
  BY <1>4, <1>5, <1>6, <1>7

-----------------------------------------------------------------------------
(* The inductive invariant *)

LEMMA InitIInv == Init => IInv
<1>. SUFFICES ASSUME Init PROVE IInv
  OBVIOUS
<1>1. \A p \in Threads : rest[p] = << >> /\ seen[p] = [table \in {} |-> 0]
  BY DEF Init
<1>2. /\ Takes(<< >>) = {} /\ Drops(<< >>) = {}
      /\ Looks(<< >>) = {} /\ Edits(<< >>) = {}
  BY DEF Takes, Drops, Looks, Edits
<1>3. Tidy(<< >>)
  BY <1>2 DEF Tidy, TakesOnce, UsesInside, ChangesAll
<1>4. Readers = {} /\ Writers = {}
  BY DEF Init, Readers, Writers, Locks, Tables
<1>5. Types
  BY <1>1, <1>3 DEF Init, Types
<1>6. Exclusive /\ Guarded /\ Fresh /\ ReadersSeeWholeUpdates
  BY <1>1, <1>2, <1>4 DEF Exclusive, Guarded, Fresh, ReadersSeeWholeUpdates
<1>7. InStep
  BY <1>4 DEF Init, InStep
<1>. QED
  BY <1>5, <1>6, <1>7 DEF IInv

\* What a thread finds in front of its script.
LEMMA AtHead ==
    ASSUME IInv, NEW p \in Threads, NEW do, At(p, do), Go(p)
    PROVE  /\ Tidy(rest[p]) /\ rest[p] # << >>
           /\ Head(rest[p]).do = do
           /\ Head(rest[p]) \in Instructions /\ Wanted(p) \in Locks
           /\ rest'[p] = Tail(rest[p])
           /\ \A q \in Threads : q # p => rest'[q] = rest[q]
           /\ DOMAIN rest' = Threads
           /\ \A q \in Threads : Tidy(rest'[q])
<1>1. Tidy(rest[p]) /\ rest[p] # << >> /\ Head(rest[p]).do = do
  BY DEF IInv, Types, At, Busy
<1>2. Head(rest[p]) \in Instructions
  BY <1>1, HeadSays
<1>3. Wanted(p) \in Locks
  BY <1>2 DEF Wanted, Instructions, Locks
<1>4. DOMAIN rest = Threads
  BY DEF IInv, Types
<1>5. /\ rest'[p] = Tail(rest[p])
      /\ \A q \in Threads : q # p => rest'[q] = rest[q]
      /\ DOMAIN rest' = Threads
  BY <1>4 DEF Go
<1>6. \A q \in Threads : Tidy(rest'[q])
  BY <1>1, <1>5, TidyTail DEF IInv, Types
<1>. QED
  BY <1>1, <1>2, <1>3, <1>5, <1>6

LEMMA RequestStep == ASSUME IInv, NEW p \in Threads, Request(p) PROVE IInv'
<1>1. PICK script \in Scripts : rest' = [rest EXCEPT ![p] = script]
  BY DEF Request
<1>2. /\ rest[p] = << >> /\ Tidy(script) /\ Whole(script)
      /\ DOMAIN rest' = Threads /\ rest'[p] = script
      /\ \A q \in Threads : q # p => rest'[q] = rest[q]
  BY <1>1, ScriptsAreTidy DEF Request, Busy, IInv, Types
<1>3. UNCHANGED <<readers, writer, update>> /\ Readers' = Readers /\ Writers' = Writers
  BY DEF Request, Readers, Writers
<1>4. /\ DOMAIN seen' = Threads /\ seen'[p] = [table \in {} |-> 0]
      /\ \A q \in Threads : q # p => seen'[q] = seen[q]
  BY DEF Request, IInv, Types
<1>5. p \notin Readers \cup Writers
  BY <1>2 DEF IInv, Guarded, Drops
<1>6. Types'
  <2>1. \A q \in Threads : Tidy(rest'[q])
    BY <1>2 DEF IInv, Types
  <2>2. \A q \in Threads : DOMAIN seen'[q] \subseteq Tables
    BY <1>4 DEF IInv, Types
  <2>. QED
    BY <1>2, <1>3, <1>4, <2>1, <2>2 DEF IInv, Types
<1>7. Exclusive' /\ InStep'
  <2>1. \A q \in Writers : rest'[q] = rest[q]
    BY <1>2, <1>5 DEF IInv, Types, Writers, Locks, Tables
  <2>. QED
    BY <1>3, <2>1 DEF IInv, Exclusive, InStep
<1>8. Guarded'
  BY <1>2, <1>3, <1>5 DEF IInv, Guarded, Whole
<1>9. DOMAIN seen'[p] = {}
  BY <1>4
<1>10. Fresh'
  <2>1. ASSUME NEW q \in Threads, DOMAIN seen'[q] # {}, Looks(rest'[q]) # {}
        PROVE  /\ Takes(rest'[q]) = {}
               /\ \A t \in DOMAIN seen'[q] : seen'[q][t] = update'[t]
    BY <1>2, <1>3, <1>4, <1>9, <2>1 DEF IInv, Fresh
  <2>. QED
    BY <2>1 DEF Fresh
<1>11. ReadersSeeWholeUpdates'
  <2>1. ASSUME NEW q \in Threads
        PROVE  \A t1, t2 \in DOMAIN seen'[q] : seen'[q][t1] = seen'[q][t2]
    BY <1>4, <1>9 DEF IInv, ReadersSeeWholeUpdates
  <2>. QED
    BY <2>1 DEF ReadersSeeWholeUpdates
<1>. QED
  BY <1>6, <1>7, <1>8, <1>10, <1>11 DEF IInv

\* The thread that moves takes the tasksets or leaves them as they are: all a
\* step says of the others when it neither changes a table nor looks at one.
LEMMA QuietStep ==
    ASSUME IInv, NEW p \in Threads, NEW do, At(p, do), Go(p),
           do \notin {"change", "see"},
           readers' \in [Locks -> SUBSET Threads],
           writer' \in [Locks -> SUBSET Threads],
           Exclusive', UNCHANGED <<update, seen>>,
           \A q \in Threads : q # p =>
               (q \in Readers <=> q \in Readers') /\ (q \in Writers <=> q \in Writers'),
           \/ /\ Wanted(p) = "tasksets" /\ do = "read"
              /\ p \in Readers' /\ p \notin Writers' /\ p \notin Writers
           \/ /\ Wanted(p) = "tasksets" /\ do = "write" /\ Readers = {}
              /\ p \in Writers' /\ p \notin Readers' /\ Writers = {}
           \/ /\ Wanted(p) = "tasksets" /\ do = "drop"
              /\ p \notin Readers' \cup Writers'
           \/ /\ Wanted(p) # "tasksets"
              /\ p \in Readers <=> p \in Readers'
              /\ p \in Writers <=> p \in Writers'
    PROVE  IInv'
<1>. PICK s, r : s = rest[p] /\ r = Tail(s)
  OBVIOUS
<1>1. /\ Tidy(s) /\ s # << >> /\ Head(s).do = do /\ rest'[p] = r
      /\ Head(s).lock = Wanted(p)
      /\ \A q \in Threads : q # p => rest'[q] = rest[q]
      /\ DOMAIN rest' = Threads
      /\ \A q \in Threads : Tidy(rest'[q])
  BY AtHead DEF Wanted
<1>7. Wanted(p) = "tasksets" /\ do = "drop" => Head(s) = Drop("tasksets")
  BY <1>1, AtHead DEF Instructions, Drop
<1>2. Types'
  <2>1. update' = update /\ seen' = seen
    OBVIOUS
  <2>. QED
    BY <1>1, <2>1 DEF IInv, Types
<1>3. Guarded'
  <2>1. ASSUME NEW q \in Threads
        PROVE  /\ Takes(rest'[q]) = {} /\ Looks(rest'[q]) # {} => q \in Readers'
               /\ Takes(rest'[q]) = {} /\ Edits(rest'[q]) # {} => q \in Writers'
               /\ q \in Readers' \cup Writers' =>
                      Takes(rest'[q]) = {} /\ Drops(rest'[q]) # {}
    <3>1. CASE q # p
      BY <1>1, <2>1, <3>1 DEF IInv, Guarded
    <3>2. CASE q = p /\ Wanted(p) = "tasksets" /\ do \in {"read", "write"}
      BY <1>1, <3>2, HeadTakes
    <3>3. CASE q = p /\ Wanted(p) = "tasksets" /\ do = "drop"
      BY <1>1, <1>7, <3>3, HeadSays, HeadDrops
    <3>4. CASE q = p /\ Wanted(p) # "tasksets"
      <4>1. /\ Takes(s) = {} /\ Looks(s) # {} => p \in Readers
            /\ Takes(s) = {} /\ Edits(s) # {} => p \in Writers
            /\ p \in Readers \cup Writers => Takes(s) = {} /\ Drops(s) # {}
        BY DEF IInv, Guarded
      <4>2. Head(s) # Drop("tasksets")
        BY <1>1, <3>4 DEF Drop
      <4>. QED
        BY <1>1, <3>4, <4>1, <4>2, HeadSays
    <3>. QED
      BY <3>1, <3>2, <3>3, <3>4
  <2>. QED
    BY <2>1 DEF Guarded
<1>4. InStep'
  <2>1. ASSUME Writers' = {}, NEW t \in Tables, NEW u \in Tables
        PROVE  update'[t] = update'[u]
    <3>1. CASE p \notin Writers
      <4>1. Writers \subseteq Threads
        BY DEF IInv, Types, Writers, Locks, Tables
      <4>2. Writers = {}
        BY <2>1, <3>1, <4>1
      <4>. QED
        BY <4>2 DEF IInv, InStep
    <3>2. CASE p \in Writers
      <4>1. Pending(s) = {}
        BY <1>1, <1>7, <2>1, <3>2, HeadDrops
      <4>. QED
        BY <3>2, <4>1 DEF IInv, InStep
    <3>. QED
      BY <3>1, <3>2
  <2>2. ASSUME NEW q \in Writers', NEW t \in Tables, NEW u \in Tables
        PROVE  /\ (t \in Pending(rest'[q]) <=> u \in Pending(rest'[q])) =>
                      update'[t] = update'[u]
               /\ t \in Pending(rest'[q]) /\ u \notin Pending(rest'[q]) =>
                      update'[u] = update'[t] + 1
    <3>1. q \in Threads
      BY DEF Writers, Locks, Tables
    <3>2. CASE q # p
      BY <1>1, <3>1, <3>2 DEF IInv, InStep
    <3>3. CASE q = p /\ Wanted(p) # "tasksets"
      BY <1>1, <3>3, HeadSays DEF IInv, InStep
    <3>4. CASE q = p /\ Wanted(p) = "tasksets"
      <4>1. do = "write" /\ Writers = {} /\ Pending(r) \in {{}, Tables}
        BY <1>1, <2>2, <3>4, HeadTakes
      <4>2. update[t] = update[u]
        BY <4>1 DEF IInv, InStep
      <4>3. t \in Pending(r) <=> u \in Pending(r)
        BY <4>1
      <4>. QED
        BY <1>1, <3>4, <4>2, <4>3
    <3>. QED
      BY <3>2, <3>3, <3>4
  <2>. QED
    BY <2>1, <2>2 DEF InStep
<1>5. Fresh'
  <2>1. ASSUME NEW q \in Threads, DOMAIN seen'[q] # {}, Looks(rest'[q]) # {}
        PROVE  /\ Takes(rest'[q]) = {}
               /\ \A t \in DOMAIN seen'[q] : seen'[q][t] = update'[t]
    <3>1. Looks(rest[q]) # {} /\ (Takes(rest[q]) = {} => Takes(rest'[q]) = {})
      BY <1>1, <2>1, HeadSays
    <3>. QED
      BY <2>1, <3>1 DEF IInv, Fresh
  <2>. QED
    BY <2>1 DEF Fresh
<1>6. ReadersSeeWholeUpdates'
  BY DEF IInv, ReadersSeeWholeUpdates
<1>. QED
  BY <1>2, <1>3, <1>4, <1>5, <1>6 DEF IInv

LEMMA TakeReadStep == ASSUME IInv, NEW p \in Threads, TakeRead(p) PROVE IInv'
<1>1. Wanted(p) \in Locks
  BY AtHead DEF TakeRead
<1>2. readers \in [Locks -> SUBSET Threads] /\ writer \in [Locks -> SUBSET Threads]
  BY DEF IInv, Types
<1>3. PICK l : l = Wanted(p)
  OBVIOUS
<1>4. /\ readers' = [readers EXCEPT ![l] = @ \cup {p}] /\ writer[l] = {}
      /\ UNCHANGED <<writer, update, seen>>
  BY <1>3 DEF TakeRead, Readable
<1>5. /\ readers' \in [Locks -> SUBSET Threads] /\ writer' \in [Locks -> SUBSET Threads]
      /\ Writers' = Writers
      /\ l = "tasksets" => Readers' = Readers \cup {p} /\ Writers = {}
      /\ l # "tasksets" => Readers' = Readers
  BY <1>1, <1>2, <1>3, <1>4 DEF Readers, Writers, Locks, Tables
<1>6. Exclusive'
  BY <1>5 DEF IInv, Exclusive
<1>7. At(p, "read") /\ Go(p)
  BY DEF TakeRead
<1>. QED
  BY <1>3, <1>4, <1>5, <1>6, <1>7, QuietStep

LEMMA TakeWriteStep == ASSUME IInv, NEW p \in Threads, TakeWrite(p) PROVE IInv'
<1>1. Wanted(p) \in Locks
  BY AtHead DEF TakeWrite
<1>2. readers \in [Locks -> SUBSET Threads] /\ writer \in [Locks -> SUBSET Threads]
  BY DEF IInv, Types
<1>3. PICK l : l = Wanted(p)
  OBVIOUS
<1>4. /\ writer' = [writer EXCEPT ![l] = {p}] /\ writer[l] = {} /\ readers[l] = {}
      /\ UNCHANGED <<readers, update, seen>>
  BY <1>3 DEF TakeWrite, Writable
<1>5. /\ readers' \in [Locks -> SUBSET Threads] /\ writer' \in [Locks -> SUBSET Threads]
      /\ Readers' = Readers
      /\ l = "tasksets" => Writers' = {p} /\ Readers = {} /\ Writers = {}
      /\ l # "tasksets" => Writers' = Writers
  BY <1>1, <1>2, <1>3, <1>4 DEF Readers, Writers, Locks, Tables
<1>6. Exclusive'
  BY <1>5 DEF IInv, Exclusive
<1>7. At(p, "write") /\ Go(p)
  BY DEF TakeWrite
<1>. QED
  BY <1>3, <1>4, <1>5, <1>6, <1>7, QuietStep

LEMMA ReleaseStep == ASSUME IInv, NEW p \in Threads, Release(p) PROVE IInv'
<1>1. Wanted(p) \in Locks
  BY AtHead DEF Release
<1>2. readers \in [Locks -> SUBSET Threads] /\ writer \in [Locks -> SUBSET Threads]
  BY DEF IInv, Types
<1>3. PICK l : l = Wanted(p)
  OBVIOUS
<1>4. /\ readers' = [readers EXCEPT ![l] = @ \ {p}]
      /\ writer' = [writer EXCEPT ![l] = @ \ {p}]
      /\ UNCHANGED <<update, seen>>
  BY <1>3 DEF Release
<1>5. /\ readers' \in [Locks -> SUBSET Threads] /\ writer' \in [Locks -> SUBSET Threads]
      /\ l = "tasksets" => Readers' = Readers \ {p} /\ Writers' = Writers \ {p}
      /\ l # "tasksets" => Readers' = Readers /\ Writers' = Writers
  BY <1>1, <1>2, <1>3, <1>4 DEF Readers, Writers, Locks, Tables
<1>6. Exclusive'
  BY <1>5 DEF IInv, Exclusive
<1>7. At(p, "drop") /\ Go(p)
  BY DEF Release
<1>. QED
  BY <1>3, <1>4, <1>5, <1>6, <1>7, QuietStep

\* A thread that begins to wait holds what it held; the tables stay.
LEMMA SameTables ==
    ASSUME IInv, UNCHANGED <<rest, readers, writer, update, seen>>
    PROVE  IInv'
BY DEF IInv, Types, Exclusive, Guarded, InStep, Fresh, ReadersSeeWholeUpdates,
       Readers, Writers

\* What p is about to change, it holds; so it is the only one that holds the
\* tasksets, and the tables it has changed before are one ahead.
LEMMA ChangesStep == ASSUME IInv, NEW p \in Threads, Changes(p) PROVE IInv'
<1>. PICK s, r, l : s = rest[p] /\ r = Tail(s) /\ l = Wanted(p)
  OBVIOUS
<1>1. At(p, "change") /\ Go(p)
  BY DEF Changes
<1>2. /\ Tidy(s) /\ s # << >> /\ Head(s).do = "change" /\ rest'[p] = r
      /\ Head(s).lock = l
      /\ \A q \in Threads : q # p => rest'[q] = rest[q]
      /\ DOMAIN rest' = Threads
      /\ \A q \in Threads : Tidy(rest'[q])
  BY <1>1, AtHead DEF Wanted
<1>3. /\ Takes(s) = {} /\ l \in Tables /\ l \in Pending(s) /\ Edits(s) # {}
      /\ Pending(r) = Pending(s) \ {l}
  BY <1>2, HeadUses
<1>4. update' = [update EXCEPT ![l] = @ + 1] /\ UNCHANGED <<readers, writer, seen>>
  BY DEF Changes
<1>5. Readers' = Readers /\ Writers' = Writers
  BY <1>4 DEF Readers, Writers
<1>6. update \in [Tables -> Nat] /\ Writers \subseteq Threads
  BY DEF IInv, Types, Writers, Locks, Tables
<1>7. p \in Writers /\ Writers = {p} /\ Readers = {}
  BY <1>3 DEF IInv, Guarded, Exclusive
<1>8. Types'
  BY <1>2, <1>3, <1>4, <1>6 DEF IInv, Types
<1>9. Exclusive'
  BY <1>5 DEF IInv, Exclusive
<1>10. Guarded'
  <2>1. ASSUME NEW q \in Threads
        PROVE  /\ Takes(rest'[q]) = {} /\ Looks(rest'[q]) # {} => q \in Readers
               /\ Takes(rest'[q]) = {} /\ Edits(rest'[q]) # {} => q \in Writers
               /\ q \in Readers \cup Writers =>
                      Takes(rest'[q]) = {} /\ Drops(rest'[q]) # {}
    <3>1. CASE q # p
      BY <1>2, <3>1 DEF IInv, Guarded
    <3>2. CASE q = p
      <4>1. /\ Looks(s) # {} => p \in Readers
            /\ Drops(s) # {}
        BY <1>3, <1>7 DEF IInv, Guarded
      <4>2. Head(s) # Drop("tasksets")
        BY <1>2 DEF Drop
      <4>3. /\ Takes(r) = {} /\ Drops(r) # {}
            /\ Looks(r) # {} => p \in Readers
        BY <1>2, <1>3, <4>1, <4>2, HeadSays
      <4>. QED
        BY <1>2, <1>7, <3>2, <4>3
    <3>. QED
      BY <3>1, <3>2
  <2>. QED
    BY <1>5, <2>1 DEF Guarded
<1>11. InStep'
  <2>1. ASSUME NEW t \in Tables, NEW u \in Tables
        PROVE  /\ (t \in Pending(r) <=> u \in Pending(r)) => update'[t] = update'[u]
               /\ t \in Pending(r) /\ u \notin Pending(r) =>
                      update'[u] = update'[t] + 1
    <3>1. /\ (t \in Pending(s) <=> u \in Pending(s)) => update[t] = update[u]
          /\ t \in Pending(s) /\ u \notin Pending(s) => update[u] = update[t] + 1
          /\ u \in Pending(s) /\ t \notin Pending(s) => update[t] = update[u] + 1
          /\ t \in Pending(s) => update[t] = update[l]
          /\ u \in Pending(s) => update[u] = update[l]
          /\ t \notin Pending(s) => update[t] = update[l] + 1
          /\ u \notin Pending(s) => update[u] = update[l] + 1
      BY <1>3, <1>7 DEF IInv, InStep
    <3>2. /\ update'[t] = IF t = l THEN update[l] + 1 ELSE update[t]
          /\ update'[u] = IF u = l THEN update[l] + 1 ELSE update[u]
      BY <1>4, <1>6
    <3>3. update[t] \in Nat /\ update[u] \in Nat /\ update[l] \in Nat
      BY <1>3, <1>6
    <3>. QED
      BY <1>3, <3>1, <3>2, <3>3
  <2>. QED
    BY <1>2, <1>5, <1>7, <2>1 DEF InStep
<1>12. Fresh'
  <2>1. ASSUME NEW q \in Threads, DOMAIN seen[q] # {}, Looks(rest'[q]) # {} PROVE FALSE
    <3>1. Looks(rest[q]) # {}
      <4>1. Looks(r) # {} => Looks(s) # {}
        BY <1>2, HeadSays
      <4>. QED
        BY <1>2, <2>1, <4>1
    <3>2. Takes(rest[q]) = {}
      BY <2>1, <3>1 DEF IInv, Fresh
    <3>. QED
      BY <1>7, <3>1, <3>2 DEF IInv, Guarded
  <2>. QED
    BY <1>4, <2>1 DEF Fresh
<1>13. ReadersSeeWholeUpdates'
  BY <1>4 DEF IInv, ReadersSeeWholeUpdates
<1>. QED
  BY <1>8, <1>9, <1>10, <1>11, <1>12, <1>13 DEF IInv

\* What p looks at, it holds; so nobody changes it, the tables have one number,
\* and what it has seen before is of that number.
LEMMA SeesStep == ASSUME IInv, NEW p \in Threads, Sees(p) PROVE IInv'
<1>. PICK s, r, l : s = rest[p] /\ r = Tail(s) /\ l = Wanted(p)
  OBVIOUS
<1>1. At(p, "see") /\ Go(p)
  BY DEF Sees
<1>2. /\ Tidy(s) /\ s # << >> /\ Head(s).do = "see" /\ rest'[p] = r
      /\ Head(s).lock = l
      /\ \A q \in Threads : q # p => rest'[q] = rest[q]
      /\ DOMAIN rest' = Threads
      /\ \A q \in Threads : Tidy(rest'[q])
  BY <1>1, AtHead DEF Wanted
<1>3. Takes(s) = {} /\ l \in Tables /\ Looks(s) # {}
  BY <1>2, HeadUses
<1>4. UNCHANGED <<readers, writer, update>>
  BY DEF Sees
<1>5. Readers' = Readers /\ Writers' = Writers
  BY <1>4 DEF Readers, Writers
<1>6. p \in Readers /\ Writers = {} /\ \A t, u \in Tables : update[t] = update[u]
  BY <1>3 DEF IInv, Guarded, Exclusive, InStep
<1>7. /\ DOMAIN seen' = Threads
      /\ seen'[p] = [table \in DOMAIN seen[p] \cup {l} |->
                        IF table = l THEN update[table] ELSE seen[p][table]]
      /\ \A q \in Threads : q # p => seen'[q] = seen[q]
  BY DEF Sees, IInv, Types
<1>8. DOMAIN seen'[p] = DOMAIN seen[p] \cup {l} /\ DOMAIN seen[p] \subseteq Tables
  BY <1>7 DEF IInv, Types
<1>9. \A t \in DOMAIN seen'[p] : t \in Tables /\ seen'[p][t] = update[t]
  <2>1. \A t \in DOMAIN seen[p] : seen[p][t] = update[t]
    BY <1>3 DEF IInv, Fresh
  <2>. QED
    BY <1>3, <1>7, <1>8, <2>1
<1>10. Types'
  <2>1. \A q \in Threads : DOMAIN seen'[q] \subseteq Tables
    BY <1>3, <1>7, <1>8 DEF IInv, Types
  <2>. QED
    BY <1>2, <1>4, <1>7, <2>1 DEF IInv, Types
<1>11. Exclusive' /\ InStep'
  BY <1>4, <1>5, <1>6 DEF IInv, Exclusive, InStep
<1>12. Guarded'
  <2>1. ASSUME NEW q \in Threads
        PROVE  /\ Takes(rest'[q]) = {} /\ Looks(rest'[q]) # {} => q \in Readers
               /\ Takes(rest'[q]) = {} /\ Edits(rest'[q]) # {} => q \in Writers
               /\ q \in Readers \cup Writers =>
                      Takes(rest'[q]) = {} /\ Drops(rest'[q]) # {}
    <3>1. CASE q # p
      BY <1>2, <3>1 DEF IInv, Guarded
    <3>2. CASE q = p
      <4>1. /\ Edits(s) # {} => p \in Writers
            /\ Drops(s) # {} /\ Head(s) # Drop("tasksets")
        BY <1>2, <1>3, <1>6 DEF IInv, Guarded, Drop
      <4>. QED
        BY <1>2, <1>3, <1>6, <3>2, <4>1, HeadSays
    <3>. QED
      BY <3>1, <3>2
  <2>. QED
    BY <1>5, <2>1 DEF Guarded
<1>13. Fresh'
  <2>1. ASSUME NEW q \in Threads, DOMAIN seen'[q] # {}, Looks(rest'[q]) # {}
        PROVE  /\ Takes(rest'[q]) = {}
               /\ \A t \in DOMAIN seen'[q] : seen'[q][t] = update[t]
    <3>1. CASE q # p
      <4>1. seen'[q] = seen[q] /\ rest'[q] = rest[q]
        BY <1>2, <1>7, <3>1
      <4>. QED
        BY <2>1, <4>1 DEF IInv, Fresh
    <3>2. CASE q = p
      <4>1. Takes(r) = {}
        BY <1>2, <1>3, HeadSays
      <4>. QED
        BY <1>2, <1>9, <3>2, <4>1
    <3>. QED
      BY <3>1, <3>2
  <2>. QED
    BY <1>4, <2>1 DEF Fresh
<1>14. ReadersSeeWholeUpdates'
  <2>1. ASSUME NEW q \in Threads, NEW t \in DOMAIN seen'[q], NEW u \in DOMAIN seen'[q]
        PROVE  seen'[q][t] = seen'[q][u]
    <3>1. CASE q # p
      BY <1>7, <3>1 DEF IInv, ReadersSeeWholeUpdates
    <3>2. CASE q = p
      BY <1>6, <1>9, <3>2
    <3>. QED
      BY <3>1, <3>2
  <2>. QED
    BY <2>1 DEF ReadersSeeWholeUpdates
<1>. QED
  BY <1>10, <1>11, <1>12, <1>13, <1>14 DEF IInv

\* Every reachable state satisfies the inductive invariant.
THEOREM LocksInvariance == Spec => []IInv
<1>1. IInv /\ [Next]_vars => IInv'
  <2>1. SUFFICES ASSUME IInv, [Next]_vars PROVE IInv'
    OBVIOUS
  <2>2. CASE UNCHANGED vars
    BY <2>1, <2>2, SameTables DEF vars
  <2>3. ASSUME NEW p \in Threads, Request(p) PROVE IInv'
    BY <2>1, <2>3, RequestStep
  <2>4. ASSUME NEW p \in Threads, Step(p) PROVE IInv'
    <3>1. CASE Wait(p)
      BY <2>1, <3>1, SameTables DEF Wait
    <3>. QED
      BY <2>1, <2>4, <3>1, TakeReadStep, TakeWriteStep, ReleaseStep, ChangesStep,
         SeesStep DEF Step
  <2>. QED
    BY <2>1, <2>2, <2>3, <2>4 DEF Next
<1>. QED
  BY InitIInv, <1>1, PTL DEF Spec

\* diff() and resolve() see the tasks and the tasksets as one update left them
\* (service.rs:232-248 and 269-312), whatever requests run at the same time.
THEOREM ReadersAreConsistent == Spec => []ReadersSeeWholeUpdates
<1>1. IInv => ReadersSeeWholeUpdates
  BY DEF IInv
<1>. QED
  BY LocksInvariance, <1>1, PTL

-----------------------------------------------------------------------------
(* The order of the locks *)

\* What an instruction makes of the locks that are held.  They are taken in an
\* order: the coordinator, the tasks, the tasksets, the bindings - but that
\* resolve() reads the tasks while it reads the tasksets.
Moves(x, held, next) ==
    /\ x.do \in {"read", "write"} =>
           /\ next = held \cup {x.lock}
           /\ "service_bindings" \notin held
           /\ "tasksets" \in held => x \in {Write("service_bindings"), Read("tasks")}
           /\ "tasks" \in held => x.lock \in {"tasksets", "service_bindings"}
           /\ "coordinator" \in held => x.lock = "tasks"
           /\ x = Write("tasksets") => "tasks" \in held
    /\ x.do = "drop" => next = held \ {x.lock}
    /\ x.do \in {"change", "see"} => next = held

\* A script that brings a thread from some locks to others.
Leads(s, from, to) ==
    /\ s \in Seq(Instructions)
    /\ \E h \in [1 .. Len(s) + 1 -> SUBSET Locks] :
           /\ h[1] = from /\ h[Len(s) + 1] = to
           /\ \A i \in 1 .. Len(s) : Moves(s[i], h[i], h[i + 1])

\* Who writes the tasksets writes the tasks, too.
Has(s, x) == \E i \in DOMAIN s : s[i] = x
Steady(s) == ~(Has(s, Write("tasksets")) /\ Has(s, Read("tasks")))

LEMMA LeadsNowhere ==
    /\ \A held \in SUBSET Locks : Leads(<< >>, held, held)
    /\ \A from, to : Leads(<< >>, from, to) => from = to
<1>1. << >> \in Seq(Instructions) /\ Len(<< >>) = 0
  OBVIOUS
<1>2. ASSUME NEW held \in SUBSET Locks PROVE Leads(<< >>, held, held)
  <2>1. PICK h : h = [i \in 1 .. 1 |-> held]
    OBVIOUS
  <2>2. h \in [1 .. 1 -> SUBSET Locks] /\ h[1] = held
    BY <2>1
  <2>. QED
    BY <1>1, <2>2 DEF Leads
<1>. QED
  BY <1>1, <1>2 DEF Leads

LEMMA LeadsOn ==
    ASSUME NEW s, s # << >>, NEW from, NEW to, Leads(s, from, to)
    PROVE  \E mid : Moves(Head(s), from, mid) /\ Leads(Tail(s), mid, to)
<1>1. s \in Seq(Instructions)
  BY DEF Leads
<1>2. PICK h \in [1 .. Len(s) + 1 -> SUBSET Locks] :
          /\ h[1] = from /\ h[Len(s) + 1] = to
          /\ \A i \in 1 .. Len(s) : Moves(s[i], h[i], h[i + 1])
  BY DEF Leads
<1>3. PICK n \in Nat : n = Len(s)
  BY <1>1
<1>4. PICK r, x : r = Tail(s) /\ x = Head(s)
  OBVIOUS
<1>5. /\ n > 0 /\ r \in Seq(Instructions) /\ Len(r) = n - 1 /\ x = s[1]
      /\ \A i \in 1 .. n - 1 : r[i] = s[i + 1]
  BY <1>1, <1>3, <1>4
<1>6. PICK g : g = [i \in 1 .. n |-> h[i + 1]]
  OBVIOUS
<1>7. g \in [1 .. n -> SUBSET Locks] /\ \A i \in 1 .. n : g[i] = h[i + 1]
  BY <1>2, <1>3, <1>6
<1>8. Moves(x, from, h[2])
  BY <1>2, <1>3, <1>5
<1>9. \A i \in 1 .. n - 1 : Moves(r[i], g[i], g[i + 1])
  <2>1. ASSUME NEW i \in 1 .. n - 1 PROVE Moves(r[i], g[i], g[i + 1])
    <3>1. i + 1 \in 1 .. n /\ i \in 1 .. n
      BY <1>3
    <3>2. Moves(s[i + 1], h[i + 1], h[(i + 1) + 1])
      BY <1>2, <1>3, <3>1
    <3>. QED
      BY <1>5, <1>7, <3>1, <3>2
  <2>. QED
    BY <2>1
<1>10. g[1] = h[2] /\ g[n] = to
  BY <1>2, <1>3, <1>5, <1>7
<1>11. Leads(r, g[1], to)
  <2>1. (n - 1) + 1 = n
    BY <1>3
  <2>. QED
    BY <1>5, <1>7, <1>9, <1>10, <2>1 DEF Leads
<1>. QED
  BY <1>4, <1>8, <1>10, <1>11

LEMMA LeadsThrough ==
    ASSUME NEW s, NEW t, NEW from, NEW mid, NEW to,
           Leads(s, from, mid), Leads(t, mid, to)
    PROVE  Leads(s \o t, from, to)
<1>1. s \in Seq(Instructions) /\ t \in Seq(Instructions)
  BY DEF Leads
<1>2. PICK m, n \in Nat : m = Len(s) /\ n = Len(t)
  BY <1>1
<1>3. PICK h \in [1 .. m + 1 -> SUBSET Locks] :
          /\ h[1] = from /\ h[m + 1] = mid
          /\ \A i \in 1 .. m : Moves(s[i], h[i], h[i + 1])
  BY <1>2 DEF Leads
<1>4. PICK g \in [1 .. n + 1 -> SUBSET Locks] :
          /\ g[1] = mid /\ g[n + 1] = to
          /\ \A i \in 1 .. n : Moves(t[i], g[i], g[i + 1])
  BY <1>2 DEF Leads
<1>5. PICK u : u = s \o t
  OBVIOUS
<1>6. /\ u \in Seq(Instructions) /\ Len(u) = m + n
      /\ \A i \in 1 .. m + n : u[i] = IF i <= m THEN s[i] ELSE t[i - m]
  BY <1>1, <1>2, <1>5
<1>7. PICK f : f = [i \in 1 .. (m + n) + 1 |-> IF i <= m THEN h[i] ELSE g[i - m]]
  OBVIOUS
<1>8. f \in [1 .. (m + n) + 1 -> SUBSET Locks]
  BY <1>3, <1>4, <1>7
<1>9. f[1] = from /\ f[(m + n) + 1] = to
  BY <1>3, <1>4, <1>7
<1>10. \A i \in 1 .. m : f[i] = h[i] /\ f[i + 1] = h[i + 1]
  BY <1>3, <1>4, <1>7
<1>11. \A i \in 1 .. n : f[m + i] = g[i] /\ f[(m + i) + 1] = g[i + 1]
  BY <1>3, <1>4, <1>7
<1>12. ASSUME NEW i \in 1 .. m + n PROVE Moves(u[i], f[i], f[i + 1])
  <2>1. CASE i <= m
    BY <1>3, <1>6, <1>10, <2>1
  <2>2. CASE i > m
    <3>1. PICK j \in 1 .. n : i = m + j
      <4>1. i - m \in 1 .. n /\ i = m + (i - m)
        BY <2>2
      <4>. QED
        BY <4>1
    <3>2. u[i] = t[j]
      BY <1>6, <2>2, <3>1
    <3>. QED
      BY <1>4, <1>11, <3>1, <3>2
  <2>. QED
    BY <2>1, <2>2
<1>13. Leads(u, from, to)
  BY <1>6, <1>8, <1>9, <1>12 DEF Leads
<1>. QED
  BY <1>5, <1>13, Zenon

-----------------------------------------------------------------------------
(* The scripts of the requests take the locks in that order. *)

\* A report, under the lock of the coordinator.
LEMMA ReportLeads == Leads(ReportTasks, {}, {})
<1>. USE DEF Read, Write, Drop, See, Change, Tables, Locks
<1>1. PICK s : s = ReportTasks
  OBVIOUS
<1>2. s \in Seq(Instructions) /\ Len(s) = 4
  BY <1>1 DEF ReportTasks, Instructions
<1>3. /\ s[1] = Write("coordinator") /\ s[2] = Write("tasks") /\ s[3] = Drop("tasks")
      /\ s[4] = Drop("coordinator")
  BY <1>1 DEF ReportTasks
<1>4. PICK h : h = [i \in 1 .. 5 |->
          CASE i \in {2, 4} -> {"coordinator"}
            [] i \in {3} -> {"coordinator", "tasks"}
            [] OTHER -> {}]
  OBVIOUS
<1>5. h \in [1 .. 5 -> SUBSET Locks]
  BY <1>4
<1>6. /\ h[1] = {}
      /\ h[2] = {"coordinator"}
      /\ h[3] = {"coordinator", "tasks"}
      /\ h[4] = {"coordinator"}
      /\ h[5] = {}
  BY <1>4
<1>7. Moves(s[1], h[1], h[2])
  BY <1>3, <1>6 DEF Moves
<1>8. Moves(s[2], h[2], h[3])
  BY <1>3, <1>6 DEF Moves
<1>9. Moves(s[3], h[3], h[4])
  BY <1>3, <1>6 DEF Moves
<1>10. Moves(s[4], h[4], h[5])
  BY <1>3, <1>6 DEF Moves
<1>11. \A i \in 1 .. 4 : Moves(s[i], h[i], h[i + 1])
  BY <1>7, <1>8, <1>9, <1>10
<1>12. Leads(s, {}, {})
  BY <1>2, <1>5, <1>6, <1>11 DEF Leads
<1>. QED
  BY <1>1, <1>12, Zenon

\* The block of an update.
LEMMA BlockLeads == Leads(UpdateTables \o EndOfBlock, {}, {})
<1>. USE DEF Read, Write, Drop, See, Change, Tables, Locks
<1>1. PICK s : s = UpdateTables \o EndOfBlock
  OBVIOUS
<1>2. s \in Seq(Instructions) /\ Len(s) = 9
  BY <1>1 DEF UpdateTables, EndOfBlock, Instructions
<1>3. /\ s[1] = Write("tasks") /\ s[2] = Write("tasksets") /\ s[3] = Write("service_bindings")
      /\ s[4] = Change("tasks") /\ s[5] = Change("service_bindings") /\ s[6] = Change("tasksets")
      /\ s[7] = Drop("service_bindings") /\ s[8] = Drop("tasksets") /\ s[9] = Drop("tasks")
  BY <1>1 DEF UpdateTables, EndOfBlock
<1>4. PICK h : h = [i \in 1 .. 10 |->
          CASE i \in {2, 9} -> {"tasks"}
            [] i \in {3, 8} -> {"tasks", "tasksets"}
            [] i \in {4, 5, 6, 7} -> {"tasks", "tasksets", "service_bindings"}
            [] OTHER -> {}]
  OBVIOUS
<1>5. h \in [1 .. 10 -> SUBSET Locks]
  BY <1>4
<1>6. /\ h[1] = {}
      /\ h[2] = {"tasks"}
      /\ h[3] = {"tasks", "tasksets"}
      /\ h[4] = {"tasks", "tasksets", "service_bindings"}
      /\ h[5] = {"tasks", "tasksets", "service_bindings"}
      /\ h[6] = {"tasks", "tasksets", "service_bindings"}
      /\ h[7] = {"tasks", "tasksets", "service_bindings"}
      /\ h[8] = {"tasks", "tasksets"}
      /\ h[9] = {"tasks"}
      /\ h[10] = {}
  BY <1>4
<1>7. Moves(s[1], h[1], h[2])
  BY <1>3, <1>6 DEF Moves
<1>8. Moves(s[2], h[2], h[3])
  BY <1>3, <1>6 DEF Moves
<1>9. Moves(s[3], h[3], h[4])
  BY <1>3, <1>6 DEF Moves
<1>10. Moves(s[4], h[4], h[5])
  BY <1>3, <1>6 DEF Moves
<1>11. Moves(s[5], h[5], h[6])
  BY <1>3, <1>6 DEF Moves
<1>12. Moves(s[6], h[6], h[7])
  BY <1>3, <1>6 DEF Moves
<1>13. Moves(s[7], h[7], h[8])
  BY <1>3, <1>6 DEF Moves
<1>14. Moves(s[8], h[8], h[9])
  BY <1>3, <1>6 DEF Moves
<1>15. Moves(s[9], h[9], h[10])
  BY <1>3, <1>6 DEF Moves
<1>16. \A i \in 1 .. 9 : Moves(s[i], h[i], h[i + 1])
  BY <1>7, <1>8, <1>9, <1>10, <1>11, <1>12, <1>13, <1>14, <1>15
<1>17. Leads(s, {}, {})
  BY <1>2, <1>5, <1>6, <1>16 DEF Leads
<1>. QED
  BY <1>1, <1>17, Zenon

\* What a diff compares.
LEMMA DiffLeads == ASSUME NEW s \in Diff PROVE Leads(s, {}, {})
<1>. USE DEF Read, Write, Drop, See, Change, Tables, Locks
<1>1. PICK r : r = s /\ r = <<Read("tasks"), Read("tasksets"), See("tasks"),
                           See("tasksets"), Drop("tasksets"), Drop("tasks")>>
  BY DEF Diff
<1>2. r \in Seq(Instructions) /\ Len(r) = 6
  BY <1>1 DEF Instructions
<1>3. /\ r[1] = Read("tasks") /\ r[2] = Read("tasksets") /\ r[3] = See("tasks")
      /\ r[4] = See("tasksets") /\ r[5] = Drop("tasksets") /\ r[6] = Drop("tasks")
  BY <1>1
<1>4. PICK h : h = [i \in 1 .. 7 |->
          CASE i \in {2, 6} -> {"tasks"}
            [] i \in {3, 4, 5} -> {"tasks", "tasksets"}
            [] OTHER -> {}]
  OBVIOUS
<1>5. h \in [1 .. 7 -> SUBSET Locks]
  BY <1>4
<1>6. /\ h[1] = {}
      /\ h[2] = {"tasks"}
      /\ h[3] = {"tasks", "tasksets"}
      /\ h[4] = {"tasks", "tasksets"}
      /\ h[5] = {"tasks", "tasksets"}
      /\ h[6] = {"tasks"}
      /\ h[7] = {}
  BY <1>4
<1>7. Moves(r[1], h[1], h[2])
  BY <1>3, <1>6 DEF Moves
<1>8. Moves(r[2], h[2], h[3])
  BY <1>3, <1>6 DEF Moves
<1>9. Moves(r[3], h[3], h[4])
  BY <1>3, <1>6 DEF Moves
<1>10. Moves(r[4], h[4], h[5])
  BY <1>3, <1>6 DEF Moves
<1>11. Moves(r[5], h[5], h[6])
  BY <1>3, <1>6 DEF Moves
<1>12. Moves(r[6], h[6], h[7])
  BY <1>3, <1>6 DEF Moves
<1>13. \A i \in 1 .. 6 : Moves(r[i], h[i], h[i + 1])
  BY <1>7, <1>8, <1>9, <1>10, <1>11, <1>12
<1>14. Leads(r, {}, {})
  BY <1>2, <1>5, <1>6, <1>13 DEF Leads
<1>. QED
  BY <1>1, <1>14, Zenon

\* The name of a taskset: the tasks are read while the taskset is.
LEMMA ListedLeads == Leads(Listed, {}, {})
<1>. USE DEF Read, Write, Drop, See, Change, Tables, Locks
<1>1. PICK s : s = Listed
  OBVIOUS
<1>2. s \in Seq(Instructions) /\ Len(s) = 6
  BY <1>1 DEF Listed, Instructions
<1>3. /\ s[1] = Read("tasksets") /\ s[2] = See("tasksets") /\ s[3] = Read("tasks")
      /\ s[4] = See("tasks") /\ s[5] = Drop("tasks") /\ s[6] = Drop("tasksets")
  BY <1>1 DEF Listed
<1>4. PICK h : h = [i \in 1 .. 7 |->
          CASE i \in {2, 3, 6} -> {"tasksets"}
            [] i \in {4, 5} -> {"tasksets", "tasks"}
            [] OTHER -> {}]
  OBVIOUS
<1>5. h \in [1 .. 7 -> SUBSET Locks]
  BY <1>4
<1>6. /\ h[1] = {}
      /\ h[2] = {"tasksets"}
      /\ h[3] = {"tasksets"}
      /\ h[4] = {"tasksets", "tasks"}
      /\ h[5] = {"tasksets", "tasks"}
      /\ h[6] = {"tasksets"}
      /\ h[7] = {}
  BY <1>4
<1>7. Moves(s[1], h[1], h[2])
  BY <1>3, <1>6 DEF Moves
<1>8. Moves(s[2], h[2], h[3])
  BY <1>3, <1>6 DEF Moves
<1>9. Moves(s[3], h[3], h[4])
  BY <1>3, <1>6 DEF Moves
<1>10. Moves(s[4], h[4], h[5])
  BY <1>3, <1>6 DEF Moves
<1>11. Moves(s[5], h[5], h[6])
  BY <1>3, <1>6 DEF Moves
<1>12. Moves(s[6], h[6], h[7])
  BY <1>3, <1>6 DEF Moves
<1>13. \A i \in 1 .. 6 : Moves(s[i], h[i], h[i + 1])
  BY <1>7, <1>8, <1>9, <1>10, <1>11, <1>12
<1>14. Leads(s, {}, {})
  BY <1>2, <1>5, <1>6, <1>13 DEF Leads
<1>. QED
  BY <1>1, <1>14, Zenon

\* One table, looked up and released.
LEMMA BrieflyLeads == ASSUME NEW l \in Tables PROVE Leads(<<Read(l), Drop(l)>>, {}, {})
<1>. USE DEF Read, Write, Drop, See, Change, Tables, Locks
<1>1. PICK s : s = <<Read(l), Drop(l)>>
  OBVIOUS
<1>2. s \in Seq(Instructions) /\ Len(s) = 2
  BY <1>1 DEF Instructions
<1>3. /\ s[1] = Read(l) /\ s[2] = Drop(l)
  BY <1>1
<1>4. PICK h : h = [i \in 1 .. 3 |->
          CASE i \in {2} -> {l}
            [] OTHER -> {}]
  OBVIOUS
<1>5. h \in [1 .. 3 -> SUBSET Locks]
  BY <1>4
<1>6. /\ h[1] = {}
      /\ h[2] = {l}
      /\ h[3] = {}
  BY <1>4
<1>7. Moves(s[1], h[1], h[2])
  BY <1>3, <1>6 DEF Moves
<1>8. Moves(s[2], h[2], h[3])
  BY <1>3, <1>6 DEF Moves
<1>9. \A i \in 1 .. 2 : Moves(s[i], h[i], h[i + 1])
  BY <1>7, <1>8
<1>10. Leads(s, {}, {})
  BY <1>2, <1>5, <1>6, <1>9 DEF Leads
<1>. QED
  BY <1>1, <1>10, Zenon

\* A resolve is a port that is looked up, or two requests and a third.
LEMMA ResolveParts ==
    ASSUME NEW s \in Resolve
    PROVE  \/ s = LookUp
           \/ \E first \in {<< >>, LookUp} : \E second \in {Listed, Unlisted} :
                  s = (first \o second) \o Single
<1>1. \/ s = LookUp
      \/ s = (<< >> \o Listed) \o Single
      \/ s = (<< >> \o Unlisted) \o Single
      \/ s = (LookUp \o Listed) \o Single
      \/ s = (LookUp \o Unlisted) \o Single
  BY DEF Resolve, LookUp, Listed, Unlisted, Single
<1>2. << >> \in {<< >>, LookUp} /\ LookUp \in {<< >>, LookUp}
  OBVIOUS
<1>3. Listed \in {Listed, Unlisted} /\ Unlisted \in {Listed, Unlisted}
  OBVIOUS
<1>. QED
  BY <1>1, <1>2, <1>3, Zenon

LEMMA ScriptsLead == \A s \in Scripts : Leads(s, {}, {})
<1>1. ASSUME NEW s \in Update PROVE Leads(s, {}, {})
  <2>1. CASE s = UpdateTables \o EndOfBlock
    BY <2>1, BlockLeads, Zenon
  <2>2. CASE s = UpdateTables \o EndOfBlock \o ReportTasks
    <3>1. Leads((UpdateTables \o EndOfBlock) \o ReportTasks, {}, {})
      BY BlockLeads, ReportLeads, LeadsThrough
    <3>. QED
      BY <2>2, <3>1, Zenon
  <2>. QED
    BY <2>1, <2>2 DEF Update
<1>2. Leads(LookUp, {}, {}) /\ Leads(Unlisted, {}, {}) /\ Leads(Single, {}, {})
  BY BrieflyLeads DEF LookUp, Unlisted, Single, Tables
<1>3. ASSUME NEW s \in Resolve PROVE Leads(s, {}, {})
  <2>1. CASE s = LookUp
    BY <1>2, <2>1, Zenon
  <2>2. CASE s # LookUp
    <3>1. PICK first \in {<< >>, LookUp} : \E second \in {Listed, Unlisted} :
              s = (first \o second) \o Single
      BY <2>2, ResolveParts, Zenon
    <3>2. PICK second \in {Listed, Unlisted} : s = (first \o second) \o Single
      BY <3>1, Zenon
    <3>3. Leads(first, {}, {})
      BY <1>2, LeadsNowhere
    <3>4. Leads(second, {}, {})
      BY <1>2, ListedLeads
    <3>5. Leads(first \o second, {}, {})
      BY <3>3, <3>4, LeadsThrough
    <3>6. Leads((first \o second) \o Single, {}, {})
      BY <1>2, <3>5, LeadsThrough
    <3>. QED
      BY <3>2, <3>6, Zenon
  <2>. QED
    BY <2>1, <2>2
<1>. QED
  BY <1>1, <1>3, DiffLeads, ReportLeads DEF Scripts

\* What two scripts have not, one after the other has not.
LEMMA HasOneOf ==
    ASSUME NEW s, s \in Seq(Instructions), NEW t, t \in Seq(Instructions),
           NEW x, Has(s \o t, x)
    PROVE  Has(s, x) \/ Has(t, x)
<1>1. PICK u : u = s \o t
  OBVIOUS
<1>2. /\ u \in Seq(Instructions) /\ Len(u) = Len(s) + Len(t)
      /\ \A i \in 1 .. Len(s) + Len(t) : u[i] = IF i <= Len(s) THEN s[i] ELSE t[i - Len(s)]
  BY <1>1
<1>3. PICK i \in 1 .. Len(s) + Len(t) : u[i] = x
  BY <1>1, <1>2 DEF Has
<1>4. CASE i <= Len(s)
  BY <1>2, <1>3, <1>4 DEF Has
<1>5. CASE i > Len(s)
  <2>1. i - Len(s) \in 1 .. Len(t)
    BY <1>5
  <2>. QED
    BY <1>2, <1>3, <1>5, <2>1 DEF Has
<1>. QED
  BY <1>4, <1>5

LEMMA ScriptsAreSteady == \A s \in Scripts : Steady(s)
<1>. DEFINE W == Write("tasksets")
            R == Read("tasks")
<1>1. /\ ~Has(UpdateTables, R) /\ ~Has(EndOfBlock, R)
      /\ ~Has(ReportTasks, R) /\ ~Has(ReportTasks, W)
  BY DEF Has, UpdateTables, EndOfBlock, ReportTasks, Read, Write, Drop, Change
<1>2. /\ ~Has(<< >>, W) /\ ~Has(LookUp, W) /\ ~Has(Listed, W)
      /\ ~Has(Unlisted, W) /\ ~Has(Single, W)
  BY DEF Has, LookUp, Listed, Unlisted, Single, Read, Write, Drop, See
<1>3. ASSUME NEW s \in Diff PROVE ~Has(s, W)
  BY DEF Has, Diff, Read, Write, Drop, See
<1>4. /\ UpdateTables \in Seq(Instructions) /\ EndOfBlock \in Seq(Instructions)
      /\ ReportTasks \in Seq(Instructions)
  BY DEF UpdateTables, EndOfBlock, ReportTasks, Read, Write, Drop, Change,
         Instructions, Tables, Locks
<1>5. /\ << >> \in Seq(Instructions) /\ LookUp \in Seq(Instructions)
      /\ Listed \in Seq(Instructions) /\ Unlisted \in Seq(Instructions)
      /\ Single \in Seq(Instructions)
  BY DEF LookUp, Listed, Unlisted, Single, Read, Write, Drop, See,
         Instructions, Tables, Locks
<1>. HIDE DEF W, R
<1>6. ASSUME NEW s \in Update PROVE ~Has(s, R)
  <2>1. /\ UpdateTables \o EndOfBlock \in Seq(Instructions)
        /\ ~Has(UpdateTables \o EndOfBlock, R)
    BY <1>1, <1>4, HasOneOf
  <2>2. ~Has((UpdateTables \o EndOfBlock) \o ReportTasks, R)
    BY <1>1, <1>4, <2>1, HasOneOf
  <2>. QED
    BY <2>1, <2>2, Zenon DEF Update
<1>7. ASSUME NEW s \in Resolve PROVE ~Has(s, W)
  <2>1. CASE s = LookUp
    BY <1>2, <2>1, Zenon
  <2>2. CASE s # LookUp
    <3>1. PICK first \in {<< >>, LookUp} : \E second \in {Listed, Unlisted} :
              s = (first \o second) \o Single
      BY <2>2, ResolveParts, Zenon
    <3>2. PICK second \in {Listed, Unlisted} : s = (first \o second) \o Single
      BY <3>1, Zenon
    <3>3. /\ first \in Seq(Instructions) /\ ~Has(first, W)
          /\ second \in Seq(Instructions) /\ ~Has(second, W)
      BY <1>2, <1>5
    <3>4. first \o second \in Seq(Instructions) /\ ~Has(first \o second, W)
      BY <3>3, HasOneOf
    <3>5. ~Has((first \o second) \o Single, W)
      BY <1>2, <1>5, <3>4, HasOneOf
    <3>. QED
      BY <3>2, <3>5, Zenon
  <2>. QED
    BY <2>1, <2>2
<1>. QED
  BY <1>1, <1>3, <1>6, <1>7 DEF Scripts, Steady, W, R

-----------------------------------------------------------------------------
(* What the threads hold *)

HeldBy(p) == {l \in Locks : p \in readers[l] \cup writer[l]}

Holding ==
    /\ \A p \in Threads :
           /\ Leads(rest[p], HeldBy(p), {})
           /\ Steady(rest[p])
           /\ Has(rest[p], Write("tasksets")) => p \notin readers["tasks"]
           /\ Has(rest[p], Read("tasks")) => p \notin writer["tasksets"]
    /\ \A p \in waiting : p \in Threads /\ At(p, "write")

LEMMA TailHas ==
    ASSUME NEW s, s \in Seq(Instructions), s # << >>
    PROVE  Has(s, Head(s)) /\ \A x : Has(Tail(s), x) => Has(s, x)
BY TailPositions DEF Has

LEMMA InitHolding == Init => Holding
<1>. SUFFICES ASSUME Init PROVE Holding
  OBVIOUS
<1>1. \A p \in Threads : rest[p] = << >> /\ HeldBy(p) = {}
  BY DEF Init, HeldBy
<1>2. Leads(<< >>, {}, {})
  BY LeadsNowhere
<1>3. \A x : ~Has(<< >>, x)
  BY DEF Has
<1>. QED
  BY <1>1, <1>2, <1>3 DEF Init, Holding, Steady

LEMMA RequestHolds ==
    ASSUME IInv, Holding, NEW p \in Threads, Request(p)
    PROVE  Holding'
<1>1. PICK script \in Scripts : rest' = [rest EXCEPT ![p] = script]
  BY DEF Request
<1>2. /\ rest[p] = << >> /\ rest'[p] = script
      /\ \A q \in Threads : q # p => rest'[q] = rest[q]
  BY <1>1 DEF Request, Busy, IInv, Types
<1>3. /\ \A q : HeldBy(q)' = HeldBy(q)
      /\ UNCHANGED <<readers, writer, waiting>>
  BY DEF Request, HeldBy
<1>4. HeldBy(p) = {}
  BY <1>2, LeadsNowhere DEF Holding
<1>5. "tasks" \in Locks /\ "tasksets" \in Locks
  BY DEF Locks, Tables
<1>6. p \notin readers["tasks"] /\ p \notin writer["tasksets"]
  BY <1>4, <1>5 DEF HeldBy
<1>7. Leads(script, {}, {}) /\ Steady(script)
  BY ScriptsLead, ScriptsAreSteady
<1>8. ASSUME NEW q \in Threads
      PROVE  /\ Leads(rest'[q], HeldBy(q)', {})
             /\ Steady(rest'[q])
             /\ Has(rest'[q], Write("tasksets")) => q \notin readers'["tasks"]
             /\ Has(rest'[q], Read("tasks")) => q \notin writer'["tasksets"]
  <2>1. CASE q = p
    BY <1>2, <1>3, <1>4, <1>6, <1>7, <2>1
  <2>2. CASE q # p
    BY <1>2, <1>3, <2>2 DEF Holding
  <2>. QED
    BY <2>1, <2>2
<1>9. ASSUME NEW q \in waiting' PROVE q \in Threads /\ At(q, "write")'
  <2>1. q \in Threads /\ At(q, "write") /\ q # p
    BY <1>2, <1>3, <1>9 DEF Holding, At, Busy
  <2>. QED
    BY <1>2, <2>1 DEF At, Busy
<1>. QED
  BY <1>8, <1>9 DEF Holding

\* A thread goes on and its locks become those its script says.
LEMMA StepHolds ==
    ASSUME IInv, Holding, NEW p \in Threads, NEW do, At(p, do), Go(p),
           \A q \in Threads, l \in Locks : q # p =>
               /\ q \in readers'[l] <=> q \in readers[l]
               /\ q \in writer'[l] <=> q \in writer[l],
           \A next : Moves(Head(rest[p]), HeldBy(p), next) => HeldBy(p)' = next,
           p \in readers'["tasks"] =>
               p \in readers["tasks"] \/ Head(rest[p]) = Read("tasks"),
           p \in writer'["tasksets"] =>
               p \in writer["tasksets"] \/ Head(rest[p]) = Write("tasksets"),
           waiting' \subseteq waiting, p \notin waiting'
    PROVE  Holding'
<1>1. /\ rest[p] # << >> /\ rest[p] \in Seq(Instructions) /\ rest'[p] = Tail(rest[p])
      /\ \A q \in Threads : q # p => rest'[q] = rest[q]
  BY AtHead DEF Tidy
<1>2. \A x : Has(rest'[p], x) => Has(rest[p], x)
  BY <1>1, TailHas
<1>3. Has(rest[p], Head(rest[p]))
  BY <1>1, TailHas
<1>4. "tasks" \in Locks /\ "tasksets" \in Locks
  BY DEF Locks, Tables
<1>5. Leads(rest'[p], HeldBy(p)', {})
  <2>1. \E next : Moves(Head(rest[p]), HeldBy(p), next) /\ Leads(Tail(rest[p]), next, {})
    BY <1>1, LeadsOn DEF Holding
  <2>. QED
    BY <1>1, <2>1
<1>6. Steady(rest[p]) /\ Steady(rest'[p])
  BY <1>2 DEF Holding, Steady
<1>7. Has(rest'[p], Write("tasksets")) => p \notin readers'["tasks"]
  BY <1>2, <1>3, <1>6 DEF Holding, Steady
<1>8. Has(rest'[p], Read("tasks")) => p \notin writer'["tasksets"]
  BY <1>2, <1>3, <1>6 DEF Holding, Steady
<1>9. ASSUME NEW q \in Threads, q # p
      PROVE  /\ Leads(rest'[q], HeldBy(q)', {})
             /\ Steady(rest'[q])
             /\ Has(rest'[q], Write("tasksets")) => q \notin readers'["tasks"]
             /\ Has(rest'[q], Read("tasks")) => q \notin writer'["tasksets"]
  <2>1. HeldBy(q)' = HeldBy(q)
    BY <1>9 DEF HeldBy
  <2>2. rest'[q] = rest[q]
    BY <1>1, <1>9
  <2>3. q \in readers'["tasks"] <=> q \in readers["tasks"]
    BY <1>4, <1>9
  <2>4. q \in writer'["tasksets"] <=> q \in writer["tasksets"]
    BY <1>4, <1>9
  <2>. QED
    BY <2>1, <2>2, <2>3, <2>4 DEF Holding
<1>10. ASSUME NEW q \in waiting' PROVE q \in Threads /\ At(q, "write")'
  <2>1. q \in Threads /\ At(q, "write") /\ q # p
    BY <1>10 DEF Holding
  <2>. QED
    BY <1>1, <2>1 DEF At, Busy
<1>. QED
  BY <1>5, <1>6, <1>7, <1>8, <1>9, <1>10 DEF Holding

\* A thread that is not about to write does not wait.
LEMMA OthersDoNotWait ==
    ASSUME Holding, NEW p \in Threads, NEW do, At(p, do), do # "write"
    PROVE  p \notin waiting
BY DEF Holding, At

LEMMA HoldingStep == ASSUME IInv, Holding, [Next]_vars PROVE Holding'
<1>1. CASE UNCHANGED vars
  BY <1>1 DEF Holding, vars, HeldBy, At, Busy
<1>2. ASSUME NEW p \in Threads, Request(p) PROVE Holding'
  BY <1>2, RequestHolds
<1>. /\ readers \in [Locks -> SUBSET Threads] /\ writer \in [Locks -> SUBSET Threads]
     /\ "tasks" \in Locks /\ "tasksets" \in Locks
  BY DEF IInv, Types, Locks, Tables
<1>3. ASSUME NEW p \in Threads, TakeRead(p) PROVE Holding'
  <2>1. PICK x : x = Head(rest[p])
    OBVIOUS
  <2>2. /\ At(p, "read") /\ Go(p) /\ UNCHANGED <<writer, waiting>>
        /\ readers' = [readers EXCEPT ![x.lock] = @ \cup {p}]
    BY <1>3, <2>1 DEF TakeRead, Wanted
  <2>3. x \in Instructions /\ x.do = "read" /\ x.lock \in Locks
    BY <2>1, <2>2, AtHead DEF Wanted
  <2>4. x.lock = "tasks" => x = Read("tasks")
    BY <2>3 DEF Instructions, Read
  <2>5. HeldBy(p)' = HeldBy(p) \cup {x.lock}
    BY <2>2, <2>3 DEF HeldBy
  <2>6. \A next : Moves(x, HeldBy(p), next) => HeldBy(p)' = next
    BY <2>3, <2>5 DEF Moves
  <2>7. \A q \in Threads, l \in Locks : q # p =>
            /\ q \in readers'[l] <=> q \in readers[l]
            /\ q \in writer'[l] <=> q \in writer[l]
    BY <2>2, <2>3
  <2>8. p \in readers'["tasks"] => p \in readers["tasks"] \/ x = Read("tasks")
    BY <2>2, <2>3, <2>4
  <2>9. p \notin waiting' /\ waiting' \subseteq waiting
    BY <2>2, OthersDoNotWait
  <2>10. p \in writer'["tasksets"] => p \in writer["tasksets"]
    BY <2>2
  <2>. QED
    BY <2>1, <2>2, <2>6, <2>7, <2>8, <2>9, <2>10, StepHolds
<1>4. ASSUME NEW p \in Threads, TakeWrite(p) PROVE Holding'
  <2>1. PICK x : x = Head(rest[p])
    OBVIOUS
  <2>2. /\ At(p, "write") /\ Go(p) /\ UNCHANGED readers
        /\ writer' = [writer EXCEPT ![x.lock] = {p}] /\ writer[x.lock] = {}
        /\ waiting' = waiting \ {p}
    BY <1>4, <2>1 DEF TakeWrite, Writable, Wanted
  <2>3. x \in Instructions /\ x.do = "write" /\ x.lock \in Locks
    BY <2>1, <2>2, AtHead DEF Wanted
  <2>4. x.lock = "tasksets" => x = Write("tasksets")
    BY <2>3 DEF Instructions, Write
  <2>5. HeldBy(p)' = HeldBy(p) \cup {x.lock}
    BY <2>2, <2>3 DEF HeldBy
  <2>6. \A next : Moves(x, HeldBy(p), next) => HeldBy(p)' = next
    BY <2>3, <2>5 DEF Moves
  <2>7. \A q \in Threads, l \in Locks : q # p =>
            /\ q \in readers'[l] <=> q \in readers[l]
            /\ q \in writer'[l] <=> q \in writer[l]
    BY <2>2, <2>3
  <2>8. p \in writer'["tasksets"] => p \in writer["tasksets"] \/ x = Write("tasksets")
    BY <2>2, <2>3, <2>4
  <2>9. p \notin waiting' /\ waiting' \subseteq waiting
    BY <2>2
  <2>10. p \in readers'["tasks"] => p \in readers["tasks"]
    BY <2>2
  <2>. QED
    BY <2>1, <2>2, <2>6, <2>7, <2>8, <2>9, <2>10, StepHolds
<1>5. ASSUME NEW p \in Threads, Wait(p) PROVE Holding'
  <2>1. UNCHANGED <<rest, readers, writer>> /\ waiting' = waiting \cup {p} /\ At(p, "write")
    BY <1>5 DEF Wait
  <2>. QED
    BY <2>1 DEF Holding, HeldBy, At, Busy
<1>6. ASSUME NEW p \in Threads, Release(p) PROVE Holding'
  <2>1. PICK x : x = Head(rest[p])
    OBVIOUS
  <2>2. /\ At(p, "drop") /\ Go(p) /\ UNCHANGED waiting
        /\ readers' = [readers EXCEPT ![x.lock] = @ \ {p}]
        /\ writer' = [writer EXCEPT ![x.lock] = @ \ {p}]
    BY <1>6, <2>1 DEF Release, Wanted
  <2>3. x \in Instructions /\ x.do = "drop" /\ x.lock \in Locks
    BY <2>1, <2>2, AtHead DEF Wanted
  <2>4. HeldBy(p)' = HeldBy(p) \ {x.lock}
    BY <2>2, <2>3 DEF HeldBy
  <2>5. \A next : Moves(x, HeldBy(p), next) => HeldBy(p)' = next
    BY <2>3, <2>4 DEF Moves
  <2>6. \A q \in Threads, l \in Locks : q # p =>
            /\ q \in readers'[l] <=> q \in readers[l]
            /\ q \in writer'[l] <=> q \in writer[l]
    BY <2>2, <2>3
  <2>7. /\ p \in readers'["tasks"] => p \in readers["tasks"]
        /\ p \in writer'["tasksets"] => p \in writer["tasksets"]
    BY <2>2, <2>3
  <2>8. p \notin waiting' /\ waiting' \subseteq waiting
    BY <2>2, OthersDoNotWait
  <2>. QED
    BY <2>1, <2>2, <2>5, <2>6, <2>7, <2>8, StepHolds
<1>7. ASSUME NEW p \in Threads, Changes(p) \/ Sees(p) PROVE Holding'
  <2>1. PICK x, do : x = Head(rest[p]) /\ do \in {"change", "see"} /\ At(p, do)
    BY <1>7 DEF Changes, Sees
  <2>2. Go(p) /\ UNCHANGED <<readers, writer, waiting>>
    BY <1>7 DEF Changes, Sees
  <2>3. x.do \in {"change", "see"}
    BY <2>1, <2>2, AtHead
  <2>4. \A next : Moves(x, HeldBy(p), next) => HeldBy(p)' = next
    BY <2>2, <2>3 DEF Moves, HeldBy
  <2>5. p \notin waiting' /\ waiting' \subseteq waiting
    BY <2>1, <2>2, OthersDoNotWait
  <2>. QED
    BY <2>1, <2>2, <2>4, <2>5, StepHolds
<1>. QED
  BY <1>1, <1>2, <1>3, <1>4, <1>5, <1>6, <1>7 DEF Next, Step

-----------------------------------------------------------------------------
(* Deadlock *)

\* Who has to go on before p can.
Blockers(p) ==
    IF At(p, "write") THEN readers[Wanted(p)] \cup writer[Wanted(p)]
    ELSE writer[Wanted(p)] \cup Waiting(Wanted(p))

\* Threads each of which can go on only after another of them has.
Deadlocked(D) ==
    /\ D # {}
    /\ \A p \in D :
           /\ At(p, "read") \/ p \in waiting
           /\ Blockers(p) # {} /\ Blockers(p) \subseteq D

\* What the order of the locks says of a thread that wants one.
LEMMA WantsInOrder ==
    ASSUME IInv, Holding, NEW p \in Threads, At(p, "read") \/ p \in waiting
    PROVE  /\ Wanted(p) \in Locks
           /\ "service_bindings" \notin HeldBy(p)
           /\ "tasksets" \in HeldBy(p) /\ Wanted(p) # "service_bindings" =>
                  Head(rest[p]) = Read("tasks")
           /\ "tasks" \in HeldBy(p) => Wanted(p) \in {"tasksets", "service_bindings"}
           /\ "coordinator" \in HeldBy(p) => Wanted(p) = "tasks"
           /\ At(p, "write") /\ Wanted(p) = "tasksets" =>
                  /\ Head(rest[p]) = Write("tasksets")
                  /\ "tasks" \in HeldBy(p)
           /\ Has(rest[p], Head(rest[p]))
<1>1. PICK s, x, l : s = rest[p] /\ x = Head(s) /\ l = Wanted(p)
  OBVIOUS
<1>2. At(p, "read") \/ At(p, "write")
  BY DEF Holding
<1>3. s # << >> /\ x.do \in {"read", "write"} /\ x.lock = l
  BY <1>1, <1>2 DEF At, Busy, Wanted
<1>4. Tidy(s) /\ x \in Instructions
  BY <1>1, <1>3, HeadSays DEF IInv, Types
<1>5. l \in Locks
  BY <1>3, <1>4 DEF Instructions, Locks
<1>6. PICK next : Moves(x, HeldBy(p), next)
  <2>1. Leads(s, HeldBy(p), {})
    BY <1>1 DEF Holding
  <2>. QED
    BY <1>1, <1>3, <2>1, LeadsOn
<1>7. /\ "service_bindings" \notin HeldBy(p)
      /\ "tasksets" \in HeldBy(p) => x \in {Write("service_bindings"), Read("tasks")}
      /\ "tasks" \in HeldBy(p) => l \in {"tasksets", "service_bindings"}
      /\ "coordinator" \in HeldBy(p) => l = "tasks"
      /\ x = Write("tasksets") => "tasks" \in HeldBy(p)
  BY <1>3, <1>6 DEF Moves
<1>8. At(p, "write") /\ l = "tasksets" => x = Write("tasksets")
  <2>1. At(p, "write") => x.do = "write"
    BY <1>1 DEF At
  <2>. QED
    BY <1>3, <1>4, <2>1 DEF Instructions, Write
<1>9. x = Write("service_bindings") => l = "service_bindings"
  BY <1>3 DEF Write
<1>10. Has(s, x)
  BY <1>1, <1>3, <1>4, TailHas DEF Tidy
<1>. QED
  BY <1>1, <1>5, <1>7, <1>8, <1>9, <1>10

\* Of deadlocked threads one holds what another wants: writers wait, too, for
\* who holds the lock.
LEMMA OneHolds ==
    ASSUME IInv, Holding, NEW D \in SUBSET Threads, Deadlocked(D), NEW p \in D
    PROVE  \E q \in D : Wanted(p) \in HeldBy(q)
<1>1. /\ Wanted(p) \in Locks /\ Blockers(p) # {} /\ Blockers(p) \subseteq D
      /\ At(p, "read") \/ p \in waiting
  BY WantsInOrder DEF Deadlocked
<1>2. PICK q \in D : q \in Blockers(p)
  BY <1>1
<1>3. CASE q \in readers[Wanted(p)] \cup writer[Wanted(p)]
  BY <1>1, <1>3 DEF HeldBy
<1>4. CASE q \in Waiting(Wanted(p))
  <2>1. At(q, "write") /\ Wanted(q) = Wanted(p)
    BY <1>4 DEF Waiting, Holding
  <2>2. PICK r \in D : r \in readers[Wanted(p)] \cup writer[Wanted(p)]
    BY <2>1 DEF Deadlocked, Blockers
  <2>. QED
    BY <1>1, <2>2 DEF HeldBy
<1>. QED
  BY <1>2, <1>3, <1>4 DEF Blockers

LEMMA DeadlockIsTheOne ==
    ASSUME IInv, Holding, NEW D \in SUBSET Threads, Deadlocked(D)
    PROVE  UpdateMeetsResolve
<1>. \A p \in D : p \in Threads /\ (At(p, "read") \/ p \in waiting)
  BY DEF Deadlocked
<1>1. \A p \in D : Wanted(p) # "service_bindings"
  BY OneHolds, WantsInOrder
<1>2. \A p \in D : Wanted(p) = "coordinator" => \E q \in D : Wanted(q) = "tasks"
  BY OneHolds, WantsInOrder
<1>3. \A p \in D : Wanted(p) = "tasks" => \E q \in D : Wanted(q) = "tasksets"
  BY <1>1, OneHolds, WantsInOrder
<1>4. PICK p \in D : Wanted(p) = "tasksets"
  <2>1. PICK p0 \in D : TRUE
    BY DEF Deadlocked
  <2>2. Wanted(p0) \in {"coordinator", "tasks", "tasksets"}
    BY <1>1, <2>1, WantsInOrder DEF Locks, Tables
  <2>3. PICK p1 \in D : Wanted(p1) \in {"tasks", "tasksets"}
    BY <1>2, <2>2
  <2>. QED
    BY <1>3, <2>3
<1>5. ASSUME NEW q \in D, "tasksets" \in HeldBy(q)
      PROVE  q \notin writer["tasksets"] /\ Head(rest[q]) = Read("tasks")
  BY <1>1, <1>5, WantsInOrder DEF Holding
<1>6. PICK w \in D : Wanted(w) = "tasksets" /\ At(w, "write")
  <2>1. CASE At(p, "write")
    BY <1>4, <2>1
  <2>2. CASE ~At(p, "write")
    <3>1. PICK q \in D : q \in writer["tasksets"] \cup Waiting("tasksets")
      BY <1>4, <2>2 DEF Deadlocked, Blockers
    <3>2. q \notin writer["tasksets"]
      BY <1>5 DEF HeldBy, Locks, Tables
    <3>. QED
      BY <3>1, <3>2 DEF Waiting, Holding
  <2>. QED
    BY <2>1, <2>2
<1>7. w \in writer["tasks"]
  <2>1. "tasks" \in HeldBy(w) /\ Has(rest[w], Write("tasksets"))
    BY <1>6, WantsInOrder
  <2>. QED
    BY <2>1 DEF Holding, HeldBy
<1>8. w \in Waiting("tasksets")
  BY <1>6 DEF Waiting, At, Read, Deadlocked
<1>9. PICK q \in D : "tasksets" \in HeldBy(q)
  BY <1>6, OneHolds
<1>10. q \in readers["tasksets"] /\ Head(rest[q]) = Read("tasks")
  BY <1>5, <1>9 DEF HeldBy
<1>11. Wanted(q) = "tasks" /\ At(q, "read")
  <2>1. Head(rest[q]).do = "read" /\ Head(rest[q]).lock = "tasks"
    BY <1>10 DEF Read
  <2>. QED
    BY <2>1 DEF Wanted, At, Busy, Holding
<1>. QED
  BY <1>7, <1>8, <1>10, <1>11 DEF UpdateMeetsResolve

\* Threads that wait for each other, whoever they are and however many, are
\* caught behind one pair: an update that writes the tasks and waits for the
\* tasksets (service.rs:176), and a resolve that reads the tasksets and waits
\* for the tasks (service.rs:276).
OneDeadlock == \A D \in SUBSET Threads : Deadlocked(D) => UpdateMeetsResolve

THEOREM OnlyOneDeadlock == Spec => []OneDeadlock
<1>1. Init => Holding
  BY InitHolding
<1>2. IInv /\ Holding /\ [Next]_vars => Holding'
  BY HoldingStep
<1>3. IInv /\ Holding => OneDeadlock
  BY DeadlockIsTheOne DEF OneDeadlock
<1>. QED
  BY <1>1, <1>2, <1>3, LocksInvariance, PTL DEF Spec

=============================================================================
