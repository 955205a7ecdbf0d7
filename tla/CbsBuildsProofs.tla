---------------------------- MODULE CbsBuildsProofs ----------------------------
(***************************************************************************)
(* What the cache of builds holds, for any workspace, any number of        *)
(* invocations, crashes, edits and removals: if no source is edited        *)
(* between its hash and its compilation, every output lies under the       *)
(* address of what it was made from, and an output that is taken from the  *)
(* cache was made of what its hash covers now.                             *)
(***************************************************************************)
EXTENDS CbsBuilds, TLAPS

\* A target that is being looked up or compiled, and one that has its output.
Busy == {"hashed", "missed", "compiling"}
Settled == {"compiled", "opened", "moved", "lost", "written", "done"}

Idle == \A i \in Invocations \ active, j \in Jobs : step[i][j] = "waiting"

OneAtATime == alone => \A i, j \in active : i = j

DepsDone ==
  \A i \in active, t \in Targets :
    step[i][t] # "waiting" =>
      \A n \in DOMAIN Dependencies[t] : step[i][Dependencies[t][n]] = "done"

HashIsOfSources ==
  \A i \in active, t \in Targets :
    step[i][t] \in Busy =>
      /\ hash[i][t] = HashNow(i, t)
      /\ \A n \in DOMAIN Sources[t] : text[Sources[t][n]] # Unreadable

OutputsMade ==
  \A i \in active, t \in Targets : step[i][t] \in Settled => IsProduct(OutputOf(i, t))

NoPartialOutputs == ~alone => \A key \in DOMAIN cache : cache[key].output.is \in {None, Whole}

WholeHasOutput ==
  alone => \A key \in DOMAIN cache :
             key.target # Plan /\ cache[key].record = Whole => IsProduct(cache[key].output)

Unrecorded ==
  alone => \A i \in active, t \in Targets :
             step[i][t] \in {"missed", "compiling"} => Dir(Key(i, t)).record # Whole

Reads(t) == [DOMAIN Sources[t] -> Texts \cup {Missing}]
IsMade(output) ==
  /\ output.target \in Targets
  /\ output.read \in Reads(output.target)
  /\ output = Product(output.target, output.context, output.rule, output.read, output.linked)
WellMade ==
  \A key \in DOMAIN cache : IsProduct(cache[key].output) => IsMade(cache[key].output)

\* A directory has its three entries.
IsDirectory(dir) == dir = [output |-> dir.output, record |-> dir.record, tmp |-> dir.tmp]
Directories == \A key \in DOMAIN cache : IsDirectory(cache[key])

IInv ==
  /\ TypeOK /\ Idle /\ OneAtATime /\ DepsDone /\ HashIsOfSources /\ OutputsMade
  /\ NoPartialOutputs /\ WholeHasOutput /\ Unrecorded
  /\ Directories /\ WellMade /\ ContentAddressed

-----------------------------------------------------------------------------
(* Directories.                                                            *)

\* Keep changes one directory.
LEMMA DirKeep ==
  ASSUME NEW key, NEW dir, NEW k, cache' = Keep(key, dir)
  PROVE  Dir(k)' = IF k = key THEN dir ELSE Dir(k)
BY DEF Keep, Dir

\* What holds of every directory holds of the one of a key, if of an empty one.
LEMMA DomainKeep ==
  ASSUME NEW key, NEW dir, cache' = Keep(key, dir)
  PROVE  /\ DOMAIN cache' = DOMAIN cache \cup {key}
         /\ \A k \in DOMAIN cache' : cache'[k] = IF k = key THEN dir ELSE cache[k]
BY DEF Keep

LEMMA KeyTargets ==
  ASSUME NEW i, NEW j, NEW s, NEW t, Key(i, s) = Key(j, t)
  PROVE  s = t
BY DEF Key, Address

LEMMA DependenciesAreTargets ==
  /\ Plan \notin Targets
  /\ \A u \in Targets : \A n \in DOMAIN Dependencies[u] : Dependencies[u][n] \in Targets
BY CacheAssumption

LEMMA InitIInv == Init => IInv
<1> SUFFICES ASSUME Init PROVE IInv
  OBVIOUS
<1>1. TypeOK
  BY CacheAssumption DEF Init, TypeOK, States, Steps
<1>2. QED
  BY <1>1 DEF Init, IInv, Idle, OneAtATime, DepsDone, HashIsOfSources, OutputsMade,
     NoPartialOutputs, WholeHasOutput, Unrecorded, Directories, WellMade, ContentAddressed

-----------------------------------------------------------------------------
(* The user.                                                               *)

LEMMA StartIInv ==
  ASSUME IInv, NEW i \in Invocations, Start(i)
  PROVE  IInv'
<1> USE DEF IInv, Start
<1>1. TypeOK'
  <2>1. PICK c \in Contexts : setup' = [setup EXCEPT ![i] = [context |-> c, rules |-> rules]]
    OBVIOUS
  <2>2. [context |-> c, rules |-> rules] \in Setups
    BY DEF TypeOK, Setups
  <2>3. /\ setup' \in [Invocations -> Setups \cup {None}]
        /\ \A j \in active' : setup'[j] \in Setups
    BY <2>1, <2>2 DEF TypeOK
  <2>4. QED
    BY <2>3 DEF TypeOK
<1>2. Idle'
  BY DEF Idle
<1>3. OneAtATime'
  BY DEF OneAtATime
<1>4. \A j \in Jobs : step[i][j] = "waiting"
  BY DEF Idle
<1>5. \A j \in active : /\ j # i
                         /\ setup'[j] = setup[j]
                         /\ \A t \in Targets : HashNow(j, t)' = HashNow(j, t)
  BY DEF TypeOK, HashNow, FedNow, DepHashes, TextsOf, Hash
<1>6. \A j \in active, t \in Targets : Key(j, t)' = Key(j, t) /\ OutputOf(j, t)' = OutputOf(j, t)
  BY <1>5, CacheAssumption DEF Key, OutputOf, Dir, Address
<1>7. DepsDone'
  BY <1>4 DEF DepsDone, Jobs
<1>8. HashIsOfSources'
  BY <1>4, <1>5 DEF HashIsOfSources, Busy, Jobs
<1>9. OutputsMade'
  BY <1>4, <1>6 DEF OutputsMade, Settled, Jobs
<1>10. Unrecorded'
  BY <1>4, <1>6 DEF Unrecorded, Jobs, Dir
<1>11. NoPartialOutputs' /\ WholeHasOutput'
  BY DEF NoPartialOutputs, WholeHasOutput
<1>12. Directories' /\ WellMade' /\ ContentAddressed'
  BY DEF Directories, WellMade, ContentAddressed
<1>13. QED
  BY <1>1, <1>2, <1>3, <1>7, <1>8, <1>9, <1>10, <1>11, <1>12

\* An invocation that ends or crashes leaves what is on disk as it is.
LEMMA ForgetIInv ==
  ASSUME IInv, NEW i \in active, Forget(i), UNCHANGED <<text, rules, cache, alone>>
  PROVE  IInv'
<1> USE DEF IInv, Forget
<1>1. TypeOK'
  BY DEF TypeOK, Steps
<1>2. Idle'
  BY DEF Idle, TypeOK
<1>3. OneAtATime'
  BY DEF OneAtATime
<1>4. \A j \in active' : /\ j \in active
                          /\ hash'[j] = hash[j]
                          /\ step'[j] = step[j]
                          /\ setup'[j] = setup[j]
  BY DEF TypeOK
<1>5. \A j \in active' : \A t \in Targets : HashNow(j, t)' = HashNow(j, t)
  BY <1>4 DEF HashNow, FedNow, DepHashes, TextsOf, Hash
<1>6. \A j \in active', t \in Targets : Key(j, t)' = Key(j, t) /\ OutputOf(j, t)' = OutputOf(j, t)
  BY <1>4 DEF Key, OutputOf, Dir, Address
<1>7. DepsDone'
  BY <1>4 DEF DepsDone
<1>8. HashIsOfSources'
  BY <1>4, <1>5 DEF HashIsOfSources
<1>9. OutputsMade'
  BY <1>4, <1>6 DEF OutputsMade
<1>10. Unrecorded'
  BY <1>4, <1>6 DEF Unrecorded, Dir
<1>11. NoPartialOutputs' /\ WholeHasOutput'
  BY DEF NoPartialOutputs, WholeHasOutput
<1>12. Directories' /\ WellMade' /\ ContentAddressed'
  BY DEF Directories, WellMade, ContentAddressed
<1>13. QED
  BY <1>1, <1>2, <1>3, <1>7, <1>8, <1>9, <1>10, <1>11, <1>12

\* A source that is edited is none that a hash has been computed of and a
\* compiler may yet read.
LEMMA EditIInv ==
  ASSUME IInv, ~EditsAnyTime, NEW f \in Files, Edit(f)
  PROVE  IInv'
<1> USE DEF IInv, Edit
<1>1. TypeOK'
  BY DEF TypeOK
<1>2. ASSUME NEW j \in active, NEW t \in Targets, step[j][t] \in Busy
      PROVE  \A n \in DOMAIN Sources[t] : text'[Sources[t][n]] = text[Sources[t][n]]
  <2>1. Reading(j, t)
    BY <1>2 DEF Reading, Busy
  <2>2. \A n \in DOMAIN Sources[t] : Sources[t][n] # f
    BY <2>1 DEF Quiet, TypeOK
  <2>3. QED
    BY <2>2 DEF TypeOK
<1>3. ASSUME NEW j \in active, NEW t \in Targets, step[j][t] \in Busy
      PROVE  HashNow(j, t)' = HashNow(j, t)
  BY <1>2, <1>3 DEF HashNow, FedNow, DepHashes, TextsOf, Hash
<1>4. HashIsOfSources'
  BY <1>2, <1>3 DEF HashIsOfSources
<1>5. OutputsMade' /\ Unrecorded'
  BY DEF OutputsMade, Unrecorded, OutputOf, Key, Dir, Address
<1>6. Idle' /\ OneAtATime' /\ DepsDone'
  BY DEF Idle, OneAtATime, DepsDone
<1>7. NoPartialOutputs' /\ WholeHasOutput'
  BY DEF NoPartialOutputs, WholeHasOutput
<1>8. Directories' /\ WellMade' /\ ContentAddressed'
  BY DEF Directories, WellMade, ContentAddressed
<1>9. QED
  BY <1>1, <1>4, <1>5, <1>6, <1>7, <1>8

\* What runs has read its rules.
LEMMA EditRulesIInv ==
  ASSUME IInv, EditRules
  PROVE  IInv'
<1> USE DEF IInv, EditRules
<1>1. TypeOK' /\ Idle' /\ OneAtATime' /\ DepsDone'
  BY DEF TypeOK, Idle, OneAtATime, DepsDone
<1>2. HashIsOfSources'
  BY DEF HashIsOfSources, HashNow, FedNow, Hash, DepHashes, TextsOf
<1>3. OutputsMade' /\ Unrecorded'
  BY DEF OutputsMade, Unrecorded, OutputOf, Dir, Key, Address
<1>4. NoPartialOutputs' /\ WholeHasOutput' /\ Directories' /\ WellMade' /\ ContentAddressed'
  BY DEF NoPartialOutputs, WholeHasOutput, Directories, WellMade, ContentAddressed
<1>5. QED
  BY <1>1, <1>2, <1>3, <1>4

\* Nothing runs when outputs are removed.
LEMMA RemoveIInv ==
  ASSUME IInv, NEW key \in DOMAIN cache, Remove(key)
  PROVE  IInv'
<1> USE DEF IInv, Remove
<1>1. TypeOK' /\ Idle' /\ OneAtATime' /\ DepsDone' /\ HashIsOfSources' /\ OutputsMade' /\ Unrecorded'
  BY DEF TypeOK, Idle, OneAtATime, DepsDone, HashIsOfSources, OutputsMade, Unrecorded
<1>2. PICK dir : /\ cache' = Keep(key, dir)
                 /\ dir.output = NoOutput
                 /\ IsDirectory(dir)
                 /\ alone => dir.record = None
  <2>1. CASE cache' = Keep(key, Empty)
    BY <2>1 DEF Empty, IsDirectory
  <2>2. CASE ~alone /\ cache' = Keep(key, [cache[key] EXCEPT !.output = NoOutput])
    <3>1. IsDirectory(cache[key])
      BY DEF Directories
    <3>2. QED
      BY <2>2, <3>1 DEF IsDirectory
  <2>3. QED
    BY <2>1, <2>2
<1>3. /\ DOMAIN cache' = DOMAIN cache \cup {key}
      /\ \A k \in DOMAIN cache' : cache'[k] = IF k = key THEN dir ELSE cache[k]
  BY <1>2, DomainKeep
<1>4. NoPartialOutputs'
  BY <1>2, <1>3 DEF NoPartialOutputs, NoOutput
<1>5. WholeHasOutput'
  BY <1>2, <1>3, CacheAssumption DEF WholeHasOutput
<1>6. Directories'
  BY <1>2, <1>3 DEF Directories
<1>7. WellMade' /\ ContentAddressed'
  BY <1>2, <1>3, CacheAssumption DEF WellMade, ContentAddressed, IsProduct, NoOutput
<1>8. QED
  BY <1>1, <1>4, <1>5, <1>6, <1>7

-----------------------------------------------------------------------------
(* The plan and the lookup of a target.                                    *)

\* No invariant but the types looks at how far a plan is.
LEMMA PlanIInv ==
  ASSUME IInv, NEW i \in active, NEW s \in Steps, To(i, Plan, s),
         UNCHANGED <<text, rules, cache, hash, setup, active, alone>>
  PROVE  IInv'
<1> USE DEF IInv, To
<1>1. TypeOK'
  BY DEF TypeOK
<1>2. \A j \in active, t \in Targets :
        /\ step'[j][t] = step[j][t]
        /\ Key(j, t)' = Key(j, t) /\ OutputOf(j, t)' = OutputOf(j, t)
        /\ HashNow(j, t)' = HashNow(j, t)
  <2>1. \A j \in active, t \in Targets : step'[j][t] = step[j][t]
    BY CacheAssumption DEF TypeOK, Jobs
  <2>2. QED
    BY <2>1 DEF Key, OutputOf, Dir, Address, HashNow, FedNow, DepHashes, TextsOf, Hash
<1>3. Idle'
  BY DEF Idle, TypeOK
<1>4. DepsDone'
  <2>1. \A t \in Targets : \A n \in DOMAIN Dependencies[t] : Dependencies[t][n] \in Targets
    BY CacheAssumption
  <2>2. QED
    BY <1>2, <2>1 DEF DepsDone, TypeOK
<1>5. HashIsOfSources'
  BY <1>2 DEF HashIsOfSources
<1>6. OutputsMade' /\ Unrecorded'
  BY <1>2 DEF OutputsMade, Unrecorded, Dir
<1>7. OneAtATime' /\ NoPartialOutputs' /\ WholeHasOutput'
  BY DEF OneAtATime, NoPartialOutputs, WholeHasOutput
<1>8. Directories' /\ WellMade' /\ ContentAddressed'
  BY DEF Directories, WellMade, ContentAddressed
<1>9. QED
  BY <1>1, <1>3, <1>4, <1>5, <1>6, <1>7, <1>8

\* A hash is computed of sources that can be read, when the dependencies have
\* theirs.
LEMMA CalculateHashIInv ==
  ASSUME IInv, NEW i \in active, NEW t \in Targets, CalculateHash(i, t)
  PROVE  IInv'
<1> USE DEF IInv
<1> USE DependenciesAreTargets
<1>0. /\ i \in Invocations /\ t \in Jobs /\ step[i][t] = "waiting" /\ Ready(i, t)
      /\ UNCHANGED <<text, rules, cache, setup, active, alone>>
  BY DEF TypeOK, Jobs, CalculateHash, At
<1>a. PICK s \in {"hashing", "hashed"} :
        /\ step' = [step EXCEPT ![i][t] = s]
        /\ s = "hashing" => UNCHANGED hash
        /\ s = "hashed" => /\ \A n \in DOMAIN Sources[t] : TextsOf(t)[n] # Unreadable
                           /\ hash' = [hash EXCEPT ![i][t] = HashNow(i, t)]
  BY DEF CalculateHash, To
<1>1. TypeOK'
  <2>1. step' \in [Invocations -> [Jobs -> Steps]]
    BY <1>0, <1>a DEF TypeOK, Steps
  <2>2. CASE UNCHANGED hash
    BY <1>0, <2>1, <2>2 DEF TypeOK
  <2>3. CASE hash' = [hash EXCEPT ![i][t] = HashNow(i, t)]
    <3>1. hash' = [j \in Invocations |-> [u \in Targets |->
                     IF j = i /\ u = t THEN HashNow(i, t) ELSE hash[j][u]]]
      BY <2>3 DEF TypeOK
    <3>2. hash' = [j \in Invocations |-> [u \in Targets |-> hash'[j][u]]]
      BY <3>1
    <3>3. QED
      BY <1>0, <2>1, <3>2 DEF TypeOK
  <2>4. QED
    BY <1>a, <2>2, <2>3
<1>3. \A j \in active, u \in Targets :
        j # i \/ u # t => step'[j][u] = step[j][u] /\ hash'[j][u] = hash[j][u]
  <2>1. \A j \in active, u \in Targets : j # i \/ u # t => step'[j][u] = step[j][u]
    BY <1>0, <1>a DEF TypeOK, Jobs
  <2>2. \A j \in active, u \in Targets : j # i \/ u # t => hash'[j][u] = hash[j][u]
    <3>1. /\ hash = [j \in Invocations |-> [u \in Targets |-> hash[j][u]]]
          /\ active \subseteq Invocations
      BY DEF TypeOK
    <3>2. UNCHANGED hash \/ hash' = [hash EXCEPT ![i][t] = HashNow(i, t)]
      BY <1>a
    <3>3. QED
      BY <1>0, <3>1, <3>2
  <2>3. QED
    BY <2>1, <2>2
<1>4. step[i][t] = "waiting" /\ step'[i][t] \in {"hashing", "hashed"}
  BY <1>0, <1>a DEF TypeOK, Jobs
<1>5. \A n \in DOMAIN Dependencies[t] : step[i][Dependencies[t][n]] = "done"
  BY <1>0 DEF Ready
<1>6. Idle'
  BY <1>0, <1>a DEF Idle, TypeOK
<1>7. DepsDone'
  <2>1. ASSUME NEW j \in active, NEW u \in Targets, step'[j][u] # "waiting", NEW n \in DOMAIN Dependencies[u]
        PROVE  step'[j][Dependencies[u][n]] = "done"
    <3>1. step[j][Dependencies[u][n]] = "done"
      BY <1>0, <1>3, <1>5, <2>1 DEF DepsDone
    <3>2. QED
      BY <1>3, <1>4, <3>1
  <2>2. QED
    BY <1>0, <2>1 DEF DepsDone
<1>8. ASSUME NEW j \in active, NEW u \in Targets, step'[j][u] # "waiting"
      PROVE  DepHashes(j, u)' = DepHashes(j, u)
  <2>1. \A n \in DOMAIN Dependencies[u] : step[j][Dependencies[u][n]] = "done"
    BY <1>0, <1>3, <1>5, <1>8 DEF DepsDone
  <2>2. \A n \in DOMAIN Dependencies[u] : hash'[j][Dependencies[u][n]] = hash[j][Dependencies[u][n]]
    BY <1>3, <1>4, <2>1
  <2>3. QED
    BY <2>2 DEF DepHashes
<1>9. ASSUME NEW j \in active, NEW u \in Targets, step'[j][u] # "waiting"
      PROVE  HashNow(j, u)' = HashNow(j, u)
  BY <1>0, <1>8, <1>9 DEF HashNow, FedNow, TextsOf, Hash
<1>10. HashIsOfSources'
  <2>1. ASSUME NEW j \in active, NEW u \in Targets, step'[j][u] \in Busy, j # i \/ u # t
        PROVE  /\ hash'[j][u] = HashNow(j, u)'
               /\ \A n \in DOMAIN Sources[u] : text'[Sources[u][n]] # Unreadable
    BY <1>0, <1>3, <1>9, <2>1 DEF HashIsOfSources, Busy
  <2>2. ASSUME step'[i][t] \in Busy
        PROVE  /\ hash'[i][t] = HashNow(i, t)'
               /\ \A n \in DOMAIN Sources[t] : text'[Sources[t][n]] # Unreadable
    <3>1. /\ \A n \in DOMAIN Sources[t] : TextsOf(t)[n] # Unreadable
          /\ hash' = [hash EXCEPT ![i][t] = HashNow(i, t)]
      BY <1>0, <1>a, <2>2 DEF TypeOK, Busy
    <3>2. hash'[i][t] = HashNow(i, t)
      BY <1>0, <3>1 DEF TypeOK
    <3>3. QED
      BY <1>0, <1>4, <1>9, <3>1, <3>2 DEF TextsOf
  <2>3. QED
    BY <1>0, <2>1, <2>2 DEF HashIsOfSources
<1>11. \A j \in active, u \in Targets :
         j # i \/ u # t => Key(j, u)' = Key(j, u) /\ OutputOf(j, u)' = OutputOf(j, u)
  BY <1>0, <1>3 DEF Key, OutputOf, Dir, Address
<1>12. OutputsMade'
  BY <1>0, <1>3, <1>4, <1>11 DEF OutputsMade, Settled
<1>13. Unrecorded'
  BY <1>0, <1>3, <1>4, <1>11 DEF Unrecorded, Dir
<1>14. OneAtATime' /\ NoPartialOutputs' /\ WholeHasOutput'
  BY <1>0 DEF OneAtATime, NoPartialOutputs, WholeHasOutput
<1>15. Directories' /\ WellMade' /\ ContentAddressed'
  BY <1>0 DEF Directories, WellMade, ContentAddressed
<1>16. QED
  BY <1>1, <1>6, <1>7, <1>10, <1>12, <1>13, <1>14, <1>15

\* A hit has an output: where an output may be half of one, the record of a
\* target is whole only if the output is.
LEMMA HitHasOutput ==
  ASSUME IInv, NEW i \in active, NEW t \in Targets, Hit(i, t)
  PROVE  IsProduct(OutputOf(i, t))
<1>1. Key(i, t) \in DOMAIN cache
  BY CacheAssumption DEF Hit, Dir, Empty
<1>2. Key(i, t).target # Plan
  BY CacheAssumption DEF Key, Address
<1>3. CASE alone
  BY <1>1, <1>2, <1>3 DEF Hit, IInv, WholeHasOutput, OutputOf, Dir
<1>4. CASE ~alone
  BY <1>1, <1>4 DEF Hit, PathsExist, IInv, NoPartialOutputs, OutputOf, Dir, IsProduct
<1>5. QED
  BY <1>3, <1>4

LEMMA LookupIInv ==
  ASSUME IInv, NEW i \in active, NEW t \in Targets, ReadCachedBuildOutput(i, t)
  PROVE  IInv'
<1> USE DEF IInv, ReadCachedBuildOutput, To, At
<1> USE DependenciesAreTargets
<1>1. TypeOK'
  BY DEF TypeOK, Jobs, Steps
<1>2. \A j \in active, u \in Targets : j # i \/ u # t => step'[j][u] = step[j][u]
  BY DEF TypeOK, Jobs
<1>3. step[i][t] = "hashed" /\ step'[i][t] = IF Hit(i, t) THEN "done" ELSE "missed"
  BY DEF TypeOK, Jobs
<1>4. \A j \in active, u \in Targets :
        /\ Key(j, u)' = Key(j, u) /\ OutputOf(j, u)' = OutputOf(j, u)
        /\ HashNow(j, u)' = HashNow(j, u)
  BY DEF Key, OutputOf, Dir, Address, HashNow, FedNow, DepHashes, TextsOf, Hash
<1>5. Idle'
  BY DEF Idle, TypeOK
<1>6. DepsDone'
  BY <1>2, <1>3 DEF DepsDone
<1>7. HashIsOfSources'
  BY <1>2, <1>3, <1>4 DEF HashIsOfSources, Busy
<1>8. OutputsMade'
  BY <1>2, <1>3, <1>4, HitHasOutput DEF OutputsMade, Settled
<1>9. Unrecorded'
  <2>1. ASSUME alone, ~Hit(i, t)
        PROVE  Dir(Key(i, t)).record # Whole
    <3>1. SUFFICES ASSUME Dir(Key(i, t)).record = Whole PROVE FALSE
      OBVIOUS
    <3>2. Key(i, t) \in DOMAIN cache /\ Key(i, t).target # Plan
      BY <3>1, CacheAssumption DEF Dir, Empty, Key, Address
    <3>3. OutputOf(i, t).is # None
      BY <2>1, <3>1, <3>2, CacheAssumption DEF WholeHasOutput, OutputOf, Dir, IsProduct
    <3>4. \A n \in DOMAIN Dependencies[t] : OutputOf(i, Dependencies[t][n]).is # None
      <4>1. \A n \in DOMAIN Dependencies[t] : step[i][Dependencies[t][n]] = "done"
        BY <1>3 DEF DepsDone
      <4>2. QED
        BY <4>1, CacheAssumption DEF OutputsMade, Settled, IsProduct
    <3>5. QED
      BY <2>1, <3>1, <3>3, <3>4 DEF Hit, PathsExist
  <2>2. QED
    BY <1>2, <1>3, <1>4, <2>1 DEF Unrecorded, Dir
<1>10. OneAtATime' /\ NoPartialOutputs' /\ WholeHasOutput'
  BY DEF OneAtATime, NoPartialOutputs, WholeHasOutput
<1>11. Directories' /\ WellMade' /\ ContentAddressed'
  BY DEF Directories, WellMade, ContentAddressed
<1>12. QED
  BY <1>1, <1>5, <1>6, <1>7, <1>8, <1>9, <1>10, <1>11

-----------------------------------------------------------------------------
(* The compiler.                                                           *)

LEMMA DirIsDirectory ==
  ASSUME IInv, NEW key
  PROVE  IsDirectory(Dir(key))
BY DEF IInv, Directories, IsDirectory, Dir, Empty

\* Half an output has no whole record, and only one invocation to see it.
LEMMA StartCompilerIInv ==
  ASSUME IInv, NEW i \in active, NEW t \in Targets, StartCompiler(i, t)
  PROVE  IInv'
<1> USE DEF IInv, StartCompiler, To, At
<1>0. i \in Invocations /\ t \in Jobs
  BY DEF TypeOK, Jobs
<1>1. TypeOK'
  BY <1>0 DEF TypeOK, Steps
<1>2. \A j \in active, u \in Targets : j # i \/ u # t => step'[j][u] = step[j][u]
  BY <1>0 DEF TypeOK, Jobs
<1>3. step[i][t] = "missed" /\ step'[i][t] = "compiling"
  BY <1>0 DEF TypeOK
<1>4. \A j \in active, u \in Targets : Key(j, u)' = Key(j, u) /\ HashNow(j, u)' = HashNow(j, u)
  BY DEF Key, Address, HashNow, FedNow, DepHashes, TextsOf, Hash
<1>5. Idle'
  BY <1>0 DEF Idle, TypeOK
<1>6. DepsDone'
  BY <1>2, <1>3, DependenciesAreTargets DEF DepsDone
<1>7. HashIsOfSources'
  BY <1>2, <1>3, <1>4 DEF HashIsOfSources, Busy
<1>8. CASE ~alone
  <2>1. OutputsMade'
    BY <1>2, <1>3, <1>4, <1>8 DEF OutputsMade, Settled, OutputOf, Dir
  <2>2. Unrecorded' /\ OneAtATime' /\ NoPartialOutputs' /\ WholeHasOutput'
    BY <1>8 DEF Unrecorded, OneAtATime, NoPartialOutputs, WholeHasOutput
  <2>3. Directories' /\ WellMade' /\ ContentAddressed'
    BY <1>8 DEF Directories, WellMade, ContentAddressed
  <2>4. QED
    BY <1>1, <1>5, <1>6, <1>7, <2>1, <2>2, <2>3
<1>9. CASE alone
  <2> DEFINE key == Key(i, t)
             dir == [Dir(key) EXCEPT !.output = HalfOutput]
  <2>1. cache' = Keep(key, dir)
    BY <1>9
  <2>2. /\ IsDirectory(dir)
        /\ dir.output = HalfOutput
        /\ dir.record = Dir(key).record
        /\ dir.record # Whole
    <3>1. IsDirectory(Dir(key))
      BY DirIsDirectory
    <3>2. Dir(key).record # Whole
      BY <1>3, <1>9 DEF Unrecorded
    <3>3. QED
      BY <3>1, <3>2 DEF IsDirectory
  <2> HIDE DEF dir, key
  <2>3. \A k : Dir(k)' = IF k = key THEN dir ELSE Dir(k)
    BY <2>1, DirKeep
  <2>4. /\ DOMAIN cache' = DOMAIN cache \cup {key}
        /\ \A k \in DOMAIN cache' : cache'[k] = IF k = key THEN dir ELSE cache[k]
    BY <2>1, DomainKeep
  <2>5. OutputsMade'
    <3>1. ASSUME NEW j \in active, NEW u \in Targets, step'[j][u] \in Settled
          PROVE  Key(j, u) # key /\ IsProduct(OutputOf(j, u))
      BY <1>2, <1>3, <1>9, <3>1, KeyTargets DEF OutputsMade, OneAtATime, Settled, key
    <3>2. QED
      BY <1>4, <2>3, <3>1 DEF OutputsMade, OutputOf
  <2>6. Unrecorded'
    <3>1. \A k : Dir(k).record # Whole => Dir(k)'.record # Whole
      BY <2>2, <2>3
    <3>2. QED
      BY <1>2, <1>3, <1>4, <3>1 DEF Unrecorded
  <2>7. NoPartialOutputs' /\ OneAtATime'
    BY <1>9 DEF NoPartialOutputs, OneAtATime
  <2>8. WholeHasOutput'
    BY <2>2, <2>4 DEF WholeHasOutput
  <2>9. Directories'
    BY <2>2, <2>4 DEF Directories
  <2>10. WellMade' /\ ContentAddressed'
    <3>1. ~IsProduct(dir.output)
      BY <2>2, CacheAssumption DEF IsProduct, HalfOutput
    <3>2. QED
      BY <2>4, <3>1 DEF WellMade, ContentAddressed
  <2>11. QED
    BY <1>1, <1>5, <1>6, <1>7, <2>5, <2>6, <2>7, <2>8, <2>9, <2>10
<1>10. QED
  BY <1>8, <1>9

\* What the compiler makes is what the key says: the sources are those that
\* were hashed and the dependencies have their outputs.
LEMMA ProductIsMadeFor ==
  ASSUME IInv, NEW i \in active, NEW t \in Targets, step[i][t] \in Busy
  PROVE  /\ Linked(i, t) = DepHashes(i, t)
         /\ TextsOf(t) \in Reads(t)
         /\ IsMade(ProductNow(i, t))
         /\ MadeFor(Key(i, t), ProductNow(i, t))
<1>1. \A n \in DOMAIN Dependencies[t] : step[i][Dependencies[t][n]] = "done"
  BY DEF IInv, DepsDone, Busy
<1>2. \A n \in DOMAIN Dependencies[t] : IsProduct(OutputOf(i, Dependencies[t][n]))
  BY <1>1, DependenciesAreTargets DEF IInv, OutputsMade, Settled
<1>3. Linked(i, t) = DepHashes(i, t)
  BY <1>2 DEF Linked, DepHashes
<1>4. /\ hash[i][t] = HashNow(i, t)
      /\ \A n \in DOMAIN Sources[t] : text[Sources[t][n]] # Unreadable
  BY DEF IInv, HashIsOfSources
<1>5. \A n \in DOMAIN Sources[t] : Sources[t][n] \in Files
  BY CacheAssumption
<1>6. TextsOf(t) \in Reads(t)
  BY <1>4, <1>5 DEF TextsOf, Reads, IInv, TypeOK, States
<1>7. IsMade(ProductNow(i, t))
  BY <1>6 DEF IsMade, ProductNow, Product
<1>8. MadeFor(Key(i, t), ProductNow(i, t))
  <2>1. Key(i, t) = Address(t, HashNow(i, t))
    BY <1>4, DependenciesAreTargets DEF Key
  <2>2. QED
    BY <1>3, <2>1 DEF MadeFor, ProductNow, Product, Address, HashNow, FedNow
<1>9. QED
  BY <1>3, <1>6, <1>7, <1>8

LEMMA CompilerSucceedsIInv ==
  ASSUME IInv, NEW i \in active, NEW t \in Targets, CompilerSucceeds(i, t)
  PROVE  IInv'
<1> USE DEF IInv, CompilerSucceeds, To, At
<1>0. i \in Invocations /\ t \in Jobs
  BY DEF TypeOK, Jobs
<1>1. TypeOK'
  BY <1>0 DEF TypeOK, Steps
<1>2. \A j \in active, u \in Targets : j # i \/ u # t => step'[j][u] = step[j][u]
  BY <1>0 DEF TypeOK, Jobs
<1>3. step[i][t] = "compiling" /\ step'[i][t] = "compiled"
  BY <1>0 DEF TypeOK
<1>4. \A j \in active, u \in Targets : Key(j, u)' = Key(j, u) /\ HashNow(j, u)' = HashNow(j, u)
  BY DEF Key, Address, HashNow, FedNow, DepHashes, TextsOf, Hash
<1>5. Idle'
  BY <1>0 DEF Idle, TypeOK
<1>6. DepsDone'
  BY <1>2, <1>3, DependenciesAreTargets DEF DepsDone
<1>7. HashIsOfSources'
  BY <1>2, <1>3, <1>4 DEF HashIsOfSources, Busy
<1> DEFINE key == Key(i, t)
           made == ProductNow(i, t)
           dir == [Dir(key) EXCEPT !.output = made]
<1>8. cache' = Keep(key, dir)
  OBVIOUS
<1>9. /\ IsDirectory(dir)
      /\ dir.output = made
      /\ dir.record = Dir(key).record
  BY DirIsDirectory DEF IsDirectory
<1>10. IsProduct(made) /\ IsMade(made) /\ MadeFor(key, made)
  BY <1>3, ProductIsMadeFor DEF IsProduct, ProductNow, Product, Busy
<1> HIDE DEF dir, key, made
<1>11. \A k : Dir(k)' = IF k = key THEN dir ELSE Dir(k)
  BY <1>8, DirKeep
<1>12. /\ DOMAIN cache' = DOMAIN cache \cup {key}
       /\ \A k \in DOMAIN cache' : cache'[k] = IF k = key THEN dir ELSE cache[k]
  BY <1>8, DomainKeep
<1>13. OutputsMade'
  BY <1>2, <1>3, <1>4, <1>9, <1>10, <1>11 DEF OutputsMade, Settled, OutputOf, key
<1>14. Unrecorded'
  BY <1>2, <1>3, <1>4, <1>9, <1>11 DEF Unrecorded
<1>15. NoPartialOutputs' /\ OneAtATime'
  BY <1>9, <1>10, <1>12 DEF NoPartialOutputs, OneAtATime, IsProduct
<1>16. WholeHasOutput'
  BY <1>9, <1>10, <1>12 DEF WholeHasOutput
<1>17. Directories'
  BY <1>9, <1>12 DEF Directories
<1>18. WellMade' /\ ContentAddressed'
  BY <1>9, <1>10, <1>12 DEF WellMade, ContentAddressed
<1>19. QED
  BY <1>1, <1>5, <1>6, <1>7, <1>13, <1>14, <1>15, <1>16, <1>17, <1>18

LEMMA CompilerFailsIInv ==
  ASSUME IInv, NEW i \in active, NEW t \in Targets, CompilerFails(i, t)
  PROVE  IInv'
<1> USE DEF IInv, CompilerFails, To, At
<1>0. i \in Invocations /\ t \in Jobs
  BY DEF TypeOK, Jobs
<1>1. TypeOK'
  BY <1>0 DEF TypeOK, Steps
<1>2. \A j \in active, u \in Targets : j # i \/ u # t => step'[j][u] = step[j][u]
  BY <1>0 DEF TypeOK, Jobs
<1>3. step[i][t] = "compiling" /\ step'[i][t] = "failed"
  BY <1>0 DEF TypeOK
<1>4. \A j \in active, u \in Targets : Key(j, u)' = Key(j, u) /\ HashNow(j, u)' = HashNow(j, u)
  BY DEF Key, Address, HashNow, FedNow, DepHashes, TextsOf, Hash
<1>5. Idle'
  BY <1>0 DEF Idle, TypeOK
<1>6. DepsDone'
  BY <1>2, <1>3, DependenciesAreTargets DEF DepsDone
<1>7. HashIsOfSources'
  BY <1>2, <1>3, <1>4 DEF HashIsOfSources, Busy
<1>8. OutputsMade' /\ Unrecorded'
  BY <1>2, <1>3, <1>4 DEF OutputsMade, Unrecorded, Settled, OutputOf, Dir
<1>9. OneAtATime' /\ NoPartialOutputs' /\ WholeHasOutput'
  BY DEF OneAtATime, NoPartialOutputs, WholeHasOutput
<1>10. Directories' /\ WellMade' /\ ContentAddressed'
  BY DEF Directories, WellMade, ContentAddressed
<1>11. QED
  BY <1>1, <1>5, <1>6, <1>7, <1>8, <1>9, <1>10

-----------------------------------------------------------------------------
(* Storing.                                                                *)

\* Storing leaves outputs alone, moves only those that store, and stores a
\* target only when its output is there.
StoreMoves ==
  \A j \in active, u \in Targets :
    \/ step'[j][u] = step[j][u]
    \/ step[j][u] \in Settled \ {"done"} /\ step'[j][u] \in Settled

LEMMA StoreSteps ==
  ASSUME IInv, NEW i \in active, NEW job \in Jobs, Store(i, job)
  PROVE  /\ UNCHANGED <<text, rules, hash, setup, active, alone>>
         /\ step' \in [Invocations -> [Jobs -> Steps]]
         /\ \A j \in Invocations \ active, k \in Jobs : step'[j][k] = step[j][k]
         /\ StoreMoves
         /\ step[i][job] \in Settled
<1> USE DEF IInv, TypeOK
<1>1. i \in Invocations
  OBVIOUS
<1>2. ASSUME NEW s \in Steps, To(i, job, s), step[i][job] \in Settled \ {"done"},
             job # Plan => s \in Settled
      PROVE  /\ step' \in [Invocations -> [Jobs -> Steps]]
             /\ \A j \in Invocations \ active, k \in Jobs : step'[j][k] = step[j][k]
             /\ StoreMoves
  <2>1. step' = [step EXCEPT ![i][job] = s]
    BY <1>2 DEF To
  <2>2. StoreMoves
    BY <1>1, <1>2, <2>1, DependenciesAreTargets DEF StoreMoves, Jobs
  <2>3. QED
    BY <1>1, <2>1, <2>2
<1>3. NotStored(job) \in Steps /\ (job # Plan => NotStored(job) \in Settled)
  BY DEF NotStored, Steps, Settled
<1>4. CASE OpenTmp(i, job)
  BY <1>2, <1>4 DEF OpenTmp, At, Steps, Settled
<1>5. CASE OpenFails(i, job)
  BY <1>2, <1>3, <1>5 DEF OpenFails, At, Settled
<1>6. CASE WriteTmp(i, job)
  BY <1>2, <1>6 DEF WriteTmp, Steps, Settled
<1>7. CASE RenameFails(i, job)
  BY <1>2, <1>3, <1>7 DEF RenameFails, At, Settled
<1>8. CASE RenameTmp(i, job)
  <2>1. step' = AfterRename(i, job) /\ step[i][job] = "written"
    BY <1>8 DEF RenameTmp, At
  <2>2. \A j \in Invocations, k \in Jobs :
          \/ step'[j][k] = step[j][k]
          \/ j = i /\ k = job /\ step'[j][k] = "done"
          \/ j \in active /\ step[j][k] = "opened" /\ step'[j][k] = "moved"
          \/ j \in active /\ step[j][k] = "moved" /\ step'[j][k] = "lost"
    BY <2>1 DEF AfterRename
  <2>3. step' \in [Invocations -> [Jobs -> Steps]]
    <3>1. \A j \in Invocations, k \in Jobs : step'[j][k] \in Steps
      BY <2>2 DEF Steps
    <3>2. step' = [j \in Invocations |-> [k \in Jobs |-> step'[j][k]]]
      BY <2>1 DEF AfterRename
    <3>3. QED
      BY <3>1, <3>2
  <2>4. StoreMoves
    BY <2>1, <2>2 DEF StoreMoves, Jobs, Settled
  <2>5. QED
    BY <1>8, <2>1, <2>2, <2>3, <2>4 DEF RenameTmp, Settled
<1>9. QED
  BY <1>4, <1>5, <1>6, <1>7, <1>8 DEF Store, OpenTmp, OpenFails, WriteTmp, RenameTmp, RenameFails, At, Settled

LEMMA StoreCache ==
  ASSUME IInv, NEW i \in active, NEW job \in Jobs, Store(i, job)
  PROVE  \/ cache' = cache
         \/ \E dir : /\ cache' = Keep(Key(i, job), dir)
                     /\ IsDirectory(dir)
                     /\ dir.output = Dir(Key(i, job)).output
<1> DEFINE key == Key(i, job)
<1>1. IsDirectory(Dir(key))
  BY DirIsDirectory
<1>2. CASE OpenTmp(i, job)
  BY <1>1, <1>2 DEF OpenTmp, IsDirectory
<1>3. CASE OpenFails(i, job) \/ RenameFails(i, job)
  BY <1>3 DEF OpenFails, RenameFails
<1>4. CASE WriteTmp(i, job)
  BY <1>1, <1>4 DEF WriteTmp, Written, IsDirectory
<1>5. CASE RenameTmp(i, job)
  BY <1>1, <1>5 DEF RenameTmp, Renamed, IsDirectory
<1>6. QED
  BY <1>2, <1>3, <1>4, <1>5 DEF Store

LEMMA StoreIInv ==
  ASSUME IInv, NEW i \in active, NEW job \in Jobs, Store(i, job)
  PROVE  IInv'
<1> USE DEF IInv
<1>1. /\ UNCHANGED <<text, rules, hash, setup, active, alone>>
      /\ step' \in [Invocations -> [Jobs -> Steps]]
      /\ \A j \in Invocations \ active, k \in Jobs : step'[j][k] = step[j][k]
      /\ StoreMoves
      /\ step[i][job] \in Settled
  BY StoreSteps
<1>2. TypeOK' /\ Idle'
  BY <1>1 DEF TypeOK, Idle
<1>3. \A j \in active, u \in Targets : Key(j, u)' = Key(j, u) /\ HashNow(j, u)' = HashNow(j, u)
  BY <1>1 DEF Key, Address, HashNow, FedNow, DepHashes, TextsOf, Hash
<1>4. DepsDone'
  BY <1>1, DependenciesAreTargets DEF DepsDone, StoreMoves, Settled
<1>5. HashIsOfSources'
  BY <1>1, <1>3 DEF HashIsOfSources, StoreMoves, Busy, Settled
<1>6. OneAtATime'
  BY <1>1 DEF OneAtATime
<1>7. CASE cache' = cache
  <2>1. OutputsMade' /\ Unrecorded'
    BY <1>1, <1>3, <1>7 DEF OutputsMade, Unrecorded, StoreMoves, Settled, OutputOf, Dir
  <2>2. NoPartialOutputs' /\ WholeHasOutput' /\ Directories' /\ WellMade' /\ ContentAddressed'
    BY <1>1, <1>7 DEF NoPartialOutputs, WholeHasOutput, Directories, WellMade, ContentAddressed
  <2>3. QED
    BY <1>2, <1>4, <1>5, <1>6, <2>1, <2>2
<1>8. ASSUME NEW dir, cache' = Keep(Key(i, job), dir), IsDirectory(dir),
             dir.output = Dir(Key(i, job)).output
      PROVE  IInv'
  <2> DEFINE key == Key(i, job)
  <2>1. job # Plan => IsProduct(dir.output)
    BY <1>1, <1>8 DEF OutputsMade, OutputOf, Jobs
  <2>2. key.target = job
    BY DEF Key, Address
  <2>3. Dir(key) = cache[key] \/ Dir(key) = Empty
    BY DEF Dir
  <2>4. \A j, u : Key(j, u) = key => u = job
    BY KeyTargets
  <2>5. /\ cache' = Keep(key, dir)
        /\ dir.output = Dir(key).output
    BY <1>8
  <2> HIDE DEF key
  <2>6. \A k : Dir(k)' = IF k = key THEN dir ELSE Dir(k)
    BY <2>5, DirKeep
  <2>7. /\ DOMAIN cache' = DOMAIN cache \cup {key}
        /\ \A k \in DOMAIN cache' : cache'[k] = IF k = key THEN dir ELSE cache[k]
    BY <2>5, DomainKeep
  <2>8. key \in DOMAIN cache => dir.output = cache[key].output
    BY <2>5 DEF Dir
  <2>9. key \notin DOMAIN cache => dir.output = NoOutput
    BY <2>5 DEF Dir, Empty
  <2>10. OutputsMade'
    BY <1>1, <1>3, <2>5, <2>6 DEF OutputsMade, OutputOf, StoreMoves
  <2>11. Unrecorded'
    <3>1. ASSUME alone, NEW j \in active, NEW u \in Targets, step'[j][u] \in {"missed", "compiling"}
          PROVE  Dir(Key(j, u))'.record # Whole
      <4>1. step[j][u] = step'[j][u]
        BY <1>1, <3>1 DEF StoreMoves, Settled
      <4>2. j = i
        BY <3>1 DEF OneAtATime
      <4>3. u # job
        BY <1>1, <3>1, <4>1, <4>2 DEF Settled
      <4>4. Key(j, u)' = Key(j, u) /\ Key(j, u) # key
        BY <1>3, <2>4, <4>3
      <4>5. QED
        BY <2>6, <3>1, <4>1, <4>4 DEF Unrecorded
    <3>2. QED
      BY <1>1, <3>1 DEF Unrecorded
  <2>12. NoPartialOutputs'
    BY <1>1, <2>7, <2>8, <2>9 DEF NoPartialOutputs, NoOutput
  <2>13. WholeHasOutput'
    BY <1>1, <2>1, <2>2, <2>7 DEF WholeHasOutput
  <2>14. Directories'
    BY <1>8, <2>7 DEF Directories
  <2>15. ~IsProduct(NoOutput)
    BY CacheAssumption DEF IsProduct, NoOutput
  <2>16. WellMade' /\ ContentAddressed'
    BY <2>7, <2>8, <2>9, <2>15 DEF WellMade, ContentAddressed
  <2>17. QED
    BY <1>2, <1>4, <1>5, <1>6, <2>10, <2>11, <2>12, <2>13, <2>14, <2>16
<1>9. QED
  BY <1>7, <1>8, StoreCache

-----------------------------------------------------------------------------
(* The theorems.                                                           *)

LEMMA NextIInv ==
  ASSUME ~EditsAnyTime, IInv, [Next]_vars
  PROVE  IInv'
<1>1. CASE UNCHANGED vars
  <2>1. TypeOK' /\ Idle' /\ OneAtATime' /\ DepsDone'
    BY <1>1 DEF vars, IInv, TypeOK, Idle, OneAtATime, DepsDone
  <2>2. HashIsOfSources'
    BY <1>1 DEF vars, IInv, HashIsOfSources, HashNow, FedNow, Hash, DepHashes, TextsOf
  <2>3. OutputsMade' /\ Unrecorded'
    BY <1>1 DEF vars, IInv, OutputsMade, Unrecorded, OutputOf, Dir, Key, Address
  <2>4. NoPartialOutputs' /\ WholeHasOutput' /\ Directories' /\ WellMade' /\ ContentAddressed'
    BY <1>1 DEF vars, IInv, NoPartialOutputs, WholeHasOutput, Directories, WellMade, ContentAddressed
  <2>5. QED
    BY <2>1, <2>2, <2>3, <2>4 DEF IInv
<1>2. ASSUME NEW i \in Invocations, Start(i)
      PROVE  IInv'
  BY <1>2, StartIInv
<1>3. ASSUME NEW i \in Invocations, Crash(i) \/ End(i)
      PROVE  IInv'
  BY <1>3, ForgetIInv DEF Crash, End
<1>4. ASSUME NEW f \in Files, Edit(f)
      PROVE  IInv'
  BY <1>4, EditIInv
<1>5. ASSUME NEW key \in DOMAIN cache, Remove(key)
      PROVE  IInv'
  BY <1>5, RemoveIInv
<1>6. ASSUME NEW i \in Invocations, PlanFound(i) \/ MakePlan(i)
      PROVE  IInv'
  <2>1. PICK s \in Steps : To(i, Plan, s)
    BY <1>6 DEF PlanFound, MakePlan, Steps
  <2>2. QED
    BY <1>6, <2>1, PlanIInv DEF PlanFound, MakePlan, At
<1>7. ASSUME NEW i \in Invocations, NEW t \in Targets, Build(i, t)
      PROVE  IInv'
  <2>1. i \in active
    BY <1>7 DEF Build, CalculateHash, ReadCachedBuildOutput, StartCompiler, CompilerSucceeds, CompilerFails, At
  <2>2. QED
    BY <1>7, <2>1, CalculateHashIInv, LookupIInv, StartCompilerIInv, CompilerSucceedsIInv, CompilerFailsIInv
       DEF Build
<1>8. ASSUME NEW i \in Invocations, NEW job \in Jobs, Store(i, job)
      PROVE  IInv'
  <2>1. i \in active
    BY <1>8 DEF Store, OpenTmp, OpenFails, WriteTmp, RenameTmp, RenameFails, At
  <2>2. QED
    BY <1>8, <2>1, StoreIInv
<1>9. CASE EditRules
  BY <1>9, EditRulesIInv
<1>10. QED
  BY <1>1, <1>2, <1>3, <1>4, <1>5, <1>6, <1>7, <1>8, <1>9 DEF Next, User, Run

\* The inductive invariant of the cache: what is on disk, and what each
\* invocation knows of it, in every reachable state.
THEOREM CacheInvariance ==
  ASSUME ~EditsAnyTime
  PROVE  Spec => []IInv
<1>1. Init => IInv
  BY InitIInv
<1>2. IInv /\ [Next]_vars => IInv'
  BY NextIInv
<1>3. QED
  BY <1>1, <1>2, PTL DEF Spec

\* Invocations and jobs keep their types.
THEOREM CacheTypes ==
  ASSUME ~EditsAnyTime
  PROVE  Spec => []TypeOK
<1>1. IInv => TypeOK
  BY DEF IInv
<1>2. QED
  BY <1>1, CacheInvariance, PTL

\* Every output in the cache was made of the contents, and by the context and
\* with the dependencies, that its directory is named for.
THEOREM OutputsAreContentAddressed ==
  ASSUME ~EditsAnyTime
  PROVE  Spec => []ContentAddressed
<1>1. IInv => ContentAddressed
  BY DEF IInv
<1>2. QED
  BY <1>1, CacheInvariance, PTL

\* Only the lookup takes a target from its hash to its end.
LEMMA HitsAreLookups ==
  ASSUME IInv, [Next]_vars, NEW i \in Invocations, NEW t \in Targets, IsHit(i, t)
  PROVE  Hit(i, t)
<1>1. i \in active /\ step[i][t] = "hashed" /\ step'[i][t] = "done"
  BY DEF IsHit, At
<1>2. step \in [Invocations -> [Jobs -> Steps]] /\ t \in Jobs /\ t # Plan
  BY DependenciesAreTargets DEF IInv, TypeOK, Jobs
<1>3. CASE UNCHANGED vars
  BY <1>1, <1>3 DEF vars
<1>4. ASSUME NEW j \in Invocations, Start(j) \/ Crash(j) \/ End(j)
      PROVE  FALSE
  <2>1. step'[i][t] \in {step[i][t], "waiting"}
    BY <1>2, <1>4 DEF Start, Crash, End, Forget
  <2>2. QED
    BY <1>1, <2>1
<1>5. ASSUME NEW f \in Files, Edit(f)
      PROVE  FALSE
  BY <1>1, <1>5 DEF Edit
<1>6. ASSUME NEW key \in DOMAIN cache, Remove(key)
      PROVE  FALSE
  BY <1>1, <1>6 DEF Remove
<1>7. ASSUME NEW j \in Invocations, PlanFound(j) \/ MakePlan(j)
      PROVE  FALSE
  BY <1>1, <1>2, <1>7 DEF PlanFound, MakePlan, To
<1>8. ASSUME NEW j \in Invocations, NEW u \in Targets, Build(j, u)
      PROVE  Hit(i, t)
  <2>1. u \in Jobs
    BY DEF Jobs
  <2>2. CASE ReadCachedBuildOutput(j, u)
    BY <1>1, <1>2, <2>1, <2>2 DEF ReadCachedBuildOutput, To
  <2>3. PICK s : (s # "done" /\ step' = [step EXCEPT ![j][u] = s]) \/ ReadCachedBuildOutput(j, u)
    BY <1>8 DEF Build, CalculateHash, StartCompiler, CompilerSucceeds, CompilerFails, To
  <2>4. QED
    BY <1>1, <1>2, <2>1, <2>2, <2>3
<1>9. ASSUME NEW j \in Invocations, NEW job \in Jobs, Store(j, job)
      PROVE  FALSE
  <2>1. j \in active
    BY <1>9 DEF Store, OpenTmp, OpenFails, WriteTmp, RenameTmp, RenameFails, At
  <2>2. StoreMoves
    BY <1>9, <2>1, StoreSteps
  <2>3. QED
    BY <1>1, <2>2 DEF StoreMoves, Settled
<1>10. CASE EditRules
  BY <1>1, <1>10 DEF EditRules
<1>11. QED
  BY <1>3, <1>4, <1>5, <1>6, <1>7, <1>8, <1>9, <1>10 DEF Next, User, Run

\* What an invocation takes from the cache was made, for its target and context,
\* of the bytes that its sources and its rule have now, against the dependencies
\* it has built (calculate_hash, read_cached_build_output): the lookup finds what
\* lies under the hash of these.
THEOREM HitsHaveSameInputs ==
  ASSUME ~EditsAnyTime
  PROVE  Spec => HitHasSameInputs
<1>1. ASSUME IInv, [Next]_vars, NEW i \in Invocations, NEW t \in Targets, IsHit(i, t)
      PROVE  SameInputs(OutputOf(i, t), ProductNow(i, t))
  <2> DEFINE key == Key(i, t)
             output == OutputOf(i, t)
  <2>1. i \in active /\ step[i][t] = "hashed"
    BY <1>1 DEF IsHit, At
  <2>2. IsProduct(output) /\ output = Dir(key).output
    BY <1>1, <2>1, HitsAreLookups, HitHasOutput DEF OutputOf
  <2>3. IsMade(output) /\ MadeFor(key, output)
    <3>1. key \in DOMAIN cache
      BY <2>2, CacheAssumption DEF Dir, Empty, NoOutput, IsProduct
    <3>2. QED
      BY <1>1, <2>2, <3>1 DEF IInv, WellMade, ContentAddressed, Dir
  <2>4. Linked(i, t) = DepHashes(i, t)
    BY <1>1, <2>1, ProductIsMadeFor DEF Busy
  <2>5. hash[i][t] = HashNow(i, t)
    BY <1>1, <2>1 DEF IInv, HashIsOfSources, Busy
  <2>6. key.target = t /\ key.hash = HashNow(i, t)
    BY <2>5, DependenciesAreTargets DEF Key, Address
  <2>7. /\ output.target = t
        /\ output.context = setup[i].context
        /\ output.linked = DepHashes(i, t)
        /\ Fed(output.read, output.rule) = FedNow(i, t)
    BY <2>3, <2>6 DEF MadeFor, HashNow, Hash
  <2>8. output = Product(t, setup[i].context, output.rule, output.read, DepHashes(i, t))
    BY <2>3, <2>7 DEF IsMade
  <2>9. /\ ProductNow(i, t).target = t
        /\ ProductNow(i, t).context = setup[i].context
        /\ ProductNow(i, t).linked = DepHashes(i, t)
        /\ Fed(ProductNow(i, t).read, ProductNow(i, t).rule) = FedNow(i, t)
    BY <2>4 DEF ProductNow, Product, FedNow
  <2>10. QED
    BY <2>7, <2>8, <2>9 DEF SameInputs
<1>2. IInv /\ [Next]_vars =>
        [\A i \in Invocations, t \in Targets :
            IsHit(i, t) => SameInputs(OutputOf(i, t), ProductNow(i, t))]_vars
  BY <1>1
<1>3. QED
  BY <1>2, CacheInvariance, PTL DEF HitHasSameInputs, Spec

-----------------------------------------------------------------------------
(* Plans: what an invocation that runs alone leaves on disk, whenever it   *)
(* crashes and whatever is edited.                                         *)

Shape ==
  /\ step \in [Invocations -> [Jobs -> Steps]]
  /\ hash = [i \in Invocations |-> [t \in Targets |-> hash[i][t]]]
  /\ setup = [i \in Invocations |-> setup[i]]
  /\ active \subseteq Invocations

RecordsAreWhole == \A key \in DOMAIN cache : cache[key].record # Partial

\* What is about to be renamed is written to the end: nobody else has opened
\* it again, or taken its name away while it was written.
RenamesWhole ==
  \A i \in active, job \in Jobs :
    /\ step[i][job] \notin {"moved", "lost"}
    /\ step[i][job] = "written" => Dir(Key(i, job)).tmp # Partial

AloneInv ==
  /\ Shape /\ Idle /\ OneAtATime /\ Directories
  /\ alone => RecordsAreWhole /\ RenamesWhole

\* A step of one job, which may change its directory, is a step of AloneInv if
\* neither the record nor what is to be renamed is left half written.
LEMMA JobStep ==
  ASSUME AloneInv, NEW i \in active, NEW job \in Jobs, NEW s \in Steps, NEW dir,
         To(i, job, s), UNCHANGED <<active, alone>>, Shape',
         Key(i, job)' = Key(i, job) \/ step[i][job] = "waiting",
         \A k \in Jobs \ {job} : Key(i, k)' = Key(i, k),
         \/ cache' = cache /\ (alone => s # "written")
         \/ /\ cache' = Keep(Key(i, job), dir) /\ Key(i, job)' = Key(i, job)
            /\ IsDirectory(dir)
            /\ alone => dir.record # Partial
            /\ alone /\ s = "written" => dir.tmp # Partial,
         alone => s \notin {"moved", "lost"}
  PROVE  AloneInv'
<1>0. i \in Invocations
  BY DEF AloneInv, Shape
<1>1. \A j \in Invocations, k \in Jobs :
        step'[j][k] = IF j = i /\ k = job THEN s ELSE step[j][k]
  BY <1>0 DEF To, AloneInv, Shape
<1>2. Idle' /\ OneAtATime'
  BY <1>0, <1>1 DEF AloneInv, Idle, OneAtATime
<1>3. Directories' /\ (alone => RecordsAreWhole')
  <2>1. CASE cache' = cache
    BY <2>1 DEF AloneInv, Directories, RecordsAreWhole
  <2>2. CASE cache' # cache
    <3>1. PICK key : key = Key(i, job)
      OBVIOUS
    <3>4. cache' = Keep(key, dir)
      BY <2>2, <3>1
    <3>2. /\ DOMAIN cache' = DOMAIN cache \cup {key}
          /\ \A k \in DOMAIN cache' : cache'[k] = IF k = key THEN dir ELSE cache[k]
      BY <3>4, DomainKeep
    <3>3. IsDirectory(dir) /\ (alone => dir.record # Partial)
      BY <2>2
    <3>. QED
      BY <3>2, <3>3 DEF AloneInv, Directories, RecordsAreWhole
  <2>. QED
    BY <2>1, <2>2
<1>4. ASSUME alone PROVE RenamesWhole'
  <2>1. ASSUME NEW k \in Jobs
        PROVE  /\ step'[i][k] \notin {"moved", "lost"}
               /\ step'[i][k] = "written" => Dir(Key(i, k))'.tmp # Partial
    <3>1. CASE k = job
      <4>1. step'[i][k] = s /\ s \notin {"moved", "lost"}
        BY <1>0, <1>1, <1>4, <3>1
      <4>2. ASSUME s = "written" PROVE Dir(Key(i, k))'.tmp # Partial
        <5>1. PICK key : key = Key(i, job)
          OBVIOUS
        <5>2. cache' = Keep(key, dir) /\ Key(i, k)' = key /\ dir.tmp # Partial
          BY <1>4, <3>1, <4>2, <5>1
        <5>3. Dir(key)' = dir
          BY <5>2, DirKeep
        <5>. QED
          BY <5>2, <5>3 DEF Dir
      <4>. QED
        BY <4>1, <4>2
    <3>2. CASE k # job
      <4>1. PICK key, own : key = Key(i, job) /\ own = Key(i, k)
        OBVIOUS
      <4>2. own # key /\ Key(i, k)' = own
        BY <3>2, <4>1, KeyTargets
      <4>3. Dir(own)' = Dir(own)
        BY <4>1, <4>2, DirKeep DEF Dir
      <4>4. Dir(Key(i, k))' = Dir(own)'
        BY <4>2 DEF Dir
      <4>. QED
        BY <1>0, <1>1, <1>4, <3>2, <4>1, <4>3, <4>4 DEF AloneInv, RenamesWhole
    <3>. QED
      BY <3>1, <3>2
  <2>2. \A j \in active' : j = i
    BY <1>4 DEF AloneInv, OneAtATime
  <2>. QED
    BY <2>1, <2>2 DEF RenamesWhole
<1>. QED
  BY <1>2, <1>3, <1>4 DEF AloneInv

LEMMA ShapeStep ==
  ASSUME Shape, [Next]_vars
  PROVE  Shape'
<1> USE DEF Shape
<1>1. CASE UNCHANGED vars
  BY <1>1 DEF vars
<1>2. ASSUME NEW i \in Invocations, Start(i) \/ Crash(i) \/ End(i)
      PROVE  Shape'
  <2>1. CASE Start(i)
    BY <2>1 DEF Start
  <2>2. CASE Forget(i)
    BY <2>2 DEF Forget, Steps
  <2>. QED
    BY <1>2, <2>1, <2>2 DEF Crash, End
<1>3. ASSUME NEW f \in Files, Edit(f)
      PROVE  Shape'
  BY <1>3 DEF Edit
<1>4. ASSUME NEW key \in DOMAIN cache, Remove(key)
      PROVE  Shape'
  BY <1>4 DEF Remove
<1>5. ASSUME NEW i \in Invocations, NEW job \in Jobs, NEW s \in Steps, To(i, job, s),
             UNCHANGED <<active, hash, setup>>
      PROVE  Shape'
  BY <1>5 DEF To
<1>6. ASSUME NEW i \in Invocations, PlanFound(i) \/ MakePlan(i)
      PROVE  Shape'
  BY <1>5, <1>6 DEF PlanFound, MakePlan, Steps, Jobs
<1>7. ASSUME NEW i \in Invocations, NEW t \in Targets, Build(i, t)
      PROVE  Shape'
  <2>1. t \in Jobs
    BY DEF Jobs
  <2>2. CASE CalculateHash(i, t)
    <3>1. step' \in [Invocations -> [Jobs -> Steps]] /\ UNCHANGED <<active, setup>>
      <4>1. PICK s \in {"hashing", "hashed"} : step' = [step EXCEPT ![i][t] = s]
        BY <2>2 DEF CalculateHash, To
      <4>. QED
        BY <2>1, <2>2, <4>1 DEF CalculateHash, Steps
    <3>2. CASE UNCHANGED hash
      BY <3>1, <3>2
    <3>3. CASE hash' = [hash EXCEPT ![i][t] = HashNow(i, t)]
      <4>1. hash' = [j \in Invocations |-> [u \in Targets |->
                       IF j = i /\ u = t THEN HashNow(i, t) ELSE hash[j][u]]]
        BY <3>3
      <4>2. hash' = [j \in Invocations |-> [u \in Targets |-> hash'[j][u]]]
        BY <4>1
      <4>. QED
        BY <3>1, <4>2
    <3>. QED
      BY <2>2, <3>2, <3>3 DEF CalculateHash
  <2>. QED
    BY <1>5, <1>7, <2>1, <2>2
       DEF Build, ReadCachedBuildOutput, StartCompiler, CompilerSucceeds, CompilerFails, Steps
<1>8. ASSUME NEW i \in Invocations, NEW job \in Jobs, Store(i, job)
      PROVE  Shape'
  <2>1. CASE RenameTmp(i, job)
    <3>1. step' = AfterRename(i, job) /\ UNCHANGED <<active, hash, setup>>
      BY <2>1 DEF RenameTmp
    <3>2. \A j \in Invocations, k \in Jobs : step'[j][k] \in Steps
      BY <3>1 DEF AfterRename, Steps
    <3>3. step' = [j \in Invocations |-> [k \in Jobs |-> step'[j][k]]]
      BY <3>1 DEF AfterRename
    <3>. QED
      BY <3>1, <3>2, <3>3
  <2>. QED
    BY <1>5, <1>8, <2>1
       DEF Store, OpenTmp, OpenFails, WriteTmp, RenameFails, NotStored, Steps
<1>9. CASE EditRules
  BY <1>9 DEF EditRules
<1>. QED
  BY <1>1, <1>2, <1>3, <1>4, <1>6, <1>7, <1>8, <1>9 DEF Next, User, Run

\* The keys of jobs do not change but for that of a target that is hashed.
LEMMA KeysStay ==
  ASSUME NEW i, NEW k, UNCHANGED <<hash, setup>>
  PROVE  Key(i, k)' = Key(i, k)
BY DEF Key, Address

LEMMA AloneStutter ==
  ASSUME AloneInv, UNCHANGED <<cache, step, hash, setup, active, alone>>
  PROVE  AloneInv'
BY DEF AloneInv, Shape, Idle, OneAtATime, Directories, RecordsAreWhole, RenamesWhole,
   Dir, Key, Address

LEMMA AloneForget ==
  ASSUME AloneInv, Shape', NEW i \in Invocations, Forget(i), UNCHANGED <<cache, alone>>
  PROVE  AloneInv'
<1>1. /\ active' = active \ {i}
      /\ \A j \in Invocations, k \in Jobs :
            step'[j][k] = IF j = i THEN "waiting" ELSE step[j][k]
  BY DEF Forget, AloneInv, Shape
<1>2. Idle' /\ OneAtATime' /\ Directories'
  BY <1>1 DEF AloneInv, Idle, OneAtATime, Directories
<1>3. alone => RecordsAreWhole'
  BY DEF AloneInv, RecordsAreWhole
<1>4. ASSUME alone PROVE RenamesWhole'
  <2>1. \A j \in active', k \in Jobs :
          /\ j \in active /\ j \in Invocations /\ step'[j][k] = step[j][k]
          /\ Key(j, k)' = Key(j, k) /\ Dir(Key(j, k))' = Dir(Key(j, k))
    BY <1>1 DEF AloneInv, Shape, Forget, Key, Dir, Address
  <2>. QED
    BY <1>4, <2>1 DEF AloneInv, RenamesWhole
<1>. QED
  BY <1>2, <1>3, <1>4 DEF AloneInv

LEMMA AloneBuild ==
  ASSUME AloneInv, Shape', NEW i \in Invocations, NEW t \in Targets, Build(i, t)
  PROVE  AloneInv'
<1>0. i \in active /\ t \in Jobs /\ t # Plan
  BY DependenciesAreTargets DEF Jobs, Build, CalculateHash, ReadCachedBuildOutput, StartCompiler,
     CompilerSucceeds, CompilerFails, At
<1>1. IsDirectory(Dir(Key(i, t))) /\ (alone => Dir(Key(i, t)).record # Partial)
  BY CacheAssumption DEF AloneInv, Directories, RecordsAreWhole, Dir, Empty, IsDirectory
<1>2. CASE CalculateHash(i, t)
  <2>1. PICK s \in {"hashing", "hashed"} : To(i, t, s)
    BY <1>2 DEF CalculateHash
  <2>2. step[i][t] = "waiting" /\ UNCHANGED <<cache, active, alone, setup>>
    BY <1>2 DEF CalculateHash, At
  <2>3. \A k \in Jobs \ {t} : Key(i, k)' = Key(i, k)
    <3>1. hash' = hash \/ hash' = [hash EXCEPT ![i][t] = HashNow(i, t)]
      BY <1>2 DEF CalculateHash
    <3>2. \A k \in Targets \ {t} : hash'[i][k] = hash[i][k]
      BY <1>0, <3>1 DEF AloneInv, Shape
    <3>. QED
      BY <2>2, <3>2 DEF Key, Address, Jobs
  <2>4. s \in Steps
    BY DEF Steps
  <2>. QED
    BY <1>0, <2>1, <2>2, <2>3, <2>4, JobStep
<1>3. CASE ReadCachedBuildOutput(i, t) \/ CompilerFails(i, t)
  <2>1. PICK s \in {"done", "missed", "failed"} : To(i, t, s)
    BY <1>3 DEF ReadCachedBuildOutput, CompilerFails
  <2>2. UNCHANGED <<cache, active, alone, hash, setup>> /\ s \in Steps
    BY <1>3 DEF ReadCachedBuildOutput, CompilerFails, Steps
  <2>. QED
    BY <1>0, <2>1, <2>2, KeysStay, JobStep
<1>4. CASE StartCompiler(i, t) \/ CompilerSucceeds(i, t)
  <2>1. PICK s \in {"compiling", "compiled"} : To(i, t, s)
    BY <1>4 DEF StartCompiler, CompilerSucceeds
  <2>2. UNCHANGED <<active, alone, hash, setup>> /\ s \in Steps
    BY <1>4 DEF StartCompiler, CompilerSucceeds, Steps
  <2>3. PICK dir : /\ cache' = cache \/ cache' = Keep(Key(i, t), dir)
                   /\ \E output : dir = [Dir(Key(i, t)) EXCEPT !.output = output]
    BY <1>4 DEF StartCompiler, CompilerSucceeds
  <2>4. IsDirectory(dir) /\ dir.record = Dir(Key(i, t)).record
    BY <1>1, <2>3 DEF IsDirectory
  <2>. QED
    BY <1>0, <1>1, <2>1, <2>2, <2>3, <2>4, KeysStay, JobStep
<1>. QED
  BY <1>2, <1>3, <1>4 DEF Build

\* Storing: the record changes by a rename alone.
LEMMA AloneStore ==
  ASSUME AloneInv, Shape', NEW i \in Invocations, NEW job \in Jobs, Store(i, job)
  PROVE  AloneInv'
<1>0. i \in active /\ UNCHANGED <<active, alone, hash, setup>>
  BY DEF Store, OpenTmp, OpenFails, WriteTmp, RenameTmp, RenameFails, At
<1>1. PICK dir : dir = Dir(Key(i, job))
  OBVIOUS
<1>2. /\ IsDirectory(dir)
      /\ alone => dir.record # Partial
      /\ alone => step[i][job] \notin {"moved", "lost"}
      /\ alone /\ step[i][job] = "written" => dir.tmp # Partial
  BY <1>0, <1>1, CacheAssumption
     DEF AloneInv, Directories, RecordsAreWhole, RenamesWhole, Dir, Empty, IsDirectory
<1>3. CASE OpenTmp(i, job)
  <2>1. PICK new : new = [dir EXCEPT !.tmp = Partial]
    OBVIOUS
  <2>2. /\ IsDirectory(new) /\ new.record = dir.record
        /\ To(i, job, "opened") /\ cache' = Keep(Key(i, job), new)
    BY <1>1, <1>2, <1>3, <2>1 DEF OpenTmp, IsDirectory
  <2>3. "opened" \in Steps
    BY DEF Steps
  <2>. QED
    BY <1>0, <1>2, <2>2, <2>3, KeysStay, JobStep
<1>4. CASE OpenFails(i, job) \/ RenameFails(i, job)
  <2>1. To(i, job, NotStored(job)) /\ cache' = cache
    BY <1>4 DEF OpenFails, RenameFails
  <2>2. NotStored(job) \in Steps /\ NotStored(job) \notin {"moved", "lost", "written"}
    BY DEF NotStored, Steps
  <2>. QED
    BY <1>0, <2>1, <2>2, KeysStay, JobStep
<1>5. CASE WriteTmp(i, job)
  <2>1. PICK new : new = Written(i, job, dir)
    OBVIOUS
  <2>2. /\ To(i, job, "written") /\ cache' = Keep(Key(i, job), new)
        /\ step[i][job] \in {"opened", "moved", "lost"}
    BY <1>1, <1>5, <2>1 DEF WriteTmp
  <2>3. IsDirectory(new)
    BY <1>2, <2>1 DEF Written, IsDirectory
  <2>4. ASSUME alone PROVE new.record # Partial /\ new.tmp # Partial
    <3>1. new = [dir EXCEPT !.tmp = Whole]
      BY <1>2, <2>1, <2>2, <2>4 DEF Written
    <3>. QED
      BY <1>2, <2>4, <3>1, CacheAssumption DEF IsDirectory
  <2>5. "written" \in Steps
    BY DEF Steps
  <2>. QED
    BY <1>0, <2>2, <2>3, <2>4, <2>5, KeysStay, JobStep
<1>6. CASE RenameTmp(i, job)
  <2>1. PICK new : new = Renamed(dir)
    OBVIOUS
  <2>2. /\ step' = AfterRename(i, job) /\ cache' = Keep(Key(i, job), new)
        /\ step[i][job] = "written"
    BY <1>1, <1>6, <2>1 DEF RenameTmp, At
  <2>3. IsDirectory(new) /\ new.record = dir.tmp
    BY <2>1 DEF Renamed, IsDirectory
  <2>4. "done" \in Steps
    BY DEF Steps
  <2>5. CASE alone
    <3>1. \A j \in Invocations, k \in Jobs :
            step'[j][k] = IF j = i /\ k = job THEN "done" ELSE step[j][k]
      <4>1. ASSUME NEW j \in Invocations, NEW k \in Jobs, ~(j = i /\ k = job)
            PROVE  step'[j][k] = step[j][k]
        <5>1. ~(k = job /\ j \in active)
          BY <1>0, <2>5, <4>1 DEF AloneInv, OneAtATime
        <5>. QED
          BY <2>2, <4>1, <5>1 DEF AfterRename
      <4>2. step'[i][job] = "done"
        BY <1>0, <2>2 DEF AfterRename
      <4>. QED
        BY <4>1, <4>2
    <3>2. step' = [j \in Invocations |-> [k \in Jobs |-> step'[j][k]]]
      BY <2>2 DEF AfterRename
    <3>3. step' = [step EXCEPT ![i][job] = "done"]
      <4>1. step' = [j \in Invocations |-> [k \in Jobs |->
                       IF j = i /\ k = job THEN "done" ELSE step[j][k]]]
        BY <3>1, <3>2
      <4>2. step \in [Invocations -> [Jobs -> Steps]]
        BY DEF AloneInv, Shape
      <4>3. [step EXCEPT ![i][job] = "done"] =
              [j \in Invocations |-> [k \in Jobs |->
                 IF j = i /\ k = job THEN "done" ELSE step[j][k]]]
        BY <4>2
      <4>. QED
        BY <4>1, <4>3
    <3>4. To(i, job, "done")
      BY <3>3 DEF To
    <3>5. new.record # Partial
      BY <1>2, <2>2, <2>3, <2>5
    <3>. QED
      BY <1>0, <2>2, <2>3, <2>4, <3>4, <3>5, KeysStay, JobStep
  <2>6. CASE ~alone
    <3>1. \A j \in Invocations \ active, k \in Jobs : step'[j][k] = step[j][k]
      BY <1>0, <2>2 DEF AfterRename
    <3>2. Idle' /\ OneAtATime'
      BY <1>0, <2>6, <3>1 DEF AloneInv, Idle, OneAtATime
    <3>3. PICK key : key = Key(i, job)
      OBVIOUS
    <3>4. cache' = Keep(key, new)
      BY <2>2, <3>3
    <3>5. /\ DOMAIN cache' = DOMAIN cache \cup {key}
          /\ \A k \in DOMAIN cache' : cache'[k] = IF k = key THEN new ELSE cache[k]
      BY <3>4, DomainKeep
    <3>6. Directories'
      BY <2>3, <3>5 DEF AloneInv, Directories
    <3>. QED
      BY <1>0, <2>6, <3>2, <3>6 DEF AloneInv
  <2>. QED
    BY <2>5, <2>6
<1>. QED
  BY <1>3, <1>4, <1>5, <1>6 DEF Store

\* What runs alone or not at all, whatever the user does meanwhile.
LEMMA AloneUser ==
  ASSUME AloneInv, Shape', User
  PROVE  AloneInv'
<1>1. ASSUME NEW i \in Invocations, Start(i)
      PROVE  AloneInv'
  <2>1. i \notin active /\ active' = active \cup {i} /\ (alone => active = {})
    BY <1>1 DEF Start
  <2>2. UNCHANGED <<cache, step, hash, alone>>
    BY <1>1 DEF Start
  <2>3. \A k \in Jobs : step[i][k] = "waiting"
    BY <2>1 DEF AloneInv, Idle
  <2>4. Idle' /\ OneAtATime' /\ Directories'
    BY <2>1, <2>2 DEF AloneInv, Idle, OneAtATime, Directories
  <2>5. alone => RecordsAreWhole'
    BY <2>2 DEF AloneInv, RecordsAreWhole
  <2>6. alone => RenamesWhole'
    BY <2>1, <2>2, <2>3 DEF RenamesWhole
  <2>. QED
    BY <2>2, <2>4, <2>5, <2>6 DEF AloneInv
<1>2. ASSUME NEW i \in Invocations, Crash(i)
      PROVE  AloneInv'
  BY <1>2, AloneForget DEF Crash
<1>3. ASSUME NEW f \in Files, Edit(f)
      PROVE  AloneInv'
  BY <1>3, AloneStutter DEF Edit
<1>4. ASSUME NEW key \in DOMAIN cache, Remove(key)
      PROVE  AloneInv'
  <2>1. active = {} /\ UNCHANGED <<step, hash, setup, active, alone>>
    BY <1>4 DEF Remove
  <2>2. PICK dir : /\ cache' = Keep(key, dir)
                   /\ IsDirectory(dir)
                   /\ alone => dir.record # Partial
    <3>1. IsDirectory(Empty) /\ Empty.record # Partial
      BY CacheAssumption DEF Empty, IsDirectory
    <3>2. CASE ~alone /\ cache' = Keep(key, [cache[key] EXCEPT !.output = NoOutput])
      <4>1. IsDirectory(cache[key])
        BY DEF AloneInv, Directories
      <4>. QED
        BY <3>2, <4>1 DEF IsDirectory
    <3>3. CASE cache' = Keep(key, Empty)
      BY <3>1, <3>3
    <3>. QED
      BY <1>4, <3>2, <3>3 DEF Remove
  <2>3. /\ DOMAIN cache' = DOMAIN cache \cup {key}
        /\ \A k \in DOMAIN cache' : cache'[k] = IF k = key THEN dir ELSE cache[k]
    BY <2>2, DomainKeep
  <2>4. Idle' /\ OneAtATime' /\ RenamesWhole'
    BY <2>1 DEF AloneInv, Idle, OneAtATime, RenamesWhole
  <2>5. Directories' /\ (alone => RecordsAreWhole')
    BY <2>2, <2>3 DEF AloneInv, Directories, RecordsAreWhole
  <2>. QED
    BY <2>1, <2>4, <2>5 DEF AloneInv
<1>5. CASE EditRules
  BY <1>5, AloneStutter DEF EditRules
<1>. QED
  BY <1>1, <1>2, <1>3, <1>4, <1>5 DEF User

LEMMA AloneStep ==
  ASSUME AloneInv, [Next]_vars
  PROVE  AloneInv'
<1>1. Shape'
  BY ShapeStep DEF AloneInv
<1>2. CASE UNCHANGED vars
  BY <1>2, AloneStutter DEF vars
<1>3. ASSUME NEW i \in Invocations, Run(i)
      PROVE  AloneInv'
  <2>1. CASE PlanFound(i) \/ MakePlan(i)
    <3>1. PICK s \in {"done", "compiled", "failed"} : To(i, Plan, s)
      BY <2>1 DEF PlanFound, MakePlan
    <3>2. UNCHANGED <<cache, hash, setup, active, alone>> /\ s \in Steps /\ i \in active
      BY <2>1 DEF PlanFound, MakePlan, Steps, At
    <3>3. Plan \in Jobs
      BY DEF Jobs
    <3>. QED
      BY <1>1, <3>1, <3>2, <3>3, KeysStay, JobStep
  <2>2. CASE End(i)
    BY <1>1, <2>2, AloneForget DEF End
  <2>. QED
    BY <1>1, <1>3, <2>1, <2>2, AloneBuild, AloneStore DEF Run
<1>. QED
  BY <1>1, <1>2, <1>3, AloneUser DEF Next

\* An invocation that runs alone can end or crash at any moment, whatever is
\* edited and wherever it is: it leaves a whole plan or none
\* (write_cached_dependency_plan, and the records of write_cached_build_output).
THEOREM PlansOutliveCrashes == Spec => []PlanOutlivesCrash
<1>1. Init => AloneInv
  BY CacheAssumption DEF Init, AloneInv, Shape, Idle, OneAtATime, Directories, RecordsAreWhole, RenamesWhole, Steps
<1>2. AloneInv /\ [Next]_vars => AloneInv'
  BY AloneStep
<1>3. AloneInv => PlanOutlivesCrash
  BY CacheAssumption DEF AloneInv, RecordsAreWhole, PlanOutlivesCrash, Dir, Empty
<1>. QED
  BY <1>1, <1>2, <1>3, PTL DEF Spec

=============================================================================
