------------------------------- MODULE CbsBuilds -------------------------------
(***************************************************************************)
(* The cache of cbs on disk: .cbs/cache/build and the dependency plans.    *)
(*                                                                         *)
(* Invocations of cbs come, crash and end while the user edits sources.    *)
(* Each makes a plan of its external crates, then hashes, looks up,        *)
(* compiles and stores its targets, the dependencies of one before it      *)
(* (CbsExecutor has the threads that do so).  A key is the plan of a       *)
(* context or a target with its hash; every key has a directory with what  *)
(* the compiler left there (output), the file later invocations read       *)
(* (record: build-output.json or plan.json) and the temporary file that is *)
(* renamed to it (tmp), whose name all invocations share.                  *)
(***************************************************************************)
EXTENDS Naturals, Sequences

CONSTANTS
  Targets,         \* the targets of the workspace
  Sources,         \* [Targets -> Seq(Files)]
  Dependencies,    \* [Targets -> Seq(Targets)], in the order of Config::dependencies
  Files,
  Texts,           \* what a source may hold: sequences of bytes
  Initial,         \* what the sources hold at first
  InitialRules,    \* what the BUILD files say at first
  Missing,         \* a source that cannot be opened
  Unreadable,      \* a source that can be opened and not read, as a directory
  Contexts,        \* hashes of build configurations with the fingerprints of tools
  Kinds,           \* Config::kind: rust_library, rust_binary ...
  Extras,          \* Config::extras, as the bytes they are in the hash
  Workspaces,      \* [Targets -> Rules]: what the rules of the targets may say
  Invocations,
  Plan,            \* the job every invocation starts with
  None, Partial, Whole,
  EditsAnyTime,    \* are sources also edited between hash and compilation?
  MaxEvents        \* a bound on the starts, crashes, edits and removals

Jobs == Targets \cup {Plan}
States == Texts \cup {Missing, Unreadable}
Rules == [kind : Kinds, extras : Extras]
Setups == [context : Contexts, rules : Workspaces]

\* The bytes that stand for a source in the hash.
BytesOf(text) == IF text = Missing THEN <<"12", "34">> ELSE text
Bytes(texts) ==
  LET upTo[n \in 0..Len(texts)] == IF n = 0 THEN <<>> ELSE upTo[n - 1] \o BytesOf(texts[n])
  IN upTo[Len(texts)]

ASSUME CacheAssumption ==
  /\ Plan \notin Targets
  /\ EditsAnyTime \in BOOLEAN
  /\ Initial \in [Files -> Texts]
  /\ None \notin {Partial, Whole} /\ Partial # Whole
  /\ Missing \notin Texts /\ Unreadable \notin Texts /\ Missing # Unreadable
  /\ Sources \in [Targets -> Seq(Files)]
  /\ Dependencies \in [Targets -> Seq(Targets)]
  /\ Workspaces \subseteq [Targets -> Rules] /\ InitialRules \in Workspaces

VARIABLES
  text,      \* [Files -> States]
  rules,     \* an element of Workspaces: what the BUILD files say
  cache,     \* the directories, by key
  step,      \* [Invocations -> [Jobs -> Steps]]
  hash,      \* [Invocations -> [Targets -> Config::hash]]
  setup,     \* [Invocations -> Setups]: what those that run have read first
  active,    \* the invocations that run
  alone,     \* does each invocation end before the next starts?
  events     \* how many of what the bound counts have happened

vars == <<text, rules, cache, step, hash, setup, active, alone, events>>

(***************************************************************************)
(* hashing: calculate_hash goes on trying to read an unreadable source.    *)
(* opened: the temporary file is open and empty; moved and lost: another   *)
(* invocation has renamed it meanwhile, and renamed over that.             *)
(***************************************************************************)
Steps == {"waiting", "hashing", "hashed", "missed", "compiling", "compiled",
          "opened", "moved", "lost", "written", "done", "failed"}

-----------------------------------------------------------------------------
(* Keys and directories.                                                   *)

\* An output may be missing, half of one, or the product of a compilation.
NoOutput == [is |-> None]
HalfOutput == [is |-> Partial]
Empty == [output |-> NoOutput, record |-> None, tmp |-> None]
Dir(key) == IF key \in DOMAIN cache THEN cache[key] ELSE Empty
Keep(key, dir) == [k \in DOMAIN cache \cup {key} |-> IF k = key THEN dir ELSE cache[k]]

Address(target, h) == [target |-> target, hash |-> h]
Key(i, job) == Address(job, IF job = Plan THEN setup[i].context ELSE hash[i][job])

DepHashes(i, t) == [n \in DOMAIN Dependencies[t] |-> hash[i][Dependencies[t][n]]]
TextsOf(t) == [n \in DOMAIN Sources[t] |-> text[Sources[t][n]]]

\* The hash is of the context, the hashes of the dependencies, the bytes of the
\* sources, one after the other, and the extras of the rule.  The kind of the
\* rule, its plugin's name and the names of sources do not go into it.
Fed(texts, rule) == Bytes(texts) \o rule.extras
Hash(ctx, deps, bytes) == [context |-> ctx, deps |-> deps, bytes |-> bytes]
FedWithoutExtras(i, t) == Bytes(TextsOf(t))
FedNow(i, t) == Fed(TextsOf(t), setup[i].rules[t])
HashWithoutDeps(i, t) == Hash(setup[i].context, <<>>, FedNow(i, t))
HashNow(i, t) == Hash(setup[i].context, DepHashes(i, t), FedNow(i, t))

\* What a compilation makes of what it reads.
Product(t, ctx, rule, read, linked) ==
  [is |-> Whole, target |-> t, context |-> ctx, rule |-> rule, read |-> read, linked |-> linked]
IsProduct(output) == output.is = Whole
OutputOf(i, t) == Dir(Key(i, t)).output
Linked(i, t) ==
  [n \in DOMAIN Dependencies[t] |->
     IF IsProduct(OutputOf(i, Dependencies[t][n])) THEN hash[i][Dependencies[t][n]] ELSE Partial]
ProductNow(i, t) ==
  Product(t, setup[i].context, setup[i].rules[t], TextsOf(t), Linked(i, t))

-----------------------------------------------------------------------------
Init ==
  /\ text = Initial
  /\ rules = InitialRules
  /\ cache = [k \in {} |-> Empty]
  /\ step = [i \in Invocations |-> [j \in Jobs |-> "waiting"]]
  /\ hash = [i \in Invocations |-> [t \in Targets |-> None]]
  /\ setup = [i \in Invocations |-> None]
  /\ active = {}
  /\ alone \in BOOLEAN
  /\ events = 0

\* A mishap is of interest when an invocation can still follow.
Happens == events < MaxEvents /\ events' = events + 1
Mishap == Happens /\ events' < MaxEvents
To(i, job, s) == step' = [step EXCEPT ![i][job] = s]
At(i, job, s) == i \in active /\ step[i][job] = s

-----------------------------------------------------------------------------
(* The user.  A compiler that writes in place is used by one invocation at *)
(* a time, and its outputs are removed with their records.                 *)

\* Which of the invocations that do not run is the next makes no difference.
Start(i) ==
  /\ i \notin active /\ (alone => active = {})
  /\ i = CHOOSE j \in Invocations \ active : TRUE
  /\ Happens
  /\ active' = active \cup {i}
  /\ \E c \in Contexts :
       setup' = [setup EXCEPT ![i] = [context |-> c, rules |-> rules]]
  /\ UNCHANGED <<text, rules, cache, step, hash, alone>>

\* What an invocation knows is gone when it ends.
Forget(i) ==
  /\ active' = active \ {i}
  /\ step' = [step EXCEPT ![i] = [j \in Jobs |-> "waiting"]]
  /\ hash' = [hash EXCEPT ![i] = [t \in Targets |-> None]]
  /\ setup' = [setup EXCEPT ![i] = None]

Crash(i) ==
  /\ i \in active
  /\ Mishap
  /\ Forget(i)
  /\ UNCHANGED <<text, rules, cache, alone>>

\* A target whose sources have been hashed and may yet be read by the compiler.
Reading(i, t) == i \in active /\ step[i][t] \in {"hashing", "hashed", "missed", "compiling"}
Quiet(f) ==
  \A i \in Invocations, t \in Targets : Reading(i, t) => \A n \in DOMAIN Sources[t] : Sources[t][n] # f

Edit(f) ==
  /\ EditsAnyTime \/ Quiet(f)
  /\ Mishap
  /\ \E s \in States \ {text[f]} : text' = [text EXCEPT ![f] = s]
  /\ UNCHANGED <<rules, cache, step, hash, setup, active, alone>>

EditRules ==
  /\ Mishap
  /\ rules' \in Workspaces \ {rules}
  /\ UNCHANGED <<text, cache, step, hash, setup, active, alone>>

Remove(key) ==
  /\ active = {}
  /\ Mishap
  /\ \/ cache' = Keep(key, Empty)
     \/ /\ ~alone /\ cache[key].output.is # None
        /\ cache' = Keep(key, [cache[key] EXCEPT !.output = NoOutput])
  /\ UNCHANGED <<text, rules, step, hash, setup, active, alone>>

-----------------------------------------------------------------------------
(* The plan: a record that is there and cannot be read ends the invocation.*)

PlanFound(i) ==
  /\ At(i, Plan, "waiting")
  /\ Dir(Key(i, Plan)).record # None
  /\ To(i, Plan, IF Dir(Key(i, Plan)).record = Whole THEN "done" ELSE "failed")
  /\ UNCHANGED <<text, rules, cache, hash, setup, active, alone, events>>

MakePlan(i) ==
  /\ At(i, Plan, "waiting")
  /\ Dir(Key(i, Plan)).record = None
  /\ \E s \in {"compiled", "failed"} : To(i, Plan, s)
  /\ UNCHANGED <<text, rules, cache, hash, setup, active, alone, events>>

-----------------------------------------------------------------------------
(* A target.                                                               *)

Ready(i, t) ==
  /\ step[i][Plan] = "done"
  /\ \A n \in DOMAIN Dependencies[t] : step[i][Dependencies[t][n]] = "done"

CalculateHash(i, t) ==
  /\ At(i, t, "waiting") /\ Ready(i, t)
  /\ IF \E n \in DOMAIN Sources[t] : TextsOf(t)[n] = Unreadable
     THEN To(i, t, "hashing") /\ UNCHANGED hash
     ELSE /\ To(i, t, "hashed")
          /\ hash' = [hash EXCEPT ![i][t] = HashNow(i, t)]
  /\ UNCHANGED <<text, rules, cache, setup, active, alone, events>>

\* read_cached_build_output: the record parses and the paths it names exist.
\* Its extras name outputs of the dependencies too.
PathsExist(i, t) ==
  /\ OutputOf(i, t).is # None
  /\ \A n \in DOMAIN Dependencies[t] : OutputOf(i, Dependencies[t][n]).is # None
Hit(i, t) == Dir(Key(i, t)).record = Whole /\ PathsExist(i, t)

ReadCachedBuildOutput(i, t) ==
  /\ At(i, t, "hashed")
  /\ To(i, t, IF Hit(i, t) THEN "done" ELSE "missed")
  /\ UNCHANGED <<text, rules, cache, hash, setup, active, alone, events>>

StartCompiler(i, t) ==
  /\ At(i, t, "missed")
  /\ To(i, t, "compiling")
  /\ cache' = IF alone THEN Keep(Key(i, t), [Dir(Key(i, t)) EXCEPT !.output = HalfOutput]) ELSE cache
  /\ UNCHANGED <<text, rules, hash, setup, active, alone, events>>

CompilerSucceeds(i, t) ==
  /\ At(i, t, "compiling")
  /\ To(i, t, "compiled")
  /\ cache' = Keep(Key(i, t), [Dir(Key(i, t)) EXCEPT !.output = ProductNow(i, t)])
  /\ UNCHANGED <<text, rules, hash, setup, active, alone, events>>

\* A failure is not cached.
CompilerFails(i, t) ==
  /\ At(i, t, "compiling")
  /\ To(i, t, "failed")
  /\ UNCHANGED <<text, rules, cache, hash, setup, active, alone, events>>

-----------------------------------------------------------------------------
(* Storing: std::fs::write truncates and then writes, std::fs::rename      *)
(* takes whatever has the temporary name.  A plan that cannot be stored    *)
(* ends the invocation, an output that cannot be is only warned about.     *)

NotStored(job) == IF job = Plan THEN "failed" ELSE "done"

OpenRecord(i, job) ==
  /\ At(i, job, "compiled")
  /\ To(i, job, "moved")
  /\ cache' = Keep(Key(i, job), [Dir(Key(i, job)) EXCEPT !.record = Partial])
  /\ UNCHANGED <<text, rules, hash, setup, active, alone, events>>
OpenTmp(i, job) ==
  /\ At(i, job, "compiled")
  /\ To(i, job, "opened")
  /\ cache' = Keep(Key(i, job), [Dir(Key(i, job)) EXCEPT !.tmp = Partial])
  /\ UNCHANGED <<text, rules, hash, setup, active, alone, events>>

OpenFails(i, job) ==
  /\ At(i, job, "compiled")
  /\ To(i, job, NotStored(job))
  /\ UNCHANGED <<text, rules, cache, hash, setup, active, alone, events>>

\* The write goes to the file that was opened, whatever its name is now.
Written(i, job, dir) ==
  CASE step[i][job] = "opened" -> [dir EXCEPT !.tmp = Whole]
    [] step[i][job] = "moved"  -> [dir EXCEPT !.record = Whole]
    [] OTHER -> dir

WriteTmp(i, job) ==
  /\ i \in active /\ step[i][job] \in {"opened", "moved", "lost"}
  /\ To(i, job, "written")
  /\ cache' = Keep(Key(i, job), Written(i, job, Dir(Key(i, job))))
  /\ UNCHANGED <<text, rules, hash, setup, active, alone, events>>

\* Files another invocation has open move with their names.
AfterRename(i, job) ==
  [j \in Invocations |-> [k \in Jobs |->
     IF j = i /\ k = job THEN "done"
     ELSE IF k = job /\ j \in active /\ Key(j, k) = Key(i, job)
     THEN CASE step[j][k] = "opened" -> "moved" [] step[j][k] = "moved" -> "lost" [] OTHER -> step[j][k]
     ELSE step[j][k]]]

Renamed(dir) == [output |-> dir.output, record |-> dir.tmp, tmp |-> None]

RenameTmp(i, job) ==
  /\ At(i, job, "written")
  /\ Dir(Key(i, job)).tmp # None
  /\ step' = AfterRename(i, job)
  /\ cache' = Keep(Key(i, job), Renamed(Dir(Key(i, job))))
  /\ UNCHANGED <<text, rules, hash, setup, active, alone, events>>

RenameFails(i, job) ==
  /\ At(i, job, "written")
  /\ Dir(Key(i, job)).tmp = None
  /\ To(i, job, NotStored(job))
  /\ UNCHANGED <<text, rules, cache, hash, setup, active, alone, events>>

-----------------------------------------------------------------------------
AllDone(i) == \A j \in Jobs : step[i][j] = "done"
\* Everything is done, or a failure has left nothing that can be.
Finished(i) ==
  \A j \in Jobs :
    \/ step[i][j] \in {"done", "failed"}
    \/ /\ j \in Targets /\ step[i][j] = "waiting"
       /\ \E k \in Jobs : step[i][k] = "failed"

End(i) ==
  /\ i \in active /\ Finished(i)
  /\ Forget(i)
  /\ UNCHANGED <<text, rules, cache, alone, events>>

Store(i, job) ==
  OpenTmp(i, job) \/ OpenFails(i, job) \/ WriteTmp(i, job) \/ RenameTmp(i, job) \/ RenameFails(i, job)
Build(i, t) ==
  \/ CalculateHash(i, t) \/ ReadCachedBuildOutput(i, t)
  \/ StartCompiler(i, t) \/ CompilerSucceeds(i, t) \/ CompilerFails(i, t)
Run(i) ==
  \/ PlanFound(i) \/ MakePlan(i) \/ End(i)
  \/ \E t \in Targets : Build(i, t)
  \/ \E j \in Jobs : Store(i, j)
User ==
  \/ \E i \in Invocations : Start(i) \/ Crash(i)
  \/ \E f \in Files : Edit(f)
  \/ EditRules
  \/ \E key \in DOMAIN cache : Remove(key)
Next == User \/ \E i \in Invocations : Run(i)

Spec == Init /\ [][Next]_vars
\* The system runs every invocation on; the user need not do anything.
FairSpec == Spec /\ \A i \in Invocations : WF_vars(Run(i))

-----------------------------------------------------------------------------
(* Properties.                                                             *)

\* Types: how far each invocation is with each job, and the hashes it knows.
TypeOK ==
  /\ text \in [Files -> States] /\ rules \in Workspaces
  /\ step \in [Invocations -> [Jobs -> Steps]]
  /\ hash = [i \in Invocations |-> [t \in Targets |-> hash[i][t]]]
  /\ setup \in [Invocations -> Setups \cup {None}] /\ \A i \in active : setup[i] \in Setups
  /\ active \subseteq Invocations
  /\ alone \in BOOLEAN

\* What is in a directory was made from the contents the directory is named
\* for, by compilers that saw the dependencies its hash covers (README.md:
\* "Build outputs are content-addressed under .cbs/cache/build").
MadeFor(key, output) ==
  /\ output.target = key.target
  /\ Hash(output.context, output.linked, Fed(output.read, output.rule)) = key.hash
ContentAddressed ==
  \A key \in DOMAIN cache : IsProduct(cache[key].output) => MadeFor(key, cache[key].output)

\* Two products that differ at most in what the hash leaves out: the kind of
\* the rule, and where one source ends and the next, or the extras, begin.
SameInputs(made, now) ==
  /\ made = Product(now.target, now.context, made.rule, made.read, now.linked)
  /\ Fed(made.read, made.rule) = Fed(now.read, now.rule)

\* An output taken from the cache was made of what a compilation would read
\* now, as far as the hash tells: for this target and context, of the bytes the
\* sources have now and against the dependencies this invocation has built,
\* whatever crashed, was edited, removed or stored before.
IsHit(i, t) == At(i, t, "hashed") /\ step'[i][t] = "done"
HitHasSameInputs ==
  [][\A i \in Invocations, t \in Targets :
        IsHit(i, t) => SameInputs(OutputOf(i, t), ProductNow(i, t))]_vars

\* Not so: an output taken from the cache is the one a compilation would make.
HitIsCurrent ==
  [][\A i \in Invocations, t \in Targets : IsHit(i, t) => OutputOf(i, t) = ProductNow(i, t)]_vars

\* Only invocations that ran together can leave a plan that no later one can
\* read: a crash of one that runs alone leaves the whole plan or none.
PlanOutlivesCrash ==
  alone => \A c \in Contexts : Dir(Address(Plan, c)).record # Partial

\* Every invocation ends, unless a source can be opened and not read:
\* none waits for what another one has open, renames or has left behind.
InvocationsEnd ==
  \A i \in Invocations :
    i \in active ~> (i \notin active \/ \E t \in Targets : step[i][t] = "hashing")
=============================================================================
