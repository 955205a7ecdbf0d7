------------------------------ MODULE CbsCommand ------------------------------
(***************************************************************************)
(* One command of cbs, from the command line to its report                 *)
(* (src/util/cbs/main.rs, workspace.rs, plugin_abi.rs): the workspace is   *)
(* read, the patterns are expanded, the targets are resolved and built by  *)
(* the plugins, and the outputs are printed, run, or installed.            *)
(*                                                                         *)
(* The tasks are resolved and built one at a time, in any order that their *)
(* dependencies allow: how the workers of the executor interleave, and     *)
(* what becomes of the other tasks after a failure, is in CbsExecutor;     *)
(* here a failure ends the command.  Nothing was built before: the outputs *)
(* of earlier commands are in CbsBuilds.                                   *)
(***************************************************************************)
EXTENDS CbsCargo, TLC

CONSTANTS Registry,    \* what Cargo can fetch
          Scenarios    \* records: a workspace with its machine, a command (what, patterns
                       \* and cwd), and the disk that earlier commands left

VARIABLES ws,          \* the workspace and the machine it is on
          command,     \* what is asked
          phase,       \* how far the command is
          setup,       \* what was read: config, plugins, targets and package
          order,       \* the targets of the tasks, in the order they were added
          configs,     \* the configs of the tasks that are resolved
          outputs,     \* the outputs of the tasks that are built
          hashes,      \* their hashes
          context,     \* lockfile and locked_dependencies
          disk,        \* plans and fetched crates
          crates,      \* the calls of rustc, by the targets they are for
          wire,        \* the last call of a plugin: what each side has of it
          ran,         \* the executables that were run, and how they ended
          installed,   \* the file in ~/bin and the temporary one beside it
          verdict      \* what the command reports

commandVars == <<ws, command, phase, setup, order, configs, outputs, hashes, context, disk, crates,
                 wire, ran, installed, verdict>>

Machine == ws.machine

Init ==
  /\ \E s \in Scenarios : ws = s.ws /\ command = s.command /\ disk = s.disk
  /\ phase = "load"
  /\ setup = None
  /\ order = <<>>
  /\ configs = <<>> /\ outputs = <<>> /\ hashes = <<>> /\ crates = <<>>
  /\ context = [lockfile |-> <<>>, locked_dependencies |-> <<>>]
  /\ wire = None
  /\ ran = <<>>
  /\ installed = [file |-> "old", tmp |-> None]
  /\ verdict = None

End(result) == phase' = "end" /\ verdict' = result

-----------------------------------------------------------------------------
(* Reading the workspace.                                                  *)

Loaded(config) ==
  [i \in DOMAIN config.plugins |-> LoadWorkspacePlugin(Machine, config.plugins[i])]

Expand(package, plugins) ==
  IF command.what = "test" THEN ExpandTestPatterns(ws, package, plugins, command.patterns)
  ELSE ExpandTargetPatterns(ws, package, plugins, command.patterns)

\* A hash is a number computed from the texts that go into it.
Mix(h, n) == (31 * h + n) % 65521
HashText(text) == FoldLeft(Mix, 0, [i \in 1 .. Len(text) |-> Rank(At(text, i))])
HashTexts(h, texts) == FoldLeft(Mix, h, Mapped(texts, HashText))

\* The fingerprints stay as they are while a command runs: the names of the
\* tools stand for them.
ContextHash(config) == HashTexts(0, Sorted(DOMAIN config.tools))

\* Each step of it ends in what it reads or in the first error.
WithTargets(config, plugins, package, targets) ==
  IF targets = Invalid THEN Invalid
  ELSE [config |-> config, plugins |-> plugins, targets |-> targets, package |-> package,
        hash |-> ContextHash(config)]
WithPlugins(config, plugins, package) ==
  IF FirstError(plugins) THEN Invalid
  ELSE WithTargets(config, plugins, package, Expand(package, plugins))
WithConfig(config) ==
  IF config = Invalid THEN Invalid
  ELSE WithPlugins(config, Loaded(config), PackageForCwd(ws, Dir(After(command.cwd, Len(ws.root)))))
Setup(root) ==
  IF root = Invalid THEN Invalid ELSE WithConfig(LoadWorkspaceConfig(Machine, root, ws.table))

Load ==
  /\ phase = "load"
  /\ \E read \in {Setup(FindWorkspaceRoot({ws.root}, command.cwd))} :
       \/ /\ read = Invalid
          /\ End("error")
          /\ UNCHANGED <<setup, order>>
       \/ /\ read # Invalid
          /\ setup' = read
          /\ order' = read.targets
          /\ phase' = "plan"
          /\ UNCHANGED verdict
  /\ UNCHANGED <<ws, command, configs, outputs, hashes, context, disk, crates, wire, ran, installed>>

-----------------------------------------------------------------------------
(* What is asked of a plugin goes over the wire and back.                  *)

ToolPaths == [name \in DOMAIN setup.config.tools |-> setup.config.tools[name].path]
PluginContextToSdk(target) ==
  [cache_dir |-> setup.config.cache_dir, context_hash |-> setup.hash,
   target_config |-> ToSdkKeys(setup.config.target_config), lockfile |-> context.lockfile,
   locked_dependencies |-> context.locked_dependencies, tool_paths |-> ToolPaths, target |-> target]

\* The request as cbs has it, as the plugin reads it, the answer as the plugin
\* gives it and as cbs reads it.
Received(kind, asked) == Decode(kind \o "Request", Encode(kind \o "Request", asked))
Call(kind, asked, answered) ==
  [asked |-> asked, seen |-> Received(kind, asked), answered |-> answered,
   got |-> DecodeResponse(kind \o "Response", EncodeResponse(kind \o "Response", answered))]

ParseByPlugin(plugin, request) ==
  IF plugin = "rust" THEN ParseRustRule(request) ELSE ParseBusRule(request)
ParseRule(rule) ==
  Call("ParseRule", rule.request, ParseByPlugin(rule.plugin, Received("ParseRule", rule.request)))

NamedPlugin(name) == \E i \in DOMAIN setup.plugins : setup.plugins[i].manifest.name = name
PrefixedPlugins(target) ==
  {i \in DOMAIN setup.plugins :
     \E k \in DOMAIN setup.plugins[i].manifest.target_prefixes :
        StartsWith(target, setup.plugins[i].manifest.target_prefixes[k])}
CargoPlanners ==
  {i \in DOMAIN setup.plugins : "cargo" \in ToSet(setup.plugins[i].manifest.dependency_ecosystems)}

\* What a resolver makes of a target: a config or Invalid, the call and the
\* disk afterwards.
Resolution(config, call, next) == [config |-> config, call |-> call, disk |-> next]
Answered(call, next) ==
  Resolution(IF call.got.tag = "Success" THEN call.got.value ELSE Invalid, call, next)

ResolveRule(rule) ==
  IF rule = Invalid THEN Resolution(Invalid, None, disk) ELSE Answered(ParseRule(rule), disk)
ResolveWorkspaceTarget(target) == ResolveRule(FindRule(ws, setup.package, setup.plugins, target))

ResolveByRust(request, outcome) ==
  Answered(Call("ResolveTarget", request, outcome.response), outcome.disk)
ResolvePrefixedTarget(target) ==
  LET request == [target |-> target, context |-> PluginContextToSdk(target)] IN
  IF setup.plugins[Min(PrefixedPlugins(target))].manifest.name # "rust"
  THEN Resolution(Invalid, None, disk)
  ELSE ResolveByRust(request, RustResolveTarget(Machine, Registry, disk, Received("ResolveTarget", request)))

Resolve(target) ==
  IF CanResolveRule(target) THEN ResolveWorkspaceTarget(target)
  ELSE IF PrefixedPlugins(target) # {} THEN ResolvePrefixedTarget(target)
  ELSE Resolution(Or(Lookup(ToolConfigs(setup.config, setup.plugins), target), Invalid), None, disk)

Requires(config) ==
  Distinct(config.dependencies
           \o Mapped(config.external_requirements, RequirementTarget)
           \o (IF config.build_plugin = "@filesystem" THEN <<>> ELSE <<config.build_plugin>>)
           \o config.build_dependencies)

ResolveTask(target) ==
  /\ \E resolution \in {Resolve(target)} :
       /\ wire' = resolution.call
       /\ disk' = resolution.disk
       /\ \/ /\ resolution.config = Invalid
             /\ End("failed")
             /\ UNCHANGED <<order, configs>>
          \/ /\ resolution.config # Invalid
             /\ configs' = (target :> resolution.config) @@ configs
             /\ order' = Distinct(order \o Requires(resolution.config))
             /\ UNCHANGED <<phase, verdict>>
  /\ UNCHANGED <<ws, command, setup, outputs, hashes, context, crates, ran, installed>>

-----------------------------------------------------------------------------
(* The plan for what is external: first everything else is resolved.       *)

Deferred(target) ==
  /\ target \notin DOMAIN context.lockfile
  /\ CargoPlanners # {} /\ StartsWith(target, "cargo://")
Unresolved == {i \in DOMAIN order : order[i] \notin DOMAIN configs}
Plannable == {i \in Unresolved : ~Deferred(order[i])}

ResolveInPlan == phase = "plan" /\ Plannable # {} /\ ResolveTask(order[Min(Plannable)])

Requirements ==
  FlattenSeq(Mapped(order, LAMBDA t : IF t \in DOMAIN configs THEN configs[t].external_requirements
                                      ELSE <<>>))

Plan ==
  LET request == [ecosystem |-> "cargo", requirements |-> Requirements,
                  context |-> PluginContextToSdk(None)]
      extended(plan) == [lockfile |-> plan.lockfile @@ context.lockfile,
                         locked_dependencies |-> plan.locked_dependencies @@ context.locked_dependencies]
  IN  /\ phase = "plan" /\ Plannable = {}
      /\ \/ /\ Requirements = <<>>
            /\ phase' = "build"
            /\ UNCHANGED <<context, disk, wire, verdict>>
         \/ /\ Requirements # <<>> /\ CargoPlanners = {}
            /\ End("failed")
            /\ UNCHANGED <<context, disk, wire>>
         \/ /\ Requirements # <<>> /\ CargoPlanners # {}
            /\ \E answer \in RustPlanDependencies(Machine, Registry, disk,
                                                  Received("PlanDependencies", request)) :
                 \E call \in {Call("PlanDependencies", request, answer.response)} :
                   /\ disk' = answer.disk
                   /\ wire' = call
                   /\ \/ /\ call.got.tag = "Failure"
                         /\ End("failed")
                         /\ UNCHANGED context
                      \/ /\ call.got.tag = "Success"
                         /\ context' = extended(call.got.value)
                         /\ phase' = "build"
                         /\ UNCHANGED verdict
      /\ UNCHANGED <<ws, command, setup, order, configs, outputs, hashes, crates, ran, installed>>

ResolveInBuild ==
  phase = "build" /\ \E i \in Unresolved : ResolveTask(order[i])

-----------------------------------------------------------------------------
(* Builds.                                                                 *)

CalculateHash(config) ==
  LET deps == Mapped(SelectSeq(Requires(config), LAMBDA t : t \in DOMAIN hashes), LAMBDA t : hashes[t])
      sources == Mapped(config.sources, LAMBDA s : IF Existing(Machine, s) THEN Machine.files[s] ELSE "?")
      keys == SelectSeq(<<0, 1, 2, 3, 4, 5, 6, 7, 8, 9>>, LAMBDA k : k \in DOMAIN config.extras)
      WithKey(h, k) == HashTexts(Mix(h, k), config.extras[k])
  IN  FoldLeft(WithKey, HashTexts(FoldLeft(Mix, setup.hash, deps), sources), keys)

ToDir(target) == Replace(target, {":", "/", "@"}, "_")
WorkingDirectory(target, hash) ==
  setup.config.cache_dir \o "/build/" \o ToDir(target) \o "-" \o ToString(hash)

\* rustc may fail on any crate.
Compiled(built, compiles) == IF built.rustc # None /\ ~compiles THEN Refused("rustc") ELSE built
BuildByPlugin(path, request, compiles) ==
  IF path \notin DOMAIN Machine.plugins THEN Refused("library")
  ELSE Compiled(IF Machine.plugins[path].name = "rust" THEN BuildRust(Machine, request)
                ELSE BuildBus(request), compiles)
Called(request, built) ==
  [rustc |-> built.rustc, call |-> Call("Build", request, built.response)]
BuildAt(path, request, compiles) ==
  Called(request, BuildByPlugin(path, Received("Build", request), compiles))

\* The delegated config is built by the rust plugin, as the same task.
RustLibrary == "/tmp/rust.cdylib"
Delegated(request, compiles, build) ==
  IF build.call.got.tag # "Delegate" THEN build
  ELSE BuildAt(RustLibrary, [request EXCEPT !.config = build.call.got.config], compiles)
AbiBuild(path, request, compiles) == Delegated(request, compiles, BuildAt(path, request, compiles))

Ready(target) ==
  /\ target \in DOMAIN configs \ DOMAIN outputs
  /\ ToSet(Requires(configs[target])) \subseteq DOMAIN outputs

\* Mutant: the hash is not recorded.
BuiltWithoutHash(target, output, hash) ==
  /\ outputs' = (target :> output) @@ outputs
  /\ UNCHANGED <<hashes, phase, verdict>>
Built(target, output, hash) ==
  /\ outputs' = (target :> output) @@ outputs
  /\ hashes' = (target :> hash) @@ hashes
  /\ UNCHANGED <<phase, verdict>>

BuildAtLocation(target) ==
  /\ phase = "build" /\ Ready(target)
  /\ configs[target].build_plugin = "@filesystem"
  /\ Built(target, [outputs |-> <<configs[target].location>>, extras |-> <<>>], CalculateHash(configs[target]))
  /\ UNCHANGED <<ws, command, setup, order, configs, context, disk, crates, wire, ran, installed>>

BuildRequest(target, config, hash) ==
  [target |-> target, config |-> config,
   dependencies |-> [t \in ToSet(Requires(config)) |-> outputs[t]],
   working_directory |-> WorkingDirectory(target, hash), tool_paths |-> ToolPaths,
   target_config |-> ToSdkKeys(setup.config.target_config)]
BuildTask(target) ==
  LET config == configs[target] IN
      /\ phase = "build" /\ Ready(target)
      /\ config.build_plugin # "@filesystem"
      /\ \E hash \in {CalculateHash(config)} :
         \E build \in {AbiBuild(outputs[config.build_plugin].outputs[1],
                              BuildRequest(target, config, hash), compiles) : compiles \in BOOLEAN} :
           /\ wire' = build.call
           /\ \/ /\ build.call.got.tag = "Success"
                 /\ crates' = (target :> build.rustc) @@ crates
                 /\ Built(target, build.call.got.value, hash)
              \/ /\ build.call.got.tag = "Failure"
                 /\ End("failed")
                 /\ UNCHANGED <<outputs, hashes, crates>>
      /\ UNCHANGED <<ws, command, setup, order, configs, context, disk, ran, installed>>

\* BuildResult::merged over the roots, in the order they were asked for.
\* Mutant: the outputs are in the order of the targets' names.
SortedProducts ==
  FlattenSeq(Mapped(Sorted(ToSet(setup.targets)), LAMBDA t : outputs[t].outputs))
Products == FlattenSeq(Mapped(setup.targets, LAMBDA t : outputs[t].outputs))
Finish ==
  /\ phase = "build"
  /\ ToSet(order) = DOMAIN outputs
  /\ \/ /\ command.what = "build"
        /\ End("ok")
     \/ /\ command.what = "test"
        /\ IF Len(Products) # Len(setup.targets) THEN End("error")
           ELSE phase' = "test" /\ UNCHANGED verdict
     \/ /\ command.what = "install"
        /\ IF Len(Products) # 1 THEN End("error")
           ELSE phase' = "install" /\ UNCHANGED verdict
     \/ /\ command.what = "run"
        /\ IF Products = <<>> THEN End("error")
           ELSE phase' = "run" /\ UNCHANGED verdict
  /\ UNCHANGED <<ws, command, setup, order, configs, outputs, hashes, context, disk, crates, wire, ran,
                 installed>>

-----------------------------------------------------------------------------
(* What is done with the products.                                         *)

\* A test fails when it cannot be run, too; the rest of them still run.  A
\* directory for it that cannot be made ends the command.
Tests == Len(setup.targets)
RunTest ==
  LET i == Len(ran) + 1 IN
  /\ phase = "test" /\ i <= Tests
  /\ \/ \E how \in {"pass", "fail"} :
          /\ ran' = Append(ran, [target |-> setup.targets[i], executable |-> Products[i], how |-> how])
          /\ UNCHANGED <<phase, verdict>>
     \/ End("error") /\ UNCHANGED ran
  /\ UNCHANGED <<ws, command, setup, order, configs, outputs, hashes, context, disk, crates, wire, installed>>

Failed == {ran[i].target : i \in {k \in DOMAIN ran : ran[k].how = "fail"}}
ReportTests ==
  /\ phase = "test" /\ Len(ran) = Tests
  /\ End(IF Failed = {} THEN "ok" ELSE "tests failed")
  /\ UNCHANGED <<ws, command, setup, order, configs, outputs, hashes, context, disk, crates, wire, ran,
                 installed>>

RunExecutable ==
  /\ phase = "run"
  /\ \E how \in {"pass", "fail"} :
       /\ ran' = <<[target |-> setup.targets[1], executable |-> Products[1], how |-> how]>>
       /\ End(IF how = "pass" THEN "ok" ELSE "error")
  /\ UNCHANGED <<ws, command, setup, order, configs, outputs, hashes, context, disk, crates, wire, installed>>

\* What rustc links may be executed.
IsExecutable(target) ==
  \/ configs[target].kind \in {"rust_binary", "rust_test"}
  \/ crates[target].type \in {"cdylib", "dylib", "proc-macro"}

\* What install does leaves all but the file, the copy and the verdict alone.
InstallOnly ==
  UNCHANGED <<ws, command, setup, order, configs, outputs, hashes, context, disk, crates, wire, ran>>

\* The file is copied, piece by piece, under a name of its own beside the
\* installed one, and the whole copy is renamed.
CopyInstalled ==
  /\ phase = "install" /\ installed.tmp # Products[1]
  /\ IsExecutable(setup.targets[1])
  /\ installed' = [installed EXCEPT !.tmp = IF @ = None THEN "part" ELSE Products[1]]
  /\ UNCHANGED <<phase, verdict>>
  /\ InstallOnly

\* What is no executable is not copied; a copy or a rename that fails removes
\* the copy, which may fail in turn.
FailCopy ==
  /\ phase = "install"
  /\ installed' \in {installed, [installed EXCEPT !.tmp = None]}
  /\ End("error")
  /\ InstallOnly

\* Mutant: a copy is renamed as far as it came.
RenameAnyCopy ==
  /\ phase = "install" /\ installed.tmp # None
  /\ installed' = [file |-> installed.tmp, tmp |-> None]
  /\ phase' = "report"
  /\ UNCHANGED verdict
  /\ InstallOnly
RenameInstalled ==
  /\ phase = "install" /\ installed.tmp = Products[1]
  /\ installed' = [file |-> installed.tmp, tmp |-> None]
  /\ phase' = "report"
  /\ UNCHANGED verdict
  /\ InstallOnly

ReportInstalled ==
  /\ phase = "report"
  /\ End("ok")
  /\ UNCHANGED installed
  /\ InstallOnly

\* The command is killed, or panics because it cannot print.
Crash ==
  /\ phase \in {"install", "report"}
  /\ End("killed")
  /\ UNCHANGED installed
  /\ InstallOnly

Next ==
  \/ Load
  \/ ResolveInPlan
  \/ Plan
  \/ ResolveInBuild
  \/ \E target \in DOMAIN configs : BuildAtLocation(target)
  \/ \E target \in DOMAIN configs : BuildTask(target)
  \/ Finish
  \/ RunTest \/ ReportTests
  \/ RunExecutable
  \/ CopyInstalled \/ FailCopy \/ RenameInstalled \/ ReportInstalled \/ Crash

Spec == Init /\ [][Next]_commandVars

-----------------------------------------------------------------------------
(* Properties.                                                             *)

TypeOK ==
  /\ phase \in {"load", "plan", "build", "test", "run", "install", "report", "end"}
  /\ DOMAIN outputs \subseteq DOMAIN configs /\ DOMAIN configs \subseteq ToSet(order)
  /\ DOMAIN hashes = DOMAIN outputs /\ DOMAIN crates \subseteq DOMAIN outputs
  /\ (verdict = None) = (phase # "end")

\* What one side of the ABI sends is what the other side reads: requests,
\* configs, outputs, plans and failures survive the tables of plugin_abi.rs
\* and of the SDK; the target of a context does not, and goes beside it.
Sent(message) ==
  IF "context" \in DOMAIN message THEN [message EXCEPT !.context.target = None] ELSE message
MessagesArriveWhole ==
  wire # None => wire.seen = Sent(wire.asked) /\ wire.got = wire.answered

\* A recursive pattern stands for every target below its package and for
\* nothing else, and the resolver finds each of them.
PatternKinds == IF command.what = "test" THEN {"rust_test"} ELSE ToSet(RuleKinds(setup.plugins))
IsBelow(dir, package) ==
  LET above == Parts(package)
      parts == Parts(dir)
  IN  /\ IsPrefix(above, parts)
      /\ \A i \in DOMAIN parts : i > Len(above) => ~StartsWith(parts[i], ".")
TargetsBelow(package) ==
  {"//" \o p[1] \o ":" \o p[2] : p \in
     UNION {{<<dir, name>> : name \in {n \in DOMAIN ws.builds[dir] :
                                        IF StartsWith(n, "_") THEN FALSE
                                        ELSE ws.builds[dir][n]["_type"] \in PatternKinds}} :
              dir \in {d \in DOMAIN ws.builds : IsBelow(d, package)}}}
PatternsResolve ==
  setup # None =>
    LET packages == {RecursivePackagePattern(command.patterns[i]) : i \in DOMAIN command.patterns} IN
    None \notin packages =>
      /\ ToSet(setup.targets) = UNION {TargetsBelow(p) : p \in packages}
      /\ \A i \in DOMAIN setup.targets :
           LET rule == FindRule(ws, setup.package, setup.plugins, setup.targets[i]) IN
           /\ rule # Invalid
           /\ CanonicalLabel([package |-> rule.request.package, name |-> rule.request.name]) = setup.targets[i]

\* The crates a crate uses, directly and through others, that were compiled.
Uses(target) == ToSet(RuntimeDependencies(configs[target])) \cap DOMAIN crates
RECURSIVE UsesAll(_)
UsesAll(targets) ==
  LET more == targets \cup UNION {Uses(t) : t \in targets} IN
  IF more = targets THEN targets ELSE UsesAll(more)

\* rustc is given every crate that the sources name, finds the crates behind
\* those, and links the archives that any of them brings.
LinksWhatItUses ==
  \A target \in DOMAIN crates :
    LET call == crates[target] IN
    /\ {call.externs[i][2] : i \in DOMAIN call.externs} = {crates[u].out : u \in Uses(target)}
    /\ \A used \in UsesAll(Uses(target)) :
         /\ Parent(crates[used].out) \in call.search
         /\ ToSet(crates[used].natives) \subseteq ToSet(call.natives)

\* What is in the sources of a target, and the pairs of crates that are
\* compiled into one file.
Contents(target) ==
  Mapped(configs[target].sources, LAMBDA f : IF Existing(Machine, f) THEN Machine.files[f] ELSE None)
Shared == {p \in (DOMAIN crates) \X (DOMAIN crates) : p[1] # p[2] /\ crates[p[1]].out = crates[p[2]].out}


\* What Cargo would have built for the same requirements.
IsCrate(target) == StartsWith(target, "cargo://")
CrateOfTarget(target) ==
  <<ParseCargoTarget(target)[1], ParseLockString(context.lockfile[target]).version>>
CargosGraph ==
  CargoMetadata(Registry, FilterPlatform(ToSdkKeys(setup.config.target_config)), SyntheticManifest(Requirements))
CratesBuilt == {t \in DOMAIN crates : IsCrate(t)}

\* A crate is compiled with the features that Cargo gives it, for the crates
\* Cargo chooses for it on this platform and under the names it gives them;
\* what one of them is found to need once there is a plan is in the plan.
ResolvesACrate(asked) == {"target", "context"} = DOMAIN asked
NeedsArePlanned ==
  wire # None =>
    IF ResolvesACrate(wire.asked) /\ wire.asked.context.lockfile # <<>>
    THEN wire.got.tag = "Success" ELSE TRUE
CratesAreCargosChoice ==
  /\ NeedsArePlanned
  /\ verdict = "ok" /\ CratesBuilt # {} =>
       LET graph == CargosGraph
           facts == Facts(ToSdkKeys(setup.config.target_config))
           Named(d) == <<Replace(d.alias, {"-"}, "_"), CrateOf(d)>>
           Owner(path) == CHOOSE t \in DOMAIN crates : crates[t].out = path
       IN  \A target \in CratesBuilt :
             LET crate == CrateOfTarget(target)
                 externs == crates[target].externs
             IN  /\ crate \in DOMAIN graph
                 /\ ToSet(crates[target].features) = graph[crate].features
                 /\ {<<externs[i][1], CrateOfTarget(Owner(externs[i][2]))>> : i \in DOMAIN externs}
                    = {Named(d) : d \in Activated(Registry[crate], graph[crate].features, facts)}

\* A rule that requires a version of a crate is compiled against that version.
RequiredVersionIsUsed ==
  verdict = "ok" =>
    \A target \in DOMAIN crates : \A i \in DOMAIN configs[target].external_requirements :
      LET required == configs[target].external_requirements[i]
          used == CrateOfTarget(RequirementTarget(required))
      IN  used = <<required.package, CrateOf([alias |-> required.package, version |-> required.version])[2]>>

\* The verdict of cbs test is the verdict of the test targets: each is run, by
\* its own executable, and one that fails makes the command fail.
TestsReportTheirOwn ==
  /\ phase = "test" \/ (command.what = "test" /\ verdict \in {"ok", "tests failed"}) =>
       \A i \in DOMAIN ran : /\ ran[i].executable = crates[ran[i].target].out
                            /\ configs[ran[i].target].kind = "rust_test"
  /\ command.what = "test" /\ verdict = "ok" =>
       /\ {ran[i].target : i \in DOMAIN ran} = ToSet(setup.targets)
       /\ \A i \in DOMAIN ran : ran[i].how = "pass"

\* The installed file is the old one or the whole executable that was asked for
\* at any moment, also when the command is killed between any two steps; it is
\* the old one after a command that reports an error, whatever failed, and the
\* new one, with no copy beside it, after one that succeeds.
InstalledIsWhole ==
  /\ installed.file # "old" => installed.file = crates[setup.targets[1]].out
  /\ verdict \in {"error", "failed"} => installed.file = "old"
  /\ command.what = "install" /\ verdict = "ok" =>
       installed = [file |-> crates[setup.targets[1]].out, tmp |-> None]
=============================================================================
