------------------------------- MODULE CbsCargo -------------------------------
(***************************************************************************)
(* The rust plugin plans and resolves what comes from Cargo                *)
(* (src/util/cbs_rust_plugin/cargo.rs, cargo_recipes.rs).  Cargo itself is *)
(* external: what it answers follows from a registry, a function from      *)
(* crates, pairs of a name and a version, to their Cargo.toml: a record    *)
(* with name, version, files, and, where they are given, edition, build,   *)
(* lib, dependencies (from aliases to specs), targets (pairs of a cfg and  *)
(* dependencies) and features.  A cfg is an expression; a target that is   *)
(* no cfg is None.  A disk holds the plans that are kept, by their ids,    *)
(* and the crates that were fetched.                                       *)
(***************************************************************************)
EXTENDS CbsRustPlugin

Field(table, key, otherwise) == IF key \in DOMAIN table THEN table[key] ELSE otherwise
Mapped(list, Op(_)) == [i \in DOMAIN list |-> Op(list[i])]
Strip(text, prefix) == After(text, Len(prefix))

-----------------------------------------------------------------------------
(* Names of crates and what is locked for them.                            *)

CargoTarget(name) == "cargo://" \o name
VersionedTarget(crate) == "cargo://" \o crate[1] \o "@" \o crate[2]
CargoTargetName(crate, crates) ==
  IF Cardinality({c \in crates : c[1] = crate[1]}) > 1 THEN VersionedTarget(crate)
  ELSE CargoTarget(crate[1])

ParseCargoTarget(target) ==
  LET name == Strip(target, "cargo://") IN Or(SplitOnce(name, "@"), <<name, None>>)

LockString(version, features) ==
  Joined(<<version>> \o Mapped(Sorted(features), LAMBDA f : "," \o f))
ParseLockString(text) ==
  LET parts == Split(text, ",") IN [version |-> parts[1], features |-> Tail(parts)]

-----------------------------------------------------------------------------
(* Cargo.toml.                                                             *)

\* Conditions on the platform; Invalid when one cannot be read.
ConfigKeys == [unix |-> <<1, "unix">>, windows |-> <<1, "windows">>]
CfgKeys == [target_family |-> 1, target_env |-> 2, target_os |-> 3, target_arch |-> 4,
            target_vendor |-> 5, target_endian |-> 6]

RECURSIVE ResolveCfg(_, _)
ResolveCfg(config, cfg) ==
  LET args == cfg.args
      Is(k, wanted) == Lookup(config, k) = wanted
      At_(i) == ResolveCfg(config, args[i])
      stops == {i \in DOMAIN args : At_(i) # (cfg.op = "all")}
  IN  CASE cfg.op \in {"all", "any"} ->
             IF stops = {} THEN cfg.op = "all" ELSE At_(Min(stops))
        [] cfg.op = "not" ->
             IF Len(args) # 1 THEN Invalid ELSE IF At_(1) = Invalid THEN Invalid ELSE ~At_(1)
        [] cfg.op \in DOMAIN ConfigKeys -> Is(ConfigKeys[cfg.op][1], ConfigKeys[cfg.op][2])
        [] cfg.op \in DOMAIN CfgKeys -> Is(CfgKeys[cfg.op], args)
        [] OTHER -> FALSE

\* The features of the table that the requested ones bring with them.
IsPlain(member) == ~StartsWith(member, "dep:") /\ Positions(member, "/") = {}
RECURSIVE ExpandFeatures(_, _)
ExpandFeatures(table, enabled) ==
  LET more == enabled \cup UNION {{m \in ToSet(table[f]) : IsPlain(m) /\ m \in DOMAIN table} :
                                     f \in enabled \cap DOMAIN table}
  IN  IF more = enabled THEN enabled ELSE ExpandFeatures(table, more)

DependencySpecs(table) ==
  Mapped(Sorted(DOMAIN table), LAMBDA alias :
    [alias |-> alias, package |-> Field(table[alias], "package", alias),
     optional |-> Field(table[alias], "optional", FALSE)])

\* The optional dependencies that the enabled features turn on.
\* Mutant: alias?/feature turns the dependency on.
TurnedOnWeakly(table, enabled, aliases, members) ==
  LET Of(m) == Trim(SplitOnce(m, "/")[1], "?")
      paths == {m \in members : ~StartsWith(m, "dep:") /\ ~IsPlain(m)}
  IN  (enabled \cap aliases)
      \cup {Strip(m, "dep:") : m \in {n \in members : StartsWith(n, "dep:")}}
      \cup ({Of(m) : m \in paths} \cap aliases)
      \cup {m \in members : IsPlain(m) /\ m \notin DOMAIN table /\ m \in aliases}
TurnedOn(table, enabled, aliases, members) ==
  LET Of(m) == SplitOnce(m, "/")[1]
      paths == {m \in members : ~StartsWith(m, "dep:") /\ ~IsPlain(m)}
  IN  (enabled \cap aliases)
      \cup {Strip(m, "dep:") : m \in {n \in members : StartsWith(n, "dep:")}}
      \cup ({Of(m) : m \in {n \in paths : ~EndsWith(Of(n), "?")}} \cap aliases)
      \cup {m \in members : IsPlain(m) /\ m \notin DOMAIN table /\ m \in aliases}
OptionalDeps(table, enabled, specs) ==
  TurnedOn(table, enabled, {specs[i].alias : i \in {k \in DOMAIN specs : specs[k].optional}},
           UNION {ToSet(table[f]) : f \in enabled \cap DOMAIN table})

HasBuildScript(manifest) ==
  LET build == Field(manifest, "build", None) IN
  IF build = None THEN "build.rs" \in ToSet(manifest.files)
  ELSE IF build \in {"true", "other"} THEN Invalid ELSE build # "false"

CargoEnv(manifest, dir) ==
  <<"CARGO_MANIFEST_DIR=" \o dir, "CARGO_PKG_NAME=" \o manifest.name,
    "CARGO_CRATE_NAME=" \o Replace(manifest.name, {"-"}, "_"),
    "CARGO_PKG_VERSION=" \o Field(manifest, "version", "0.0.0")>>

Included(config, target) == IF target[1] = None THEN FALSE ELSE ResolveCfg(config, target[1])
PlatformSpecs(config, manifest) ==
  FlattenSeq(Mapped(SelectSeq(Field(manifest, "targets", <<>>), LAMBDA t : Included(config, t) = TRUE),
                    LAMBDA t : DependencySpecs(t[2])))
AllSpecs(config, manifest) ==
  DependencySpecs(Field(manifest, "dependencies", <<>>)) \o PlatformSpecs(config, manifest)

\* Of the specs with one alias the first that is not optional or turned on.
FirstSpecs(specs, optional) ==
  LET On(spec) == spec.optional => spec.alias \in optional
  IN  Pick(specs, SelectSeq([i \in DOMAIN specs |-> i], LAMBDA i :
        On(specs[i]) /\ \A k \in 1 .. (i - 1) : specs[k].alias = specs[i].alias => ~On(specs[k])))
KeptSpecs(table, enabled, specs) == FirstSpecs(specs, OptionalDeps(table, enabled, specs))

CrateToml(manifest, dir, enabled, specs) ==
  LET lib == Field(manifest, "lib", <<>>) IN
  [dependencies |-> KeptSpecs(Field(manifest, "features", <<>>), enabled, specs),
   crate_name |-> Replace(Field(lib, "name", manifest.name), {"-"}, "_"),
   crate_type |-> IF Field(lib, "proc_macro", FALSE) THEN "proc-macro" ELSE "rlib",
   edition |-> Field(manifest, "edition", "2015"),
   root_source |-> Join(dir, Field(lib, "path", "src/lib.rs")),
   features |-> Sorted(enabled),
   has_build_script |-> HasBuildScript(manifest),
   rustc_env |-> CargoEnv(manifest, dir)]
ParseCargoToml(config, manifest, dir, requested) ==
  IF \/ HasBuildScript(manifest) = Invalid
     \/ \E t \in ToSet(Field(manifest, "targets", <<>>)) : Included(config, t) = Invalid
  THEN Invalid
  ELSE CrateToml(manifest, dir,
                 ExpandFeatures(Field(manifest, "features", <<>>), ToSet(requested) \ {""}),
                 AllSpecs(config, manifest))

-----------------------------------------------------------------------------
(* Recipes stand in for build scripts, which are never run.                *)

PlainRecipes ==
  {<<"flatbuffers", "25.12.19">>, <<"generic-array", "0.14.7">>, <<"httparse", "1.8.0">>,
   <<"httparse", "1.10.1">>, <<"libc", "0.2.151">>, <<"libc", "0.2.186">>,
   <<"proc-macro2", "1.0.71">>, <<"proc-macro2", "1.0.106">>, <<"quote", "1.0.45">>,
   <<"rustls", "0.23.31">>, <<"serde", "1.0.193">>, <<"serde", "1.0.228">>,
   <<"serde_json", "1.0.117">>, <<"serde_core", "1.0.228">>, <<"slab", "0.4.9">>,
   <<"slab", "0.4.12">>, <<"syn", "1.0.109">>, <<"zerocopy", "0.8.48">>}
IsAarch64Apple(config) ==
  /\ Lookup(config, 1) = "unix" /\ Lookup(config, 4) = "aarch64"
  /\ Lookup(config, 5) = "apple" /\ Lookup(config, 6) = "little"
  /\ Lookup(config, 3) \in {"ios", "macos", "tvos", "visionos", "watchos"}
Recipe(cfgs, libs) == [rustc_cfgs |-> cfgs, native_static_libs |-> libs]
BuildRecipe(config, crate) ==
  IF crate \in PlainRecipes THEN Recipe(<<>>, <<>>)
  ELSE IF crate = <<"indexmap", "1.9.3">> THEN Recipe(<<"has_std">>, <<>>)
  ELSE IF crate = <<"ring", "0.17.14">> /\ IsAarch64Apple(config)
  THEN Recipe(<<>>, <<"ring_core_0_17_14_|crypto/curve25519/curve25519.c|include|-O3">>)
  ELSE None

MissesRecipe(config, crate, toml) == toml.has_build_script /\ BuildRecipe(config, crate) = None

\* What a build script of these would have written.
HermeticOutDir(dir, crate) ==
  IF crate \in {<<"serde_core", "1.0.228">>, <<"serde", "1.0.228">>}
  THEN <<"OUT_DIR=" \o dir \o "/out">> ELSE <<>>

-----------------------------------------------------------------------------
(* Cargo, external.  A condition holds of the set of what a target has.    *)

RECURSIVE CfgHolds(_, _)
CfgHolds(cfg, facts) ==
  CASE cfg.op = "all" -> \A i \in DOMAIN cfg.args : CfgHolds(cfg.args[i], facts)
    [] cfg.op = "any" -> \E i \in DOMAIN cfg.args : CfgHolds(cfg.args[i], facts)
    [] cfg.op = "not" -> ~CfgHolds(cfg.args[1], facts)
    [] cfg.op \in {"unix", "windows"} -> <<"target_family", cfg.op>> \in facts
    [] OTHER -> <<cfg.op, cfg.args>> \in facts
Facts(platform) == {<<key, platform[CfgKeys[key]]>> : key \in {k \in DOMAIN CfgKeys : CfgKeys[k] \in DOMAIN platform}}

\* The dependencies of a manifest on a platform, of all platforms without one, and those that features
\* activate: their alias, or dep:alias, or alias/feature among the members.
PlatformDeps(manifest, facts) ==
  LET targets == Field(manifest, "targets", <<>>)
      active == {i \in DOMAIN targets : IF facts = None THEN TRUE ELSE IF targets[i][1] = None THEN FALSE
                                        ELSE CfgHolds(targets[i][1], facts)}
      Table(table) == {[alias |-> a] @@ table[a] : a \in DOMAIN table}
  IN  Table(Field(manifest, "dependencies", <<>>)) \cup UNION {Table(targets[i][2]) : i \in active}
Members(manifest, features) ==
  LET table == Field(manifest, "features", <<>>) IN
  UNION {ToSet(table[f]) : f \in features \cap DOMAIN table}
Activated(manifest, features, facts) ==
  {d \in PlatformDeps(manifest, facts) :
     \/ ~Field(d, "optional", FALSE)
     \/ d.alias \in features
     \/ \E m \in Members(manifest, features) :
          m = "dep:" \o d.alias \/ StartsWith(m, d.alias \o "/")}
CrateOf(d) ==
  <<Field(d, "package", d.alias), IF StartsWith(d.version, "=") THEN Strip(d.version, "=") ELSE d.version>>

\* The features a package is asked for: its own, those its dependents name in
\* the dependency, and those they name as members alias/feature.
OwnFeatures(registry, crate) ==
  IF crate \in DOMAIN registry THEN DOMAIN Field(registry[crate], "features", <<>>) ELSE {}
Requested(registry, manifest, features, d) ==
  LET crate == CrateOf(d)
      default == IF Field(d, "default_features", TRUE) THEN {"default"} ELSE {}
      Tail_(m, prefix) == IF StartsWith(m, prefix) THEN {Strip(m, prefix)} ELSE {}
  IN  (default \cap OwnFeatures(registry, crate)) \cup ToSet(Field(d, "features", <<>>))
      \cup UNION {Tail_(m, d.alias \o "/") \cup Tail_(m, d.alias \o "?/") : m \in Members(manifest, features)}
ImpliedBy(registry, crate, features) ==
  LET manifest == registry[crate]
      optional == {a \in DOMAIN Field(manifest, "dependencies", <<>>) :
                     Field(manifest.dependencies[a], "optional", FALSE)}
  IN  {m \in Members(manifest, features) : m \in OwnFeatures(registry, crate) \cup optional}

RECURSIVE CargoGraph(_, _, _)
Asks(registry, facts, graph) ==
  UNION {{<<CrateOf(d), Requested(registry, registry[crate], graph[crate], d)>> :
            d \in Activated(registry[crate], graph[crate], facts)} : crate \in DOMAIN graph}
WithImplied(registry, crate, features) == features \cup ImpliedBy(registry, crate, features)
Extended(registry, graph, asks) ==
  [crate \in DOMAIN graph \cup {a[1] : a \in asks} |->
     WithImplied(registry, crate,
                 Field(graph, crate, {}) \cup UNION {a[2] : a \in {b \in asks : b[1] = crate}})]
GraphAfter(registry, facts, graph, asks) ==
  IF \E a \in asks : a[1] \notin DOMAIN registry THEN Invalid
  ELSE LET next == Extended(registry, graph, asks)
       IN  IF next = graph THEN graph ELSE CargoGraph(registry, facts, next)
CargoGraph(registry, facts, graph) ==
  GraphAfter(registry, facts, graph, Asks(registry, facts, graph))

\* cargo metadata, for the requirements of a root manifest.
RootCrate == <<"cbs-cargo-plan", "0.0.0">>
NamedDeps(deps) == {[name |-> Replace(d.alias, {"-"}, "_"), pkg |-> CrateOf(d)] : d \in deps}
Nodes(registry, facts, graph) ==
  IF graph = Invalid THEN Invalid
  ELSE [crate \in DOMAIN graph \ {RootCrate} |->
          [features |-> graph[crate],
           deps |-> Listed(NamedDeps(Activated(registry[crate], graph[crate], facts)))]]
CargoMetadata(registry, platform, root) ==
  LET facts == IF platform = None THEN None ELSE Facts(platform)
      with == registry @@ (RootCrate :> [name |-> RootCrate[1], files |-> <<>>, dependencies |-> root])
  IN  Nodes(registry, facts, CargoGraph(with, facts, RootCrate :> {}))

-----------------------------------------------------------------------------
(* Planning.                                                               *)

\* One dependency for each package; two versions of one are an error.
SyntheticManifest(requirements) ==
  LET Of(package) == {requirements[i] : i \in {k \in DOMAIN requirements : requirements[k].package = package}}
      packages == {requirements[i].package : i \in DOMAIN requirements}
  IN  IF \/ \E i \in DOMAIN requirements : requirements[i].ecosystem # "cargo"
         \/ \E package \in packages : Cardinality({r.version : r \in Of(package)}) > 1
      THEN Invalid
      ELSE [package \in packages |->
              [package |-> package, version |-> (CHOOSE r \in Of(package) : TRUE).version,
               default_features |-> \E r \in Of(package) : r.default_features,
               features |-> Sorted(UNION {ToSet(r.features) : r \in Of(package)})]]

PlanId(context, requirements) == <<context.context_hash, requirements>>

\* The dependencies of a node by the names of their packages and by their
\* aliases, with dashes and as Cargo writes them; later ones replace earlier.
NodeDependencies(node, Target(_)) ==
  FoldLeft(LAMBDA map, dep :
             (dep.name :> Target(dep.pkg)) @@ (Replace(dep.name, {"_"}, "-") :> Target(dep.pkg))
             @@ (dep.pkg[1] :> Target(dep.pkg)) @@ map,
           <<>>, node.deps)

CrateNamed(target, crates) ==
  CHOOSE c \in crates : target \in {CargoTargetName(c, crates), VersionedTarget(c)}
LockedPlan(metadata) ==
  LET crates == DOMAIN metadata
      targets == UNION {{CargoTargetName(c, crates), VersionedTarget(c)} : c \in crates}
      Locked(crate) == LockString(crate[2], metadata[crate].features)
  IN  [lockfile |-> [t \in targets |-> Locked(CrateNamed(t, crates))],
       locked_dependencies |-> [t \in targets |->
         NodeDependencies(metadata[CrateNamed(t, crates)], LAMBDA c : CargoTargetName(c, crates))]]

\* A requirement's own target stands for the package that was found for it.
SameAs(plan, to, from) ==
  [lockfile |-> (to :> plan.lockfile[from]) @@ plan.lockfile,
   locked_dependencies |-> (to :> plan.locked_dependencies[from]) @@ plan.locked_dependencies]
MetadataPlan(requirements, metadata, picked) ==
  FoldLeft(LAMBDA plan, req :
             IF req.package \notin DOMAIN picked THEN plan
             ELSE SameAs(plan, RequirementTarget(req),
                         CargoTargetName(picked[req.package], DOMAIN metadata)),
           LockedPlan(metadata), requirements)

Unbuildable(config, crate, toml) ==
  IF toml = Invalid THEN TRUE ELSE MissesRecipe(config, crate, toml)

\* The plans that may come out: which of several versions of a required
\* package is found is left open.
MetadataPlans(context, requirements, metadata, registry) ==
  LET crates == DOMAIN metadata
      required == {requirements[i].package : i \in DOMAIN requirements} \cap {c[1] : c \in crates}
      picks == {p \in [required -> crates] : \A package \in required : p[package][1] = package}
      Toml(c) == ParseCargoToml(context.target_config, registry[c], "", Sorted(metadata[c].features))
  IN  IF \E c \in crates : Unbuildable(context.target_config, c, Toml(c)) THEN {Invalid}
      ELSE {MetadataPlan(requirements, metadata, p) : p \in picks}

\* A platform is only given when its parts are known.
FilterPlatform(config) == IF {3, 4, 5} \subseteq DOMAIN config THEN config ELSE None
HasCargo(machine, context) ==
  "cargo" \in DOMAIN context.tool_paths /\ Existing(machine, context.tool_paths["cargo"])

\* The responses, each with the disk it leaves.
Outcome(response, disk) == [response |-> response, disk |-> disk]
Planned(plan, fetched, id) ==
  IF plan = Invalid THEN Outcome(Failure("recipe"), fetched)
  ELSE Outcome(Success(plan), [fetched EXCEPT !.plans = (id :> plan) @@ @])
PlansFrom(metadata, registry, disk, context, requirements) ==
  IF metadata = Invalid THEN {Outcome(Failure("metadata"), disk)}
  ELSE {Planned(plan, [disk EXCEPT !.fetched = @ \cup DOMAIN metadata], PlanId(context, requirements)) :
          plan \in MetadataPlans(context, requirements, metadata, registry)}
PlanCargo(machine, registry, disk, context, requirements) ==
  LET root == SyntheticManifest(requirements)
      id == PlanId(context, requirements)
  IN  IF requirements = <<>>
      THEN {Outcome(Success([lockfile |-> <<>>, locked_dependencies |-> <<>>]), disk)}
      ELSE IF root = Invalid THEN {Outcome(Failure("requirements"), disk)}
      ELSE IF id \in DOMAIN disk.plans
      THEN {Outcome(IF disk.plans[id] = Invalid THEN Failure("plan") ELSE Success(disk.plans[id]), disk)}
      ELSE IF ~HasCargo(machine, context) THEN {Outcome(Failure("cargo"), disk)}
      ELSE PlansFrom(CargoMetadata(registry, FilterPlatform(context.target_config), root), registry,
                     disk, context, requirements)

-----------------------------------------------------------------------------
(* Resolving.                                                              *)

ToSdkDir(text) == Trim(Replace(text, {"/", ":", "@", "."}, "_"), "_")
ResolveDirectory(context) ==
  context.cache_dir \o "/resolve/" \o ToSdkDir(context.target) \o "-"
    \o Or(Lookup(context.lockfile, context.target), "")
CrateDirectory(context, crate) ==
  context.cache_dir \o "/cargo-home/registry/src/index/" \o crate[1] \o "-" \o crate[2]

\* What is not there yet is fetched: afterwards it is, unless there is none.
EnsureCargoSource(machine, registry, disk, context, crate) ==
  IF crate \in disk.fetched THEN disk
  ELSE IF ~HasCargo(machine, context) \/ crate \notin DOMAIN registry THEN Invalid
  ELSE [disk EXCEPT !.fetched = @ \cup {crate}]

CrateConfig(context, target, crate, toml, manifest) ==
  LET dir == CrateDirectory(context, crate)
      recipe == Or(BuildRecipe(context.target_config, crate), Recipe(<<>>, <<>>))
      locked == Or(Lookup(context.locked_dependencies, target), <<>>)
      Target(dep) == Or(Lookup(locked, dep.package), CargoTarget(dep.package))
      Alias(dep) == Target(dep) \o "=" \o Replace(dep.alias, {"-"}, "_")
      serde == IF crate = <<"serde", "1.0.228">> THEN <<"if_docsrs_then_no_serde_core">> ELSE <<>>
      rust == SelectSeq(manifest.files, LAMBDA f : StartsWith(f, "src/") /\ EndsWith(f, ".rs"))
  IN  [EmptyConfig EXCEPT
         !.dependencies = Mapped(toml.dependencies, Target),
         !.build_plugin = "@rust_plugin",
         !.sources = Mapped(rust, LAMBDA f : Join(dir, f)),
         !.build_dependencies = <<"@rust_compiler">>,
         !.kind = "rust_library",
         !.extras = (FEATURES :> toml.features) @@ (CRATE_NAME :> <<toml.crate_name>>)
           @@ (CRATE_TYPE :> <<toml.crate_type>>) @@ (EDITION :> <<toml.edition>>)
           @@ (ROOT_SOURCE :> <<toml.root_source>>) @@ (CRATE_ROOT :> <<dir>>)
           @@ (DEPENDENCY_ALIASES :> Mapped(toml.dependencies, Alias))
           @@ (RUSTC_CFGS :> (recipe.rustc_cfgs \o serde))
           @@ (NATIVE_STATIC_LIBS :> recipe.native_static_libs)
           @@ (RUSTC_ENV :> (toml.rustc_env \o HermeticOutDir(ResolveDirectory(context), crate)))]

ResolveToml(context, target, crate, toml, manifest) ==
  IF toml = Invalid THEN Failure("Cargo.toml")
  ELSE IF MissesRecipe(context.target_config, crate, toml) THEN Failure("recipe")
  ELSE Success(CrateConfig(context, target, crate, toml, manifest))
ResolveFetched(registry, before, after, context, target, crate, features) ==
  IF after = Invalid THEN Outcome(Failure("source"), before)
  ELSE Outcome(ResolveToml(context, target, crate,
                           ParseCargoToml(context.target_config, registry[crate],
                                          CrateDirectory(context, crate), features),
                           registry[crate]), after)
ResolveLocked(machine, registry, disk, context, target, name, lock) ==
  LET crate == <<name, lock.version>>
  IN  ResolveFetched(registry, disk, EnsureCargoSource(machine, registry, disk, context, crate),
                     context, target, crate, lock.features)
ResolveCrate(machine, registry, disk, context, target) ==
  LET named == ParseCargoTarget(target)
      lock == Or(Lookup(context.lockfile, target), named[2])
  IN  IF lock = None THEN Outcome(Failure("lockfile"), disk)
      ELSE ResolveLocked(machine, registry, disk, context, target, named[1], ParseLockString(lock))

-----------------------------------------------------------------------------
(* The functions of the plugin, on the request they read.                  *)

RustPlanDependencies(machine, registry, disk, request) ==
  IF request.ecosystem # "cargo" THEN {Outcome(Failure("ecosystem"), disk)}
  ELSE PlanCargo(machine, registry, disk, request.context, request.requirements)

RustResolveTarget(machine, registry, disk, request) ==
  LET context == [request.context EXCEPT !.target = request.target]
  IN  IF ~StartsWith(request.target, "cargo://") THEN Outcome(Failure("target"), disk)
      ELSE ResolveCrate(machine, registry, disk, context, request.target)
=============================================================================
