---------------------------- MODULE CbsRustPlugin ----------------------------
(***************************************************************************)
(* What the plugins of the workspace do with a rule and with a build       *)
(* (src/util/cbs_rust_plugin/lib.rs and src/util/cbs/bus.rs, of which      *)
(* src/util/bus/bus_plugin.rs is the copy that is built as a library).     *)
(* Compilers and the code generator are external: the model has what they  *)
(* are called with, and whether they succeed.                              *)
(***************************************************************************)
EXTENDS CbsWorkspace

FEATURES == 0
CRATE_NAME == 1
CRATE_TYPE == 2
EDITION == 3
ROOT_SOURCE == 4
DEPENDENCY_ALIASES == 5
RUSTC_CFGS == 6
CRATE_ROOT == 7
NATIVE_STATIC_LIBS == 8
RUSTC_ENV == 9
TRANSITIVE_PRODUCTS == 0

Get(config, key) == Or(Lookup(config.extras, key), <<>>)
GetFirst(config, key, otherwise) ==
  IF Get(config, key) = <<>> THEN otherwise ELSE Get(config, key)[1]

RustManifest ==
  [name |-> "rust", rule_kinds |-> <<"rust_library", "rust_binary", "rust_test">>,
   test_rule_kinds |-> <<"rust_test">>, build_plugins |-> <<"@rust_plugin">>,
   label_fields |-> <<>>, dependency_ecosystems |-> <<"cargo">>, target_prefixes |-> <<"cargo://">>]
BusManifest ==
  [name |-> "bus", rule_kinds |-> <<"rust_bus_library">>, test_rule_kinds |-> <<>>,
   build_plugins |-> <<"@bus_plugin">>, label_fields |-> <<"bus_runtime", "codegen">>,
   dependency_ecosystems |-> <<>>, target_prefixes |-> <<>>]

-----------------------------------------------------------------------------
(* Rules become configs.                                                   *)

PackageSourcePath(package_dir, path) ==
  IF IsAbsolute(path) \/ Escapes(path) THEN Invalid ELSE Join(package_dir, path)

ParseRustRule(request) ==
  LET Field(name) == Lookup(request.string_fields, name)
      Extra(key, value) == IF value = None THEN <<>> ELSE key :> <<value>>
      root == IF Field("root_source") = None THEN None
              ELSE PackageSourcePath(request.package_dir, Field("root_source"))
  IN  IF root = Invalid THEN Failure("root_source")
      ELSE Success([EmptyConfig EXCEPT
             !.dependencies = request.dependencies,
             !.external_requirements = request.cargo_requirements,
             !.build_plugin = "@rust_plugin",
             !.sources = request.sources,
             !.build_dependencies = <<"@rust_compiler">>,
             !.kind = request.kind,
             !.extras = Extra(EDITION, Field("edition")) @@ Extra(CRATE_NAME, Field("crate_name"))
                        @@ Extra(CRATE_TYPE, Field("crate_type")) @@ Extra(ROOT_SOURCE, root)])

FuturesRequirement ==
  [ecosystem |-> "cargo", package |-> "futures", version |-> "=0.3.31", features |-> <<"std">>,
   default_features |-> FALSE, target |-> "cargo://futures"]

\* The generated code needs the runtime of bus and futures.
ParseBusRule(request) ==
  LET runtime == Or(Lookup(request.label_fields, "bus_runtime"), "//util/bus:bus")
      codegen == Or(Lookup(request.label_fields, "codegen"), "//util/bus/codegen:codegen")
      required == request.cargo_requirements
      hasFutures == \E i \in DOMAIN required : required[i].package = "futures"
  IN  IF Len(request.sources) # 1 THEN Failure("sources")
      ELSE Success([EmptyConfig EXCEPT
             !.dependencies = IF runtime \in ToSet(request.dependencies) THEN request.dependencies
                              ELSE Append(request.dependencies, runtime),
             !.external_requirements = IF hasFutures THEN required ELSE Append(required, FuturesRequirement),
             !.build_plugin = "@bus_plugin",
             !.sources = request.sources,
             !.build_dependencies = <<"@rust_compiler", codegen>>,
             !.kind = request.kind,
             !.extras = (CRATE_NAME :> <<request.name>>)
                        @@ (EDITION :> <<Or(Lookup(request.string_fields, "edition"), "2021")>>)])

-----------------------------------------------------------------------------
(* Names and files.                                                        *)

\* What is behind the last of the separators // / and : in turn.
TargetShortname(target) == Last(Split(Last(Split(target, "/")), ":"))
RustName(target) == Replace(Split(TargetShortname(target), "@")[1], {"-"}, "_")

Parent(path) == Or(RSplitOnce(path, "/"), <<"">>)[1]
MetadataFromWorkingDirectory(dir) == Or(RSplitOnce(BaseName(dir), "-"), <<"", "cbs">>)[2]

LibraryOutputFile(machine, dir, name, metadata, type) ==
  dir \o "/lib" \o name \o "-" \o metadata \o
    (IF type \in {"proc-macro", "cdylib", "dylib"} THEN IF machine.os = "macos" THEN ".dylib" ELSE ".so"
     ELSE IF type = "staticlib" THEN ".a" ELSE ".rlib")

\* The given root, or the source nearest to the top that has one of the names.
RootSource(config, endings) ==
  LET candidates == {i \in DOMAIN config.sources : \E e \in endings : EndsWith(config.sources[i], e)}
      Depth(i) == Cardinality(Positions(config.sources[i], "/"))
      best == {i \in candidates : \A k \in candidates : Depth(i) <= Depth(k)}
  IN  GetFirst(config, ROOT_SOURCE, IF candidates = {} THEN Invalid ELSE config.sources[Min(best)])
LibraryRootSource(config, name) == RootSource(config, {"lib.rs", name \o ".rs"})
ExecutableRootSource(config, name, test) ==
  RootSource(config, {"/" \o name \o ".rs", "/main.rs"} \cup (IF test THEN {"/lib.rs"} ELSE {}))

-----------------------------------------------------------------------------
(* What a crate is compiled against.                                       *)

RequirementTarget(requirement) ==
  Or(requirement.target, requirement.ecosystem \o "://" \o requirement.package)
RuntimeDependencies(config) ==
  Sorted(ToSet(config.dependencies)
         \cup {RequirementTarget(config.external_requirements[i]) : i \in DOMAIN config.external_requirements})

\* target=name; the last alias of a target counts.
AliasMap(entries) ==
  LET named == {i \in DOMAIN entries : entries[i] # None} IN
  [target \in {entries[i][1] : i \in named} |->
     entries[Max({i \in named : entries[i][1] = target})][2]]
DependencyAliases(config) ==
  LET aliases == Get(config, DEPENDENCY_ALIASES)
  IN  AliasMap([i \in DOMAIN aliases |-> RSplitOnce(aliases[i], "=")])

NamedOutputs(aliases, target, outputs) ==
  [k \in DOMAIN outputs |-> <<Or(Lookup(aliases, target), RustName(target)), outputs[k]>>]
NamedLibraries(targets, aliases, deps) ==
  FlattenSeq([i \in DOMAIN targets |-> NamedOutputs(aliases, targets[i], deps[targets[i]].outputs)])
Libraries(config, deps) ==
  NamedLibraries(RuntimeDependencies(config), DependencyAliases(config), deps)

TransitiveProducts(targets, deps) ==
  FlattenSeq([i \in DOMAIN targets |->
    Or(Lookup(deps[targets[i]].extras, TRANSITIVE_PRODUCTS), <<>>)])
SplitProducts(products) == [i \in DOMAIN products |-> SplitOnce(products[i], ":")]
\* Mutant: what the dependencies depend on is forgotten.
DirectDeps(config, deps) == Libraries(config, deps)
TransitiveDeps(config, deps) ==
  SplitProducts(TransitiveProducts(RuntimeDependencies(config), deps)) \o Libraries(config, deps)

\* Natives travel among the products, marked by their names.
NativesOf(products) ==
  LET native == SelectSeq(products, LAMBDA p : StartsWith(p[1], "native_")) IN
  [i \in DOMAIN native |-> <<After(native[i][1], 7), Parent(native[i][2])>>]

PlatformEnv(target_config) == Restrict(target_config, {7, 8} \cap DOMAIN target_config)

-----------------------------------------------------------------------------
(* Running a tool: a name must be a declared tool, which is found through  *)
(* the links in .cbs-tools; paths of the host's programs are refused.      *)

HostPaths == {"/usr/bin", "/bin", "/usr/local/bin"}
KnownHostPath(program) == \E dir \in HostPaths : StartsWith(program, dir \o "/")
Runnable(machine, program, tool_paths) ==
  LET path == IF IsBare(program) THEN Or(Lookup(tool_paths, program), "") ELSE program IN
  /\ IsBare(program) => program \in DOMAIN tool_paths
  /\ ~IsBare(program) => ~KnownHostPath(program)
  /\ Existing(machine, path)

\* name|sources|include directories|flags, each list with semicolons.
PartList(parts, i) ==
  IF i > Len(parts) THEN <<>> ELSE SelectSeq(Split(parts[i], ";"), LAMBDA s : s # "")
LibOfParts(parts) ==
  IF parts[1] = "" THEN Invalid
  ELSE [name |-> parts[1], sources |-> PartList(parts, 2), includes |-> PartList(parts, 3),
        flags |-> PartList(parts, 4)]
NativeStaticLib(encoded) == LibOfParts(Split(encoded, "|"))

\* One archive of objects for each of them; without a crate root there are none.
Archives(machine, libs, dir, tool_paths) ==
  LET Archive(lib) == <<lib.name, dir \o "/native/" \o lib.name \o "/lib" \o lib.name \o ".a">>
  IN  IF \/ FirstError(libs)
         \/ libs # <<>> /\ ~Runnable(machine, "ar", tool_paths)
         \/ (\E i \in DOMAIN libs : libs[i].sources # <<>>) /\ ~Runnable(machine, "cc", tool_paths)
      THEN Invalid
      ELSE [i \in DOMAIN libs |-> Archive(libs[i])]
BuildNativeStaticLibs(machine, config, dir, tool_paths) ==
  LET encoded == IF Get(config, CRATE_ROOT) = <<>> THEN <<>> ELSE Get(config, NATIVE_STATIC_LIBS)
  IN  Archives(machine, [i \in DOMAIN encoded |-> NativeStaticLib(encoded[i])], dir, tool_paths)

-----------------------------------------------------------------------------
(* Builds.  A crate is what rustc is called with; natives are the archives *)
(* the crate itself brings.                                                *)

Compiler(config, deps) ==
  LET output == Lookup(deps, config.build_dependencies[1]) IN
  IF config.build_dependencies = <<>> THEN Invalid
  ELSE IF output = None THEN Invalid
  ELSE IF output.outputs = <<>> THEN Invalid ELSE output.outputs[1]

RustcCall(request, products, name, root, edition, natives, out) ==
  LET config == request.config
  IN  [program |-> Compiler(config, request.dependencies), name |-> name, root |-> root,
       edition |-> edition, out |-> out, type |-> GetFirst(config, CRATE_TYPE, "rlib"),
       externs |-> Libraries(config, request.dependencies),
       search |-> {Parent(products[i][2]) : i \in DOMAIN products},
       natives |-> NativesOf(products) \o natives,
       features |-> Get(config, FEATURES), cfgs |-> Get(config, RUSTC_CFGS),
       env |-> <<Get(config, RUSTC_ENV), PlatformEnv(request.target_config)>>]

\* A response, and the call of rustc behind it, None if it is not reached.
Answer(response, call) == [response |-> response, rustc |-> call]
Refused(reason) == Answer(Failure(reason), None)

Encoded(products) == [i \in DOMAIN products |-> products[i][1] \o ":" \o products[i][2]]
LibraryOf(request, deps, root, libs, crate, out) ==
  IF root = Invalid THEN Refused("root source")
  ELSE IF libs = Invalid THEN Refused("native static libs")
  ELSE Answer(Success([outputs |-> <<out>>,
                extras |-> TRANSITIVE_PRODUCTS :>
                  Encoded(deps \o [i \in DOMAIN libs |-> <<"native_" \o libs[i][1], libs[i][2]>>])]),
              RustcCall(request, deps, crate, root, GetFirst(request.config, EDITION, "2018"),
                        [i \in DOMAIN libs |-> <<libs[i][1], Parent(libs[i][2])>>], out))
BuildLibrary(machine, request, name) ==
  LET config == request.config
      dir  == request.working_directory
      crate == GetFirst(config, CRATE_NAME, name)
  IN  LibraryOf(request, TransitiveDeps(config, request.dependencies), LibraryRootSource(config, name),
                BuildNativeStaticLibs(machine, config, dir, request.tool_paths), crate,
                LibraryOutputFile(machine, dir, crate, MetadataFromWorkingDirectory(dir),
                                  GetFirst(config, CRATE_TYPE, "rlib")))

ExecutableOf(request, root, name, out) ==
  IF root = Invalid THEN Refused("root source")
  ELSE Answer(Success([outputs |-> <<out>>, extras |-> <<>>]),
              RustcCall(request, TransitiveDeps(request.config, request.dependencies), name, root,
                        GetFirst(request.config, EDITION, "2021"), <<>>, out))
BuildExecutable(request, name, test) ==
  ExecutableOf(request, ExecutableRootSource(request.config, name, test), name,
               request.working_directory \o "/" \o name)

\* rustc, too, must be a program that may be run.
WhenRunnable(machine, request, program, built) ==
  IF built.rustc # None /\ ~Runnable(machine, program, request.tool_paths)
  THEN Refused("program") ELSE built
BuildKind(machine, request, kind, name) ==
  IF kind = "rust_library" THEN BuildLibrary(machine, request, name)
  ELSE BuildExecutable(request, name, kind = "rust_test")
BuildRust(machine, request) ==
  LET kind == request.config.kind
      program == Compiler(request.config, request.dependencies)
  IN  IF kind \notin {"rust_library", "rust_binary", "rust_test"} \/ program = Invalid
      THEN Refused("request")
      ELSE WhenRunnable(machine, request, program,
                        BuildKind(machine, request, kind, RustName(request.target)))

\* The generated source is built by the rust plugin.
BuildBus(request) ==
  LET config == request.config
      codegen == Lookup(request.dependencies, config.build_dependencies[2])
      crate == GetFirst(config, CRATE_NAME, Replace(TargetShortname(request.target), {"-"}, "_"))
      source == request.working_directory \o "/" \o crate \o ".rs"
  IN  IF config.kind # "rust_bus_library" \/ Len(config.build_dependencies) < 2
         \/ Len(config.sources) # 1
      THEN Refused("request")
      ELSE IF codegen = None THEN Refused("codegen")
      ELSE IF codegen.outputs = <<>> THEN Refused("codegen")
      ELSE Answer(Delegate([config EXCEPT
             !.build_plugin = "@rust_plugin", !.kind = "rust_library", !.sources = <<source>>,
             !.build_dependencies = <<"@rust_compiler">>,
             !.extras = (ROOT_SOURCE :> <<source>>) @@ @]), None)
=============================================================================
