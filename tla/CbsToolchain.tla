----------------------------- MODULE CbsToolchain -----------------------------
(***************************************************************************)
(* What cbs reads from WORKSPACE.ccl before it builds anything             *)
(* (src/util/cbs/workspace.rs, the initialisation of                       *)
(* src/util/cbs_rust_plugin/lib.rs): the plugins, the tools and            *)
(* fingerprints of what the outputs depend on beside their sources.        *)
(*                                                                         *)
(* A machine is a record: os and arch; files, from paths to digests; env;  *)
(* rustup, the sysroot of the current rustc; rustc, from paths to what     *)
(* rustc -Vv says; xcrun, from tool names to paths; developer_dir and      *)
(* sdk_path, what the commands of Xcode find; plugins, from the paths of   *)
(* libraries to their manifests.  A ccl table is a function of its fields; *)
(* a value of the wrong type is Invalid.                                   *)
(***************************************************************************)
EXTENDS CbsWire

Existing(machine, path) == path \in DOMAIN machine.files
IsAbsolute(path) == StartsWith(path, "/")
IsBare(path) == Positions(path, "/") = {}
Join(dir, path) == IF IsAbsolute(path) THEN path ELSE IF dir = "" THEN path ELSE dir \o "/" \o path
RootRelative(root, path) == IF IsAbsolute(path) \/ IsBare(path) THEN path ELSE Join(root, path)

\* What a list of results amounts to: the first error, or what they hold.
FirstError(results) == \E i \in DOMAIN results : results[i] = Invalid
AllOf(results) == IF FirstError(results) THEN Invalid ELSE results

-----------------------------------------------------------------------------
(* Fingerprints.                                                           *)

DeclaredToolFingerprint(machine, kind, path, expected) ==
  LET actual == Lookup(machine.files, path) IN
  IF expected # None /\ actual # expected THEN Invalid
  ELSE <<kind, path, Or(actual, Or(expected, "unverified"))>>

MacosXcodeFingerprint(machine, developer_dir, sdk_path) ==
  LET header == sdk_path \o "/usr/include/TargetConditionals.h" IN
  IF \A path \in {developer_dir, sdk_path, header,
                  developer_dir \o "/Toolchains/XcodeDefault.xctoolchain/usr/bin/clang"} :
       Existing(machine, path)
  THEN <<"macos_xcode", developer_dir, sdk_path, machine.files[header]>>
  ELSE Invalid

DetectXcodeDeveloperDir(machine) ==
  Or(machine.developer_dir, "/Applications/Xcode.app/Contents/Developer")
DetectMacosSdkPath(machine) ==
  Or(machine.sdk_path, "/Library/Developer/CommandLineTools/SDKs/MacOSX.sdk")

CurrentRustHostTriple(machine) ==
  machine.arch \o (CASE machine.os = "macos" -> "-apple-darwin"
                     [] machine.os = "linux" -> "-unknown-linux-gnu"
                     [] OTHER -> "-unknown-" \o machine.os)

-----------------------------------------------------------------------------
(* The tools of the workspace.                                             *)

ValidRustToolchain(machine, rustc, version, host) ==
  LET says == Lookup(machine.rustc, rustc) IN
  says # None /\ version \in {None, says.release} /\ host \in {None, says.host}

RustToolchainRoot(machine, root, toolchain) ==
  LET path == Lookup(toolchain, "root")
      env  == IF "root_env" \in DOMAIN toolchain THEN Lookup(machine.env, toolchain.root_env)
              ELSE None
  IN  IF path # None THEN RootRelative(root, path)
      ELSE IF env # None THEN env
      ELSE IF Or(Lookup(toolchain, "provider"), "rustup") = "rustup" THEN Or(machine.rustup, Invalid)
      ELSE Invalid

\* The dist entry of the host, if there is a table of them, must have its hash.
DistHash(toolchain, host) ==
  LET entry == Lookup(toolchain.dist, Replace(host, {"-", "."}, "_")) IN
  IF "dist" \notin DOMAIN toolchain THEN "unspecified"
  ELSE IF entry = None THEN Invalid
  ELSE Or(Lookup(entry, "sha256"), Or(Lookup(entry, "hash"), Invalid))

RustToolchainTool(machine, name, path, metadata) ==
  [name |-> name, kind |-> "rust_toolchain", path |-> path,
   fingerprint |-> <<DeclaredToolFingerprint(machine, "rust_toolchain", path, None), metadata>>]
RustToolchainAt(machine, sysroot, toolchain, host, hash) ==
  LET version == Lookup(toolchain, "version")
      Path(name) == sysroot \o "/bin/" \o name
      Tool(name) == RustToolchainTool(machine, name, Path(name),
                                      <<Or(version, "unspecified"), host, hash>>)
  IN  IF \/ sysroot = Invalid
         \/ ~Existing(machine, Path("rustc")) \/ ~Existing(machine, Path("cargo"))
         \/ ~ValidRustToolchain(machine, Path("rustc"), version, Lookup(toolchain, "host"))
         \/ hash = Invalid
      THEN Invalid
      ELSE <<Tool("rustc"), Tool("cargo")>>
RustToolchainTools(machine, root, toolchain) ==
  LET host == Or(Lookup(toolchain, "host"), CurrentRustHostTriple(machine))
  IN  RustToolchainAt(machine, RustToolchainRoot(machine, root, toolchain), toolchain, host,
                      DistHash(toolchain, host))

\* Programs of the host are not searched for.
DeclaredToolPath(machine, root, tool) ==
  LET xcode == Or(Lookup(tool, "xcode_tool"), Lookup(tool, "tool")) IN
  IF "path" \in DOMAIN tool THEN RootRelative(root, tool.path)
  ELSE IF xcode # None /\ machine.os = "macos" THEN Or(Lookup(machine.xcrun, xcode), Invalid)
  ELSE Invalid

ToolKind(tool) == Or(Lookup(tool, "_type"), Lookup(tool, "type"))

XcodeToolAt(name, path, fingerprint) ==
  IF path = Invalid \/ fingerprint = Invalid THEN Invalid
  ELSE <<[name |-> name, kind |-> "xcode_tool", path |-> path, fingerprint |-> fingerprint]>>
XcodeTool(machine, root, name, tool) ==
  LET path == DeclaredToolPath(machine, root, tool)
  IN  XcodeToolAt(name, path,
                  DeclaredToolFingerprint(machine, "xcode_tool", path, Lookup(tool, "sha256")))

AddWorkspaceTool(machine, root, name, tool) ==
  IF tool = Invalid THEN Invalid
  ELSE CASE ToolKind(tool) = "rust_toolchain" -> RustToolchainTools(machine, root, tool)
         [] ToolKind(tool) = "xcode_tool" -> XcodeTool(machine, root, name, tool)
         [] OTHER -> Invalid

ToolKeys == {"_type", "type", "path", "program", "xcode_tool", "tool", "root", "provider"}
Declares(table, keys) == DOMAIN table \cap keys # {}

\* Tools may be declared under the name of an operating system.
\* The declarations as they are met: pairs of a name and a table.
Entry(tools, name) == <<name, tools[name]>>
InOrder(tools, names) == [i \in DOMAIN names |-> Entry(tools, names[i])]
Declarations(tools) == InOrder(tools, Sorted(DOMAIN tools))
Scoped(machine, entry) ==
  entry[1] = machine.os /\ entry[2] # Invalid /\ ~Declares(entry[2], ToolKeys)
Unscoped(machine, entries) ==
  FlattenSeq([i \in DOMAIN entries |-> IF Scoped(machine, entries[i]) THEN Declarations(entries[i][2])
                                       ELSE <<entries[i]>>])
AddWorkspaceTools(machine, root, entries) ==
  [i \in DOMAIN entries |-> AddWorkspaceTool(machine, root, entries[i][1], entries[i][2])]
WorkspaceTools(machine, root, tools) ==
  AddWorkspaceTools(machine, root, Unscoped(machine, Declarations(tools)))

\* A tool is declared once, whoever declares it.
InsertWorkspaceTools(tools) ==
  LET names == {tools[i].name : i \in DOMAIN tools} IN
  IF Cardinality(names) < Len(tools) THEN Invalid
  ELSE [name \in names |-> tools[CHOOSE i \in DOMAIN tools : tools[i].name = name]]

-----------------------------------------------------------------------------
(* Requirements on the platform: what they say is part of the fingerprint. *)

RequirementKeys == {"_type", "type", "platform", "path", "program", "xcode_tool", "tool"}

Within(scope, entries) == [i \in DOMAIN entries |-> <<scope>> \o entries[i]]
ActiveOf(machine, entry) ==
  IF entry[2] = Invalid THEN <<Invalid>>
  ELSE IF entry[1] = machine.os THEN Within(entry[1], Declarations(entry[2]))
  ELSE IF Declares(entry[2], RequirementKeys) THEN Within(None, <<entry>>) ELSE <<>>
ActiveAmong(machine, entries) == FlattenSeq([i \in DOMAIN entries |-> ActiveOf(machine, entries[i])])
ActiveRequirements(machine, requirements) == ActiveAmong(machine, Declarations(requirements))

RequiresMacosSdk(machine, requirement) ==
  machine.os = "macos" /\ ("xcode_tool" \in DOMAIN requirement \/ Lookup(requirement, "sdk") = "macos")

\* None when the requirement is of another platform.
PlatformRequirementFingerprint(machine, root, scope, name, requirement) ==
  LET kind == ToolKind(requirement)
      platform == Or(Lookup(requirement, "platform"), IF kind = "xcode_tool" THEN "macos" ELSE "")
      path == DeclaredToolPath(machine, root, requirement)
      tool == DeclaredToolFingerprint(machine, kind, path, Lookup(requirement, "sha256"))
      Dir(key, otherwise) ==
        IF key \in DOMAIN requirement THEN Join(root, requirement[key]) ELSE otherwise
      xcode == MacosXcodeFingerprint(machine,
                 Dir("developer_dir", DetectXcodeDeveloperDir(machine)),
                 Dir("sdk_path", DetectMacosSdkPath(machine)))
      sdk == IF RequiresMacosSdk(machine, requirement) THEN xcode ELSE <<>>
  IN  IF kind = None THEN Invalid
      ELSE IF platform \notin {"", machine.os} THEN None
      ELSE IF kind # "xcode_tool" \/ path = Invalid \/ tool = Invalid \/ sdk = Invalid THEN Invalid
      ELSE <<<<"platform_requirement", scope, name>>, <<tool, sdk>>>>

RequirementFingerprint(machine, root, a) ==
  IF a = Invalid THEN Invalid
  ELSE IF a[3] = Invalid THEN Invalid
  ELSE PlatformRequirementFingerprint(machine, root, a[1], a[2], a[3])
RequirementFingerprints(machine, root, active) ==
  AllOf(SelectSeq([i \in DOMAIN active |-> RequirementFingerprint(machine, root, active[i])],
                  LAMBDA f : f # None))
PlatformRequirementFingerprints(machine, root, requirements) ==
  RequirementFingerprints(machine, root, ActiveRequirements(machine, requirements))

-----------------------------------------------------------------------------
(* target_config: what the outputs are for, from the target table and the  *)
(* defaults of the machine.                                                *)

ConfigKeyToSdk ==
  [TargetFamily |-> 1, TargetEnv |-> 2, TargetOS |-> 3, TargetArch |-> 4, TargetVendor |-> 5,
   TargetEndian |-> 6, MacosDeveloperDir |-> 7, MacosSdkPath |-> 8]

TargetConfig(machine, target) ==
  LET os == Or(Lookup(target, "os"), machine.os)
      vendor == IF os \in {"macos", "ios", "tvos", "visionos", "watchos"} THEN "apple"
                ELSE IF os = "windows" THEN "pc" ELSE "unknown"
      env == IF os = "linux" THEN "gnu" ELSE IF os = "windows" THEN "msvc" ELSE ""
      common == [TargetFamily |-> Or(Lookup(target, "family"), "unix"), TargetOS |-> os,
                 TargetEnv |-> Or(Lookup(target, "env"), env),
                 TargetArch |-> Or(Lookup(target, "arch"), machine.arch),
                 TargetVendor |-> Or(Lookup(target, "vendor"), vendor),
                 TargetEndian |-> Or(Lookup(target, "endian"), "little")]
  IN  IF os # "macos" THEN common
      ELSE common @@ [MacosDeveloperDir |-> DetectXcodeDeveloperDir(machine),
                      MacosSdkPath |-> DetectMacosSdkPath(machine)]

ToSdkKeys(config) ==
  [n \in {ConfigKeyToSdk[key] : key \in DOMAIN config} |->
     config[CHOOSE key \in DOMAIN config : ConfigKeyToSdk[key] = n]]

-----------------------------------------------------------------------------
(* The initialisation of a plugin: its own tools and fingerprints.         *)

RustDist == [v |-> "1.91.1", hosts |-> {"aarch64-apple-darwin", "x86_64-unknown-linux-gnu"}]

ToolRequirement(machine, name, kind, path, metadata) ==
  IF path = None \/ ~Existing(machine, Or(path, "")) THEN Invalid
  ELSE [name |-> name, kind |-> kind, path |-> path,
        fingerprint |-> <<kind, path, machine.files[path], metadata>>]

RustTools(machine, metadata) ==
  LET Rust(name) == ToolRequirement(machine, name, "rust_toolchain",
                                    machine.rustup \o "/bin/" \o name, metadata)
  IN  <<Rust("rustc"), Rust("cargo")>>
XcodeTools(machine) ==
  LET Xcode(name, path) == ToolRequirement(machine, name, "xcode_tool", path, "xcode-tool")
  IN  <<Xcode("cc", Lookup(machine.xcrun, "cc")), Xcode("ar", Lookup(machine.xcrun, "ar")),
        Xcode("xcrun", "/usr/bin/xcrun")>>
XcodeOf(machine, target_config) ==
  <<<<"platform_requirement:macos:xcode",
      MacosXcodeFingerprint(machine, Or(Lookup(target_config, 7), DetectXcodeDeveloperDir(machine)),
                            Or(Lookup(target_config, 8), DetectMacosSdkPath(machine)))>>>>
Initialized(tools, fingerprints) ==
  IF FirstError(tools) \/ (\E i \in DOMAIN fingerprints : fingerprints[i][2] = Invalid)
  THEN Failure("initialize") ELSE Success([tools |-> tools, fingerprints |-> fingerprints])
InitializeRustPlugin(machine, request) ==
  LET version == Or(Lookup(request.parameters, "rust_version"), "1.91.1")
      host == CurrentRustHostTriple(machine)
      macos == Lookup(request.target_config, 3) = "macos"
  IN  IF \/ version # RustDist.v \/ host \notin RustDist.hosts
         \/ machine.rustup = None
         \/ ~ValidRustToolchain(machine, machine.rustup \o "/bin/rustc", version, host)
      THEN Failure("initialize")
      ELSE Initialized(RustTools(machine, <<version, host>>)
                         \o (IF macos THEN XcodeTools(machine) ELSE <<>>),
                       IF macos THEN XcodeOf(machine, request.target_config) ELSE <<>>)

\* rust_initialize, and what a plugin that has nothing to declare answers.
InitializePlugin(machine, name, request) ==
  IF name # "rust" THEN Success([tools |-> <<>>, fingerprints |-> <<>>])
  ELSE IF request = Invalid THEN Failure("decode")
  ELSE InitializeRustPlugin(machine, request)
Initialize(machine, name, words) ==
  EncodeInitResponse(InitializePlugin(machine, name, DecodeInitRequest(words)))

\* The library behind a plugin of the workspace must have the plugin's name.
LoadedAs(plugin, manifest) ==
  IF manifest.name # plugin.name THEN Invalid ELSE [path |-> plugin.path, manifest |-> manifest]
LoadWorkspacePlugin(machine, plugin) ==
  LET manifest == Lookup(machine.plugins, plugin.path) IN
  IF manifest = None THEN Invalid
  ELSE LoadedAs(plugin, Decode("PluginManifest", Encode("PluginManifest", manifest)))

PluginTools(response) == IF response.tag = "Failure" THEN Invalid ELSE response.value
InitializeWith(machine, plugin, request) ==
  IF LoadWorkspacePlugin(machine, plugin) = Invalid THEN Invalid
  ELSE PluginTools(DecodeInitResponse(Initialize(machine, plugin.name, EncodeInitRequest(request))))
PluginWorkspaceTools(machine, root, cache_dir, target_config, plugins) ==
  AllOf([i \in DOMAIN plugins |->
           InitializeWith(machine, plugins[i],
             [name |-> plugins[i].name, workspace_root |-> root, cache_dir |-> cache_dir,
              target_config |-> ToSdkKeys(target_config), parameters |-> plugins[i].parameters])])

-----------------------------------------------------------------------------
WorkspacePlugins(root, plugins) ==
  [i \in DOMAIN plugins |->
     [name |-> plugins[i].name, path |-> Join(root, plugins[i].path),
      parameters |-> Or(Lookup(plugins[i], "parameters"), <<>>)]]

\* The tools of the workspace and of its plugins, and the fingerprints of all
\* that the outputs depend on beside the sources.
WithTools(config, tools, rustc, root, fingerprints) ==
  IF tools = Invalid THEN Invalid
  ELSE config @@ [tools |-> tools,
                  rustc |-> IF rustc \in DOMAIN tools THEN tools[rustc].path
                            ELSE RootRelative(root, rustc),
                  fingerprints |-> fingerprints \cup
                    {<<name, tools[name].fingerprint>> : name \in DOMAIN tools}]
WithDeclared(config, rustc, root, declared, platform, inits) ==
  IF FirstError(declared) \/ platform = Invalid \/ inits = Invalid THEN Invalid
  ELSE WithTools(config,
         InsertWorkspaceTools(FlattenSeq(declared)
                              \o FlattenSeq([i \in DOMAIN inits |-> inits[i].tools])),
         rustc, root,
         {platform[i] : i \in DOMAIN platform}
         \cup UNION {ToSet(inits[i].fingerprints) : i \in DOMAIN inits})
LoadWorkspaceConfig(machine, root, table) ==
  LET cache_dir == Join(root, Or(Lookup(table, "cache_dir"), ".cbs/cache"))
      target_config == TargetConfig(machine, Or(Lookup(table, "target"), <<>>))
      plugins == WorkspacePlugins(root, Or(Lookup(table, "plugins"), <<>>))
      rustc == Or(Lookup(table, "rustc"), Or(Lookup(machine.env, "RUSTC"), "rustc"))
  IN  WithDeclared([cache_dir |-> cache_dir, target_config |-> target_config, plugins |-> plugins],
                   rustc, root,
                   WorkspaceTools(machine, root, Or(Lookup(table, "tools"), <<>>)),
                   PlatformRequirementFingerprints(machine, root,
                     Or(Lookup(table, "platform_requirements"), <<>>)),
                   PluginWorkspaceTools(machine, root, cache_dir, target_config, plugins))
=============================================================================
