----------------------------- MODULE MCCbsCommand -----------------------------
(***************************************************************************)
(* Small workspaces, a small registry of crates and two machines for       *)
(* CbsCommand.                                                             *)
(***************************************************************************)
EXTENDS CbsCommand

-----------------------------------------------------------------------------
(* The registry: names, versions, features, renamed and optional           *)
(* dependencies, conditions on the platform, recipes and native code.      *)

Cfg(op, args) == [op |-> op, args |-> args]
Files == <<"src/lib.rs">>

MCRegistry ==
  (<<"serde", "1.0.228">> :>
     [name |-> "serde", version |-> "1.0.228", edition |-> "2021",
      files |-> <<"build.rs", "src/lib.rs", "src/private.rs", "src/notes.md">>,
      dependencies |-> [serde_core |-> [version |-> "=1.0.228", default_features |-> FALSE],
                        serde_derive |-> [version |-> "1.0.228", optional |-> TRUE]],
      targets |-> <<<<Cfg("any", <<>>), [serde_derive |-> [version |-> "1.0.228"]]>>>>,
      features |-> [default |-> <<"std">>, std |-> <<"serde_core/std">>,
                    derive |-> <<"serde_derive">>]])
  @@ (<<"serde_core", "1.0.228">> :>
     [name |-> "serde_core", version |-> "1.0.228", files |-> <<"build.rs", "src/lib.rs">>,
      features |-> [std |-> <<>>, alloc |-> <<>>]])
  @@ (<<"serde_derive", "1.0.228">> :>
     [name |-> "serde_derive", version |-> "1.0.228", files |-> Files, lib |-> [proc_macro |-> TRUE]])
  @@ (<<"log-facade", "0.4.1">> :>
     [name |-> "log-facade", version |-> "0.4.1", files |-> Files, lib |-> [name |-> "log"],
      features |-> [std |-> <<>>, kv |-> <<"dep:value">>, full |-> <<"kv", "value?/std">>],
      dependencies |-> [value |-> [package |-> "serde_core", version |-> "1.0.228", optional |-> TRUE]]])
  @@ (<<"net", "2.0.0">> :>
     [name |-> "net", version |-> "2.0.0", files |-> Files, build |-> "false",
      dependencies |-> [my_log |-> [package |-> "log-facade", version |-> "0.4.1", optional |-> TRUE,
                                    features |-> <<"std">>]],
      targets |-> <<<<Cfg("all", <<Cfg("unix", <<>>), Cfg("not", <<Cfg("target_os", "macos")>>)>>),
                      [libc |-> [version |-> "0.2.186"]]>>,
                    <<Cfg("windows", <<>>), [winapi |-> [version |-> "0.3.9"]]>>,
                    <<None, [winapi |-> [version |-> "0.3.9"]]>>>>,
      features |-> [default |-> <<"logs">>, logs |-> <<"my_log">>, quiet |-> <<"my_log?/kv">>]])
  @@ (<<"libc", "0.2.186">> :>
     [name |-> "libc", version |-> "0.2.186", files |-> <<"build.rs", "src/lib.rs">>,
      features |-> [default |-> <<>>]])
  @@ (<<"ring", "0.17.14">> :>
     [name |-> "ring", version |-> "0.17.14", files |-> Files, build |-> "build.rs",
      features |-> [default |-> <<"alloc">>, alloc |-> <<>>]])
  @@ (<<"tls", "1.0.0">> :>
     [name |-> "tls", version |-> "1.0.0", files |-> Files,
      dependencies |-> [ring |-> [version |-> "0.17.14"]]])
  @@ (<<"futures", "0.3.31">> :>
     [name |-> "futures", version |-> "0.3.31", files |-> Files, features |-> [std |-> <<>>]])
  @@ (<<"bytes", "0.5.6">> :> [name |-> "bytes", version |-> "0.5.6", files |-> Files])
  @@ (<<"bytes", "1.0.0">> :> [name |-> "bytes", version |-> "1.0.0", files |-> Files])
  @@ (<<"hyper", "0.13.10">> :>
     [name |-> "hyper", version |-> "0.13.10", files |-> Files,
      dependencies |-> [bytes |-> [version |-> "0.5.6"]]])

-----------------------------------------------------------------------------
(* The machines.                                                           *)

Digests(paths) == [path \in paths |-> "sha256-of-" \o path]
Library == [name |-> "other", rule_kinds |-> <<>>, test_rule_kinds |-> <<>>, build_plugins |-> <<>>,
            label_fields |-> <<>>, dependency_ecosystems |-> <<>>, target_prefixes |-> <<>>]
Machine0(os, arch, host) ==
  [os |-> os, arch |-> arch, env |-> <<>>, rustup |-> "/rust", developer_dir |-> None, sdk_path |-> None,
   rustc |-> [p \in {"/rust/bin/rustc"} |-> [release |-> "1.91.1", host |-> host]], xcrun |-> <<>>,
   plugins |-> [p \in {"/tmp/rust.cdylib", "/tmp/bus.cdylib", "/w/other.so"} |->
                  CASE p = "/tmp/rust.cdylib" -> RustManifest [] p = "/tmp/bus.cdylib" -> BusManifest
                    [] OTHER -> Library],
   files |-> Digests({"/rust/bin/rustc", "/rust/bin/cargo", "/w/app/main.rs", "/w/app/test.rs"})]

Linux == Machine0("linux", "x86_64", "x86_64-unknown-linux-gnu")
Developer == "/Applications/Xcode.app/Contents/Developer"
Sdk == "/Library/Developer/CommandLineTools/SDKs/MacOSX.sdk"
Mac ==
  LET base == Machine0("macos", "aarch64", "aarch64-apple-darwin") IN
  [base EXCEPT
     !.xcrun = [cc |-> "/xcode/cc", ar |-> "/xcode/ar"],
     !.files = Digests({"/xcode/cc", "/xcode/ar", "/usr/bin/xcrun", Developer, Sdk,
                        Sdk \o "/usr/include/TargetConditionals.h",
                        Developer \o "/Toolchains/XcodeDefault.xctoolchain/usr/bin/clang"}) @@ @]

-----------------------------------------------------------------------------
(* The workspaces.                                                         *)

RustPlugin == [name |-> "rust", path |-> "/tmp/rust.cdylib", parameters |-> [rust_version |-> "1.91.1"]]
BusPlugin == [name |-> "bus", path |-> "/tmp/bus.cdylib"]
Table == [rustc |-> "rustc", plugins |-> <<RustPlugin, BusPlugin>>]
Rule(kind, srcs, rest) == [_type |-> kind, srcs |-> srcs] @@ rest
NoMore == [x \in {} |-> x]
Needs(package, version, rest) == [package |-> package, version |-> version] @@ rest

Workspace(machine, table, builds) ==
  [root |-> "/w", machine |-> machine, table |-> table, builds |-> builds,
   dirs |-> {"", "a", "a/b", "a_b", "lib", "app", "app/.old", "application", "util", "util/bus", "util/bus/codegen"}]

\* Rules of Rust alone: recursive patterns and tests.
Plain ==
  Workspace(Linux, Table, [dir \in {"lib", "app", "app/.old", "application"} |->
    CASE dir = "lib" -> [lib |-> Rule("rust_library", <<"lib.rs">>, NoMore)]
      [] dir = "app" -> [main |-> Rule("rust_binary", <<"main.rs">>, [deps |-> <<"//lib:lib">>]),
                         main_test |-> Rule("rust_test", <<"test.rs">>,
                           [deps |-> <<"//lib:lib">>, root_source |-> "test.rs"]),
                         unit_test |-> Rule("rust_test", <<"main.rs">>, NoMore),
                         _helper |-> Invalid]
      [] OTHER -> [main |-> Rule("rust_test", <<"main.rs">>, NoMore)]])

\* Crates: features, optional and renamed dependencies, this platform only.
Crates(needs) ==
  Workspace(Linux, Table, [dir \in {"app"} |->
    [main |-> Rule("rust_binary", <<"main.rs">>, [cargo_deps |-> needs])]])
Serde == Crates(<<Needs("serde", "=1.0.228", [features |-> <<"derive">>])>>)
Net == Crates(<<Needs("net", "=2.0.0", [features |-> <<"quiet">>])>>)
NetQuiet == Crates(<<Needs("net", "=2.0.0", [features |-> <<"quiet">>, default_features |-> FALSE])>>)
Log == Crates(<<Needs("log-facade", "=0.4.1", [features |-> <<"full">>])>>)
Conflict == Crates(<<Needs("net", "=2.0.0", NoMore), Needs("net", "=1.0.0", NoMore)>>)
Unknown == Crates(<<Needs("nothing", "=1.0.0", NoMore)>>)
RingOnLinux == Crates(<<Needs("ring", "=0.17.14", NoMore)>>)
Hyper == Crates(<<Needs("hyper", "=0.13.10", NoMore), Needs("bytes", "=1.0.0", NoMore)>>)

\* Native code, on a Mac.
Native == [Crates(<<Needs("tls", "=1.0.0", NoMore)>>) EXCEPT !.machine = Mac]

\* A schema: generated by a program that is built, too, and built by the rust
\* plugin.
Schema(table) ==
  Workspace(Linux, table, [dir \in {"app", "util/bus", "util/bus/codegen"} |->
    CASE dir = "app" -> [api |-> Rule("rust_bus_library", <<"api.bus">>, NoMore),
                         main |-> Rule("rust_binary", <<"main.rs">>, [deps |-> <<":api">>])]
      [] dir = "util/bus" -> [bus |-> Rule("rust_library", <<"lib.rs">>, NoMore)]
      [] OTHER -> [codegen |-> Rule("rust_binary", <<"codegen.rs">>, NoMore)]])

\* Two targets whose names become one directory, and the libraries they use.
Twins(first, second) ==
  LET same == {"/w/a/b/c.rs", "/w/a_b/c.rs", "/w/lib/lib.rs", "/w/util/lib.rs"}
      files == [f \in same |-> "text"] @@ ("/w/app/lib.rs" :> "another text")
  IN  Workspace([Linux EXCEPT !.files = files @@ @], Table, [dir \in {"a/b", "a_b", "lib", "util", "app"} |->
        CASE dir = "a/b" -> [c |-> first] [] dir = "a_b" -> [c |-> second]
          [] OTHER -> [lib |-> Rule("rust_library", <<"lib.rs">>, NoMore)]])
Twin == Rule("rust_binary", <<"c.rs">>, [deps |-> <<"//lib:lib">>])
Others == {Twin, Twin @@ [edition |-> "2018"], [Twin EXCEPT !.deps = <<"//util:lib">>],
           [Twin EXCEPT !.deps = <<"//app:lib">>], [Twin EXCEPT !._type = "rust_test"],
           [Twin EXCEPT !.srcs = <<"c.rs", "c.rs">>]}

\* What a command cannot go on with.
NoRules == Workspace(Linux, Table, [dir \in {"app"} |-> Invalid])
NoPlugin == [Plain EXCEPT !.table = [Table EXCEPT !.plugins = <<[BusPlugin EXCEPT !.path = "/w/other.so"]>>]]
TwoRustcs == [Plain EXCEPT !.table = Table @@ ("tools" :> [r |-> [type |-> "rust_toolchain"]])]

-----------------------------------------------------------------------------
Empty == [plans |-> <<>>, fetched |-> {}]
Do(workspace, what, patterns, cwd) ==
  [ws |-> workspace, disk |-> Empty, command |-> [what |-> what, patterns |-> patterns, cwd |-> cwd]]
Main == <<"//app:main">>

MCScenarios ==
  {Do(Plain, what, patterns, "/w") : what \in {"build", "test"},
      patterns \in {<<"//...">>, <<"//app/...">>, <<"//app:unit_test", "//app:main_test">>}}
  \cup {Do(Plain, what, <<":main">>, "/w/app") : what \in {"install", "run", "test"}}
  \cup {Do(Plain, "install", <<"//lib:lib">>, "/w"), Do(Plain, "build", <<"//app:nothing">>, "/w"),
        Do(Plain, "build", <<"//app/../lib:lib">>, "/w"), Do(Plain, "build", Main, "/elsewhere"),
        Do(Plain, "install", <<"//app/...">>, "/w"), Do(Plain, "test", <<"//lib/...">>, "/w")}
  \cup {Do(w, "build", Main, "/w") : w \in {Serde, Net, NetQuiet, Log, Conflict, Unknown, RingOnLinux,
                                            Native, Schema(Table), NoRules, NoPlugin, TwoRustcs}}
  \cup {Do(Schema([Table EXCEPT !.plugins = <<BusPlugin>>]), "build", Main, "/w")}
  \cup {Do(Twins(Twin, other), "build", <<"//a/b:c", "//a_b:c">>, "/w") : other \in Others}
  \cup {[Do(Serde, "build", Main, "/w") EXCEPT !.disk.fetched = DOMAIN MCRegistry]}

\* Two versions of a crate that is required, and another crate's dependency.
TwoVersions == {Do(Hyper, "build", Main, "/w")}

=============================================================================
