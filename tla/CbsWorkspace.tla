----------------------------- MODULE CbsWorkspace -----------------------------
(***************************************************************************)
(* Labels, target patterns and the rules of BUILD.ccl files                *)
(* (src/util/cbs/workspace.rs, config_file.rs, plugin_abi.rs).             *)
(*                                                                         *)
(* A workspace is a record: root; dirs, the directories under it, as paths *)
(* relative to it; builds, from the directories with a BUILD.ccl to what   *)
(* it evaluates to, a function from names to tables (Invalid if it cannot  *)
(* be evaluated); table, its WORKSPACE.ccl.                                *)
(***************************************************************************)
EXTENDS CbsToolchain

Parts(path) == SelectSeq(Split(path, "/"), LAMBDA part : part \notin {"", "."})
PathOf(parts) == Joined([i \in DOMAIN parts |-> (IF i = 1 THEN "" ELSE "/") \o parts[i]])
Dir(path) == PathOf(Parts(path))
Escapes(path) == ".." \in ToSet(Split(path, "/"))
BaseName(dir) == Last(Split(dir, "/"))

-----------------------------------------------------------------------------
(* Labels: //package:name, or :name in the current package.                *)

SplitLabel(value, split, current) ==
  IF StartsWith(value, "//") /\ split # None
  THEN [package |-> After(split[1], 2), name |-> split[2]]
  ELSE IF StartsWith(value, ":") THEN [package |-> current, name |-> After(value, 1)]
  ELSE Invalid
CheckedLabel(label) ==
  IF label = Invalid THEN Invalid
  ELSE IF label.name = "" \/ Escapes(label.package) \/ StartsWith(label.package, "/") THEN Invalid
  ELSE [package |-> Trim(label.package, "/"), name |-> label.name]
ParseLabel(value, current) == CheckedLabel(SplitLabel(value, SplitOnce(value, ":"), current))

CanonicalLabel(label) ==
  IF label = Invalid THEN Invalid ELSE "//" \o label.package \o ":" \o label.name
Canonical(value, current) == CanonicalLabel(ParseLabel(value, current))

ParseLabelOrExternal(value, current) ==
  IF StartsWith(value, "//") \/ StartsWith(value, ":") THEN Canonical(value, current) ELSE value

\* //package/... or //...: the package, None for another pattern.
RecursivePackagePattern(value) ==
  LET package == IF value = "//..." THEN ""
                 ELSE IF StartsWith(value, "//") /\ EndsWith(value, "/...") /\ Len(value) >= 6
                 THEN SubSeq(value, 3, Len(value) - 4) ELSE None
  IN  IF package = None THEN None
      ELSE IF Positions(package, ":") # {} \/ Escapes(package) \/ StartsWith(package, "/") THEN Invalid
      ELSE Trim(package, "/")

-----------------------------------------------------------------------------
(* Targets in the tables.                                                  *)

\* The targets of a BUILD.ccl by their kinds; every binding without an
\* underscore is a target, and has its name.
WithNames(bindings, names) == [i \in DOMAIN names |-> ("name" :> names[i]) @@ bindings[names[i]]]
ByKinds(bindings, names) ==
  [kind \in {bindings[name]["_type"] : name \in names} |->
     WithNames(bindings, Sorted({name \in names : bindings[name]["_type"] = kind}))]
NormalizeBuildTable(bindings) ==
  LET names == {name \in DOMAIN bindings : ~StartsWith(name, "_")} IN
  IF bindings = Invalid THEN Invalid
  ELSE IF \E name \in names : bindings[name] = Invalid THEN Invalid
  ELSE IF \E name \in names : Lookup(bindings[name], "_type") \in {None, Invalid} THEN Invalid
  ELSE ByKinds(bindings, names)
BuildTable(ws, dir) ==
  IF dir \in DOMAIN ws.builds THEN NormalizeBuildTable(ws.builds[dir]) ELSE None

FindNamedTarget(table, kind, name) ==
  IF table = Invalid THEN Invalid
  ELSE IF kind \notin DOMAIN table THEN None
  ELSE LET hits == {i \in DOMAIN table[kind] : table[kind][i].name = name}
       IN  IF hits = {} THEN None ELSE table[kind][Min(hits)]

\* The labels of the targets of some kinds in the packages below a directory;
\* hidden directories are left out.
Hidden(parts) == \E i \in DOMAIN parts : StartsWith(parts[i], ".")
\* Mutant: a directory whose name only begins like the package is below it.
BelowByPrefix(dir, top) == StartsWith(dir, top) /\ ~Hidden(Parts(After(dir, Len(top))))
Below(dir, top) ==
  \/ dir = top
  \/ (top = "" \/ StartsWith(dir, top \o "/")) /\ ~Hidden(Parts(After(dir, Len(top))))
LabelsIn(table, package, kinds) ==
  UNION {{CanonicalLabel([package |-> package, name |-> target.name]) : target \in ToSet(table[kind])} :
           kind \in kinds \cap DOMAIN table}
LabelsOf(tables, package, top, kinds) ==
  IF \E dir \in DOMAIN tables : tables[dir] = Invalid THEN Invalid
  ELSE Sorted(UNION {LabelsIn(tables[dir], package \o After(dir, Len(top)), ToSet(kinds)) :
                       dir \in DOMAIN tables})
CollectPackageTargets(ws, package, kinds) ==
  LET top == Dir(package)
  IN  LabelsOf([dir \in {d \in ws.dirs \cap DOMAIN ws.builds : Below(d, top)} |-> BuildTable(ws, dir)],
               package, top, kinds)

-----------------------------------------------------------------------------
(* Patterns of the command line.                                           *)

RuleKinds(plugins) == Sorted(UNION {ToSet(plugins[i].manifest.rule_kinds) : i \in DOMAIN plugins})
TestRuleKinds(plugins) ==
  Sorted(UNION {ToSet(plugins[i].manifest.test_rule_kinds) : i \in DOMAIN plugins})

SomeLabels(labels) == IF labels \in {Invalid, <<>>} THEN Invalid ELSE labels
ExpandPackage(ws, package, kinds) ==
  IF package = Invalid THEN Invalid
  ELSE IF Dir(package) \notin ws.dirs THEN Invalid ELSE CollectPackageTargets(ws, package, kinds)
ExpandRecursivePackage(ws, package, kinds) == SomeLabels(ExpandPackage(ws, package, kinds))

SingleTarget(label) == IF label = Invalid THEN Invalid ELSE <<label>>
ExpandTargetPattern(ws, current, plugins, target) ==
  LET package == RecursivePackagePattern(target)
  IN  IF package = None THEN SingleTarget(Canonical(target, current))
      ELSE ExpandRecursivePackage(ws, package, RuleKinds(plugins))

\* The first kind, by name, that has the target; None if it is not found.
LabelRuleKind(table, kinds, name) ==
  LET hits == {i \in DOMAIN kinds : FindNamedTarget(table, kinds[i], name) # None}
  IN  IF table = None \/ hits = {} THEN None
      ELSE IF FindNamedTarget(table, kinds[Min(hits)], name) = Invalid THEN Invalid
      ELSE kinds[Min(hits)]

\* A single target that is no test is left out; an unknown one is an error.
SingleTest(kind, tests, label) ==
  IF kind \in {None, Invalid} THEN Invalid
  ELSE IF kind \in ToSet(tests) THEN <<CanonicalLabel(label)>> ELSE <<>>
TestLabel(ws, plugins, label) ==
  IF label = Invalid THEN Invalid
  ELSE SingleTest(LabelRuleKind(BuildTable(ws, Dir(label.package)), RuleKinds(plugins), label.name),
                  TestRuleKinds(plugins), label)
ExpandTestPattern(ws, current, plugins, target) ==
  LET package == RecursivePackagePattern(target)
  IN  IF package = None THEN TestLabel(ws, plugins, ParseLabel(target, current))
      ELSE ExpandPackage(ws, package, TestRuleKinds(plugins))

Expanded(results) == IF FirstError(results) THEN Invalid ELSE Distinct(FlattenSeq(results))
ExpandTargetPatterns(ws, current, plugins, patterns) ==
  Expanded([i \in DOMAIN patterns |-> ExpandTargetPattern(ws, current, plugins, patterns[i])])
ExpandTestPatterns(ws, current, plugins, patterns) ==
  Expanded([i \in DOMAIN patterns |-> ExpandTestPattern(ws, current, plugins, patterns[i])])

-----------------------------------------------------------------------------
(* A rule of a BUILD.ccl and what is asked of its plugin.                  *)

PackagePath(ws, dir, path) ==
  IF StartsWith(path, "/") \/ Escapes(path) THEN Invalid
  ELSE Join(Join(ws.root, dir), Dir(path))

StringList(table, key) == Or(Lookup(table, key), <<>>)
OnEach(list, Op(_)) ==
  IF list = Invalid THEN Invalid ELSE AllOf([i \in DOMAIN list |-> Op(list[i])])

SourcePaths(ws, dir, target) == OnEach(StringList(target, "srcs"), LAMBDA src : PackagePath(ws, dir, src))
LabelList(package, target) == OnEach(StringList(target, "deps"), LAMBDA dep : Canonical(dep, package))

RequirementAt(dep, target) ==
  IF Lookup(dep, "features") = Invalid \/ target = Invalid THEN Invalid
  ELSE [ecosystem |-> "cargo", package |-> dep.package, version |-> dep.version,
        features |-> StringList(dep, "features"),
        default_features |-> Or(Lookup(dep, "default_features"),
                                Or(Lookup(dep, "default-features"), TRUE)),
        target |-> target]
CargoRequirement(package, dep) ==
  IF dep = Invalid THEN Invalid
  ELSE IF {Lookup(dep, "package"), Lookup(dep, "version")} \cap {None, Invalid} # {} THEN Invalid
  ELSE RequirementAt(dep, IF "target" \in DOMAIN dep THEN ParseLabelOrExternal(dep.target, package)
                          ELSE "cargo://" \o dep.package)
CargoRequirements(package, target) ==
  OnEach(StringList(target, "cargo_deps"), LAMBDA dep : CargoRequirement(package, dep))

\* The fields of a target that hold a string; the name is one of them.
StringFields(target) ==
  Restrict(target, {key \in DOMAIN target \ {"srcs", "deps", "cargo_deps"} : target[key] # Invalid})
AllLabels(labels) == IF \E field \in DOMAIN labels : labels[field] = Invalid THEN Invalid ELSE labels
LabelFields(package, target, fields) ==
  AllLabels([field \in ToSet(fields) \cap DOMAIN StringFields(target) |->
               Canonical(target[field], package)])

WhenValid(request) ==
  IF Invalid \in {request.sources, request.dependencies, request.cargo_requirements, request.label_fields}
  THEN Invalid ELSE request
ParseRuleRequest(ws, plugin, kind, package, target) ==
  LET dir == Dir(package) IN
  WhenValid([workspace_root |-> ws.root, package |-> package, package_dir |-> Join(ws.root, dir),
             kind |-> kind, name |-> target.name, sources |-> SourcePaths(ws, dir, target),
             dependencies |-> LabelList(package, target),
             cargo_requirements |-> CargoRequirements(package, target),
             string_fields |-> StringFields(target),
             label_fields |-> LabelFields(package, target, plugin.manifest.label_fields)])

\* WorkspaceResolver: the first plugin and the first of its kinds that has a
\* target of that name; what its plugin is asked, and which plugin.
CanResolveRule(target) == StartsWith(target, "//") \/ StartsWith(target, ":")

PluginKinds(plugins) ==
  FlattenSeq([i \in DOMAIN plugins |->
    [k \in DOMAIN plugins[i].manifest.rule_kinds |-> <<plugins[i], plugins[i].manifest.rule_kinds[k]>>]])
AskedOf(plugin, request) ==
  IF request = Invalid THEN Invalid ELSE [plugin |-> plugin.manifest.name, request |-> request]
RuleOf(ws, label, plugin, kind, target) ==
  IF target = Invalid THEN Invalid
  ELSE AskedOf(plugin, ParseRuleRequest(ws, plugin, kind, label.package, target))
RuleAmong(ws, label, table, kinds, hits) ==
  IF table = None \/ hits = {} THEN Invalid
  ELSE LET first == kinds[Min(hits)]
       IN  RuleOf(ws, label, first[1], first[2], FindNamedTarget(table, first[2], label.name))
RuleIn(ws, label, table, kinds) ==
  RuleAmong(ws, label, table, kinds,
            {i \in DOMAIN kinds : FindNamedTarget(table, kinds[i][2], label.name) # None})
RuleAt(ws, label, plugins) ==
  IF label = Invalid THEN Invalid
  ELSE RuleIn(ws, label, BuildTable(ws, Dir(label.package)), PluginKinds(plugins))
FindRule(ws, current, plugins, target) == RuleAt(ws, ParseLabel(target, current), plugins)

-----------------------------------------------------------------------------
(* Where a command runs: the workspace around the current directory and    *)
(* the innermost package in it.                                            *)

Ancestors(path) ==
  {""} \cup {SubSeq(path, 1, i - 1) : i \in Positions(path, "/")} \cup {path}
FindWorkspaceRoot(roots, cwd) ==
  LET above == Ancestors(cwd) \cap roots
  IN  IF above = {} THEN Invalid ELSE CHOOSE dir \in above : \A other \in above : Len(other) <= Len(dir)
PackageForCwd(ws, dir) ==
  LET packages == {""} \cup (Ancestors(dir) \cap DOMAIN ws.builds)
  IN  CHOOSE package \in packages : \A other \in packages : Len(other) <= Len(package)

\* The executor's own targets: the compiler, and the libraries of the plugins;
\* a plugin of the workspace replaces the library that is assumed otherwise.
EmptyConfig ==
  [dependencies |-> <<>>, external_requirements |-> <<>>, build_plugin |-> "", location |-> None,
   sources |-> <<>>, build_dependencies |-> <<>>, kind |-> "", extras |-> <<>>]
AtLocation(path) == [EmptyConfig EXCEPT !.build_plugin = "@filesystem", !.location = path]

ToolConfigs(config, plugins) ==
  LET named == {i \in DOMAIN plugins : plugins[i].manifest.build_plugins # <<>>}
      Of(target) == {i \in named : target \in ToSet(plugins[i].manifest.build_plugins)}
  IN  [target \in UNION {ToSet(plugins[i].manifest.build_plugins) : i \in named} |->
         AtLocation(plugins[Max(Of(target))].path)]
      @@ [target \in {"@rust_compiler", "@rust_plugin"} |->
            AtLocation(IF target = "@rust_compiler" THEN config.rustc ELSE "/tmp/rust.cdylib")]
=============================================================================
