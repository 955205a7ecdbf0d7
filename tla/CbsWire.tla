------------------------------- MODULE CbsWire -------------------------------
(***************************************************************************)
(* The messages between cbs and its plugins (src/util/cbs_plugin_sdk).     *)
(* The vtable of a plugin takes and returns bytes.  A table of flatbuffers *)
(* is a function from its slots to what is stored there; a value that      *)
(* equals the default of its slot, or is None, is not stored.  How         *)
(* flatbuffers lays tables out as bytes is external.  The messages of the  *)
(* initialisation have a format of their own: numbers and strings, one     *)
(* after the other.                                                        *)
(***************************************************************************)
EXTENDS CbsText

CONSTANT Invalid   \* an io::Error

Success(value) == [tag |-> "Success", value |-> value]
Failure(error) == [tag |-> "Failure", error |-> error]
Delegate(config) == [tag |-> "Delegate", config |-> config]

-----------------------------------------------------------------------------
(* The tables: the fields in the order of their slots, and what they hold. *)

ExtraFields == <<<<"key", "number">>, <<"values", "texts">>>>
StringFieldFields == <<<<"key", "text">>, <<"value", "text">>>>
EdgeSetFields == <<<<"key", "text">>, <<"value", "fields">>>>
DependencyOutputFields == <<<<"key", "text">>, <<"value", "BuildOutput">>>>

PluginManifestFields ==
  <<<<"name", "text">>, <<"rule_kinds", "texts">>, <<"build_plugins", "texts">>,
    <<"label_fields", "texts">>, <<"test_rule_kinds", "texts">>,
    <<"dependency_ecosystems", "texts">>, <<"target_prefixes", "texts">>>>

ExternalRequirementFields ==
  <<<<"ecosystem", "text">>, <<"package", "text">>, <<"version", "text">>,
    <<"features", "texts">>, <<"default_features", "flag">>, <<"target", "option">>>>

ConfigFields ==
  <<<<"dependencies", "texts">>, <<"external_requirements", "requirements">>,
    <<"build_plugin", "text">>, <<"location", "option">>, <<"sources", "texts">>,
    <<"build_dependencies", "texts">>, <<"kind", "text">>, <<"extras", "extras">>>>

BuildOutputFields == <<<<"outputs", "texts">>, <<"extras", "extras">>>>

PluginContextFields ==
  <<<<"cache_dir", "text">>, <<"context_hash", "number">>, <<"target_config", "singles">>,
    <<"lockfile", "fields">>, <<"locked_dependencies", "edges">>, <<"tool_paths", "fields">>>>

DependencyPlanFields == <<<<"lockfile", "fields">>, <<"locked_dependencies", "edges">>>>

BuildRequestFields ==
  <<<<"target", "text">>, <<"config", "Config">>, <<"dependencies", "outputs">>,
    <<"working_directory", "text">>, <<"tool_paths", "fields">>, <<"target_config", "singles">>>>

ParseRuleRequestFields ==
  <<<<"workspace_root", "text">>, <<"package", "text">>, <<"package_dir", "text">>,
    <<"kind", "text">>, <<"name", "text">>, <<"sources", "texts">>, <<"dependencies", "texts">>,
    <<"cargo_requirements", "requirements">>, <<"string_fields", "fields">>,
    <<"label_fields", "fields">>>>

PlanDependenciesRequestFields ==
  <<<<"ecosystem", "text">>, <<"requirements", "requirements">>, <<"context", "PluginContext">>>>
ResolveTargetRequestFields == <<<<"target", "text">>, <<"context", "PluginContext">>>>

BuildResponseFields ==
  <<<<"success", "flag">>, <<"error", "option">>, <<"output", "BuildOutput">>,
    <<"delegate_config", "Config">>>>
ParseRuleResponseFields ==
  <<<<"success", "flag">>, <<"error", "option">>, <<"config", "Config">>>>
PlanDependenciesResponseFields ==
  <<<<"success", "flag">>, <<"error", "option">>, <<"plan", "DependencyPlan">>>>
ResolveTargetResponseFields ==
  <<<<"success", "flag">>, <<"error", "option">>, <<"config", "Config">>>>

Tables ==
  [Extra |-> ExtraFields, StringField |-> StringFieldFields, DependencyEdgeSet |-> EdgeSetFields,
   DependencyOutput |-> DependencyOutputFields, PluginManifest |-> PluginManifestFields,
   ExternalRequirement |-> ExternalRequirementFields, Config |-> ConfigFields,
   BuildOutput |-> BuildOutputFields, PluginContext |-> PluginContextFields,
   DependencyPlan |-> DependencyPlanFields, BuildRequest |-> BuildRequestFields,
   ParseRuleRequest |-> ParseRuleRequestFields,
   PlanDependenciesRequest |-> PlanDependenciesRequestFields,
   ResolveTargetRequest |-> ResolveTargetRequestFields,
   BuildResponse |-> BuildResponseFields, ParseRuleResponse |-> ParseRuleResponseFields,
   PlanDependenciesResponse |-> PlanDependenciesResponseFields,
   ResolveTargetResponse |-> ResolveTargetResponseFields]

\* Maps are vectors of tables, one for each key; a map to one string goes as
\* a map to lists of strings.
Vectors == [requirements |-> "ExternalRequirement", fields |-> "StringField", extras |-> "Extra",
            edges |-> "DependencyEdgeSet", outputs |-> "DependencyOutput", singles |-> "Extra"]
IsMap(kind) == kind \in {"fields", "extras", "edges", "outputs"}

-----------------------------------------------------------------------------
VT_FIRST == 4
Slot(i) == VT_FIRST + 2 * (i - 1)

\* Mutant: a flag that is not stored is read as true.
DefaultTrue(kind) ==
  CASE kind = "text" -> ""
    [] kind = "number" -> 0
    [] kind = "flag" -> TRUE
    [] kind \in {"texts", "requirements"} \/ IsMap(kind) -> <<>>
    [] OTHER -> None

\* What is read where nothing is stored.
Default(kind) ==
  CASE kind = "text" -> ""
    [] kind = "number" -> 0
    [] kind = "flag" -> FALSE
    [] kind \in {"texts", "requirements"} -> <<>>
    [] IsMap(kind) -> <<>>
    [] OTHER -> None

\* What is not stored: the writers name the defaults again.
Defaulted(kind, value) ==
  CASE kind = "number" -> value = 0
    [] kind = "flag" -> value = FALSE
    [] kind \in DOMAIN Vectors \cup {"text", "texts", "singles"} -> FALSE
    [] OTHER -> value = None

\* The entries of a map, in the order of their keys.
Entries(kind, map) ==
  LET keys == Listed(DOMAIN map) IN
  [i \in DOMAIN keys |-> [key |-> keys[i]] @@
     (IF kind = "extras" THEN [values |-> map[keys[i]]] ELSE [value |-> map[keys[i]]])]
Singles(map) == [key \in DOMAIN map |-> <<map[key]>>]

RECURSIVE Create(_, _)
CreateAll(table, messages) == [i \in DOMAIN messages |-> Create(table, messages[i])]
Write(kind, value) ==
  IF kind \in DOMAIN Vectors
  THEN CreateAll(Vectors[kind],
         IF kind = "singles" THEN Entries("extras", Singles(value))
         ELSE IF IsMap(kind) THEN Entries(kind, value) ELSE value)
  ELSE IF kind \in DOMAIN Tables THEN Create(kind, value) ELSE value

\* fbb.start_table, a push of every field and fbb.end_table.
CreateFields(fields, stored, message) ==
  [s \in {Slot(i) : i \in stored} |->
     LET i == CHOOSE k \in stored : Slot(k) = s IN Write(fields[i][2], message[fields[i][1]])]
Stored(fields, message) ==
  {i \in DOMAIN fields : ~Defaulted(fields[i][2], message[fields[i][1]])}
Create(table, message) ==
  CreateFields(Tables[table], Stored(Tables[table], message), message)

RECURSIVE Read(_, _)
ReadAll(table, stored) == [i \in DOMAIN stored |-> Read(table, stored[i])]
MapOf(field, entries) ==
  [key \in {entries[i].key : i \in DOMAIN entries} |->
     entries[CHOOSE i \in DOMAIN entries : entries[i].key = key][field]]
FirstsOf(lists) == [key \in {k \in DOMAIN lists : lists[k] # <<>>} |-> lists[key][1]]
ReadVector(kind, values) ==
  IF kind = "singles" THEN FirstsOf(MapOf("values", values))
  ELSE IF kind = "extras" THEN MapOf("values", values)
  ELSE IF IsMap(kind) THEN MapOf("value", values) ELSE values
ReadValue(kind, value) ==
  IF kind \in DOMAIN Vectors THEN ReadVector(kind, ReadAll(Vectors[kind], value))
  ELSE IF kind \in DOMAIN Tables THEN Read(kind, value) ELSE value

\* read_config and the like; a context loses its target on the way.
ReadField(field, slot, stored) ==
  IF slot \in DOMAIN stored THEN ReadValue(field[2], stored[slot]) ELSE Default(field[2])
ReadFields(fields, stored) ==
  [name \in {fields[i][1] : i \in DOMAIN fields} |->
     LET i == CHOOSE k \in DOMAIN fields : fields[k][1] = name
     IN  ReadField(fields[i], Slot(i), stored)]
Read(table, stored) ==
  ReadFields(Tables[table], stored)
  @@ (IF table = "PluginContext" THEN [target |-> None] ELSE <<>>)

Encode(table, message) == Create(table, message)
Decode(table, bytes) == Read(table, bytes)

-----------------------------------------------------------------------------
(* The responses are tables with one slot for each alternative.            *)

Payload(table) ==
  CASE table = "BuildResponse" -> "output"
    [] table = "PlanDependenciesResponse" -> "plan"
    [] OTHER -> "config"

EncodeResponse(table, response) ==
  LET payload == (Payload(table) :> (IF response.tag = "Success" THEN response.value ELSE None)) IN
  Create(table, payload @@
    [success |-> response.tag = "Success",
     error |-> IF response.tag = "Failure" THEN response.error ELSE None,
     delegate_config |-> IF response.tag = "Delegate" THEN response.config ELSE None])

\* A delegation comes before success; a failure without a text has an empty one.
ResponseOf(table, read) ==
  IF table = "BuildResponse" /\ Lookup(read, "delegate_config") # None
  THEN Delegate(read.delegate_config)
  ELSE IF read.success THEN Success(read[Payload(table)])
  ELSE Failure(Or(read.error, ""))
DecodeResponse(table, bytes) == ResponseOf(table, Read(table, bytes))

-----------------------------------------------------------------------------
(* The messages of the initialisation: what is written, one after the      *)
(* other; a map is its length, its keys and its values.                    *)

WriteMap(map) ==
  <<Cardinality(DOMAIN map)>>
  \o FlattenSeq([i \in DOMAIN Listed(DOMAIN map) |->
                   LET key == Listed(DOMAIN map)[i] IN <<key, map[key]>>])

EncodeInitRequest(request) ==
  <<request.name, request.workspace_root, request.cache_dir>>
  \o WriteMap(request.target_config) \o WriteMap(request.parameters)

\* BinaryReader: a map of n entries from position p on; where it ends.
ReadMapAt(words, p) ==
  [key \in {words[p + 2 * i - 1] : i \in 1 .. words[p]} |->
     words[p + 2 * (Max({i \in 1 .. words[p] : words[p + 2 * i - 1] = key}))]]
MapEnd(words, p) == p + 2 * words[p] + 1

\* Fewer words than announced are an error, and so are words that are left over.
DecodeInitRequest(words) ==
  LET parameters == MapEnd(words, 4) IN
  IF Len(words) < 4 \/ parameters > Len(words) \/ MapEnd(words, parameters) # Len(words) + 1
  THEN Invalid
  ELSE [name |-> words[1], workspace_root |-> words[2], cache_dir |-> words[3],
        target_config |-> ReadMapAt(words, 4), parameters |-> ReadMapAt(words, parameters)]

EncodeInitResponse(response) ==
  IF response.tag = "Failure" THEN <<0, response.error>>
  ELSE LET init == response.value
           Tool(t) == <<t.name, t.kind, t.path, t.fingerprint>> IN
       <<1, Len(init.tools)>> \o FlattenSeq([i \in DOMAIN init.tools |-> Tool(init.tools[i])])
       \o <<Len(init.fingerprints)>> \o FlattenSeq(init.fingerprints)

DecodeInitResponse(words) ==
  LET fingerprints == 3 + 4 * words[2]
      Tool(p) == [name |-> words[p], kind |-> words[p + 1], path |-> words[p + 2],
                  fingerprint |-> words[p + 3]]
  IN  IF words[1] = 0 /\ Len(words) = 2 THEN Failure(words[2])
      ELSE IF words[1] # 1 \/ fingerprints > Len(words)
              \/ fingerprints + 2 * words[fingerprints] # Len(words) THEN Invalid
      ELSE Success([tools |-> [i \in 1 .. words[2] |-> Tool(4 * i - 1)],
                    fingerprints |-> [i \in 1 .. words[fingerprints] |->
                      <<words[fingerprints + 2 * i - 1], words[fingerprints + 2 * i]>>]])
=============================================================================
