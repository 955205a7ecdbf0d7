------------------------------ MODULE MCBusRpc ------------------------------
(***************************************************************************)
(* Versions of a small schema, shaped like metal.bus, for TLC.             *)
(***************************************************************************)
EXTENDS BusRpc, TLC

F(name, type, tag) == [name |-> name, type |-> type, repeated |-> FALSE, tag |-> tag]
R(name, type, tag) == [name |-> name, type |-> type, repeated |-> TRUE, tag |-> tag]
M(name, fields) == [name |-> name, fields |-> fields]
Rpc(name, stream) == [name |-> name, argument |-> "Ask", returns |-> "Tell", stream |-> stream]

Kinds(fields) == <<[name |-> "Kind", fields |-> fields]>>
K(name, tag) == [name |-> name, tag |-> tag]
Item == M("Item", <<F("n", "i16", 0), F("ok", "bool", 2)>>)
Services(name, rpcs) == <<[name |-> name, rpcs |-> rpcs]>>

First ==
  [messages |-> <<M("Ask", <<F("id", "u16", 1), F("name", "string", 2), R("items", "Item", 5)>>),
                  M("Tell", <<F("kind", "Kind", 0), R("names", "string", 1)>>), Item>>,
   enums |-> Kinds(<<K("Unknown", 0), K("Low", 1), K("High", 200)>>),
   services |-> Services("Board", <<Rpc("get", FALSE), Rpc("watch", TRUE)>>)]

\* Fields in the gaps and at the end, and an rpc less.
Second ==
  [messages |-> <<M("Ask", <<F("id", "u16", 1), F("name", "string", 2), F("kind", "Kind", 3),
                             F("item", "Item", 4), R("items", "Item", 5), R("ports", "u32", 16)>>),
                  M("Tell", <<F("kind", "Kind", 0), R("names", "string", 1), F("ratio", "float", 2)>>), Item>>,
   enums |-> Kinds(<<K("Unknown", 0), K("Low", 1), K("High", 200)>>),
   services |-> Services("Board", <<Rpc("get", FALSE)>>)]

\* The service has another name.
Third == [First EXCEPT !.services = Services("Panel", <<Rpc("get", FALSE), Rpc("watch", TRUE)>>)]

MCSchemas == {First, Second, Third}

ItemValues == {[n |-> 0, ok |-> FALSE], [n |-> -300, ok |-> TRUE]}
Word(n) == [i \in 1 .. n |-> 65]

MCValuesOf(schema, name) ==
  LET set == DefaultMessage(schema, name) IN
  IF name = "Ask" THEN
    {set, [n \in DOMAIN set |->
             CASE n = "id" -> 127
               [] n = "name" -> Word(130)
               [] n = "kind" -> "High"
               [] n = "item" -> [n |-> -63, ok |-> FALSE]
               [] n = "items" -> <<[n |-> 0, ok |-> FALSE], [n |-> -8256, ok |-> TRUE]>>
               [] n = "ports" -> [i \in 1 .. 18 |-> 64 * i * i]]}
  ELSE
    {[set EXCEPT !.kind = "High"], [set EXCEPT !.names = <<Word(2), <<>>>>]}

\* A list of one item that is written as no bytes.
MCStrings == {[First EXCEPT !.messages = <<M("Ask", <<R("names", "string", 0)>>), First.messages[2]>>]}
MCEmptyItems(schema, name) ==
  LET default == DefaultMessage(schema, name) IN
  {IF name = "Ask" THEN [default EXCEPT !.names = <<<<>>>>] ELSE default}

ASSUME \A schema \in MCSchemas : Accepts(schema)
=============================================================================
