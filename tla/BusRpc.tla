------------------------------- MODULE BusRpc -------------------------------
(***************************************************************************)
(* A call of bus from the generated client to the generated server and     *)
(* back (src/util/bus/codegen/rust.rs, bus_rpc.rs, lib.rs).  The two sides *)
(* are built from two versions of a schema.  A unary call is answered with *)
(* a status and a body; a streaming one opens a stream (BusStream) whose   *)
(* messages are encoded by the server's schema and decoded by the client's.*)
(* The HTTP transport is external.                                         *)
(***************************************************************************)
EXTENDS BusSchema, BusStream

CONSTANTS
  Schemas,          \* versions of the schema
  ValuesOf(_, _)    \* some values of a message of a schema

VARIABLES
  client, server,   \* the versions the two sides are built from
  async,            \* the server is an async one; a sync one has no streams
  request,          \* the request, with the argument it was made from
  seen,             \* what the handler was called with
  answer,           \* what the handler answered
  response,         \* status and body
  result            \* what the caller gets

callVars == <<client, server, async, request, seen, answer, response, result>>
vars == <<callVars, streamVars>>

ServicesOf(schema) == {schema.services[i] : i \in DOMAIN schema.services}
RpcsOf(service) == {service.rpcs[i] : i \in DOMAIN service.rpcs}

Init ==
  /\ client \in Schemas /\ server \in Schemas /\ async \in BOOLEAN
  /\ request = None /\ seen = None /\ answer = None /\ response = None /\ result = None
  /\ StreamInit

\* The generated client of a service: it encodes the argument and posts it to
\* /service/method.  The sync client makes unary requests of streams, too.
Call(service, rpc, arg, streaming) ==
  /\ request = None
  /\ streaming => rpc.stream
  /\ request' = [service |-> service.name, rpc |-> rpc, stream |-> streaming, arg |-> arg,
                 payload |-> EncodeMessage(client, rpc.argument, arg)]
  /\ UNCHANGED <<client, server, async, seen, answer, response, result, streamVars>>

\* The arms of the generated serve and serve_stream; the latter of a sync server
\* has none.
Serves(service, name, streaming) ==
  {r \in RpcsOf(service) : r.name = name /\ r.stream = streaming /\ (streaming => async)}

Found == {s \in ServicesOf(server) : s.name = request.service}
Arms == UNION {Serves(s, request.rpc.name, request.stream) : s \in Found}

Respond(status, body) ==
  /\ response' = [status |-> status, body |-> body]
  /\ UNCHANGED <<client, server, async, request, result, streamVars>>

\* handle_request of a unary request: what serve answers becomes a status.
NotServed ==
  /\ request # None /\ ~request.stream /\ response = None /\ Arms = {}
  /\ Respond(IF Found = {} THEN 404 ELSE 501, <<>>)
  /\ UNCHANGED <<seen, answer>>

Handle(value) ==
  /\ request # None /\ ~request.stream /\ response = None
  /\ \E r \in Arms : \E arg \in {DecodeMessage(server, r.argument, request.payload)} :
       \/ /\ arg = Invalid
          /\ Respond(500, <<>>)
          /\ UNCHANGED <<seen, answer>>
       \/ /\ arg # Invalid
          /\ seen' = arg
          /\ \/ value = Invalid /\ answer' = Invalid /\ Respond(500, <<>>)
             \/ /\ value \in ValuesOf(server, r.returns)
                /\ answer' = value
                /\ Respond(200, EncodeMessage(server, r.returns, value))

\* request_async and the generated client: the body is decoded whatever the
\* status says.
Receive ==
  /\ response # None /\ result = None /\ ~request.stream
  /\ result' = DecodeMessage(client, request.rpc.returns, response.body)
  /\ UNCHANGED <<client, server, async, request, seen, answer, response, streamVars>>

\* The connection fails: the caller gets an error, whatever the server did.
Disconnect ==
  /\ request # None /\ ~request.stream /\ result = None
  /\ result' = Invalid
  /\ UNCHANGED <<client, server, async, request, seen, answer, response, streamVars>>

-----------------------------------------------------------------------------
(* Streams: handle_request answers 200 with the stream as its body, and    *)
(* serve_stream runs beside it.  Where there is no handler, or it cannot   *)
(* read its argument, the sink is dropped at once.                         *)

Open ==
  /\ request # None /\ request.stream /\ response = None
  /\ response' = [status |-> 200, body |-> <<>>]
  /\ \E args \in {{DecodeMessage(server, r.argument, request.payload) : r \in Arms} \ {Invalid}} :
       IF args = {} THEN seen' = seen /\ DropSink
       ELSE seen' \in args /\ UNCHANGED streamVars
  /\ UNCHANGED <<client, server, async, request, answer, result>>

Streaming == request # None /\ request.stream /\ response # None
Returns == (CHOOSE r \in Arms : TRUE).returns

HandlerSends ==
  /\ Streaming /\ seen # None /\ sinkOpen
  /\ \/ \E value \in ValuesOf(server, Returns) : Send(EncodeMessage(server, Returns, value))
     \/ SendRejected
  /\ UNCHANGED callVars

HandlerReturns == Streaming /\ DropSink /\ UNCHANGED callVars
Transfer == Streaming /\ Transport /\ UNCHANGED callVars
ClientPolls == Streaming /\ Poll /\ UNCHANGED callVars
ClientCancels == Streaming /\ Cancel /\ UNCHANGED callVars

Next ==
  \/ \E s \in ServicesOf(client) : \E r \in RpcsOf(s), streaming \in BOOLEAN :
       \E arg \in ValuesOf(client, r.argument) : Call(s, r, arg, streaming)
  \/ NotServed
  \/ \E r \in UNION {RpcsOf(s) : s \in ServicesOf(server)} :
       \E value \in ValuesOf(server, r.returns) \cup {Invalid} : Handle(value)
  \/ Receive
  \/ Disconnect
  \/ Open
  \/ HandlerSends
  \/ HandlerReturns
  \/ Transfer
  \/ ClientPolls
  \/ ClientCancels

\* The connections of both sides are polled by their executors.
Spec ==
  /\ Init /\ [][Next]_vars
  /\ WF_vars(ClientPolls) /\ WF_vars(Streaming /\ (PumpFrame \/ PumpEnd) /\ UNCHANGED callVars)

-----------------------------------------------------------------------------
(* Properties.                                                             *)

FieldsOf(schema, name) == Named(schema.messages, name).fields

\* The fields are declared in the order of their tags.
InTagOrder(fields) == \A i \in 2 .. Len(fields) : fields[i - 1].tag < fields[i].tag

\* What a reader should make of a value: its own fields, with the value of the
\* writer's field of that tag if there is one, and the default if there is none.
AsReadBy(reader, writer, name, v) ==
  LET written(f) == {g \in Range(FieldsOf(writer, name)) : g.tag = f.tag}
      value(f) == IF written(f) = {} THEN DefaultMessage(reader, name)[f.name]
                  ELSE v[(CHOOSE g \in written(f) : TRUE).name]
  IN  [n \in ToSetOfNames(FieldsOf(reader, name)) |-> value(Named(FieldsOf(reader, name), n))]

\* A handler is called with what the caller asked, read by the handler's own
\* version of the schema: a field only one side knows costs nothing else.
HandlerSeesArgument ==
  seen # None => seen = AsReadBy(server, client, request.rpc.argument, request.arg)

\* A caller that gets a message gets the one the handler answered, or, when
\* there was no answer to give, the message without any field set.
AnswerIsTheHandlers ==
  result \notin {None, Invalid} =>
    result = IF answer \in {None, Invalid} THEN DefaultMessage(client, request.rpc.returns)
             ELSE AsReadBy(client, server, request.rpc.returns, answer)

\* The lazy view of a message that can be read shows what reading it as a whole
\* gives, on either side and whichever version it was written by.
AgreesWith(owned, view) == owned # Invalid => view = owned
Agrees(schema, name, bytes) ==
  AgreesWith(DecodeMessage(schema, name, bytes), ViewMessage(schema, name, bytes))
ViewAgreesWithOwned ==
  /\ request # None => \A schema \in {client, server} :
       Agrees(schema, request.rpc.argument, request.payload)
  /\ response # None => Agrees(client, request.rpc.returns, response.body)

\* encoded_struct.rs:293-299 reads back the items that were pushed and :313
\* counts an empty one: a message that is written and read is the same.
MessagesRoundTrip ==
  request # None =>
    DecodeMessage(client, request.rpc.argument, request.payload) = request.arg

\* What a handler may send on a stream: the value of Payloads.
Answers ==
  UNION {{EncodeMessage(schema, r.returns, v) : v \in ValuesOf(schema, r.returns)} :
           <<schema, r>> \in {<<c, q>> \in Schemas \X UNION {UNION {RpcsOf(s) : s \in ServicesOf(c)} : c \in Schemas} :
                                IsMessage(c, q.returns)}}
=============================================================================
