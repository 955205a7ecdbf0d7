------------------------------ MODULE BusStream ------------------------------
(***************************************************************************)
(* A streaming response of bus: the sink a handler writes to and the       *)
(* channel behind it (src/util/bus/lib.rs), the body of the response on    *)
(* its way, and the client that cuts it into messages again (BusStream in  *)
(* src/util/bus/bus_rpc.rs).  The HTTP transport is external: it delivers  *)
(* the bytes of the body in order, in pieces of any size, and may fail,    *)
(* or end the body early.                                                  *)
(***************************************************************************)
EXTENDS Integers, Sequences, SequencesExt

CONSTANTS
  Payloads,  \* the messages handlers send, encoded
  Capacity,  \* messages the channel holds (32 in the code)
  MaxSent,   \* bound: messages a handler sends
  MaxPiece,  \* bound: bytes that arrive at once
  Faulty     \* whether the transport may fail

ASSUME CapacityAssumption == Capacity \in Nat \ {0}

\* A message is written with its length in 32 bits: send() cuts a greater one.
ASSUME PayloadsAssumption ==
  \A data \in Payloads : data \in Seq(0 .. 255) /\ Len(data) \div 16777216 < 256

VARIABLES
  sinkOpen,   \* the handler still holds the sink
  rejected,   \* sends that failed because nobody receives
  queue,      \* the channel
  sent,       \* history: payloads whose send completed
  wire,       \* bytes of the body on their way
  ending,     \* what follows the bytes on the wire: "more", "end", "error"
  size,       \* BusStream.size; -1 is None
  buffer,     \* BusStream.buffer
  delivered,  \* payloads the stream yielded
  outcome     \* "pending", "ended", "truncated", "failed" or "cancelled"

streamVars == <<sinkOpen, rejected, queue, sent, wire, ending, size, buffer, delivered, outcome>>

LengthBytes(n) == <<n % 256, (n \div 256) % 256, (n \div 65536) % 256, (n \div 16777216) % 256>>
Frame(data) == LengthBytes(Len(data)) \o data
Length(head) == head[1] + head[2] * 256 + head[3] * 65536 + head[4] * 16777216

StreamInit ==
  /\ sinkOpen = TRUE /\ rejected = 0 /\ queue = <<>> /\ sent = <<>>
  /\ wire = <<>> /\ ending = "more"
  /\ size = -1 /\ buffer = <<>> /\ delivered = <<>> /\ outcome = "pending"

\* Nobody receives once the transport is gone or the client has dropped the stream.
Receiving == ending \in {"more", "end"} /\ outcome # "cancelled"

-----------------------------------------------------------------------------
(* The handler.                                                            *)

\* BusSink::send: waits while the channel is full.
Send(data) ==
  /\ sinkOpen /\ Receiving /\ Len(queue) < Capacity /\ Len(sent) + rejected < MaxSent
  /\ queue' = Append(queue, Frame(data))
  /\ sent' = Append(sent, data)
  /\ UNCHANGED <<sinkOpen, rejected, wire, ending, size, buffer, delivered, outcome>>

\* send() returns Interrupted, "stream cancelled".
SendRejected ==
  /\ sinkOpen /\ ~Receiving /\ Len(sent) + rejected < MaxSent
  /\ rejected' = rejected + 1
  /\ UNCHANGED <<sinkOpen, queue, sent, wire, ending, size, buffer, delivered, outcome>>

\* The handler returns and its sink is dropped.
DropSink ==
  /\ sinkOpen
  /\ sinkOpen' = FALSE
  /\ UNCHANGED <<rejected, queue, sent, wire, ending, size, buffer, delivered, outcome>>

(* The connection of the server.                                           *)

\* poll_recv yields a frame, or the end once the sinks are gone.
PumpFrame ==
  /\ queue # <<>> /\ Receiving /\ ending = "more"
  /\ wire' = wire \o Head(queue)
  /\ queue' = Tail(queue)
  /\ UNCHANGED <<sinkOpen, rejected, sent, ending, size, buffer, delivered, outcome>>

\* Mutant: the end overtakes what is in the channel.
PumpEndEarly ==
  /\ ~sinkOpen /\ Receiving /\ ending = "more"
  /\ ending' = "end"
  /\ UNCHANGED <<sinkOpen, rejected, queue, sent, wire, size, buffer, delivered, outcome>>

PumpEnd ==
  /\ queue = <<>> /\ ~sinkOpen /\ Receiving /\ ending = "more"
  /\ ending' = "end"
  /\ UNCHANGED <<sinkOpen, rejected, queue, sent, wire, size, buffer, delivered, outcome>>

\* The body is cut after n bytes of what is on the wire: noticed as an error
\* ("error"), or taken for its end ("cut") by what forwards it.
TransportFails(n, how) ==
  /\ Faulty /\ ending = "more" /\ outcome = "pending" /\ n \in 0 .. Len(wire)
  /\ wire' = SubSeq(wire, 1, n)
  /\ ending' = how
  /\ queue' = <<>>
  /\ UNCHANGED <<sinkOpen, rejected, sent, size, buffer, delivered, outcome>>

-----------------------------------------------------------------------------
(* The client: BusStream::poll_next, one action for each way through its   *)
(* loop.  It looks at the body only when the buffer does not suffice.      *)

Starved == IF size = -1 THEN Len(buffer) < 4 ELSE Len(buffer) < size

YieldMessage ==
  /\ outcome = "pending" /\ size # -1 /\ Len(buffer) >= size
  /\ delivered' = Append(delivered, SubSeq(buffer, 1, size))
  /\ buffer' = SubSeq(buffer, size + 1, Len(buffer))
  /\ size' = -1
  /\ UNCHANGED <<sinkOpen, rejected, queue, sent, wire, ending, outcome>>

ReadLength ==
  /\ outcome = "pending" /\ size = -1 /\ Len(buffer) >= 4
  /\ size' = Length(buffer)
  /\ buffer' = SubSeq(buffer, 5, Len(buffer))
  /\ UNCHANGED <<sinkOpen, rejected, queue, sent, wire, ending, delivered, outcome>>

PollData(n) ==
  /\ outcome = "pending" /\ Starved
  /\ n \in 1 .. Len(wire)
  /\ buffer' = buffer \o SubSeq(wire, 1, n)
  /\ wire' = SubSeq(wire, n + 1, Len(wire))
  /\ UNCHANGED <<sinkOpen, rejected, queue, sent, ending, size, delivered, outcome>>

PollError ==
  /\ outcome = "pending" /\ Starved /\ wire = <<>> /\ ending = "error"
  /\ outcome' = "failed"
  /\ UNCHANGED <<sinkOpen, rejected, queue, sent, wire, ending, size, buffer, delivered>>

\* Mutant: bytes that are left are waited for.
PollEndClean ==
  /\ outcome = "pending" /\ Starved /\ wire = <<>> /\ ending \in {"end", "cut"} /\ buffer = <<>>
  /\ outcome' = "ended"
  /\ UNCHANGED <<sinkOpen, rejected, queue, sent, wire, ending, size, buffer, delivered>>

\* The body is over: an error if bytes are left, else the end of the stream.
PollEnd ==
  /\ outcome = "pending" /\ Starved /\ wire = <<>> /\ ending \in {"end", "cut"}
  /\ outcome' = IF buffer = <<>> THEN "ended" ELSE "truncated"
  /\ UNCHANGED <<sinkOpen, rejected, queue, sent, wire, ending, size, buffer, delivered>>

\* The client drops the stream, and with it the connection.
Cancel ==
  /\ outcome = "pending"
  /\ outcome' = "cancelled"
  /\ queue' = <<>>
  /\ UNCHANGED <<sinkOpen, rejected, sent, wire, ending, size, buffer, delivered>>

Transport ==
  \/ PumpFrame
  \/ PumpEnd
  \/ \E n \in 0 .. Len(wire), how \in {"error", "cut"} : TransportFails(n, how)

Poll ==
  \/ YieldMessage
  \/ ReadLength
  \/ \E n \in 1 .. MaxPiece : PollData(n)
  \/ PollError
  \/ PollEnd

StreamNext ==
  \/ \E data \in Payloads : Send(data)
  \/ SendRejected
  \/ DropSink
  \/ Transport
  \/ Poll
  \/ Cancel

StreamSpec == StreamInit /\ [][StreamNext]_streamVars

-----------------------------------------------------------------------------
(* Properties.                                                             *)

\* The client yields the messages the handler sent, each once, unchanged and in
\* order, also when the body is cut short, and a stream that ends over a
\* transport that did not fail has delivered everything.
Channel == INSTANCE BusChannel WITH over <- outcome = "ended" /\ ending = "end"
ImplementsChannel == Channel!Spec

\* A client that reads on learns how the stream ended once the handler returns.
StreamEnds == ~sinkOpen ~> outcome # "pending"
=============================================================================
