--------------------------- MODULE BusStreamProofs ---------------------------
(***************************************************************************)
(* A stream of bus implements the channel it promises to be, for messages  *)
(* of any contents and any length that fits 32 bits, a channel of any      *)
(* capacity, pieces of any size, and a transport that may fail at any byte.*)
(*                                                                         *)
(* The argument follows the bytes.  All that was ever sent is one sequence *)
(* of bytes, in which every message has its place (Laid): its length and   *)
(* then itself, the next one after it.  The client stands at a place of    *)
(* this sequence, the one of a message or four bytes behind it (Passed),   *)
(* and what it has in its buffer, then what is on the wire, then what is   *)
(* in the channel are the bytes from there on (Flows).  A piece moves the  *)
(* boundary between two of them, whatever it cuts in two; so does a frame. *)
(***************************************************************************)
EXTENDS BusStream, TLAPS

Octets == 0 .. 255

-----------------------------------------------------------------------------
(* Sequences *)

\* u is s and then t.
Joins(u, s, t) ==
  /\ Len(u) = Len(s) + Len(t)
  /\ \A i \in 1 .. Len(s) : u[i] = s[i]
  /\ \A i \in 1 .. Len(t) : u[Len(s) + i] = t[i]

\* u is what s holds behind its place m, up to its place n.
Takes(u, s, m, n) ==
  /\ Len(u) = n - m
  /\ \A i \in 1 .. n - m : u[i] = s[m + i]

LEMMA Joined ==
  ASSUME NEW S, NEW s \in Seq(S), NEW t \in Seq(S)
  PROVE  s \o t \in Seq(S) /\ Joins(s \o t, s, t)
<1>1. s \o t \in Seq(S) /\ Len(s \o t) = Len(s) + Len(t)
  OBVIOUS
<1>2. \A i \in 1 .. Len(s) : (s \o t)[i] = s[i]
  OBVIOUS
<1>3. ASSUME NEW i \in 1 .. Len(t) PROVE (s \o t)[Len(s) + i] = t[i]
  <2>1. Len(s) \in Nat /\ Len(t) \in Nat
    OBVIOUS
  <2>2. Len(s) + i \in 1 .. Len(s) + Len(t) /\ ~(Len(s) + i <= Len(s)) /\ Len(s) + i - Len(s) = i
    BY <2>1
  <2>. QED
    BY <2>1, <2>2
<1>. QED
  BY <1>1, <1>2, <1>3 DEF Joins

LEMMA Taken ==
  ASSUME NEW S, NEW s \in Seq(S), NEW m \in Nat, NEW n \in Nat, m <= n, n <= Len(s)
  PROVE  SubSeq(s, m + 1, n) \in Seq(S) /\ Takes(SubSeq(s, m + 1, n), s, m, n)
<1>1. m + 1 \in 1 .. n + 1 /\ Len(s) \in Nat
  OBVIOUS
<1>2. SubSeq(s, m + 1, n) = [i \in 1 .. n - m |-> s[m + i]]
  BY <1>1
<1>3. \A i \in 1 .. n - m : m + i \in 1 .. Len(s) /\ s[m + i] \in S
  BY <1>1
<1>4. n - m \in Nat
  OBVIOUS
<1>. QED
  BY <1>2, <1>3, <1>4 DEF Takes

-----------------------------------------------------------------------------
(* Frames *)

\* The lengths that have 32 bits.
Fits(n) == n \in Nat /\ n \div 16777216 < 256

\* The length of a frame is read as it was written.
LEMMA LengthIsRead ==
  ASSUME NEW n, Fits(n)
  PROVE  /\ Length(LengthBytes(n)) = n
         /\ LengthBytes(n) \in Seq(Octets) /\ Len(LengthBytes(n)) = 4
<1>1. n \in Nat
  BY SMT DEF Fits
<1>2. /\ n \div 65536 = (n \div 256) \div 256
      /\ n \div 16777216 = (n \div 65536) \div 256
  BY <1>1, SMT
<1>3. /\ n \div 256 \in Nat /\ n \div 65536 \in Nat
      /\ n \div 16777216 \in 0 .. 255
  BY <1>1, SMT DEF Fits
<1>4. n = (n % 256) + ((n \div 256) % 256) * 256 + ((n \div 65536) % 256) * 65536
          + ((n \div 16777216) % 256) * 16777216
  BY <1>1, <1>2, <1>3, SMT
<1>5. LengthBytes(n) \in Seq(Octets) /\ Len(LengthBytes(n)) = 4
  BY <1>1, <1>3, SMT DEF LengthBytes, Octets
<1>. QED
  BY <1>4, <1>5, SMT DEF Length, LengthBytes

\* What a frame is: four bytes from which the length is read, and the message.
LEMMA FrameParts ==
  ASSUME NEW data \in Payloads
  PROVE  /\ data \in Seq(Octets) /\ Len(data) \in Nat
         /\ Frame(data) \in Seq(Octets)
         /\ Len(Frame(data)) = 4 + Len(data)
         /\ \A i \in 1 .. Len(data) : Frame(data)[4 + i] = data[i]
         /\ \A head : (\A i \in 1 .. 4 : head[i] = Frame(data)[i]) => Length(head) = Len(data)
<1>1. data \in Seq(Octets) /\ Len(data) \in Nat /\ Fits(Len(data))
  BY PayloadsAssumption, SMT DEF Octets, Fits
<1>0. PICK bytes : bytes = LengthBytes(Len(data))
  OBVIOUS
<1>2. bytes \in Seq(Octets) /\ Len(bytes) = 4 /\ Length(bytes) = Len(data)
  BY <1>0, <1>1, LengthIsRead
<1>3. Frame(data) = bytes \o data
  BY <1>0 DEF Frame
<1>4. /\ Frame(data) \in Seq(Octets)
      /\ Len(Frame(data)) = 4 + Len(data)
      /\ \A i \in 1 .. 4 : Frame(data)[i] = bytes[i]
      /\ \A i \in 1 .. Len(data) : Frame(data)[4 + i] = data[i]
  <2>1. bytes \o data \in Seq(Octets) /\ Joins(bytes \o data, bytes, data)
    BY <1>1, <1>2, Joined, Zenon
  <2>2. Frame(data) \in Seq(Octets) /\ Joins(Frame(data), bytes, data)
    BY <1>3, <2>1, Zenon
  <2>. QED
    BY <1>1, <1>2, <2>2 DEF Joins
<1>5. ASSUME NEW head, \A i \in 1 .. 4 : head[i] = Frame(data)[i] PROVE Length(head) = Len(data)
  <2>1. /\ head[1] = bytes[1] /\ head[2] = bytes[2]
        /\ head[3] = bytes[3] /\ head[4] = bytes[4]
    BY <1>4, <1>5
  <2>2. Length(head) = Length(bytes)
    BY <2>1, SMT DEF Length
  <2>. QED
    BY <1>2, <2>2
<1>. QED
  BY <1>1, <1>4, <1>5

-----------------------------------------------------------------------------
(* The inductive invariant *)

Types ==
  /\ sent \in Seq(Payloads) /\ delivered \in Seq(Seq(Octets))
  /\ queue \in Seq(Seq(Octets)) /\ wire \in Seq(Octets) /\ buffer \in Seq(Octets)
  /\ size \in Nat \cup {-1}

\* What is delivered was sent, in this order, and what is being read is next.
InOrder ==
  /\ Len(delivered) <= Len(sent)
  /\ \A k \in 1 .. Len(delivered) : delivered[k] = sent[k]
  /\ size # -1 => Len(delivered) < Len(sent) /\ size = Len(sent[Len(delivered) + 1])

\* The channel holds the last messages that were sent.
Queued ==
  /\ Len(queue) <= Len(sent)
  /\ \A j \in 1 .. Len(queue) : queue[j] = Frame(sent[Len(sent) - Len(queue) + j])

\* The body ends behind the last message of a handler that sends no more, and
\* the stream behind the body.
Ends ==
  /\ ending = "end" => sinkOpen = FALSE /\ queue = <<>>
  /\ outcome = "ended" => ending \in {"end", "cut"}

\* bytes are the frames of all messages that were sent, one after the other;
\* start is where they begin.
Laid(bytes, start) ==
  /\ start \in [1 .. Len(sent) + 1 -> Nat]
  /\ bytes \in Seq(Octets) /\ start[Len(sent) + 1] = Len(bytes)
  /\ start[1] = 0
  /\ \A k \in 1 .. Len(sent) : start[k + 1] = start[k] + 4 + Len(sent[k])
  /\ \A k, l \in 1 .. Len(sent) + 1 : k < l => start[k] + 4 <= start[l]
  /\ \A k, l \in 1 .. Len(sent) + 1 : k <= l => start[k] <= start[l]
  /\ \A k \in 1 .. Len(sent) : \A i \in 1 .. 4 + Len(sent[k]) :
       bytes[start[k] + i] = Frame(sent[k])[i]

\* How far the client has read.
Passed(start) == start[Len(delivered) + 1] + (IF size = -1 THEN 0 ELSE 4)

\* What the client has not read yet: it is in its buffer, or on the wire, or,
\* as long as nothing fails, in the channel.
Flows(bytes, start) ==
  LET read == Passed(start)
      received == read + Len(buffer)
      pumped == received + Len(wire)
  IN  /\ \A i \in 1 .. Len(buffer) : buffer[i] = bytes[read + i]
      /\ \A i \in 1 .. Len(wire) : wire[i] = bytes[received + i]
      /\ pumped <= Len(bytes)
      /\ ending \in {"more", "end"} => pumped = start[Len(sent) - Len(queue) + 1]

InTransit == \E bytes, start : Laid(bytes, start) /\ Flows(bytes, start)

IInv ==
  /\ Types /\ InOrder /\ Queued /\ Ends
  /\ outcome # "cancelled" => InTransit

LEMMA InitIInv == StreamInit => IInv
<1>. SUFFICES ASSUME StreamInit PROVE IInv
  OBVIOUS
<1>1. Types /\ InOrder /\ Queued /\ Ends
  BY DEF StreamInit, Types, InOrder, Queued, Ends
<1>2. Laid(<<>>, [k \in 1 .. 1 |-> 0])
  BY DEF StreamInit, Laid
<1>3. Flows(<<>>, [k \in 1 .. 1 |-> 0])
  BY DEF StreamInit, Flows, Passed
<1>. QED
  BY <1>1, <1>2, <1>3 DEF IInv, InTransit

-----------------------------------------------------------------------------
(* The handler and the transport *)

LEMMA SendStep ==
  ASSUME IInv, NEW data \in Payloads, Send(data)
  PROVE  IInv'
<1>0. PICK frame, n : frame = Frame(data) /\ n = Len(sent)
  OBVIOUS
<1>1. /\ frame \in Seq(Octets) /\ Len(frame) = 4 + Len(data)
      /\ data \in Seq(Octets) /\ Len(data) \in Nat
  BY <1>0, FrameParts
<1>2. /\ sent \in Seq(Payloads) /\ n \in Nat /\ Len(sent) = n
      /\ sent' \in Seq(Payloads) /\ Len(sent') = n + 1
      /\ sent'[n + 1] = data
      /\ \A k \in 1 .. n : sent'[k] = sent[k]
  BY <1>0 DEF IInv, Types, Send
<1>3. /\ queue \in Seq(Seq(Octets)) /\ Len(queue) \in Nat /\ Len(queue) <= n
      /\ queue' \in Seq(Seq(Octets)) /\ Len(queue') = Len(queue) + 1
      /\ queue'[Len(queue) + 1] = frame
      /\ \A j \in 1 .. Len(queue) : queue'[j] = queue[j]
  BY <1>0, <1>1 DEF IInv, Types, Queued, Send
<1>9. UNCHANGED <<wire, ending, size, buffer, delivered, outcome>>
  BY DEF Send
<1>4. Types'
  BY <1>2, <1>3 DEF IInv, Types, Send
<1>5. InOrder'
  BY <1>2 DEF IInv, Types, InOrder, Send
<1>6. Queued'
  <2>1. \A j \in 1 .. Len(queue) : n - Len(queue) + j \in 1 .. n
                                  /\ queue[j] = Frame(sent[n - Len(queue) + j])
    BY <1>0, <1>2, <1>3 DEF IInv, Queued
  <2>2. (n + 1) - (Len(queue) + 1) = n - Len(queue)
    BY <1>2, <1>3
  <2>3. ASSUME NEW j \in 1 .. Len(queue) + 1 PROVE queue'[j] = Frame(sent'[n - Len(queue) + j])
    <3>1. CASE j = Len(queue) + 1
      <4>1. n - Len(queue) + j = n + 1
        BY <1>2, <1>3, <3>1
      <4>. QED
        BY <1>0, <1>2, <1>3, <3>1, <4>1
    <3>2. CASE j # Len(queue) + 1
      <4>1. j \in 1 .. Len(queue)
        BY <1>3, <3>2
      <4>. QED
        BY <1>2, <1>3, <2>1, <4>1
    <3>. QED
      BY <3>1, <3>2
  <2>4. Len(sent') - Len(queue') = n - Len(queue) /\ Len(queue') <= Len(sent')
    BY <1>2, <1>3, <2>2
  <2>. QED
    BY <1>3, <2>3, <2>4 DEF Queued
<1>7. Ends'
  BY DEF IInv, Ends, Send
<1>8. ASSUME outcome # "cancelled" PROVE InTransit'
  <2>1. PICK bytes, start : Laid(bytes, start) /\ Flows(bytes, start)
    BY <1>8 DEF IInv, InTransit
  <2>0. PICK all, places :
         /\ all = bytes \o frame
         /\ places = [k \in 1 .. n + 2 |-> IF k = n + 2 THEN Len(all) ELSE start[k]]
    OBVIOUS
  <2>2. /\ bytes \in Seq(Octets) /\ Len(bytes) \in Nat
        /\ all \in Seq(Octets) /\ Len(all) = Len(bytes) + 4 + Len(data)
        /\ \A i \in 1 .. Len(bytes) : all[i] = bytes[i]
        /\ \A i \in 1 .. 4 + Len(data) : all[Len(bytes) + i] = frame[i]
    <3>1. bytes \in Seq(Octets)
      BY <2>1 DEF Laid
    <3>2. bytes \o frame \in Seq(Octets) /\ Joins(bytes \o frame, bytes, frame)
      BY <1>1, <3>1, Joined, Zenon
    <3>4. all \in Seq(Octets) /\ Joins(all, bytes, frame)
      BY <2>0, <3>2, Zenon
    <3>3. Len(bytes) \in Nat /\ Len(bytes) + (4 + Len(data)) = Len(bytes) + 4 + Len(data)
      BY <1>1, <3>1
    <3>. QED
      BY <1>1, <3>1, <3>3, <3>4 DEF Joins
  <2>a. /\ Len(bytes) \in Nat /\ Len(data) \in Nat
        /\ Len(all) = Len(bytes) + 4 + Len(data) /\ Len(frame) = 4 + Len(data)
    BY <1>1, <2>2
  <2>3. /\ start \in [1 .. n + 1 -> Nat] /\ start[n + 1] = Len(bytes)
        /\ start[1] = 0
        /\ \A k \in 1 .. n : start[k + 1] = start[k] + 4 + Len(sent[k])
        /\ \A k, l \in 1 .. n + 1 : k < l => start[k] + 4 <= start[l]
        /\ \A k, l \in 1 .. n + 1 : k <= l => start[k] <= start[l]
        /\ \A k \in 1 .. n : \A i \in 1 .. 4 + Len(sent[k]) :
             bytes[start[k] + i] = Frame(sent[k])[i]
    BY <1>2, <2>1 DEF Laid
  <2>4. /\ places \in [1 .. n + 2 -> Nat] /\ places[n + 2] = Len(bytes) + 4 + Len(data)
        /\ \A k \in 1 .. n + 1 : places[k] = start[k]
    <3>1. \A k \in 1 .. n + 1 : k \in 1 .. n + 2 /\ k # n + 2
      BY <1>2
    <3>2. Len(all) \in Nat /\ n + 2 \in 1 .. n + 2
      BY <1>1, <1>2, <2>2
    <3>3. \A k \in 1 .. n + 2 : k # n + 2 => k \in 1 .. n + 1
      BY <1>2
    <3>. QED
      BY <2>0, <2>2, <2>3, <3>1, <3>2, <3>3
  <2>5. Laid(all, places)'
    <3>1. \A k \in 1 .. n + 1 : start[k] \in Nat /\ start[k] <= Len(bytes)
      <4>1. n + 1 \in 1 .. n + 1 /\ \A k \in 1 .. n + 1 : k <= n + 1
        BY <1>2
      <4>. QED
        BY <2>3, <4>1
    <3>2. /\ 1 \in 1 .. n + 1 /\ n + 1 \in 1 .. n + 1
          /\ \A k \in 1 .. n + 2 : k # n + 2 => k \in 1 .. n + 1
          /\ \A k \in 1 .. n : k \in 1 .. n + 1 /\ k + 1 \in 1 .. n + 1
      BY <1>2
    <3>3. \A k \in 1 .. n + 1 : places[k + 1] = places[k] + 4 + Len(sent'[k])
      <4>1. TAKE k \in 1 .. n + 1
      <4>2. CASE k = n + 1
        <5>1. /\ places[k] = Len(bytes) /\ places[k + 1] = Len(bytes) + 4 + Len(data)
              /\ sent'[k] = data
          <6>1. k + 1 = n + 2
            BY <1>2, <4>2
          <6>. QED
            BY <1>2, <2>3, <2>4, <3>2, <4>2, <6>1
        <5>. QED
          BY <2>a, <5>1
      <4>3. CASE k # n + 1
        <5>1. k \in 1 .. n
          BY <1>2, <4>3
        <5>2. sent'[k] = sent[k] /\ places[k] = start[k] /\ places[k + 1] = start[k + 1]
          BY <1>2, <2>4, <3>2, <5>1
        <5>. QED
          BY <2>3, <5>1, <5>2
      <4>. QED
        BY <4>2, <4>3
    <3>4. \A k, l \in 1 .. n + 2 : k < l => places[k] + 4 <= places[l]
      <4>1. TAKE k, l \in 1 .. n + 2
      <4>2. HAVE k < l
      <4>3. k \in 1 .. n + 1
        BY <1>2, <4>2
      <4>4. CASE l = n + 2
        <5>1. places[k] = start[k] /\ places[l] = Len(bytes) + 4 + Len(data)
          BY <2>4, <4>3, <4>4
        <5>2. start[k] \in Nat /\ start[k] <= Len(bytes)
          BY <3>1, <4>3
        <5>. QED
          BY <2>a, <5>1, <5>2
      <4>5. CASE l # n + 2
        BY <2>3, <2>4, <3>2, <4>2, <4>3, <4>5
      <4>. QED
        BY <4>4, <4>5
    <3>5. \A k, l \in 1 .. n + 2 : k <= l => places[k] <= places[l]
      <4>1. TAKE k, l \in 1 .. n + 2
      <4>2. HAVE k <= l
      <4>3. places[k] \in Nat /\ places[l] \in Nat
        BY <2>4
      <4>4. CASE k = l
        BY <4>3, <4>4
      <4>5. CASE k # l
        BY <3>4, <4>2, <4>3, <4>5
      <4>. QED
        BY <4>4, <4>5
    <3>6. ASSUME NEW k \in 1 .. n + 1, NEW i \in 1 .. 4 + Len(sent'[k])
          PROVE  all[places[k] + i] = Frame(sent'[k])[i]
      <4>1. CASE k = n + 1
        <5>1. places[k] = Len(bytes) /\ sent'[k] = data /\ Frame(data) = frame
          BY <1>0, <1>2, <2>3, <2>4, <3>2, <4>1
        <5>2. i \in 1 .. 4 + Len(data)
          BY <3>6, <5>1
        <5>. QED
          BY <2>2, <5>1, <5>2
      <4>2. CASE k # n + 1
        <5>1. k \in 1 .. n /\ sent'[k] = sent[k] /\ places[k] = start[k]
          BY <1>2, <2>4, <3>2, <4>2
        <5>2. Len(sent[k]) \in Nat
          BY <1>2, <5>1, FrameParts
        <5>3. start[k] + i \in 1 .. Len(bytes)
          <6>1. start[k + 1] = start[k] + 4 + Len(sent[k]) /\ start[k + 1] <= Len(bytes)
            BY <2>3, <3>1, <3>2, <5>1
          <6>2. start[k] \in Nat /\ i \in 1 .. 4 + Len(sent[k])
            BY <3>1, <3>2, <3>6, <5>1
          <6>3. PICK a, b, c : a = start[k] /\ b = Len(sent[k]) /\ c = Len(bytes)
            OBVIOUS
          <6>4. a \in Nat /\ b \in Nat /\ c \in Nat /\ i \in 1 .. 4 + b /\ a + 4 + b <= c
            BY <2>a, <5>2, <6>1, <6>2, <6>3
          <6>5. a + i \in 1 .. c
            BY <6>4
          <6>. QED
            BY <6>3, <6>5
        <5>. QED
          BY <2>2, <2>3, <3>6, <5>1, <5>3
      <4>. QED
        BY <4>1, <4>2
    <3>7. Len(sent') + 1 = n + 2 /\ places[1] = 0
      BY <1>2, <2>3, <2>4, <3>2
    <3>. QED
      BY <1>2, <2>2, <2>4, <3>3, <3>4, <3>5, <3>6, <3>7 DEF Laid
  <2>6. Flows(all, places)'
    <3>0. PICK d, at : d = Len(delivered) /\ at = Passed(start)
      OBVIOUS
    <3>1. /\ d \in Nat /\ d <= n /\ (size # -1 => d < n)
          /\ buffer \in Seq(Octets) /\ wire \in Seq(Octets)
          /\ Len(buffer) \in Nat /\ Len(wire) \in Nat
      BY <1>2, <3>0 DEF IInv, Types, InOrder
    <3>2. /\ d + 1 \in 1 .. n + 1 /\ start[d + 1] \in Nat
          /\ places[d + 1] = start[d + 1]
      BY <1>2, <2>3, <2>4, <3>1
    <3>3. at \in Nat /\ Passed(places)' = at
      BY <1>9, <3>0, <3>2 DEF Passed
    <3>4. /\ \A i \in 1 .. Len(buffer) : buffer[i] = bytes[at + i]
          /\ \A i \in 1 .. Len(wire) : wire[i] = bytes[at + Len(buffer) + i]
          /\ at + Len(buffer) + Len(wire) <= Len(bytes)
          /\ ending \in {"more", "end"} =>
                at + Len(buffer) + Len(wire) = start[n - Len(queue) + 1]
      BY <1>2, <2>1, <3>0 DEF Flows
    <3>5. /\ \A i \in 1 .. Len(buffer) : at + i \in 1 .. Len(bytes)
          /\ \A i \in 1 .. Len(wire) : at + Len(buffer) + i \in 1 .. Len(bytes)
      BY <2>2, <3>1, <3>3, <3>4
    <3>6. /\ \A i \in 1 .. Len(buffer) : buffer[i] = all[at + i]
          /\ \A i \in 1 .. Len(wire) : wire[i] = all[at + Len(buffer) + i]
      BY <2>2, <3>4, <3>5
    <3>7. at + Len(buffer) + Len(wire) <= Len(all)
      BY <1>1, <2>2, <3>1, <3>3, <3>4
    <3>8. /\ n - Len(queue) + 1 \in 1 .. n + 1
          /\ Len(sent') - Len(queue') + 1 = n - Len(queue) + 1
      BY <1>2, <1>3
    <3>9. ending \in {"more", "end"} =>
            at + Len(buffer) + Len(wire) = places[n - Len(queue) + 1]
      BY <2>4, <3>4, <3>8
    <3>. QED
      BY <1>9, <3>3, <3>6, <3>7, <3>8, <3>9 DEF Flows
  <2>. QED
    BY <2>5, <2>6 DEF InTransit
<1>. QED
  BY <1>4, <1>5, <1>6, <1>7, <1>8, <1>9 DEF IInv

\* What the client reads next, in numbers.
LEMMA Standing ==
  ASSUME Types, InOrder, NEW bytes, NEW start, Laid(bytes, start)
  PROVE  /\ Len(sent) \in Nat /\ Len(delivered) \in Nat /\ Len(queue) \in Nat
         /\ Len(buffer) \in Nat /\ Len(wire) \in Nat /\ Len(bytes) \in Nat
         /\ Len(delivered) + 1 \in 1 .. Len(sent) + 1
         /\ Passed(start) \in Nat
         /\ \A k \in 1 .. Len(sent) + 1 : start[k] \in Nat /\ start[k] <= Len(bytes)
<1>1. /\ Len(sent) \in Nat /\ Len(delivered) \in Nat /\ Len(queue) \in Nat
      /\ Len(buffer) \in Nat /\ Len(wire) \in Nat /\ Len(bytes) \in Nat
  BY DEF Types, Laid
<1>2. Len(delivered) + 1 \in 1 .. Len(sent) + 1
  BY <1>1 DEF InOrder
<1>3. \A k \in 1 .. Len(sent) + 1 : start[k] \in Nat
  BY DEF Laid
<1>4. Len(sent) + 1 \in 1 .. Len(sent) + 1 /\ \A k \in 1 .. Len(sent) + 1 : k <= Len(sent) + 1
  BY <1>1
<1>5. \A k \in 1 .. Len(sent) + 1 : start[k] <= Len(bytes)
  BY <1>4 DEF Laid
<1>6. start[Len(delivered) + 1] \in Nat
  BY <1>2, <1>3
<1>7. Passed(start) \in Nat
  BY <1>6 DEF Passed
<1>. QED
  BY <1>1, <1>2, <1>3, <1>5, <1>7

\* The places stay where they are when nothing is sent.
LEMMA LaidStays ==
  ASSUME NEW bytes, NEW start, Laid(bytes, start), sent' = sent
  PROVE  Laid(bytes, start)'
BY DEF Laid

\* Where no byte moves, all are where they belong.
LEMMA NothingMoves ==
  ASSUME InTransit,
         UNCHANGED <<sent, wire, size, buffer, delivered>>,
         \/ UNCHANGED <<queue, ending>>
         \/ ending = "more" /\ ending' \in {"more", "end"} /\ queue' = queue
         \/ ending' \notin {"more", "end"}
  PROVE  InTransit'
<1>1. PICK bytes, start : Laid(bytes, start) /\ Flows(bytes, start)
  BY DEF InTransit
<1>2. Laid(bytes, start)'
  BY <1>1, LaidStays
<1>3. Flows(bytes, start)'
  BY <1>1 DEF Flows, Passed
<1>. QED
  BY <1>2, <1>3 DEF InTransit

LEMMA HandlerStep ==
  ASSUME IInv, SendRejected \/ DropSink
  PROVE  IInv'
<1>1. UNCHANGED <<queue, sent, wire, ending, size, buffer, delivered, outcome>>
  BY DEF SendRejected, DropSink
<1>2. sinkOpen' = sinkOpen \/ sinkOpen' = FALSE
  BY DEF SendRejected, DropSink
<1>3. Types' /\ InOrder' /\ Queued'
  BY <1>1 DEF IInv, Types, InOrder, Queued
<1>4. Ends'
  BY <1>1, <1>2 DEF IInv, Ends
<1>5. outcome' # "cancelled" => InTransit'
  BY <1>1, NothingMoves DEF IInv
<1>. QED
  BY <1>3, <1>4, <1>5 DEF IInv

LEMMA PumpEndStep ==
  ASSUME IInv, PumpEnd
  PROVE  IInv'
<1>1. /\ UNCHANGED <<sinkOpen, queue, sent, wire, size, buffer, delivered, outcome>>
      /\ queue = <<>> /\ ~sinkOpen /\ ending = "more" /\ ending' = "end"
  BY DEF PumpEnd
<1>2. Types' /\ InOrder' /\ Queued'
  BY <1>1 DEF IInv, Types, InOrder, Queued
<1>3. Ends'
  BY <1>1 DEF IInv, Ends
<1>4. outcome' # "cancelled" => InTransit'
  BY <1>1, NothingMoves DEF IInv
<1>. QED
  BY <1>2, <1>3, <1>4 DEF IInv

LEMMA PumpFrameStep ==
  ASSUME IInv, PumpFrame
  PROVE  IInv'
<1>1. /\ UNCHANGED <<sinkOpen, sent, ending, size, buffer, delivered, outcome>>
      /\ ending = "more" /\ outcome # "cancelled" /\ queue # <<>>
  BY DEF PumpFrame, Receiving
<1>2. PICK bytes, start : Laid(bytes, start) /\ Flows(bytes, start)
  BY <1>1 DEF IInv, InTransit
<1>3. PICK n, q, w, b, at, m :
        /\ n = Len(sent) /\ q = Len(queue) /\ w = Len(wire) /\ b = Len(buffer)
        /\ at = Passed(start) /\ m = n - q + 1
  OBVIOUS
<1>4. /\ n \in Nat /\ w \in Nat /\ b \in Nat /\ at \in Nat /\ Len(bytes) \in Nat
      /\ \A k \in 1 .. n + 1 : start[k] \in Nat /\ start[k] <= Len(bytes)
  BY <1>2, <1>3, Standing DEF IInv
<1>5. /\ queue \in Seq(Seq(Octets)) /\ q \in Nat /\ q # 0 /\ q <= n
      /\ \A j \in 1 .. q : queue[j] = Frame(sent[n - q + j])
  BY <1>1, <1>3 DEF IInv, Types, Queued
<1>6. /\ m \in 1 .. n /\ m \in 1 .. n + 1 /\ m + 1 \in 1 .. n + 1
      /\ n - (q - 1) + 1 = m + 1
  BY <1>3, <1>4, <1>5
<1>7. PICK frame : frame = Head(queue)
  OBVIOUS
<1>8. frame = Frame(sent[m]) /\ sent[m] \in Payloads
  <2>1. frame = queue[1] /\ 1 \in 1 .. q
    BY <1>5, <1>7
  <2>2. n - q + 1 = m
    BY <1>3
  <2>. QED
    BY <1>3, <1>5, <1>6, <2>1, <2>2 DEF IInv, Types
<1>9a. PICK l : l = Len(sent[m])
  OBVIOUS
<1>9. frame \in Seq(Octets) /\ Len(frame) = 4 + l /\ l \in Nat
  BY <1>8, <1>9a, FrameParts
<1>10. /\ queue' \in Seq(Seq(Octets)) /\ Len(queue') = q - 1
       /\ \A j \in 1 .. q - 1 : queue'[j] = queue[j + 1]
  BY <1>3, <1>5 DEF PumpFrame
<1>11. wire' \in Seq(Octets) /\ Joins(wire', wire, frame)
  <2>1. wire \in Seq(Octets)
    BY DEF IInv, Types
  <2>2. wire \o frame \in Seq(Octets) /\ Joins(wire \o frame, wire, frame)
    BY <1>9, <2>1, Joined, Zenon
  <2>3. wire' = wire \o frame
    BY <1>7 DEF PumpFrame
  <2>. QED
    BY <2>2, <2>3, Zenon
<1>12. /\ Len(wire') = w + 4 + l
       /\ \A i \in 1 .. w : wire'[i] = wire[i]
       /\ \A i \in 1 .. 4 + l : wire'[w + i] = frame[i]
  <2>1. w + (4 + l) = w + 4 + l
    BY <1>4, <1>9
  <2>. QED
    BY <1>3, <1>9, <1>11, <2>1 DEF Joins
<1>13. Types'
  BY <1>1, <1>10, <1>11 DEF IInv, Types
<1>14. InOrder' /\ Ends'
  BY <1>1, <1>3 DEF IInv, InOrder, Ends
<1>15. Queued'
  <2>1. ASSUME NEW j \in 1 .. q - 1 PROVE queue'[j] = Frame(sent[n - (q - 1) + j])
    <3>1. j + 1 \in 1 .. q /\ n - q + (j + 1) = n - (q - 1) + j
      BY <1>4, <1>5
    <3>. QED
      BY <1>5, <1>10, <3>1
  <2>2. q - 1 <= n
    BY <1>4, <1>5
  <2>. QED
    BY <1>1, <1>3, <1>10, <2>1, <2>2 DEF Queued
<1>16. Flows(bytes, start)'
  <2>1. /\ \A i \in 1 .. b : buffer[i] = bytes[at + i]
        /\ \A i \in 1 .. w : wire[i] = bytes[at + b + i]
        /\ at + b + w = start[m]
    BY <1>1, <1>2, <1>3 DEF Flows
  <2>2. Passed(start)' = at
    BY <1>1, <1>3 DEF Passed
  <2>3. /\ start[m + 1] = start[m] + 4 + l
        /\ \A i \in 1 .. 4 + l : bytes[start[m] + i] = frame[i]
    BY <1>2, <1>3, <1>6, <1>8, <1>9a DEF Laid
  <2>4. ASSUME NEW i \in 1 .. w + 4 + l PROVE wire'[i] = bytes[at + b + i]
    <3>1. CASE i <= w
      <4>1. i \in 1 .. w
        BY <1>4, <1>9, <3>1
      <4>. QED
        BY <1>12, <2>1, <4>1
    <3>2. CASE ~(i <= w)
      <4>1. PICK j : j = i - w
        OBVIOUS
      <4>2. j \in 1 .. 4 + l /\ i = w + j
        BY <1>4, <1>9, <3>2, <4>1
      <4>3. start[m] + j = at + b + i
        BY <1>4, <1>9, <2>1, <4>2
      <4>. QED
        BY <1>12, <2>3, <4>2, <4>3
    <3>. QED
      BY <3>1, <3>2
  <2>5. start[m + 1] \in Nat /\ start[m + 1] <= Len(bytes)
    BY <1>4, <1>6
  <2>6. at + b + (w + 4 + l) = start[m + 1]
    <3>1. at + b + (w + 4 + l) = (at + b + w) + 4 + l
      BY <1>4, <1>9
    <3>. QED
      BY <2>1, <2>3, <3>1
  <2>7. Len(sent') - Len(queue') + 1 = m + 1
    BY <1>1, <1>3, <1>6, <1>10
  <2>. QED
    BY <1>1, <1>3, <1>12, <2>1, <2>2, <2>4, <2>5, <2>6, <2>7 DEF Flows
<1>17. InTransit'
  BY <1>1, <1>2, <1>16, LaidStays DEF InTransit
<1>. QED
  BY <1>13, <1>14, <1>15, <1>17 DEF IInv

\* What is lost is the end of what was on its way.
LEMMA TransportFailsStep ==
  ASSUME IInv, NEW n, NEW how \in {"error", "cut"}, TransportFails(n, how)
  PROVE  IInv'
<1>1. /\ UNCHANGED <<sinkOpen, sent, size, buffer, delivered, outcome>>
      /\ outcome = "pending" /\ n \in 0 .. Len(wire)
      /\ queue' = <<>> /\ ending' \notin {"more", "end"}
  BY DEF TransportFails
<1>2. PICK bytes, start : Laid(bytes, start) /\ Flows(bytes, start)
  BY <1>1 DEF IInv, InTransit
<1>3. /\ Len(wire) \in Nat /\ Len(buffer) \in Nat /\ Len(bytes) \in Nat
      /\ Passed(start) \in Nat
  BY <1>2, Standing DEF IInv
<1>4. n \in Nat /\ n <= Len(wire)
  BY <1>1, <1>3
<1>5. wire' \in Seq(Octets) /\ Takes(wire', wire, 0, n)
  <2>1. SubSeq(wire, 0 + 1, n) \in Seq(Octets) /\ Takes(SubSeq(wire, 0 + 1, n), wire, 0, n)
    <3>1. wire \in Seq(Octets) /\ 0 \in Nat /\ 0 <= n
      BY <1>4 DEF IInv, Types
    <3>. QED
      BY <1>4, <3>1, Taken, Zenon
  <2>2. wire' = SubSeq(wire, 0 + 1, n)
    BY DEF TransportFails
  <2>. QED
    BY <2>1, <2>2, Zenon
<1>6. Len(wire') = n /\ \A i \in 1 .. n : wire'[i] = wire[i]
  BY <1>4, <1>5 DEF Takes
<1>7. Types' /\ InOrder' /\ Queued'
  BY <1>1, <1>5 DEF IInv, Types, InOrder, Queued
<1>8. Ends'
  BY <1>1 DEF IInv, Ends
<1>9. Flows(bytes, start)'
  <2>1. PICK at, b : at = Passed(start) /\ b = Len(buffer)
    OBVIOUS
  <2>2. /\ \A i \in 1 .. b : buffer[i] = bytes[at + i]
        /\ \A i \in 1 .. Len(wire) : wire[i] = bytes[at + b + i]
        /\ at + b + Len(wire) <= Len(bytes)
    BY <1>2, <2>1 DEF Flows
  <2>3. \A i \in 1 .. n : wire'[i] = bytes[at + b + i]
    BY <1>3, <1>4, <1>6, <2>2
  <2>4. at + b + n <= Len(bytes)
    BY <1>3, <1>4, <2>1, <2>2
  <2>5. Passed(start)' = at
    BY <1>1, <2>1 DEF Passed
  <2>. QED
    BY <1>1, <1>6, <2>1, <2>2, <2>3, <2>4, <2>5 DEF Flows
<1>10. InTransit'
  BY <1>1, <1>2, <1>9, LaidStays DEF InTransit
<1>. QED
  BY <1>7, <1>8, <1>10 DEF IInv

-----------------------------------------------------------------------------
(* The client *)

LEMMA EndStep ==
  ASSUME IInv, PollError \/ PollEnd
  PROVE  IInv'
<1>1. /\ UNCHANGED <<sinkOpen, queue, sent, wire, ending, size, buffer, delivered>>
      /\ outcome = "pending"
      /\ outcome' \in {"failed", "truncated"} \/ ending \in {"end", "cut"}
  BY DEF PollError, PollEnd
<1>2. Types' /\ InOrder' /\ Queued'
  BY <1>1 DEF IInv, Types, InOrder, Queued
<1>3. Ends'
  BY <1>1 DEF IInv, Ends
<1>4. InTransit'
  BY <1>1, NothingMoves DEF IInv
<1>. QED
  BY <1>2, <1>3, <1>4 DEF IInv

LEMMA CancelStep ==
  ASSUME IInv, Cancel
  PROVE  IInv'
<1>1. /\ UNCHANGED <<sinkOpen, sent, wire, ending, size, buffer, delivered>>
      /\ queue' = <<>> /\ outcome' = "cancelled"
  BY DEF Cancel
<1>2. Types' /\ InOrder' /\ Queued'
  BY <1>1 DEF IInv, Types, InOrder, Queued
<1>3. Ends'
  BY <1>1 DEF IInv, Ends
<1>. QED
  BY <1>1, <1>2, <1>3 DEF IInv

\* A piece of any size moves from the wire to the buffer.
LEMMA PollDataStep ==
  ASSUME IInv, NEW n, PollData(n)
  PROVE  IInv'
<1>1. /\ UNCHANGED <<sinkOpen, queue, sent, ending, size, delivered, outcome>>
      /\ outcome = "pending" /\ n \in 1 .. Len(wire)
  BY DEF PollData
<1>2. PICK bytes, start : Laid(bytes, start) /\ Flows(bytes, start)
  BY <1>1 DEF IInv, InTransit
<1>3. PICK w, b, at : w = Len(wire) /\ b = Len(buffer) /\ at = Passed(start)
  OBVIOUS
<1>4. w \in Nat /\ b \in Nat /\ at \in Nat /\ n \in Nat /\ n <= w
  <2>1. Len(wire) \in Nat /\ Len(buffer) \in Nat /\ Passed(start) \in Nat
    BY <1>2, Standing DEF IInv
  <2>. QED
    BY <1>1, <1>3, <2>1
<1>5. wire \in Seq(Octets) /\ buffer \in Seq(Octets)
  BY DEF IInv, Types
<1>6. PICK piece, rest : piece = SubSeq(wire, 1, n) /\ rest = SubSeq(wire, n + 1, w)
  OBVIOUS
<1>7. /\ piece \in Seq(Octets) /\ Len(piece) = n
      /\ \A i \in 1 .. n : piece[i] = wire[i]
  <2>1. 0 \in Nat /\ 0 <= n /\ n <= Len(wire)
    BY <1>3, <1>4
  <2>2. SubSeq(wire, 0 + 1, n) \in Seq(Octets) /\ Takes(SubSeq(wire, 0 + 1, n), wire, 0, n)
    BY <1>4, <1>5, <2>1, Taken, Zenon
  <2>3. piece = SubSeq(wire, 0 + 1, n)
    BY <1>6
  <2>4. piece \in Seq(Octets) /\ Takes(piece, wire, 0, n)
    BY <2>2, <2>3, Zenon
  <2>. QED
    BY <1>4, <2>4 DEF Takes
<1>8. /\ rest \in Seq(Octets) /\ Len(rest) = w - n
      /\ \A i \in 1 .. w - n : rest[i] = wire[n + i]
  <2>1. w <= Len(wire)
    BY <1>3, <1>4
  <2>2. SubSeq(wire, n + 1, w) \in Seq(Octets) /\ Takes(SubSeq(wire, n + 1, w), wire, n, w)
    BY <1>4, <1>5, <2>1, Taken, Zenon
  <2>3. rest \in Seq(Octets) /\ Takes(rest, wire, n, w)
    BY <1>6, <2>2, Zenon
  <2>. QED
    BY <2>3 DEF Takes
<1>9. wire' = rest
  BY <1>3, <1>6 DEF PollData
<1>10. /\ buffer' \in Seq(Octets) /\ Len(buffer') = b + n
       /\ \A i \in 1 .. b : buffer'[i] = buffer[i]
       /\ \A i \in 1 .. n : buffer'[b + i] = wire[i]
  <2>1. buffer \o piece \in Seq(Octets) /\ Joins(buffer \o piece, buffer, piece)
    BY <1>5, <1>7, Joined, Zenon
  <2>2. buffer' = buffer \o piece
    BY <1>6 DEF PollData
  <2>3. buffer' \in Seq(Octets) /\ Joins(buffer', buffer, piece)
    BY <2>1, <2>2, Zenon
  <2>. QED
    BY <1>3, <1>7, <2>3 DEF Joins
<1>11. Types'
  BY <1>1, <1>8, <1>9, <1>10 DEF IInv, Types
<1>12. InOrder' /\ Queued' /\ Ends'
  BY <1>1 DEF IInv, InOrder, Queued, Ends
<1>13. Flows(bytes, start)'
  <2>1. /\ \A i \in 1 .. b : buffer[i] = bytes[at + i]
        /\ \A i \in 1 .. w : wire[i] = bytes[at + b + i]
        /\ at + b + w <= Len(bytes)
        /\ ending \in {"more", "end"} => at + b + w = start[Len(sent) - Len(queue) + 1]
    BY <1>2, <1>3 DEF Flows
  <2>2. Passed(start)' = at
    BY <1>1, <1>3 DEF Passed
  <2>3. ASSUME NEW i \in 1 .. b + n PROVE buffer'[i] = bytes[at + i]
    <3>1. CASE i <= b
      <4>1. i \in 1 .. b
        BY <1>4, <3>1
      <4>. QED
        BY <1>10, <2>1, <4>1
    <3>2. CASE ~(i <= b)
      <4>1. PICK j : j = i - b
        OBVIOUS
      <4>2. j \in 1 .. n /\ j \in 1 .. w /\ i = b + j /\ at + b + j = at + i
        BY <1>4, <3>2, <4>1
      <4>. QED
        BY <1>10, <2>1, <4>2
    <3>. QED
      BY <3>1, <3>2
  <2>4. ASSUME NEW i \in 1 .. w - n PROVE rest[i] = bytes[at + (b + n) + i]
    <3>1. n + i \in 1 .. w /\ at + b + (n + i) = at + (b + n) + i
      BY <1>4
    <3>. QED
      BY <1>8, <2>1, <3>1
  <2>5. at + (b + n) + (w - n) = at + b + w
    BY <1>4
  <2>. QED
    BY <1>1, <1>8, <1>9, <1>10, <2>1, <2>2, <2>3, <2>4, <2>5 DEF Flows
<1>14. InTransit'
  BY <1>1, <1>2, <1>13, LaidStays DEF InTransit
<1>. QED
  BY <1>11, <1>12, <1>14 DEF IInv

\* The length that is read is the one of the next message.
LEMMA ReadLengthStep ==
  ASSUME IInv, ReadLength
  PROVE  IInv'
<1>1. /\ UNCHANGED <<sinkOpen, queue, sent, wire, ending, delivered, outcome>>
      /\ outcome = "pending" /\ size = -1 /\ Len(buffer) >= 4
      /\ size' = Length(buffer)
  BY DEF ReadLength
<1>2. PICK bytes, start : Laid(bytes, start) /\ Flows(bytes, start)
  BY <1>1 DEF IInv, InTransit
<1>3. PICK w, b, at, d :
        /\ w = Len(wire) /\ b = Len(buffer) /\ at = Passed(start) /\ d = Len(delivered) + 1
  OBVIOUS
<1>4. /\ w \in Nat /\ b \in Nat /\ at \in Nat /\ b >= 4 /\ Len(bytes) \in Nat
      /\ d \in 1 .. Len(sent) + 1 /\ Len(sent) \in Nat /\ Len(delivered) \in Nat
  <2>1. /\ Len(wire) \in Nat /\ Len(buffer) \in Nat /\ Passed(start) \in Nat
        /\ Len(bytes) \in Nat /\ Len(sent) \in Nat /\ Len(delivered) \in Nat
        /\ Len(delivered) + 1 \in 1 .. Len(sent) + 1
    BY <1>2, Standing DEF IInv
  <2>. QED
    BY <1>1, <1>3, <2>1
<1>5. start[d] = at
  <2>1. start[d] \in Nat
    BY <1>2, <1>3, <1>4, Standing DEF IInv
  <2>. QED
    BY <1>1, <1>3, <2>1 DEF Passed
<1>6. /\ \A i \in 1 .. b : buffer[i] = bytes[at + i]
      /\ \A i \in 1 .. w : wire[i] = bytes[at + b + i]
      /\ at + b + w <= Len(bytes)
      /\ ending \in {"more", "end"} => at + b + w = start[Len(sent) - Len(queue) + 1]
  BY <1>2, <1>3 DEF Flows
<1>7. d \in 1 .. Len(sent) /\ sent[d] \in Payloads
  <2>1. SUFFICES ASSUME d = Len(sent) + 1 PROVE FALSE
    BY <1>4 DEF IInv, Types
  <2>2. at = Len(bytes)
    BY <1>2, <1>5, <2>1 DEF Laid
  <2>. QED
    BY <1>4, <1>6, <2>2
<1>8. Length(buffer) = Len(sent[d]) /\ Len(sent[d]) \in Nat
  <2>1. \A i \in 1 .. 4 + Len(sent[d]) : bytes[at + i] = Frame(sent[d])[i]
    BY <1>2, <1>5, <1>7 DEF Laid
  <2>2. Len(sent[d]) \in Nat
    BY <1>7, FrameParts
  <2>3. \A i \in 1 .. 4 : i \in 1 .. b /\ i \in 1 .. 4 + Len(sent[d])
    <3>1. PICK l : l = Len(sent[d])
      OBVIOUS
    <3>2. \A i \in 1 .. 4 : i \in 1 .. b /\ i \in 1 .. 4 + l
      BY <1>4, <2>2, <3>1
    <3>. QED
      BY <3>1, <3>2
  <2>4. \A i \in 1 .. 4 : buffer[i] = Frame(sent[d])[i]
    BY <1>6, <2>1, <2>3
  <2>. QED
    BY <1>7, <2>2, <2>4, FrameParts
<1>9. PICK rest : rest = SubSeq(buffer, 5, b)
  OBVIOUS
<1>10. /\ rest \in Seq(Octets) /\ Len(rest) = b - 4
       /\ \A i \in 1 .. b - 4 : rest[i] = buffer[4 + i]
  <2>1. 4 \in Nat /\ 4 <= b /\ b <= Len(buffer) /\ buffer \in Seq(Octets)
    BY <1>3, <1>4 DEF IInv, Types
  <2>2. SubSeq(buffer, 4 + 1, b) \in Seq(Octets) /\ Takes(SubSeq(buffer, 4 + 1, b), buffer, 4, b)
    BY <1>4, <2>1, Taken, Zenon
  <2>3. rest = SubSeq(buffer, 4 + 1, b)
    BY <1>9
  <2>4. rest \in Seq(Octets) /\ Takes(rest, buffer, 4, b)
    BY <2>2, <2>3, Zenon
  <2>. QED
    BY <2>4 DEF Takes
<1>11. buffer' = rest
  BY <1>3, <1>9 DEF ReadLength
<1>12. Types'
  BY <1>1, <1>8, <1>10, <1>11 DEF IInv, Types
<1>13. InOrder'
  <2>1. Len(delivered) < Len(sent)
    BY <1>3, <1>4, <1>7
  <2>. QED
    BY <1>1, <1>3, <1>8, <2>1 DEF IInv, InOrder
<1>14. Queued' /\ Ends'
  BY <1>1 DEF IInv, Queued, Ends
<1>15. Flows(bytes, start)'
  <2>1. Passed(start)' = at + 4
    BY <1>1, <1>3, <1>5, <1>8 DEF Passed
  <2>2. ASSUME NEW i \in 1 .. b - 4 PROVE rest[i] = bytes[(at + 4) + i]
    <3>1. 4 + i \in 1 .. b /\ at + (4 + i) = (at + 4) + i
      BY <1>4
    <3>. QED
      BY <1>6, <1>10, <3>1
  <2>3. PICK at2, b2 : at2 = at + 4 /\ b2 = b - 4
    OBVIOUS
  <2>4. at2 + b2 = at + b
    BY <1>4, <2>3
  <2>5. /\ Passed(start)' = at2 /\ Len(buffer') = b2 /\ Len(wire') = w
        /\ \A i \in 1 .. b2 : buffer'[i] = bytes[at2 + i]
        /\ \A i \in 1 .. w : wire'[i] = bytes[at2 + b2 + i]
    BY <1>1, <1>3, <1>6, <1>10, <1>11, <2>1, <2>2, <2>3, <2>4
  <2>6. /\ at2 + b2 + w <= Len(bytes)
        /\ ending' \in {"more", "end"} => at2 + b2 + w = start[Len(sent') - Len(queue') + 1]
    BY <1>1, <1>6, <2>4
  <2>. QED
    BY <2>5, <2>6 DEF Flows
<1>16. InTransit'
  BY <1>1, <1>2, <1>15, LaidStays DEF InTransit
<1>. QED
  BY <1>12, <1>13, <1>14, <1>16 DEF IInv

\* The message that is yielded is the one that is next.
LEMMA YieldsNext ==
  ASSUME IInv, YieldMessage
  PROVE  /\ Len(delivered) < Len(sent)
         /\ delivered' = Append(delivered, sent[Len(delivered) + 1])
<1>1. outcome = "pending" /\ size # -1 /\ Len(buffer) >= size
  BY DEF YieldMessage
<1>2. PICK bytes, start : Laid(bytes, start) /\ Flows(bytes, start)
  BY <1>1 DEF IInv, InTransit
<1>3. PICK b, at, d :
        /\ b = Len(buffer) /\ at = start[Len(delivered) + 1] /\ d = Len(delivered) + 1
  OBVIOUS
<1>4. /\ b \in Nat /\ at \in Nat /\ size \in Nat /\ size <= b /\ buffer \in Seq(Octets)
      /\ d \in 1 .. Len(sent) /\ d \in 1 .. Len(sent) + 1 /\ size = Len(sent[d])
      /\ sent[d] \in Payloads /\ Len(delivered) < Len(sent)
  <2>1. /\ Len(buffer) \in Nat /\ Len(sent) \in Nat /\ Len(delivered) \in Nat
        /\ Len(delivered) + 1 \in 1 .. Len(sent) + 1
        /\ \A k \in 1 .. Len(sent) + 1 : start[k] \in Nat
    BY <1>2, Standing DEF IInv
  <2>2. Len(delivered) < Len(sent) /\ size = Len(sent[d])
    BY <1>1, <1>3 DEF IInv, InOrder
  <2>3. size \in Nat /\ buffer \in Seq(Octets) /\ sent \in Seq(Payloads)
    BY <1>1 DEF IInv, Types
  <2>4. d \in 1 .. Len(sent)
    BY <1>3, <2>1, <2>2
  <2>. QED
    BY <1>1, <1>3, <2>1, <2>2, <2>3, <2>4
<1>5. \A i \in 1 .. b : buffer[i] = bytes[at + 4 + i]
  <2>1. Passed(start) = at + 4
    BY <1>1, <1>3 DEF Passed
  <2>. QED
    BY <1>2, <1>3, <2>1 DEF Flows
<1>6. PICK message : message = SubSeq(buffer, 1, size)
  OBVIOUS
<1>7. /\ message \in Seq(Octets) /\ Len(message) = size
      /\ \A i \in 1 .. size : message[i] = buffer[i]
  <2>1. 0 \in Nat /\ 0 <= size /\ size <= Len(buffer)
    BY <1>3, <1>4
  <2>2. SubSeq(buffer, 0 + 1, size) \in Seq(Octets) /\ Takes(SubSeq(buffer, 0 + 1, size), buffer, 0, size)
    BY <1>4, <2>1, Taken, Zenon
  <2>3. message = SubSeq(buffer, 0 + 1, size)
    BY <1>6
  <2>4. message \in Seq(Octets) /\ Takes(message, buffer, 0, size)
    BY <2>2, <2>3, Zenon
  <2>. QED
    BY <1>4, <2>4 DEF Takes
<1>8. \A i \in 1 .. size : message[i] = sent[d][i]
  <2>1. TAKE i \in 1 .. size
  <2>2. i \in 1 .. b /\ 4 + i \in 1 .. 4 + size /\ at + 4 + i = at + (4 + i)
    BY <1>4
  <2>3. bytes[at + (4 + i)] = Frame(sent[d])[4 + i]
    BY <1>2, <1>3, <1>4, <2>2 DEF Laid
  <2>4. Frame(sent[d])[4 + i] = sent[d][i]
    BY <1>4, FrameParts
  <2>. QED
    BY <1>5, <1>7, <2>2, <2>3, <2>4
<1>9. message = sent[d]
  <2>1. sent[d] \in Seq(Octets) /\ Len(sent[d]) = size
    BY <1>4, FrameParts
  <2>2. PICK data : data = sent[d]
    OBVIOUS
  <2>3. data \in Seq(Octets) /\ Len(data) = Len(message) /\ \A i \in 1 .. Len(data) : data[i] = message[i]
    BY <1>7, <1>8, <2>1, <2>2
  <2>4. data = message
    BY <1>7, <2>3
  <2>. QED
    BY <2>2, <2>4
<1>. QED
  BY <1>3, <1>4, <1>6, <1>9 DEF YieldMessage

LEMMA YieldMessageStep ==
  ASSUME IInv, YieldMessage
  PROVE  IInv'
<1>1. /\ UNCHANGED <<sinkOpen, queue, sent, wire, ending, outcome>>
      /\ outcome = "pending" /\ size # -1 /\ Len(buffer) >= size /\ size' = -1
  BY DEF YieldMessage
<1>2. PICK bytes, start : Laid(bytes, start) /\ Flows(bytes, start)
  BY <1>1 DEF IInv, InTransit
<1>3. PICK w, b, at, d, s :
        /\ w = Len(wire) /\ b = Len(buffer) /\ d = Len(delivered) + 1
        /\ at = start[d] /\ s = size
  OBVIOUS
<1>4. /\ w \in Nat /\ b \in Nat /\ s \in Nat /\ s <= b /\ at \in Nat
      /\ Len(sent) \in Nat /\ Len(delivered) \in Nat
      /\ d \in 1 .. Len(sent) /\ d \in 1 .. Len(sent) + 1 /\ d + 1 \in 1 .. Len(sent) + 1
      /\ start[d + 1] \in Nat /\ s = Len(sent[d]) /\ sent[d] \in Payloads
  <2>1. /\ Len(wire) \in Nat /\ Len(buffer) \in Nat
        /\ Len(sent) \in Nat /\ Len(delivered) \in Nat
        /\ \A k \in 1 .. Len(sent) + 1 : start[k] \in Nat
    BY <1>2, Standing DEF IInv
  <2>2. Len(delivered) < Len(sent) /\ s = Len(sent[d])
    BY <1>1, <1>3 DEF IInv, InOrder
  <2>3. s \in Nat /\ s <= b /\ sent \in Seq(Payloads)
    BY <1>1, <1>3 DEF IInv, Types
  <2>4. d \in 1 .. Len(sent) /\ d \in 1 .. Len(sent) + 1 /\ d + 1 \in 1 .. Len(sent) + 1
    BY <1>3, <2>1, <2>2
  <2>. QED
    BY <1>3, <2>1, <2>2, <2>3, <2>4
<1>5. start[d + 1] = at + 4 + s
  BY <1>2, <1>3, <1>4 DEF Laid
<1>6. /\ \A i \in 1 .. b : buffer[i] = bytes[(at + 4) + i]
      /\ \A i \in 1 .. w : wire[i] = bytes[(at + 4) + b + i]
      /\ (at + 4) + b + w <= Len(bytes)
      /\ ending \in {"more", "end"} => (at + 4) + b + w = start[Len(sent) - Len(queue) + 1]
  <2>1. Passed(start) = at + 4
    BY <1>1, <1>3 DEF Passed
  <2>. QED
    BY <1>2, <1>3, <2>1 DEF Flows
<1>7. PICK rest : rest = SubSeq(buffer, s + 1, b)
  OBVIOUS
<1>8. /\ rest \in Seq(Octets) /\ Len(rest) = b - s
      /\ \A i \in 1 .. b - s : rest[i] = buffer[s + i]
  <2>1. b <= Len(buffer) /\ buffer \in Seq(Octets)
    BY <1>3, <1>4 DEF IInv, Types
  <2>2. SubSeq(buffer, s + 1, b) \in Seq(Octets) /\ Takes(SubSeq(buffer, s + 1, b), buffer, s, b)
    BY <1>4, <2>1, Taken, Zenon
  <2>3. rest \in Seq(Octets) /\ Takes(rest, buffer, s, b)
    BY <1>7, <2>2, Zenon
  <2>. QED
    BY <2>3 DEF Takes
<1>9. buffer' = rest
  BY <1>3, <1>7 DEF YieldMessage
<1>10. /\ Len(delivered) < Len(sent) /\ delivered' = Append(delivered, sent[d])
       /\ sent[d] \in Seq(Octets) /\ delivered \in Seq(Seq(Octets))
  BY <1>3, <1>4, YieldsNext, FrameParts DEF IInv, Types
<1>11. /\ delivered' \in Seq(Seq(Octets)) /\ Len(delivered') = d /\ delivered'[d] = sent[d]
       /\ \A k \in 1 .. Len(delivered) : delivered'[k] = delivered[k]
  BY <1>3, <1>10
<1>12. Types'
  BY <1>1, <1>8, <1>9, <1>11 DEF IInv, Types
<1>13. InOrder'
  <2>1. ASSUME NEW k \in 1 .. d PROVE delivered'[k] = sent[k]
    <3>1. CASE k = d
      BY <1>11, <3>1
    <3>2. CASE k # d
      <4>1. k \in 1 .. Len(delivered)
        BY <1>3, <1>4, <3>2
      <4>. QED
        BY <1>11, <4>1 DEF IInv, InOrder
    <3>. QED
      BY <3>1, <3>2
  <2>2. d <= Len(sent)
    BY <1>4
  <2>. QED
    BY <1>1, <1>11, <2>1, <2>2 DEF InOrder
<1>14. Queued' /\ Ends'
  BY <1>1 DEF IInv, Queued, Ends
<1>15. Flows(bytes, start)'
  <2>1. PICK at2, b2 : at2 = at + 4 + s /\ b2 = b - s
    OBVIOUS
  <2>0. at \in Nat /\ b \in Nat /\ s \in Nat /\ s <= b
    BY <1>4
  <2>2. at2 + b2 = (at + 4) + b /\ at2 \in Nat
    BY <2>0, <2>1
  <2>3. Passed(start)' = at2
    BY <1>1, <1>5, <1>11, <2>1, <2>2 DEF Passed
  <2>4. ASSUME NEW i \in 1 .. b2 PROVE rest[i] = bytes[at2 + i]
    <3>1. s + i \in 1 .. b /\ i \in 1 .. b - s /\ (at + 4) + (s + i) = at2 + i
      BY <2>0, <2>1
    <3>. QED
      BY <1>6, <1>8, <3>1
  <2>5. /\ Len(buffer') = b2 /\ Len(wire') = w
        /\ \A i \in 1 .. w : wire'[i] = bytes[at2 + b2 + i]
    BY <1>1, <1>3, <1>6, <1>8, <1>9, <2>1, <2>2
  <2>6. /\ at2 + b2 + w <= Len(bytes)
        /\ ending' \in {"more", "end"} => at2 + b2 + w = start[Len(sent') - Len(queue') + 1]
    BY <1>1, <1>6, <2>2
  <2>. QED
    BY <1>9, <2>3, <2>4, <2>5, <2>6 DEF Flows
<1>16. InTransit'
  BY <1>1, <1>2, <1>15, LaidStays DEF InTransit
<1>. QED
  BY <1>12, <1>13, <1>14, <1>16 DEF IInv

\* Where a body ends behind the last message and nothing of it is left, the client
\* stands behind the last message.
LEMMA AllDelivered ==
  ASSUME IInv, outcome # "cancelled", ending = "end", Starved, wire = <<>>, buffer = <<>>
  PROVE  delivered = sent
<1>1. PICK bytes, start : Laid(bytes, start) /\ Flows(bytes, start)
  BY DEF IInv, InTransit
<1>2. queue = <<>> /\ Len(queue) = 0 /\ Len(buffer) = 0 /\ Len(wire) = 0
  BY DEF IInv, Ends
<1>3. PICK n, d, at : n = Len(sent) /\ d = Len(delivered) /\ at = Passed(start)
  OBVIOUS
<1>4. /\ n \in Nat /\ d \in Nat /\ d + 1 \in 1 .. n + 1 /\ n + 1 \in 1 .. n + 1
      /\ at \in Nat /\ d <= n
  <2>1. /\ Len(sent) \in Nat /\ Len(delivered) \in Nat
        /\ Len(delivered) + 1 \in 1 .. Len(sent) + 1 /\ Passed(start) \in Nat
    BY <1>1, Standing DEF IInv
  <2>. QED
    BY <1>3, <2>1
<1>5. start[d + 1] \in Nat /\ start[n + 1] \in Nat
  BY <1>1, <1>3, <1>4, Standing DEF IInv
<1>6. at = start[n + 1]
  <2>1. Passed(start) + 0 + 0 = start[Len(sent) - 0 + 1]
    BY <1>1, <1>2 DEF Flows
  <2>2. Len(sent) - 0 + 1 = n + 1
    BY <1>3, <1>4
  <2>. QED
    BY <1>3, <1>4, <2>1, <2>2
<1>7. d = n
  <2>1. SUFFICES ASSUME d # n PROVE FALSE
    OBVIOUS
  <2>2. start[d + 1] + 4 <= start[n + 1]
    <3>1. d + 1 < n + 1
      BY <1>4, <2>1
    <3>. QED
      BY <1>1, <1>3, <1>4, <3>1 DEF Laid
  <2>3. size # -1
    <3>1. SUFFICES ASSUME size = -1 PROVE FALSE
      OBVIOUS
    <3>2. at = start[d + 1]
      BY <1>3, <1>5, <3>1 DEF Passed
    <3>. QED
      BY <1>5, <1>6, <2>2, <3>2
  <2>4. size \in Nat /\ 0 < size
    <3>1. size \in Nat
      BY <2>3 DEF IInv, Types
    <3>. QED
      BY <1>2, <2>3, <3>1 DEF Starved
  <2>5. size = Len(sent[d + 1]) /\ d + 1 \in 1 .. n
    <3>1. d + 1 \in 1 .. n
      BY <1>4, <2>1
    <3>. QED
      BY <1>3, <2>3, <3>1 DEF IInv, InOrder
  <2>6. at = start[d + 1] + 4
    BY <1>3, <1>5, <2>3 DEF Passed
  <2>7. start[(d + 1) + 1] = start[d + 1] + 4 + size
    BY <1>1, <1>3, <2>5 DEF Laid
  <2>8. start[(d + 1) + 1] <= start[n + 1]
    <3>1. (d + 1) + 1 \in 1 .. n + 1 /\ (d + 1) + 1 <= n + 1
      BY <1>4, <2>5
    <3>. QED
      BY <1>1, <1>3, <1>4, <3>1 DEF Laid
  <2>. QED
    BY <1>5, <1>6, <2>4, <2>6, <2>7, <2>8
<1>8. \A k \in 1 .. n : delivered[k] = sent[k]
  BY <1>3, <1>7 DEF IInv, InOrder
<1>9. delivered = [k \in 1 .. n |-> delivered[k]] /\ sent = [k \in 1 .. n |-> sent[k]]
  <2>1. delivered \in Seq(Seq(Octets)) /\ sent \in Seq(Payloads)
    BY DEF IInv, Types
  <2>2. /\ delivered = [k \in 1 .. Len(delivered) |-> delivered[k]]
        /\ sent = [k \in 1 .. Len(sent) |-> sent[k]]
    BY <2>1
  <2>. QED
    BY <1>3, <1>7, <2>2
<1>10. [k \in 1 .. n |-> delivered[k]] = [k \in 1 .. n |-> sent[k]]
  BY <1>8
<1>. QED
  BY <1>9, <1>10, Zenon

-----------------------------------------------------------------------------
(* The theorems *)

\* Whatever the handler, the transport and the client do, what the client has
\* read are the messages the handler sent, and what it has not read is on its way
\* to it byte by byte (handle_request, BusSink::send and BusStream::poll_next).
THEOREM StreamInvariance == StreamSpec => []IInv
<1>1. IInv /\ [StreamNext]_streamVars => IInv'
  <2>. SUFFICES ASSUME IInv, [StreamNext]_streamVars PROVE IInv'
    OBVIOUS
  <2>1. ASSUME NEW data \in Payloads, Send(data) PROVE IInv'
    BY <2>1, SendStep
  <2>2. CASE SendRejected \/ DropSink
    BY <2>2, HandlerStep
  <2>3. CASE PumpFrame
    BY <2>3, PumpFrameStep
  <2>4. CASE PumpEnd
    BY <2>4, PumpEndStep
  <2>5. ASSUME NEW n \in 0 .. Len(wire), NEW how \in {"error", "cut"}, TransportFails(n, how)
        PROVE  IInv'
    BY <2>5, TransportFailsStep
  <2>6. CASE YieldMessage
    BY <2>6, YieldMessageStep
  <2>7. CASE ReadLength
    BY <2>7, ReadLengthStep
  <2>8. ASSUME NEW n \in 1 .. MaxPiece, PollData(n) PROVE IInv'
    BY <2>8, PollDataStep
  <2>9. CASE PollError \/ PollEnd
    BY <2>9, EndStep
  <2>10. CASE Cancel
    BY <2>10, CancelStep
  <2>11. CASE UNCHANGED streamVars
    <3>1. UNCHANGED <<sinkOpen, queue, sent, wire, ending, size, buffer, delivered, outcome>>
      BY <2>11 DEF streamVars
    <3>2. Types' /\ InOrder' /\ Queued' /\ Ends'
      BY <3>1 DEF IInv, Types, InOrder, Queued, Ends
    <3>3. outcome' # "cancelled" => InTransit'
      BY <3>1, NothingMoves DEF IInv
    <3>. QED
      BY <3>2, <3>3 DEF IInv
  <2>. QED
    BY <2>1, <2>2, <2>3, <2>4, <2>5, <2>6, <2>7, <2>8, <2>9, <2>10, <2>11
       DEF StreamNext, Transport, Poll
<1>. QED
  BY InitIInv, <1>1, PTL DEF StreamSpec

\* The stream implements the channel it promises to be: sending puts a message,
\* yielding takes the next one, and only the end of a body that nothing cut is the
\* end of the channel, when all that was sent has been delivered
\* (BusSink::send, BusStream::poll_next and the 32 messages between them).
THEOREM StreamImplementsChannel == StreamSpec => ImplementsChannel
<1>1. StreamInit => Channel!Init
  BY DEF StreamInit, Channel!Init
<1>2. IInv /\ [StreamNext]_streamVars =>
        [(\E data \in Payloads : Channel!Put(data)) \/ Channel!Take \/ Channel!End]_<<
           sent, delivered, outcome = "ended" /\ ending = "end">>
  <2>. SUFFICES ASSUME IInv, [StreamNext]_streamVars
                PROVE  \/ \E data \in Payloads : Channel!Put(data)
                       \/ Channel!Take
                       \/ Channel!End
                       \/ UNCHANGED <<sent, delivered, outcome = "ended" /\ ending = "end">>
    OBVIOUS
  <2>1. ASSUME NEW data \in Payloads, Send(data) PROVE Channel!Put(data)
    <3>1. /\ sinkOpen /\ sent' = Append(sent, data)
          /\ delivered' = delivered /\ outcome' = outcome /\ ending' = ending
      BY <2>1 DEF Send
    <3>2. ending # "end"
      BY <3>1 DEF IInv, Ends
    <3>. QED
      BY <3>1, <3>2 DEF Channel!Put
  <2>2. ASSUME SendRejected \/ DropSink \/ PumpFrame \/ ReadLength \/ UNCHANGED streamVars
        PROVE  UNCHANGED <<sent, delivered, outcome, ending>>
    BY <2>2 DEF SendRejected, DropSink, PumpFrame, ReadLength, streamVars
  <2>3. ASSUME NEW n, PollData(n) PROVE UNCHANGED <<sent, delivered, outcome, ending>>
    BY <2>3 DEF PollData
  <2>4. ASSUME PumpEnd \/ PollError \/ Cancel \/ \E n, how : TransportFails(n, how)
        PROVE  /\ UNCHANGED <<sent, delivered>>
               /\ ~(outcome = "ended" /\ ending = "end")
               /\ ~(outcome' = "ended" /\ ending' = "end")
    <3>1. CASE PumpEnd
      BY <3>1 DEF PumpEnd, IInv, Ends
    <3>2. CASE PollError \/ Cancel
      BY <3>2 DEF PollError, Cancel
    <3>3. CASE \E n, how : TransportFails(n, how)
      BY <3>3 DEF TransportFails
    <3>. QED
      BY <2>4, <3>1, <3>2, <3>3
  <2>5. ASSUME YieldMessage PROVE Channel!Take
    <3>1. outcome = "pending" /\ outcome' = outcome /\ sent' = sent /\ ending' = ending
      BY <2>5 DEF YieldMessage
    <3>2. Len(delivered) < Len(sent) /\ delivered' = Append(delivered, sent[Len(delivered) + 1])
      BY <2>5, YieldsNext
    <3>. QED
      BY <3>1, <3>2 DEF Channel!Take
  <2>6. ASSUME PollEnd
        PROVE  \/ Channel!End
               \/ /\ UNCHANGED <<sent, delivered>>
                  /\ ~(outcome = "ended" /\ ending = "end")
                  /\ ~(outcome' = "ended" /\ ending' = "end")
    <3>1. /\ UNCHANGED <<sent, delivered, ending>> /\ outcome = "pending"
          /\ wire = <<>> /\ Starved /\ (outcome' = "ended" => buffer = <<>>)
      BY <2>6 DEF PollEnd
    <3>2. SUFFICES ASSUME outcome' = "ended", ending = "end" PROVE delivered = sent
      BY <3>1 DEF Channel!End
    <3>3. delivered = sent
      BY <3>1, <3>2, AllDelivered
    <3>. QED
      BY <3>3
  <2>. QED
    BY <2>1, <2>2, <2>3, <2>4, <2>5, <2>6 DEF StreamNext, Transport, Poll
<1>. QED
  BY <1>1, <1>2, StreamInvariance, PTL DEF StreamSpec, ImplementsChannel, Channel!Spec

=============================================================================
