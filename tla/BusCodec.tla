------------------------------ MODULE BusCodec ------------------------------
(***************************************************************************)
(* How bus writes values as bytes: variable-length integers, packs of      *)
(* offsets and structs of fields (src/util/bus/varint.rs, pack.rs and      *)
(* encoded_struct.rs).  A byte is a number below 256 and a buffer is a     *)
(* sequence of them.  Indexes of fields and of pack entries count from 0,  *)
(* as in the code; positions in TLA+ sequences count from 1.               *)
(***************************************************************************)
EXTENDS Integers, Sequences, SequencesExt, FiniteSetsExt, FiniteSets

CONSTANTS
  None,     \* the code's Option::None
  Invalid   \* an std::io::Error

FirstN(bytes, n) == SubSeq(bytes, 1, n)
Total(s, from, to) == MapThenSumSet(LAMBDA i : s[i], from .. to)
Bytes32(n) == [i \in 1 .. 4 |-> (n \div 256 ^ (i - 1)) % 256]
Read32(bytes, k) ==
  LET at == 4 * k IN
  IF at + 4 > Len(bytes) THEN 0
  ELSE MapThenSumSet(LAMBDA i : bytes[at + i] * 256 ^ (i - 1), 1 .. 4)

-----------------------------------------------------------------------------
(* varint.rs.  The last byte of an integer is the one below 128, except    *)
(* that 127 is written as two bytes (the code compares with 0b01111111).   *)

EncodeVarint[v \in Nat] ==
  IF v < 127 THEN <<v>> ELSE <<128 + (v % 128)>> \o EncodeVarint[v \div 128]

DecodeVarint(bytes) ==
  LET ends == {i \in DOMAIN bytes : bytes[i] < 128}
      last == IF ends = {} THEN Len(bytes) ELSE Min(ends)
  IN  MapThenSumSet(LAMBDA i : (bytes[i] % 128) * 128 ^ (i - 1), 1 .. last)

\* Sign and magnitude; the first byte holds the sign and six bits.
EncodeIvarint(i) ==
  LET value == IF i < 0 THEN -i ELSE i
      sign  == IF i < 0 THEN 128 ELSE 0
  IN  IF i = 0 THEN <<>>
      ELSE IF value < 63 THEN <<value + sign>>
      ELSE <<(value % 64) + 64 + sign>> \o EncodeVarint[value \div 64]

\* Every byte of the slice is read, whatever its top bit.
DecodeIvarint(bytes) ==
  IF bytes = <<>> THEN 0
  ELSE LET value == (bytes[1] % 64) +
             MapThenSumSet(LAMBDA i : (bytes[i] % 128) * 64 * 128 ^ (i - 2), 2 .. Len(bytes))
       IN  IF bytes[1] >= 128 THEN -value ELSE value

\* Most significant digit first, so that it is read from the end backwards;
\* zero is no byte at all.
EncodeReverseVarint(v) ==
  LET digits == IF v = 0 THEN 0 ELSE Min({k \in 1 .. 5 : k = 5 \/ v < 128 ^ k})
  IN  [i \in 1 .. digits |->
         ((v \div 128 ^ (digits - i)) % 128) + (IF i = 1 THEN 0 ELSE 128)]

\* <<value, bytes read>>; the loop gives up after ten bytes.
ReadBackwards(bytes, read) ==
  LET n == Len(bytes)
  IN  <<MapThenSumSet(LAMBDA k : (bytes[n + 1 - k] % 128) * 128 ^ (k - 1), 1 .. read), read>>
LastRead(ends, n) == IF ends = {} THEN n ELSE Min(ends)
DecodeReverseVarint(bytes) ==
  LET n == Len(bytes)
  IN  ReadBackwards(bytes, LastRead({k \in 1 .. n : k = 10 \/ bytes[n + 1 - k] < 128}, n))

-----------------------------------------------------------------------------
(* pack.rs: a pack holds the running totals of a sequence of deltas.  A    *)
(* delta below 128 is one byte; at a mark (a larger delta, and every       *)
(* sixteenth entry) the byte is 128 and the total itself is an offset.     *)
(* The index counts the offsets before each block of sixteen.              *)

Marks(deltas) == {i \in DOMAIN deltas : i % 16 = 0 \/ deltas[i] >= 128}

PackBuilder(deltas) ==
  LET marks == SelectSeq([i \in DOMAIN deltas |-> i], LAMBDA i : i \in Marks(deltas)) IN
  [data    |-> [i \in DOMAIN deltas |-> IF i \in Marks(deltas) THEN 128 ELSE deltas[i]],
   offsets |-> FlattenSeq([k \in DOMAIN marks |-> Bytes32(Total(deltas, 1, marks[k]))]),
   index   |-> FlattenSeq([b \in 1 .. (Len(deltas) \div 16) |->
                             Bytes32(Cardinality({i \in Marks(deltas) : i <= 16 * b}))])]

PackBytes(p) ==
  p.data \o p.offsets \o p.index \o EncodeReverseVarint(Len(p.data))

PackAt(bytes, values, start, end) ==
  IF start < 0 \/ values > Len(bytes) \/ values > start \/ (start - values) % 4 # 0
  THEN Invalid
  ELSE [data    |-> FirstN(bytes, values),
        offsets |-> SubSeq(bytes, values + 1, start),
        index   |-> SubSeq(bytes, start + 1, end)]
PackBefore(bytes, values, end) == PackAt(bytes, values, end - (values \div 16) * 4, end)
PackWith(bytes, footer) == PackBefore(bytes, footer[1], Len(bytes) - footer[2])
PackNew(bytes) == PackWith(bytes, DecodeReverseVarint(bytes))

\* The marks in the block of entry idx up to it, and how many offsets there are
\* up to it, by the index of the blocks before.
MarksOfBlock(p, idx) == {i \in (16 * (idx \div 16) + 1) .. (idx + 1) : p.data[i] >= 128}
OffsetPosition(p, idx) ==
  (IF idx < 16 THEN 0 ELSE Read32(p.index, (idx \div 16) - 1)) + Cardinality(MarksOfBlock(p, idx))

\* The total at entry idx: the last offset at or before it, and the deltas since.
PackGet(p, idx) ==
  LET position == OffsetPosition(p, idx)
      offset == IF position > 0 THEN Read32(p.offsets, position - 1) ELSE 0
      since  == Max({16 * (idx \div 16)} \cup MarksOfBlock(p, idx)) + 1
  IN  IF idx >= Len(p.data) THEN None ELSE offset + Total(p.data, since, idx + 1)

\* What the iterator yields from entry idx on: it starts from the entry before
\* and takes the next offset at each mark.
PackIterFrom(p, idx) ==
  LET before == IF idx = 0 THEN 0 ELSE OffsetPosition(p, idx - 1)
      Seen(n) == before + Cardinality({i \in (idx + 1) .. n : p.data[i] >= 128})
      value[n \in idx .. Len(p.data)] ==
        IF n = idx THEN (IF idx = 0 THEN 0 ELSE PackGet(p, idx - 1))
        ELSE IF p.data[n] < 128 THEN value[n - 1] + p.data[n]
        ELSE Read32(p.offsets, Seen(n) - 1)
  IN  IF idx >= Len(p.data) THEN <<>>
      ELSE [k \in 1 .. (Len(p.data) - idx) |-> value[idx + k]]

-----------------------------------------------------------------------------
(* encoded_struct.rs: the fields one after the other, a pack of where each *)
(* but the last ends, and the length of the pack.                          *)

WithPack(data, pack) == data \o pack \o EncodeReverseVarint(Len(pack) + 1)
StructFinish(fields) ==
  IF fields = <<>> THEN <<>>
  ELSE WithPack(FlattenSeq(fields),
                PackBytes(PackBuilder([i \in 1 .. (Len(fields) - 1) |-> Len(fields[i])])))

NoFields == [empty |-> TRUE, data |-> <<>>, fields |-> [data |-> <<>>, offsets |-> <<>>, index |-> <<>>]]

StructOf(data, pack) ==
  IF pack = Invalid THEN Invalid ELSE [empty |-> FALSE, data |-> data, fields |-> pack]
StructAt(bytes, start, end) ==
  IF start < 0 THEN Invalid ELSE StructOf(FirstN(bytes, start), PackNew(SubSeq(bytes, start + 1, end)))
StructWith(bytes, footer, end) ==
  IF footer[1] = 0 THEN NoFields ELSE StructAt(bytes, end - (footer[1] - 1), end)
StructBefore(bytes, footer) == StructWith(bytes, footer, Len(bytes) - footer[2])
StructNew(bytes) == StructBefore(bytes, DecodeReverseVarint(bytes))

\* The bytes of field idx, None behind the last one.
Until(s, end) == IF end = None THEN Len(s.data) ELSE end
Slice(data, start, until) ==
  IF start > until \/ until > Len(data) THEN Invalid ELSE SubSeq(data, start + 1, until)
FieldFrom(s, idx, start) ==
  IF start = None THEN None ELSE Slice(s.data, start, Until(s, PackGet(s.fields, idx)))
StructGet(s, idx) ==
  IF s.empty THEN None ELSE FieldFrom(s, idx, IF idx = 0 THEN 0 ELSE PackGet(s.fields, idx - 1))

\* EncodedStructIterator: it is done at once when the struct has no data.
Between(data, ends) ==
  [i \in DOMAIN ends |-> SubSeq(data, IF i = 1 THEN 1 ELSE ends[i - 1] + 1, ends[i])]
StructIter(s) ==
  IF s.data = <<>> THEN <<>> ELSE Between(s.data, Append(PackIterFrom(s.fields, 0), Len(s.data)))
=============================================================================
