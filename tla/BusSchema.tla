------------------------------ MODULE BusSchema ------------------------------
(***************************************************************************)
(* The bus compiler: which schemas its parser accepts                      *)
(* (src/util/bus/parser.rs), and what the code it generates for a message  *)
(* does (src/util/bus/codegen/rust.rs), with the encodings of the scalar   *)
(* types (serializable.rs).                                                *)
(*                                                                         *)
(* A schema is a record of sequences of messages, enums and services.  A   *)
(* message's value is a function from the names of its fields, a repeated  *)
(* field's a sequence, a string or bytes a sequence of bytes, a float its  *)
(* four bytes, an enum's the name of the field.                            *)
(***************************************************************************)
EXTENDS BusCodec

Varints  == {"u16", "u32", "u64"}
Ivarints == {"i16", "i32", "i64"}
Scalars  == Varints \cup Ivarints \cup {"u8", "i8", "bool", "string", "float", "bytes"}

ToSetOfNames(defs) == {defs[i].name : i \in DOMAIN defs}
Named(defs, name) == defs[CHOOSE i \in DOMAIN defs : defs[i].name = name]
IsMessage(schema, type) == type \in ToSetOfNames(schema.messages)
IsEnum(schema, type) == type \in ToSetOfNames(schema.enums)
Distinct(values) == \A i, j \in DOMAIN values : values[i] = values[j] => i = j

-----------------------------------------------------------------------------
(* parser.rs: what parse() refuses.                                        *)

AllowedDefaultNames == {"None", "Unknown", "Disabled", "Default"}

ConvertsMessage(msg) ==
  /\ Distinct([i \in DOMAIN msg.fields |-> msg.fields[i].name])
  /\ Distinct([i \in DOMAIN msg.fields |-> msg.fields[i].tag])
  /\ \A i \in DOMAIN msg.fields : msg.fields[i].tag >= 0

ConvertsEnum(e) ==
  /\ Distinct([i \in DOMAIN e.fields |-> e.fields[i].name])
  /\ \A i \in DOMAIN e.fields :
       /\ e.fields[i].tag \in 0 .. 255
       /\ e.fields[i].tag = 0 => e.fields[i].name \in AllowedDefaultNames

ConvertsService(s) == Distinct([i \in DOMAIN s.rpcs |-> s.rpcs[i].name])

Accepts(schema) ==
  LET all == schema.messages \o schema.enums \o schema.services IN
  /\ \A i \in DOMAIN schema.messages : ConvertsMessage(schema.messages[i])
  /\ \A i \in DOMAIN schema.enums : ConvertsEnum(schema.enums[i])
  /\ \A i \in DOMAIN schema.services : ConvertsService(schema.services[i])
  /\ Distinct([i \in DOMAIN all |-> all[i].name])
  /\ \A i \in DOMAIN schema.messages : \A k \in DOMAIN schema.messages[i].fields :
       LET type == schema.messages[i].fields[k].type IN
       type \in Scalars \/ IsMessage(schema, type) \/ IsEnum(schema, type)
  /\ \A i \in DOMAIN schema.services : \A k \in DOMAIN schema.services[i].rpcs :
       /\ IsMessage(schema, schema.services[i].rpcs[k].argument)
       /\ IsMessage(schema, schema.services[i].rpcs[k].returns)

-----------------------------------------------------------------------------
(* serializable.rs: the scalar types.                                      *)

EncodeScalar(type, v) ==
  CASE type \in Varints  -> EncodeVarint[v]
    [] type \in Ivarints -> EncodeIvarint(v)
    [] type \in {"u8", "i8"} -> IF v = 0 THEN <<>> ELSE <<v % 256>>
    [] type = "bool" -> IF v THEN <<1>> ELSE <<>>
    [] OTHER -> v

\* Conversions to a narrower integer wrap; widths above 16 bits are beyond
\* the values used here.
DecodeScalar(type, bytes) ==
  CASE type = "u16" -> DecodeVarint(bytes) % 2 ^ 16
    [] type \in Varints -> DecodeVarint(bytes)
    [] type = "i16" -> ((DecodeIvarint(bytes) + 2 ^ 15) % 2 ^ 16) - 2 ^ 15
    [] type \in Ivarints -> DecodeIvarint(bytes)
    [] type = "u8" -> IF bytes = <<>> THEN 0 ELSE bytes[1]
    [] type = "i8" -> IF bytes = <<>> THEN 0 ELSE ((bytes[1] + 128) % 256) - 128
    [] type = "bool" -> bytes # <<>>
    [] type = "float" -> IF Len(bytes) = 4 THEN bytes ELSE Invalid
    [] OTHER -> bytes

-----------------------------------------------------------------------------
(* codegen/rust.rs: enums.                                                 *)

ZeroName(e) ==
  LET zero == {i \in DOMAIN e.fields : e.fields[i].tag = 0}
  IN  IF zero = {} THEN "Unknown" ELSE e.fields[Max(zero)].name

EncodeEnum(e, v) ==
  LET tag == Named(e.fields, v).tag IN IF tag = 0 THEN <<>> ELSE <<tag>>

\* Mutant: the tag is read as a signed byte.
DecodeSignedEnum(e, bytes) ==
  LET known == {i \in DOMAIN e.fields : bytes # <<>> /\ e.fields[i].tag = bytes[1] /\ bytes[1] \in 1 .. 127}
  IN  IF known = {} THEN ZeroName(e) ELSE e.fields[Min(known)].name

DecodeEnum(e, bytes) ==
  LET known == {i \in DOMAIN e.fields : bytes # <<>> /\ e.fields[i].tag = bytes[1] /\ bytes[1] # 0}
  IN  IF known = {} THEN ZeroName(e) ELSE e.fields[Min(known)].name

(* codegen/rust.rs: messages.  The fields are written in the order of      *)
(* their declaration, with an empty slot for each tag that is skipped, and *)
(* read by their tags.                                                     *)

\* Mutant: the tags that are skipped get no slot.
SlotsWithoutGaps(fields, encoded) == encoded

Slots(fields, encoded) ==
  LET slots[n \in 0 .. Len(fields)] ==
        IF n = 0 THEN [idx |-> 0, out |-> <<>>]
        ELSE LET skipped == [i \in 1 .. (fields[n].tag - slots[n - 1].idx) |-> <<>>]
             IN  [idx |-> fields[n].tag + 1, out |-> slots[n - 1].out \o skipped \o <<encoded[n]>>]
  IN  slots[Len(fields)].out

RECURSIVE DefaultMessage(_, _)
DefaultMessage(schema, name) ==
  LET fields == Named(schema.messages, name).fields
      Default(f) ==
        CASE f.repeated \/ f.type \in {"string", "bytes"} -> <<>>
          [] f.type = "bool" -> FALSE
          [] f.type = "float" -> <<0, 0, 0, 0>>
          [] f.type \in Scalars -> 0
          [] IsEnum(schema, f.type) -> ZeroName(Named(schema.enums, f.type))
          [] OTHER -> DefaultMessage(schema, f.type)
  IN  [n \in ToSetOfNames(fields) |-> Default(Named(fields, n))]

RECURSIVE EncodeMessage(_, _, _)
EncodeOne(schema, type, x) ==
  IF type \in Scalars THEN EncodeScalar(type, x)
  ELSE IF IsEnum(schema, type) THEN EncodeEnum(Named(schema.enums, type), x)
  ELSE EncodeMessage(schema, type, x)
EncodeField(schema, f, x) ==
  IF f.repeated THEN StructFinish([i \in DOMAIN x |-> EncodeOne(schema, f.type, x[i])])
  ELSE EncodeOne(schema, f.type, x)
EncodeFields(schema, fields, v) ==
  StructFinish(Slots(fields, [i \in DOMAIN fields |-> EncodeField(schema, fields[i], v[fields[i].name])]))
EncodeMessage(schema, name, v) == EncodeFields(schema, Named(schema.messages, name).fields, v)

\* decode_owned and to_owned: one field that cannot be read fails the message.
RECURSIVE DecodeMessage(_, _, _)
DecodeOne(schema, type, b) ==
  IF type \in Scalars THEN DecodeScalar(type, b)
  ELSE IF IsEnum(schema, type) THEN DecodeEnum(Named(schema.enums, type), b)
  ELSE DecodeMessage(schema, type, b)
AllRead(out) == IF \E i \in DOMAIN out : out[i] = Invalid THEN Invalid ELSE out
DecodeEach(schema, type, items) ==
  AllRead([i \in DOMAIN items |-> DecodeOne(schema, type, items[i])])
DecodeItems(schema, type, s) ==
  IF s = Invalid THEN Invalid ELSE DecodeEach(schema, type, StructIter(s))
DecodeField(schema, f, b, default) ==
  CASE b = None -> default
    [] b = Invalid -> Invalid
    [] OTHER -> IF f.repeated THEN DecodeItems(schema, f.type, StructNew(b))
                ELSE DecodeOne(schema, f.type, b)
DecodeFields(schema, fields, struct, default) ==
  IF struct = Invalid THEN Invalid
  ELSE AllRead([n \in ToSetOfNames(fields) |->
         DecodeField(schema, Named(fields, n), StructGet(struct, Named(fields, n).tag), default[n])])
DecodeMessage(schema, name, bytes) ==
  DecodeFields(schema, Named(schema.messages, name).fields, StructNew(bytes), DefaultMessage(schema, name))

\* The iterators of repeated fields end at the first element that cannot be read.
UntilUnreadableOrEmpty(items, out) ==
  LET bad == {i \in DOMAIN items : out[i] = Invalid \/ items[i] = <<>>}
  IN  IF bad = {} THEN out ELSE FirstN(out, Min(bad) - 1)
UntilUnreadable(items, out) ==
  LET bad == {i \in DOMAIN items : out[i] = Invalid}
  IN  IF bad = {} THEN out ELSE FirstN(out, Min(bad) - 1)

\* The getters of a view of the bytes: what cannot be read is the default.
RECURSIVE ViewMessage(_, _, _)
ViewOne(schema, type, b) ==
  IF type \in Scalars THEN DecodeScalar(type, b)
  ELSE IF IsEnum(schema, type) THEN DecodeEnum(Named(schema.enums, type), b)
  ELSE IF StructNew(b) = Invalid THEN Invalid
  ELSE ViewMessage(schema, type, b)
ViewItems(schema, type, items) ==
  UntilUnreadable(items, [i \in DOMAIN items |-> ViewOne(schema, type, items[i])])
ViewRepeated(schema, type, s) == IF s = Invalid THEN <<>> ELSE ViewItems(schema, type, StructIter(s))
ViewValue(schema, f, b) ==
  IF b \in {None, Invalid} THEN b
  ELSE IF f.repeated THEN ViewRepeated(schema, f.type, StructNew(b)) ELSE ViewOne(schema, f.type, b)
ViewField(v, default) == IF v \in {None, Invalid} THEN default ELSE v
ViewFields(schema, fields, struct, default) ==
  [n \in ToSetOfNames(fields) |->
     ViewField(ViewValue(schema, Named(fields, n), StructGet(struct, Named(fields, n).tag)), default[n])]
ViewStruct(struct) == IF struct = Invalid THEN NoFields ELSE struct
ViewMessage(schema, name, bytes) ==
  ViewFields(schema, Named(schema.messages, name).fields, ViewStruct(StructNew(bytes)),
             DefaultMessage(schema, name))
=============================================================================
