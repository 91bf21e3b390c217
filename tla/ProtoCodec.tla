----------------------------- MODULE ProtoCodec -----------------------------
(* The protobuf encoders and decoders at the two ends of the wire: the     *)
(* firmware's (core/embed/rust/src/protobuf, driven by definitions that    *)
(* pb2py compiles from the .proto files) and the client's (the generated   *)
(* impl of protobuf::Message of every struct).                             *)
(* A field's value is the sequence of its values: empty when it is unset.  *)
(* A byte stream is a sequence of items, varints and runs of bytes, each   *)
(* with a length; only lengths tell where a nested message ends.           *)
EXTENDS ProtoFields, FiniteSets, SequencesExt

CONSTANTS
  Messages,      \* the definition of every message, by name
  Enums          \* the values of every enum, by name

IsMsg(f) == f.type[1] = "msg"
IsBuffer(f) == f.type[1] \in {"bytes", "string"}

Names(def) == {def[i].name : i \in DOMAIN def}
FieldNamed(def, n) == def[CHOOSE i \in DOMAIN def : def[i].name = n]
FieldTagged(def, tag) == SelectSeq(def, LAMBDA f : f.tag = tag)

-----------------------------------------------------------------------------
(* Streams.                                                                *)
Num(v) == <<"varint", v>>
Run(n) == IF n = 0 THEN <<>> ELSE <<<<"bytes", n>>>>

VARINT == 0
LENGTH_DELIMITED == 2

primitive_type(f) ==
  IF IsMsg(f) \/ IsBuffer(f) THEN LENGTH_DELIMITED ELSE VARINT

(* write_uvarint: seven bits a byte.                                       *)
VarintLen(v) == 1 + Cardinality({k \in {7, 14, 21, 28} : v >= 2 ^ k})
ItemLen(item) == IF item[1] = "varint" THEN VarintLen(item[2]) ELSE item[2]
RECURSIVE StreamLen(_)
StreamLen(s) == IF s = <<>> THEN 0 ELSE ItemLen(Head(s)) + StreamLen(Tail(s))
Key(tag, prim) == Num(tag * 8 + prim)

(* read, read_stream: how many items are the next n bytes, -1 if the       *)
(* stream has fewer bytes.                                                 *)
RECURSIVE Taking(_, _, _)
Taking(s, n, k) ==
  CASE n = 0 -> k
    [] n < 0 \/ (n > 0 /\ k = Len(s)) -> -1
    [] OTHER -> Taking(s, n - ItemLen(s[k + 1]), k + 1)
Readable(s, n) == Taking(s, n, 0) >= 0
Read(s, n) == SubSeq(s, 1, Taking(s, n, 0))
Skip(s, n) == SubSeq(s, Taking(s, n, 0) + 1, Len(s))
HasVarint(s) == s # <<>> /\ s[1][1] = "varint"

to_unsigned(sint) == IF sint >= 0 THEN 2 * sint ELSE -2 * sint - 1
to_signed(uint) == IF uint % 2 = 0 THEN uint \div 2 ELSE -(uint \div 2) - 1

(* The number that stands for a scalar on the wire, and back.              *)
ToNumber(f, v) == CASE f.type[1] = "sint" -> to_unsigned(v)
                    [] f.type[1] = "bool" -> IF v THEN 1 ELSE 0
                    [] OTHER -> v
FromNumber(f, num) == CASE f.type[1] = "sint" -> to_signed(num)
                        [] f.type[1] = "bool" -> num # 0
                        [] OTHER -> num

Fail == [ok |-> FALSE]
Got(v, rest) == [ok |-> TRUE, v |-> v, rest |-> rest]

(* The ? operator: go on with what was read, or return the error.          *)
Then(r, Use(_)) == IF r.ok THEN Use(r) ELSE Fail

(* The stream after a field nobody knows; the client's also keeps it.      *)
SkipUnknown(prim, s) ==
  IF ~HasVarint(s) THEN Fail
  ELSE CASE prim = VARINT -> Got({}, Tail(s))
         [] prim = LENGTH_DELIMITED /\ Readable(Tail(s), s[1][2]) ->
              Got({}, Skip(Tail(s), s[1][2]))
         [] OTHER -> Fail

-----------------------------------------------------------------------------
(* The client: is_initialized, compute_size, write_to_with_cached_sizes    *)
(* and merge_from of the generated structs.                                *)
RECURSIVE is_initialized(_, _)
is_initialized(t, m) ==
  \A f \in ToSet(Messages[t]) :
    /\ f.label = "required" => m[f.name] # <<>>
    /\ IsMsg(f) => \A v \in ToSet(m[f.name]) : is_initialized(f.type[2], v)

RECURSIVE compute_size(_, _)
PrefixedSize(n) == VarintLen(n) + n
ValueSize(f, v) == CASE IsMsg(f) -> PrefixedSize(compute_size(f.type[2], v))
                     [] IsBuffer(f) -> PrefixedSize(v)
                     [] OTHER -> VarintLen(ToNumber(f, v))
RECURSIVE FieldSize(_, _)
FieldSize(f, vs) ==
  IF vs = <<>> THEN 0
  ELSE VarintLen(f.tag * 8) + ValueSize(f, Head(vs)) + FieldSize(f, Tail(vs))
RECURSIVE FieldsSize(_, _)
FieldsSize(def, m) ==
  IF def = <<>> THEN 0
  ELSE FieldSize(Head(def), m[Head(def).name]) + FieldsSize(Tail(def), m)
compute_size(t, m) == FieldsSize(Messages[t], m)

RECURSIVE write_to(_, _)
WriteValue(f, v) ==
  CASE IsMsg(f) ->
         <<Num(compute_size(f.type[2], v))>> \o write_to(f.type[2], v)
    [] IsBuffer(f) -> <<Num(v)>> \o Run(v)
    [] OTHER -> <<Num(ToNumber(f, v))>>
WriteField(f, vs) ==
  FlattenSeq([j \in DOMAIN vs |->
    <<Key(f.tag, primitive_type(f))>> \o WriteValue(f, vs[j])])
WriteFields(def, m) ==
  FlattenSeq([i \in DOMAIN def |-> WriteField(def[i], m[def[i].name])])
write_to(t, m) == WriteFields(Messages[t], m)

EmptyStruct(t) == [n \in Names(Messages[t]) |-> <<>>]

(* read_*: the value of a field, from the items after its key.             *)
RECURSIVE merge_from(_, _, _)
ReadNumbered(f, num, rest) ==
  IF primitive_type(f) = VARINT THEN Got(FromNumber(f, num), rest)
  ELSE IF ~Readable(rest, num) THEN Fail
  ELSE IF IsBuffer(f) THEN Got(num, Skip(rest, num))
  ELSE Then(merge_from(f.type[2], EmptyStruct(f.type[2]), Read(rest, num)),
            LAMBDA sub : Got(sub.v, Skip(rest, num)))
ReadValue(f, s) ==
  IF HasVarint(s) THEN ReadNumbered(f, s[1][2], Tail(s)) ELSE Fail

(* A repeated number also comes packed: one run that holds them all.       *)
ReadPacked(f, s) ==
  IF HasVarint(s) /\ Readable(Tail(s), s[1][2])
  THEN LET run == Read(Tail(s), s[1][2]) IN
       Got([j \in DOMAIN run |-> FromNumber(f, run[j][2])],
           Skip(Tail(s), s[1][2]))
  ELSE Fail

(* Mutant: packed numbers are not expected.                                *)
MergeUnpacked(f, m, prim, s) ==
  IF prim = primitive_type(f)
  THEN Then(ReadValue(f, s),
            LAMBDA r : Got([m EXCEPT ![f.name] =
                              IF f.label = "repeated"
                              THEN Append(@, r.v) ELSE <<r.v>>], r.rest))
  ELSE Then(SkipUnknown(prim, s), LAMBDA r : Got(m, r.rest))

(* One round of the loop of merge_from.                                    *)
MergeKnown(f, m, prim, s) ==
  CASE prim = primitive_type(f) ->
         Then(ReadValue(f, s),
              LAMBDA r : Got([m EXCEPT ![f.name] =
                                IF f.label = "repeated"
                                THEN Append(@, r.v) ELSE <<r.v>>], r.rest))
    [] /\ prim = LENGTH_DELIMITED /\ primitive_type(f) = VARINT
       /\ f.label = "repeated" ->
         Then(ReadPacked(f, s),
              LAMBDA r : Got([m EXCEPT ![f.name] = @ \o r.v], r.rest))
    [] OTHER -> Then(SkipUnknown(prim, s), LAMBDA r : Got(m, r.rest))
MergeTagged(known, m, prim, s) ==
  IF known # <<>> THEN MergeKnown(known[1], m, prim, s)
  ELSE Then(SkipUnknown(prim, s), LAMBDA r : Got(m, r.rest))
MergeField(t, m, s) ==
  MergeTagged(FieldTagged(Messages[t], s[1][2] \div 8), m, s[1][2] % 8, Tail(s))
merge_from(t, m, s) ==
  IF s = <<>> THEN Got(m, s)
  ELSE Then(MergeField(t, m, s), LAMBDA r : merge_from(t, r.v, r.rest))

-----------------------------------------------------------------------------
(* The firmware's definitions: pb2py drops what is deprecated in the       *)
(* .proto files, sorts the fields and marks the experimental ones.         *)
DeprecatedFields ==
  {<<"SignTx", "overwintered">>, <<"PassphraseRequest", "_on_device">>,
   <<"PassphraseAck", "_state">>, <<"EthereumAddress", "_old_address">>,
   <<"Initialize", "_skip_passphrase">>,
   <<"Features", "_passphrase_cached">>, <<"ApplySettings", "language">>,
   <<"ApplySettings", "_passphrase_source">>, <<"LoadDevice", "language">>,
   <<"ResetDevice", "language">>, <<"RecoveryDevice", "language">>}
DeprecatedMessages ==
  {"TxAck", "TransactionType", "TxInputType", "TxOutputBinType",
   "TxOutputType", "Deprecated_PassphraseStateRequest",
   "Deprecated_PassphraseStateAck"}
ExperimentalFields == {<<"TxOutput", "payment_req_index">>}
ExperimentalMessages == {"TxAckPaymentRequest", "GetNonce", "Nonce"}

MsgDefs ==
  [t \in DOMAIN Messages \ DeprecatedMessages |->
     SortSeq(SelectSeq(Messages[t],
                       LAMBDA f : <<t, f.name>> \notin DeprecatedFields),
             LAMBDA f, g : f.tag < g.tag)]

(* Encoder.  The length of a nested message is counted by encoding it.     *)
RECURSIVE encode_message(_, _)
Prefixed(body) == <<Num(StreamLen(body))>> \o body
encode_field(f, v) == CASE IsMsg(f) -> Prefixed(encode_message(f.type[2], v))
                        [] IsBuffer(f) -> <<Num(v)>> \o Run(v)
                        [] OTHER -> <<Num(ToNumber(f, v))>>
EncodeValues(f, vs) ==
  FlattenSeq([j \in DOMAIN vs |->
    <<Key(f.tag, primitive_type(f))>> \o encode_field(f, vs[j])])
EncodeFields(def, map) ==
  FlattenSeq([i \in DOMAIN def |-> EncodeValues(def[i], map[def[i].name])])
encode_message(t, map) == EncodeFields(MsgDefs[t], map)

(* Decoder: decode_fields_into, decode_defaults_into and                   *)
(* assign_required_into, over the map of the fields assigned so far.       *)
RECURSIVE message_from_stream(_, _, _)
DecodeNumbered(f, num, rest, enable_experimental) ==
  IF f.type[1] = "enum" /\ num \notin Enums[f.type[2]] THEN Fail
  ELSE IF primitive_type(f) = VARINT THEN Got(FromNumber(f, num), rest)
  ELSE IF ~Readable(rest, num) THEN Fail
  ELSE IF IsBuffer(f) THEN Got(num, Skip(rest, num))
  ELSE Then(message_from_stream(f.type[2], Read(rest, num),
                                enable_experimental),
            LAMBDA sub : Got(sub.v, Skip(rest, num)))
decode_field(t, f, s, enable_experimental) ==
  IF \/ <<t, f.name>> \in ExperimentalFields /\ ~enable_experimental
     \/ ~HasVarint(s)
  THEN Fail
  ELSE DecodeNumbered(f, s[1][2], Tail(s), enable_experimental)

(* Mutant: a repeated field keeps only its last item.                      *)
StoredAlone(map, f, v) == (f.name :> <<v>>) @@ map

(* The map after one value of a field: a list's next item, or it alone.    *)
Stored(map, f, v) ==
  IF f.label = "repeated" /\ f.name \in DOMAIN map
  THEN [map EXCEPT ![f.name] = Append(@, v)]
  ELSE (f.name :> <<v>>) @@ map

(* One round of the loop; the wire type of a known field is not looked at. *)
DecodeTagged(t, known, map, prim, s, enable_experimental) ==
  IF known = <<>>
  THEN Then(SkipUnknown(prim, s), LAMBDA r : Got(map, r.rest))
  ELSE Then(decode_field(t, known[1], s, enable_experimental),
            LAMBDA r : Got(Stored(map, known[1], r.v), r.rest))
DecodeField(t, map, s, enable_experimental) ==
  LET tag == s[1][2] \div 8 IN
  IF tag > 255 THEN Fail
  ELSE DecodeTagged(t, FieldTagged(MsgDefs[t], tag), map, s[1][2] % 8, Tail(s),
                    enable_experimental)

RECURSIVE decode_fields_into(_, _, _, _)
decode_fields_into(t, map, s, enable_experimental) ==
  IF s = <<>> THEN Got(map, s)
  ELSE Then(DecodeField(t, map, s, enable_experimental),
            LAMBDA r : decode_fields_into(t, r.v, r.rest,
                                          enable_experimental))

Defaulted(t, map) ==
  {f \in ToSet(MsgDefs[t]) : f.name \notin DOMAIN map /\ f.default # <<>>}
AssignDefaults(t, fields, map, enable_experimental) ==
  IF /\ ~enable_experimental
     /\ \E f \in fields : <<t, f.name>> \in ExperimentalFields
  THEN Fail
  ELSE Got(map @@ [n \in {f.name : f \in fields} |->
                     (CHOOSE f \in fields : f.name = n).default], <<>>)
decode_defaults_into(t, map, enable_experimental) ==
  AssignDefaults(t, Defaulted(t, map), map, enable_experimental)

(* Mutant: a required field that is missing stays unset.                   *)
AssignUnchecked(fields, map) ==
  Got(map @@ [n \in {f.name : f \in fields} |-> <<>>], <<>>)

AssignRequired(fields, map) ==
  IF \E f \in fields : f.label = "required" /\ f.name \notin DOMAIN map
  THEN Fail
  ELSE Got(map @@ [n \in {f.name : f \in fields} |-> <<>>], <<>>)
assign_required_into(t, map) == AssignRequired(ToSet(MsgDefs[t]), map)

message_from_stream(t, s, enable_experimental) ==
  LET Fill(r) == decode_defaults_into(t, r.v, enable_experimental)
      Check(r) == assign_required_into(t, r.v)
  IN Then(Then(decode_fields_into(t, <<>>, s, enable_experimental), Fill),
          Check)

(* A message that firmware code makes of keyword arguments.                *)
message_from_values(t, values) ==
  Then(decode_defaults_into(t, values, TRUE),
       LAMBDA r : assign_required_into(t, r.v))
=============================================================================
