---------------------------- MODULE ProtoFields -----------------------------
(* The fields of protobuf messages, as both sides describe them: FieldDef  *)
(* and FieldType in the firmware's protobuf/defs.rs, the generated structs *)
(* in the host's client.  Bytes and strings are represented by their       *)
(* lengths.                                                                *)
EXTENDS Integers, Sequences

(* 0xffffffff as an integer of TLC: as a varint both take five bytes.      *)
U32_MAX == 2147483647

uint32 == <<"uint">>
uint64 == <<"uint">>
sint32 == <<"sint">>
sint64 == <<"sint">>
bool == <<"bool">>
bytes == <<"bytes">>
string == <<"string">>
Enum(name) == <<"enum", name>>
Msg(name) == <<"msg", name>>

Field(tag, name, ftype, label, default) ==
  [tag |-> tag, name |-> name, type |-> ftype, label |-> label,
   default |-> default]

Opt(tag, name, ftype) == Field(tag, name, ftype, "optional", <<>>)
Req(tag, name, ftype) == Field(tag, name, ftype, "required", <<>>)
Rep(tag, name, ftype) == Field(tag, name, ftype, "repeated", <<>>)
Def(tag, name, ftype, value) == Field(tag, name, ftype, "optional", <<value>>)
=============================================================================
