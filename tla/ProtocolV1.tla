---------------------------- MODULE ProtocolV1 ----------------------------
(* The framing of messages into chunks (rust/trezor-client transport and   *)
(* core wire/codec_v1).  A message has a type, the length of its payload   *)
(* in bytes, and a value; what the properties need to know of the rest of  *)
(* a payload is the call it belongs to.                                    *)
EXTENDS Integers, Sequences

REPLEN == 64

Message(type, len, value, call) ==
  [type |-> type, len |-> len, value |-> value, call |-> call]

(* The first chunk starts with the magic and the header, the others hold   *)
(* the marker and payload.                                                 *)
First(msg) == [first |-> TRUE, msg |-> msg]
Rest(msg) == [first |-> FALSE, call |-> msg.call]

(* ProtocolV1::write cuts the 8 bytes of the header and the payload into   *)
(* pieces of REPLEN - 1 bytes.                                             *)
write_drops_tail(msg) ==
  LET n == (8 + msg.len) \div (REPLEN - 1)
  IN <<First(msg)>> \o [i \in 1 .. n - 1 |-> Rest(msg)]

write(msg) ==
  LET n == (8 + msg.len + REPLEN - 2) \div (REPLEN - 1)
  IN <<First(msg)>> \o [i \in 1 .. n - 1 |-> Rest(msg)]

(* ProtocolV1::read and codec_v1.read_message: the first chunk must have   *)
(* the magic and brings REPLEN - 9 bytes; while the payload is incomplete, *)
(* any chunk is taken for its continuation.  "garbled" says that one of    *)
(* another message was.                                                    *)
NotReading == [reading |-> FALSE]
BadMagic(reader, chunk) == ~reader.reading /\ ~chunk.first

read_chunk(reader, chunk) ==
  IF ~reader.reading
  THEN [reading |-> TRUE, msg |-> chunk.msg, got |-> REPLEN - 9,
        garbled |-> FALSE]
  ELSE [reader EXCEPT !.got = @ + REPLEN - 1,
                      !.garbled = @ \/ chunk.first \/
                                  (~chunk.first /\ chunk.call # reader.msg.call)]

Complete(reader) == reader.reading /\ reader.got >= reader.msg.len
=============================================================================
