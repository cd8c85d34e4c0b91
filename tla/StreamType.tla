----------------------------- MODULE StreamType -----------------------------
(***************************************************************************)
(* The two bytes of the handshake (audiowire/src/audiowire/stream.rs): the *)
(* server sends its StreamType, the client its StreamFlags, a StreamType   *)
(* with the codec in bit 2.  Bit 0 is the source (it records), bit 1 the   *)
(* sink (it plays back).                                                   *)
(***************************************************************************)
EXTENDS Integers

Bytes == 0 .. 255

Bit(k, set) == IF set THEN 2 ^ k ELSE 0
HasBit(byte, k) == (byte \div 2 ^ k) % 2 = 1

NewStreamType(source, sink) == Bit(0, source) + Bit(1, sink)

IsSource(type) == HasBit(type, 0)
IsSink(type)   == HasBit(type, 1)

(* A mutant: the codec is or-ed into the bit of the sink.                  *)
NewStreamFlagsOverSink(type, opus) ==
  IF opus /\ ~ HasBit(type, 1) THEN type + 2 ^ 1 ELSE type

(* "stream_type.0 | (1 << 2)".                                             *)
NewStreamFlags(type, opus) ==
  IF opus /\ ~ HasBit(type, 2) THEN type + 2 ^ 2 ELSE type

(* StreamFlags::stream_type keeps all the bits; nobody looks at bit 2 of a *)
(* StreamType.                                                             *)
TypeOf(flags)      == flags
OpusEnabled(flags) == HasBit(flags, 2)
=============================================================================
