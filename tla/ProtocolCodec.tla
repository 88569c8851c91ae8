--------------------------- MODULE ProtocolCodec ----------------------------
(***************************************************************************)
(* The 44-byte header in its two implementations: protocol_codec.cpp of    *)
(* the firmware, byte by byte, and server/protocol.py, by the format of    *)
(* struct.pack.  A byte is a digit to the base Byte, so that 32-bit fields *)
(* fit the checker's integers; 128 still holds the letters of the magic.   *)
(***************************************************************************)
EXTENDS Integers, Sequences, FiniteSetsExt, Functions

CONSTANT Byte   \* values of a byte

ASSUME CodecAssumption == Byte \in 87..256

kHeaderSize == 44
kProtocolMagic == <<69, 86, 65, 49>>   \* "EVA1"
kProtocolVersion == 1
TypeCode == [START |-> 1, CHUNK |-> 2, END |-> 3, ERROR |-> 4, RESULT |-> 5]
TypeOf(code) == IF code \notin Range(TypeCode) THEN "unknown"
                ELSE CHOOSE t \in DOMAIN TypeCode : TypeCode[t] = code
kPcmS16Le == 0

\* A header as a record of the arguments of EncodeHeader and encode_message.
Header(type, session, seq, timestamp, length, rate, channels) ==
    [type |-> type, session |-> session, seq |-> seq, timestamp |-> timestamp,
     length |-> length, rate |-> rate, channels |-> channels]
Rejected == [type |-> "rejected"]
-----------------------------------------------------------------------------
(* protocol_codec.cpp *)

\* v >> 8, and (v << 8) | byte.
Shr(v) == v \div Byte
Shl(v, byte) == v * Byte + byte

\* Mutant: the least significant byte first, as the processor has it.
WriteU32LE(v) == <<v % Byte, Shr(v) % Byte, Shr(Shr(v)) % Byte, Shr(Shr(Shr(v))) % Byte>>

WriteU32BE(v) == <<Shr(Shr(Shr(v))) % Byte, Shr(Shr(v)) % Byte, Shr(v) % Byte, v % Byte>>
\* The high word, then the low one.
WriteU64BE(v) == WriteU32BE(Shr(Shr(Shr(Shr(v))))) \o WriteU32BE(v)

ReadU32BE(data, at) ==
    Shl(Shl(Shl(data[at + 1], data[at + 2]), data[at + 3]), data[at + 4])
ReadU64BE(data, at) ==
    Shl(Shl(Shl(Shl(ReadU32BE(data, at), data[at + 5]), data[at + 6]), data[at + 7]), data[at + 8])

EncodeHeader(h) ==
    kProtocolMagic \o <<kProtocolVersion, TypeCode[h.type]>> \o WriteU32BE(h.rate)
    \o <<kPcmS16Le, h.channels>> \o WriteU32BE(h.seq) \o WriteU64BE(h.timestamp)
    \o h.session \o WriteU32BE(h.length)

\* Mutant: the length is read where the sequence number is.
DecodeLengthEarly(data) ==
    IF SubSeq(data, 1, 4) # kProtocolMagic \/ data[5] # kProtocolVersion THEN Rejected
    ELSE Header(TypeOf(data[6]), SubSeq(data, 25, 40), ReadU32BE(data, 12),
                ReadU64BE(data, 16), ReadU32BE(data, 12), ReadU32BE(data, 6), data[12])

\* DecodeHeader: magic and version are checked, the rest is taken as it is.
DecodeHeader(data) ==
    IF SubSeq(data, 1, 4) # kProtocolMagic \/ data[5] # kProtocolVersion THEN Rejected
    ELSE Header(TypeOf(data[6]), SubSeq(data, 25, 40), ReadU32BE(data, 12),
                ReadU64BE(data, 16), ReadU32BE(data, 40), ReadU32BE(data, 6), data[12])
-----------------------------------------------------------------------------
(* server/protocol.py *)

\* _HEADER_FORMAT = "!4sBBIBBIQ16sI": the sizes of the fields, without padding.
Format == <<4, 1, 1, 4, 1, 1, 4, 8, 16, 4>>
Position[i \in 1..Len(Format)] == IF i = 1 THEN 0 ELSE Position[i - 1] + Format[i - 1]

\* struct.unpack and struct.pack of one unsigned integer.
Unpacked(bytes) ==
    LET value[n \in 0..Len(bytes)] == IF n = 0 THEN 0 ELSE value[n - 1] * Byte + bytes[n]
    IN  value[Len(bytes)]
Packed(v, size) ==
    LET rest[n \in 0..size] == IF n = 0 THEN v ELSE rest[n - 1] \div Byte
    IN  [i \in 1..size |-> rest[size - i] % Byte]

MaxPayloadBytes == 65536 - kHeaderSize

EncodeMessage(h) ==
    kProtocolMagic \o Packed(kProtocolVersion, 1) \o Packed(TypeCode[h.type], 1)
    \o Packed(h.rate, 4) \o Packed(kPcmS16Le, 1) \o Packed(h.channels, 1)
    \o Packed(h.seq, 4) \o Packed(h.timestamp, 8) \o h.session \o Packed(h.length, 4)

\* decode_header, with everything it refuses.
PyDecodeHeader(data) ==
    LET bytes(i) == SubSeq(data, Position[i] + 1, Position[i] + Format[i])
        field(i) == Unpacked(bytes(i))
    IN  IF \/ Len(data) < kHeaderSize
           \/ bytes(1) # kProtocolMagic \/ field(2) # kProtocolVersion
           \/ field(3) \notin Range(TypeCode) \/ field(5) # kPcmS16Le
           \/ field(4) <= 0 \/ field(6) <= 0 \/ field(10) > MaxPayloadBytes
        THEN Rejected
        ELSE Header(TypeOf(field(3)), bytes(9), field(7), field(8), field(10),
                    field(4), field(6))
=============================================================================
