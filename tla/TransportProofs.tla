--------------------------- MODULE TransportProofs ---------------------------
(***************************************************************************)
(* Theorems about ProtocolCodec and LanTransport.  The two codecs write    *)
(* the same bytes and read what the other wrote, for headers of any        *)
(* contents; descriptors are not lost; what a send that fails in the       *)
(* middle leaves on the connection, and what an answer is taken for, for   *)
(* any number of chunks of any sizes, any limits and calls that move any   *)
(* part or all.                                                            *)
(***************************************************************************)
EXTENDS LanTransport, SequenceTheorems, TLAPS
-----------------------------------------------------------------------------
(* Numbers and their bytes *)

Bytes == 0..(Byte - 1)

\* The values of 32 and of 64 bits: nothing is left after four, or eight, shifts.
U32 == {v \in Nat : Shr(Shr(Shr(Shr(v)))) = 0}
U64 == {v \in Nat : Shr(Shr(Shr(Shr(v)))) \in U32}

LEMMA ByteIsNat == Byte \in Nat /\ Byte > 1 /\ 87 <= Byte /\ Byte <= 256
  BY CodecAssumption

\* A number is what is left of it after a shift, with the byte that was shifted out.
LEMMA ShiftBack == ASSUME NEW v \in Nat
                   PROVE  /\ Shr(v) \in Nat /\ v % Byte \in Bytes
                          /\ v = Shl(Shr(v), v % Byte)
  BY ByteIsNat DEF Shr, Shl, Bytes

LEMMA ZeroShifts == Shr(0) = 0
  BY ByteIsNat DEF Shr

LEMMA ByteShifts == ASSUME NEW v \in Bytes PROVE Shr(v) = 0 /\ v % Byte = v /\ v \in Nat
  BY ByteIsNat DEF Shr, Bytes

\* A product grows with its factors.
LEMMA ProductGrows == ASSUME NEW a \in Nat, NEW m \in Nat, NEW q \in Nat, m <= q
                      PROVE  a * m \in Nat /\ a * q \in Nat /\ a * m <= a * q
<1>1. q - m \in Nat /\ q = m + (q - m)
  OBVIOUS
<1>2. a * q = a * m + a * (q - m)
  BY <1>1
<1>3. a * (q - m) \in Nat /\ a * m \in Nat
  BY <1>1
<1>4. QED
  BY <1>2, <1>3

\* What is left after a shift is smaller by one factor.
LEMMA ShiftBound == ASSUME NEW v \in Nat, NEW m \in Nat, v < Byte * m
                    PROVE  Shr(v) \in Nat /\ Shr(v) < m
<1>1. PICK q \in Nat, r \in Nat : q = Shr(v) /\ v = q * Byte + r
  <2>1. Shr(v) \in Nat /\ v % Byte \in Nat /\ v = Shl(Shr(v), v % Byte)
    BY ShiftBack, ByteIsNat DEF Bytes
  <2>2. QED
    BY <2>1 DEF Shl
<1>2. SUFFICES ASSUME m <= q PROVE FALSE
  BY <1>1
<1>3. Byte * m <= Byte * q /\ Byte * m \in Nat /\ Byte * q \in Nat
  BY <1>2, ByteIsNat, ProductGrows
<1>4. v = Byte * q + r
  BY <1>1, ByteIsNat
<1>5. QED
  BY <1>3, <1>4

\* The values below the fourth power of Byte are those of 32 bits.
LEMMA Below32 == ASSUME NEW v \in Nat, v < Byte * (Byte * (Byte * Byte)) PROVE v \in U32
<1>1. Byte * (Byte * Byte) \in Nat /\ Byte * Byte \in Nat /\ Byte \in Nat /\ Byte * 1 = Byte
  BY ByteIsNat
<1>2. Shr(v) \in Nat /\ Shr(v) < Byte * (Byte * Byte)
  BY <1>1, ShiftBound
<1>3. Shr(Shr(v)) \in Nat /\ Shr(Shr(v)) < Byte * Byte
  BY <1>1, <1>2, ShiftBound
<1>4. Shr(Shr(Shr(v))) \in Nat /\ Shr(Shr(Shr(v))) < Byte * 1
  BY <1>1, <1>3, ShiftBound
<1>5. Shr(Shr(Shr(Shr(v)))) \in Nat /\ Shr(Shr(Shr(Shr(v)))) < 1
  BY <1>4, ShiftBound
<1>6. QED
  BY <1>5 DEF U32

\* A byte is at least 87, so the fourth power is beyond the numbers of a header.
LEMMA FourthPower == /\ Byte * Byte \in Nat /\ Byte * Byte >= 7569
                     /\ Byte * (Byte * (Byte * Byte)) \in Nat
                     /\ Byte * (Byte * (Byte * Byte)) >= 57289761
<1>1. Byte * Byte \in Nat /\ Byte * Byte >= 7569
  <2>1. 87 * 87 <= 87 * Byte
    BY ByteIsNat
  <2>2. Byte * 87 <= Byte * Byte
    BY ByteIsNat, ProductGrows
  <2>3. QED
    BY <2>1, <2>2, ByteIsNat
<1>2. Byte * (Byte * Byte) \in Nat /\ Byte * (Byte * Byte) >= 658503
  <2>1. Byte * 7569 <= Byte * (Byte * Byte)
    BY <1>1, ByteIsNat, ProductGrows
  <2>2. QED
    BY <1>1, <2>1, ByteIsNat
<1>3. Byte * (Byte * (Byte * Byte)) \in Nat /\ Byte * (Byte * (Byte * Byte)) >= 57289761
  <2>1. Byte * 658503 <= Byte * (Byte * (Byte * Byte))
    BY <1>2, ByteIsNat, ProductGrows
  <2>2. QED
    BY <1>2, <2>1, ByteIsNat
<1>4. QED
  BY <1>1, <1>3
-----------------------------------------------------------------------------
(* Fields *)

\* Where data has the bytes of a field.
Holds(data, at, field) == /\ at + Len(field) <= Len(data)
                          /\ \A i \in 1..Len(field) : data[at + i] = field[i]

\* The four bytes of a number.
LEMMA WordType == ASSUME NEW v \in Nat
                  PROVE  WriteU32BE(v) \in Seq(Bytes) /\ Len(WriteU32BE(v)) = 4
<1>1. /\ Shr(v) \in Nat /\ Shr(Shr(v)) \in Nat /\ Shr(Shr(Shr(v))) \in Nat
  BY ShiftBack
<1>2. /\ v % Byte \in Bytes /\ Shr(v) % Byte \in Bytes /\ Shr(Shr(v)) % Byte \in Bytes
      /\ Shr(Shr(Shr(v))) % Byte \in Bytes
  BY <1>1, ShiftBack
<1>3. QED
  BY <1>2 DEF WriteU32BE

\* What is written is what is read (WriteU32BE, ReadU32BE).
LEMMA WordRead == ASSUME NEW v \in U32, NEW data, NEW at \in Nat, Holds(data, at, WriteU32BE(v))
                  PROVE  ReadU32BE(data, at) = v
<1>1. /\ v \in Nat /\ Shr(v) \in Nat /\ Shr(Shr(v)) \in Nat /\ Shr(Shr(Shr(v))) \in Nat
      /\ Shr(Shr(Shr(Shr(v)))) = 0
  BY ShiftBack DEF U32
<1>2. /\ v = Shl(Shr(v), v % Byte)
      /\ Shr(v) = Shl(Shr(Shr(v)), Shr(v) % Byte)
      /\ Shr(Shr(v)) = Shl(Shr(Shr(Shr(v))), Shr(Shr(v)) % Byte)
      /\ Shr(Shr(Shr(v))) = Shl(0, Shr(Shr(Shr(v))) % Byte)
  BY <1>1, ShiftBack
<1>3. Shl(0, Shr(Shr(Shr(v))) % Byte) = Shr(Shr(Shr(v))) % Byte
  BY <1>1, ShiftBack, ByteIsNat DEF Shl, Bytes
<1>4. /\ data[at + 1] = Shr(Shr(Shr(v))) % Byte /\ data[at + 2] = Shr(Shr(v)) % Byte
      /\ data[at + 3] = Shr(v) % Byte /\ data[at + 4] = v % Byte
  BY DEF Holds, WriteU32BE
<1>5. QED
  BY <1>2, <1>3, <1>4 DEF ReadU32BE

\* The fields of a concatenation.
LEMMA HoldsConcat ==
    ASSUME NEW S, NEW s \in Seq(S), NEW t \in Seq(S)
    PROVE  /\ s \o t \in Seq(S) /\ Len(s \o t) = Len(s) + Len(t)
           /\ Holds(s \o t, 0, s) /\ Holds(s \o t, Len(s), t)
           /\ \A at \in Nat : \A field : Len(field) \in Nat /\ Holds(s, at, field)
                                         => Holds(s \o t, at, field)
<1>1. /\ s \o t \in Seq(S) /\ Len(s \o t) = Len(s) + Len(t)
      /\ Len(s) \in Nat /\ Len(t) \in Nat
      /\ \A i \in 1..(Len(s) + Len(t)) :
            (s \o t)[i] = IF i <= Len(s) THEN s[i] ELSE t[i - Len(s)]
  BY ConcatProperties, LenProperties
<1>2. Holds(s \o t, 0, s)
  BY <1>1 DEF Holds
<1>3. Holds(s \o t, Len(s), t)
  <2>1. ASSUME NEW i \in 1..Len(t) PROVE (s \o t)[Len(s) + i] = t[i]
    <3>1. Len(s) + i \in 1..(Len(s) + Len(t)) /\ ~(Len(s) + i <= Len(s))
          /\ (Len(s) + i) - Len(s) = i
      BY <1>1
    <3>2. QED
      BY <1>1, <3>1
  <2>2. QED
    BY <1>1, <2>1 DEF Holds
<1>4. ASSUME NEW at \in Nat, NEW field, Len(field) \in Nat, Holds(s, at, field)
      PROVE  Holds(s \o t, at, field)
  <2>1. ASSUME NEW i \in 1..Len(field) PROVE (s \o t)[at + i] = field[i]
    <3>1. at + i \in 1..Len(s) /\ s[at + i] = field[i]
      BY <1>1, <1>4 DEF Holds
    <3>2. QED
      BY <1>1, <3>1
  <2>2. QED
    BY <1>1, <1>4, <2>1 DEF Holds
<1>5. QED
  BY <1>1, <1>2, <1>3, <1>4

\* A field of two parts.
LEMMA HoldsParts ==
    ASSUME NEW S, NEW s \in Seq(S), NEW t \in Seq(S), NEW data, NEW at \in Nat,
           Holds(data, at, s \o t), Len(data) \in Nat
    PROVE  Holds(data, at, s) /\ Holds(data, at + Len(s), t)
<1>1. /\ Len(s \o t) = Len(s) + Len(t)
      /\ Len(s) \in Nat /\ Len(t) \in Nat
      /\ \A i \in 1..(Len(s) + Len(t)) :
            (s \o t)[i] = IF i <= Len(s) THEN s[i] ELSE t[i - Len(s)]
  BY ConcatProperties, LenProperties
<1>2. /\ at + (Len(s) + Len(t)) <= Len(data)
      /\ \A i \in 1..(Len(s) + Len(t)) : data[at + i] = (s \o t)[i]
  BY <1>1 DEF Holds
<1>3. ASSUME NEW i \in 1..Len(s) PROVE data[at + i] = s[i]
  BY <1>1, <1>2
<1>4. ASSUME NEW i \in 1..Len(t) PROVE data[(at + Len(s)) + i] = t[i]
  <2>1. Len(s) + i \in 1..(Len(s) + Len(t)) /\ ~(Len(s) + i <= Len(s))
        /\ (Len(s) + i) - Len(s) = i /\ (at + Len(s)) + i = at + (Len(s) + i)
    BY <1>1
  <2>2. QED
    BY <1>1, <1>2, <2>1
<1>5. QED
  BY <1>1, <1>2, <1>3, <1>4 DEF Holds

LEMMA LongType == ASSUME NEW v \in Nat
                  PROVE  WriteU64BE(v) \in Seq(Bytes) /\ Len(WriteU64BE(v)) = 8
<1> DEFINE high == WriteU32BE(Shr(Shr(Shr(Shr(v)))))
           low == WriteU32BE(v)
<1>1. Shr(Shr(Shr(Shr(v)))) \in Nat
  BY ShiftBack
<1>2. high \in Seq(Bytes) /\ Len(high) = 4 /\ low \in Seq(Bytes) /\ Len(low) = 4
  BY <1>1, WordType
<1>3. WriteU64BE(v) = high \o low
  BY DEF WriteU64BE
<1> HIDE DEF high, low
<1>4. high \o low \in Seq(Bytes) /\ Len(high \o low) = Len(high) + Len(low)
  BY <1>2, HoldsConcat
<1>5. QED
  BY <1>2, <1>3, <1>4

\* WriteU64BE, ReadU64BE.
LEMMA LongRead == ASSUME NEW v \in U64, NEW data, NEW at \in Nat, Len(data) \in Nat,
                         Holds(data, at, WriteU64BE(v))
                  PROVE  ReadU64BE(data, at) = v
<1> DEFINE high == Shr(Shr(Shr(Shr(v))))
<1>1. /\ v \in Nat /\ Shr(v) \in Nat /\ Shr(Shr(v)) \in Nat /\ Shr(Shr(Shr(v))) \in Nat
      /\ high \in U32 /\ high \in Nat
  BY ShiftBack DEF U64
<1>2. /\ v = Shl(Shr(v), v % Byte)
      /\ Shr(v) = Shl(Shr(Shr(v)), Shr(v) % Byte)
      /\ Shr(Shr(v)) = Shl(Shr(Shr(Shr(v))), Shr(Shr(v)) % Byte)
      /\ Shr(Shr(Shr(v))) = Shl(high, Shr(Shr(Shr(v))) % Byte)
  BY <1>1, ShiftBack
<1>3. /\ WriteU32BE(high) \in Seq(Bytes) /\ Len(WriteU32BE(high)) = 4
      /\ WriteU32BE(v) \in Seq(Bytes) /\ Len(WriteU32BE(v)) = 4
  BY <1>1, WordType
<1>4. Holds(data, at, WriteU32BE(high)) /\ Holds(data, at + 4, WriteU32BE(v))
  BY <1>3, HoldsParts DEF WriteU64BE
<1>5. ReadU32BE(data, at) = high
  BY <1>1, <1>4, WordRead
<1>6. /\ data[(at + 4) + 1] = Shr(Shr(Shr(v))) % Byte /\ data[(at + 4) + 2] = Shr(Shr(v)) % Byte
      /\ data[(at + 4) + 3] = Shr(v) % Byte /\ data[(at + 4) + 4] = v % Byte
  BY <1>4 DEF Holds, WriteU32BE
<1>7. /\ (at + 4) + 1 = at + 5 /\ (at + 4) + 2 = at + 6
      /\ (at + 4) + 3 = at + 7 /\ (at + 4) + 4 = at + 8
  OBVIOUS
<1> HIDE DEF high
<1>8. QED
  BY <1>2, <1>5, <1>6, <1>7 DEF ReadU64BE

\* struct.pack of numbers of one, four and eight bytes: what is left after each
\* shift, and the bytes in the opposite order.
LEMMA PackedByte == ASSUME NEW v \in Bytes PROVE Packed(v, 1) = <<v>>
<1> DEFINE rest == CHOOSE f : f = [n \in 0..1 |-> IF n = 0 THEN v ELSE f[n - 1] \div Byte]
           g == [n \in 0..1 |-> IF n = 0 THEN v ELSE v \div Byte]
<1>1. g = [n \in 0..1 |-> IF n = 0 THEN v ELSE g[n - 1] \div Byte]
  OBVIOUS
<1>2. rest = [n \in 0..1 |-> IF n = 0 THEN v ELSE rest[n - 1] \div Byte]
  <2> HIDE DEF g
  <2>1. QED
    BY <1>1
<1>3. Packed(v, 1) = [i \in 1..1 |-> rest[1 - i] % Byte]
  BY DEF Packed
<1> HIDE DEF rest
<1>4. rest[0] = v
  BY <1>2
<1>5. Packed(v, 1) = [i \in 1..1 |-> v]
  BY <1>3, <1>4, ByteShifts
<1>6. QED
  BY <1>5

LEMMA PackedWord == ASSUME NEW v \in Nat PROVE Packed(v, 4) = WriteU32BE(v)
<1> DEFINE rest == CHOOSE f : f = [n \in 0..4 |-> IF n = 0 THEN v ELSE f[n - 1] \div Byte]
           left == <<v, Shr(v), Shr(Shr(v)), Shr(Shr(Shr(v))), Shr(Shr(Shr(Shr(v))))>>
           g == [n \in 0..4 |-> left[n + 1]]
<1>1. g = [n \in 0..4 |-> IF n = 0 THEN v ELSE g[n - 1] \div Byte]
  <2>1. ASSUME NEW n \in 0..4 PROVE left[n + 1] = IF n = 0 THEN v ELSE left[n] \div Byte
    <3>1. n = 0 \/ n = 1 \/ n = 2 \/ n = 3 \/ n = 4
      OBVIOUS
    <3>2. QED
      BY <3>1 DEF Shr
  <2> HIDE DEF left
  <2>2. QED
    BY <2>1
<1>2. rest = [n \in 0..4 |-> IF n = 0 THEN v ELSE rest[n - 1] \div Byte]
  <2> HIDE DEF g
  <2>1. QED
    BY <1>1
<1>3. Packed(v, 4) = [i \in 1..4 |-> rest[4 - i] % Byte]
  BY DEF Packed
<1> HIDE DEF rest
<1>4. rest[0] = v /\ rest[1] = Shr(rest[0]) /\ rest[2] = Shr(rest[1]) /\ rest[3] = Shr(rest[2])
  BY <1>2 DEF Shr
<1>5. [i \in 1..4 |-> rest[4 - i] % Byte]
        = <<rest[3] % Byte, rest[2] % Byte, rest[1] % Byte, rest[0] % Byte>>
  OBVIOUS
<1>6. QED
  BY <1>3, <1>4, <1>5 DEF WriteU32BE

LEMMA PackedLong == ASSUME NEW v \in Nat PROVE Packed(v, 8) = WriteU64BE(v)
<1> DEFINE rest == CHOOSE f : f = [n \in 0..8 |-> IF n = 0 THEN v ELSE f[n - 1] \div Byte]
           left == <<v, Shr(v), Shr(Shr(v)), Shr(Shr(Shr(v))), Shr(Shr(Shr(Shr(v)))),
                     Shr(Shr(Shr(Shr(Shr(v))))), Shr(Shr(Shr(Shr(Shr(Shr(v)))))),
                     Shr(Shr(Shr(Shr(Shr(Shr(Shr(v))))))),
                     Shr(Shr(Shr(Shr(Shr(Shr(Shr(Shr(v))))))))>>
           g == [n \in 0..8 |-> left[n + 1]]
<1>1. g = [n \in 0..8 |-> IF n = 0 THEN v ELSE g[n - 1] \div Byte]
  <2>1. ASSUME NEW n \in 0..8 PROVE left[n + 1] = IF n = 0 THEN v ELSE left[n] \div Byte
    <3>1. \/ n = 0 \/ n = 1 \/ n = 2 \/ n = 3 \/ n = 4
          \/ n = 5 \/ n = 6 \/ n = 7 \/ n = 8
      OBVIOUS
    <3>2. QED
      BY <3>1 DEF Shr
  <2> HIDE DEF left
  <2>2. QED
    BY <2>1
<1>2. rest = [n \in 0..8 |-> IF n = 0 THEN v ELSE rest[n - 1] \div Byte]
  <2> HIDE DEF g
  <2>1. QED
    BY <1>1
<1>3. Packed(v, 8) = [i \in 1..8 |-> rest[8 - i] % Byte]
  BY DEF Packed
<1> HIDE DEF rest
<1>4. rest[0] = v /\ rest[1] = Shr(rest[0]) /\ rest[2] = Shr(rest[1]) /\ rest[3] = Shr(rest[2])
      /\ rest[4] = Shr(rest[3]) /\ rest[5] = Shr(rest[4]) /\ rest[6] = Shr(rest[5])
      /\ rest[7] = Shr(rest[6])
  BY <1>2 DEF Shr
<1>5. [i \in 1..8 |-> rest[8 - i] % Byte]
        = <<rest[7] % Byte, rest[6] % Byte, rest[5] % Byte, rest[4] % Byte>>
          \o <<rest[3] % Byte, rest[2] % Byte, rest[1] % Byte, rest[0] % Byte>>
  OBVIOUS
<1>6. QED
  BY <1>3, <1>4, <1>5 DEF WriteU32BE, WriteU64BE

\* struct.unpack of one, four and eight bytes: ReadU32BE and ReadU64BE of them.
LEMMA FirstByte == ASSUME NEW bytes \in Seq(Bytes), Len(bytes) > 0
                   PROVE  bytes[1] \in Bytes /\ 0 * Byte + bytes[1] = bytes[1]
<1>1. bytes[1] \in Bytes
  OBVIOUS
<1>2. bytes[1] \in Int /\ Byte \in Int
  BY <1>1, ByteIsNat DEF Bytes
<1>3. 0 * Byte + bytes[1] = bytes[1]
  BY <1>2
<1>4. QED
  BY <1>1, <1>3

LEMMA UnpackedByte == ASSUME NEW b \in Bytes PROVE Unpacked(<<b>>) = b
<1> DEFINE value == CHOOSE f : f = [n \in 0..Len(<<b>>) |->
                                      IF n = 0 THEN 0 ELSE f[n - 1] * Byte + <<b>>[n]]
           g == [n \in 0..1 |-> IF n = 0 THEN 0 ELSE b]
<1>1. Len(<<b>>) = 1 /\ <<b>>[1] = b
  OBVIOUS
<1>2. g = [n \in 0..1 |-> IF n = 0 THEN 0 ELSE g[n - 1] * Byte + <<b>>[n]]
  BY ByteIsNat DEF Bytes
<1>3. value = [n \in 0..1 |-> IF n = 0 THEN 0 ELSE value[n - 1] * Byte + <<b>>[n]]
  <2> HIDE DEF g
  <2>1. QED
    BY <1>1, <1>2
<1>4. Unpacked(<<b>>) = value[1]
  BY <1>1 DEF Unpacked
<1> HIDE DEF value
<1>5. value[0] = 0 /\ value[1] = value[0] * Byte + b
  BY <1>3
<1>6. QED
  BY <1>4, <1>5, ByteIsNat DEF Bytes

LEMMA UnpackedWord ==
    ASSUME NEW bytes \in Seq(Bytes), Len(bytes) = 4
    PROVE  Unpacked(bytes) = ReadU32BE(bytes, 0)
<1> DEFINE value == CHOOSE f : f = [n \in 0..Len(bytes) |->
                                      IF n = 0 THEN 0 ELSE f[n - 1] * Byte + bytes[n]]
           read == <<0, bytes[1], Shl(bytes[1], bytes[2]),
                     Shl(Shl(bytes[1], bytes[2]), bytes[3]),
                     Shl(Shl(Shl(bytes[1], bytes[2]), bytes[3]), bytes[4])>>
           g == [n \in 0..4 |-> read[n + 1]]
<1>1. g = [n \in 0..4 |-> IF n = 0 THEN 0 ELSE g[n - 1] * Byte + bytes[n]]
  <2>1. ASSUME NEW n \in 0..4
        PROVE  read[n + 1] = IF n = 0 THEN 0 ELSE read[n] * Byte + bytes[n]
    <3>1. n = 0 \/ n = 1 \/ n = 2 \/ n = 3 \/ n = 4
      OBVIOUS
    <3>2. bytes[1] = 0 * Byte + bytes[1]
      BY FirstByte
    <3>3. QED
      BY <3>1, <3>2 DEF Shl
  <2> HIDE DEF read
  <2>2. QED
    BY <2>1
<1>2. value = [n \in 0..4 |-> IF n = 0 THEN 0 ELSE value[n - 1] * Byte + bytes[n]]
  <2> HIDE DEF g
  <2>1. QED
    BY <1>1
<1>3. Unpacked(bytes) = value[4]
  BY DEF Unpacked
<1> HIDE DEF value
<1>4. value[0] = 0 /\ value[1] = value[0] * Byte + bytes[1] /\ value[2] = Shl(value[1], bytes[2])
      /\ value[3] = Shl(value[2], bytes[3]) /\ value[4] = Shl(value[3], bytes[4])
  BY <1>2 DEF Shl
<1>5. value[1] = bytes[1]
  BY <1>4, FirstByte
<1>6. QED
  BY <1>3, <1>4, <1>5 DEF ReadU32BE

LEMMA UnpackedLong ==
    ASSUME NEW bytes \in Seq(Bytes), Len(bytes) = 8
    PROVE  Unpacked(bytes) = ReadU64BE(bytes, 0)
<1> DEFINE value == CHOOSE f : f = [n \in 0..Len(bytes) |->
                                      IF n = 0 THEN 0 ELSE f[n - 1] * Byte + bytes[n]]
           word == ReadU32BE(bytes, 0)
           read == <<0, bytes[1], Shl(bytes[1], bytes[2]),
                     Shl(Shl(bytes[1], bytes[2]), bytes[3]), word,
                     Shl(word, bytes[5]), Shl(Shl(word, bytes[5]), bytes[6]),
                     Shl(Shl(Shl(word, bytes[5]), bytes[6]), bytes[7]),
                     Shl(Shl(Shl(Shl(word, bytes[5]), bytes[6]), bytes[7]), bytes[8])>>
           g == [n \in 0..8 |-> read[n + 1]]
<1>1. g = [n \in 0..8 |-> IF n = 0 THEN 0 ELSE g[n - 1] * Byte + bytes[n]]
  <2>1. ASSUME NEW n \in 0..8
        PROVE  read[n + 1] = IF n = 0 THEN 0 ELSE read[n] * Byte + bytes[n]
    <3>1. \/ n = 0 \/ n = 1 \/ n = 2 \/ n = 3 \/ n = 4
          \/ n = 5 \/ n = 6 \/ n = 7 \/ n = 8
      OBVIOUS
    <3>2. bytes[1] = 0 * Byte + bytes[1]
      BY FirstByte
    <3>3. word = Shl(Shl(Shl(bytes[1], bytes[2]), bytes[3]), bytes[4])
      BY DEF ReadU32BE
    <3> HIDE DEF word
    <3>4. QED
      BY <3>1, <3>2, <3>3 DEF Shl
  <2> HIDE DEF read
  <2>2. QED
    BY <2>1
<1>2. value = [n \in 0..8 |-> IF n = 0 THEN 0 ELSE value[n - 1] * Byte + bytes[n]]
  <2> HIDE DEF g
  <2>1. QED
    BY <1>1
<1>3. Unpacked(bytes) = value[8]
  BY DEF Unpacked
<1> HIDE DEF value
<1>4. value[0] = 0 /\ value[1] = value[0] * Byte + bytes[1] /\ value[2] = Shl(value[1], bytes[2])
      /\ value[3] = Shl(value[2], bytes[3]) /\ value[4] = Shl(value[3], bytes[4])
      /\ value[5] = Shl(value[4], bytes[5]) /\ value[6] = Shl(value[5], bytes[6])
      /\ value[7] = Shl(value[6], bytes[7]) /\ value[8] = Shl(value[7], bytes[8])
  BY <1>2 DEF Shl
<1>5. value[1] = bytes[1]
  BY <1>4, FirstByte
<1>6. QED
  BY <1>3, <1>4, <1>5 DEF ReadU32BE, ReadU64BE

\* struct.calcsize: where the fields of the format begin.
LEMMA Positions ==
    /\ Position[1] = 0 /\ Position[2] = 4 /\ Position[3] = 5 /\ Position[4] = 6
    /\ Position[5] = 10 /\ Position[6] = 11 /\ Position[7] = 12 /\ Position[8] = 16
    /\ Position[9] = 24 /\ Position[10] = 40
<1> DEFINE place0 == <<0, 4, 5, 6, 10, 11, 12, 16, 24, 40>>
           P(f) == [i \in 1..10 |-> IF i = 1 THEN 0 ELSE f[i - 1] + Format[i - 1]]
           g == [i \in 1..10 |-> place0[i]]
<1>1. Len(Format) = 10
  BY DEF Format
<1>2. g = [i \in 1..10 |-> IF i = 1 THEN 0 ELSE g[i - 1] + Format[i - 1]]
  <2>1. ASSUME NEW i \in 1..10
        PROVE  place0[i] = IF i = 1 THEN 0 ELSE place0[i - 1] + Format[i - 1]
    <3>1. \/ i = 1 \/ i = 2 \/ i = 3 \/ i = 4 \/ i = 5
          \/ i = 6 \/ i = 7 \/ i = 8 \/ i = 9 \/ i = 10
      OBVIOUS
    <3>2. QED
      BY <3>1 DEF Format
  <2> HIDE DEF place0
  <2>2. QED
    BY <2>1
<1>3. Position = CHOOSE f : f = [i \in 1..10 |-> IF i = 1 THEN 0 ELSE f[i - 1] + Format[i - 1]]
  BY <1>1 DEF Position
<1>4. Position = [i \in 1..10 |-> IF i = 1 THEN 0 ELSE Position[i - 1] + Format[i - 1]]
  <2> HIDE DEF g
  <2>1. QED
    BY <1>2, <1>3
<1>5. /\ Format[1] = 4 /\ Format[2] = 1 /\ Format[3] = 1 /\ Format[4] = 4 /\ Format[5] = 1
      /\ Format[6] = 1 /\ Format[7] = 4 /\ Format[8] = 8 /\ Format[9] = 16
  BY DEF Format
<1>6. Position[1] = 0 /\ Position[2] = Position[1] + 4 /\ Position[3] = Position[2] + 1
      /\ Position[4] = Position[3] + 1 /\ Position[5] = Position[4] + 4
      /\ Position[6] = Position[5] + 1 /\ Position[7] = Position[6] + 1
      /\ Position[8] = Position[7] + 4 /\ Position[9] = Position[8] + 8
      /\ Position[10] = Position[9] + 16
  BY <1>4, <1>5
<1>7. QED
  BY <1>6
-----------------------------------------------------------------------------
(* Headers *)

\* Headers of whatever the fields hold, as wide as they are.
Headers == [type : DOMAIN TypeCode, session : [1..16 -> Bytes], seq : U32,
            timestamp : U64, length : U32, rate : U32, channels : Bytes]

\* The fields of a header, each at its place.
HeaderBytes(data, h) ==
    /\ data \in Seq(Bytes) /\ Len(data) = kHeaderSize
    /\ Holds(data, 0, kProtocolMagic) /\ Holds(data, 4, <<kProtocolVersion, TypeCode[h.type]>>)
    /\ Holds(data, 6, WriteU32BE(h.rate)) /\ Holds(data, 10, <<kPcmS16Le, h.channels>>)
    /\ Holds(data, 12, WriteU32BE(h.seq)) /\ Holds(data, 16, WriteU64BE(h.timestamp))
    /\ Holds(data, 24, h.session) /\ Holds(data, 40, WriteU32BE(h.length))

LEMMA TypeCodes == /\ DOMAIN TypeCode = {"START", "CHUNK", "END", "ERROR", "RESULT"}
                   /\ TypeCode["START"] = 1 /\ TypeCode["CHUNK"] = 2 /\ TypeCode["END"] = 3
                   /\ TypeCode["ERROR"] = 4 /\ TypeCode["RESULT"] = 5
  BY DEF TypeCode

LEMMA TypeOfCode == ASSUME NEW t \in DOMAIN TypeCode
                    PROVE  /\ TypeCode[t] \in Range(TypeCode) /\ TypeOf(TypeCode[t]) = t
                           /\ TypeCode[t] \in Bytes
<1>1. TypeCode[t] \in Range(TypeCode)
  BY DEF Range
<1>2. TypeCode[t] \in Bytes
  BY TypeCodes, ByteIsNat DEF Bytes
<1> DEFINE u == CHOOSE s \in DOMAIN TypeCode : TypeCode[s] = TypeCode[t]
<1>3. u \in DOMAIN TypeCode /\ TypeCode[u] = TypeCode[t]
  <2>1. \E s \in DOMAIN TypeCode : TypeCode[s] = TypeCode[t]
    OBVIOUS
  <2>2. QED
    BY <2>1
<1>4. TypeOf(TypeCode[t]) = u
  BY <1>1 DEF TypeOf
<1> HIDE DEF u
<1>5. u = t
  BY <1>3, TypeCodes
<1>6. QED
  BY <1>1, <1>2, <1>4, <1>5

LEMMA Magic == /\ kProtocolMagic \in Seq(Bytes) /\ Len(kProtocolMagic) = 4
               /\ kProtocolMagic[1] = 69
  BY ByteIsNat DEF kProtocolMagic, Bytes

\* The bytes of a session's identifier.
LEMMA SessionBytes == ASSUME NEW s \in [1..16 -> Bytes]
                      PROVE  s \in Seq(Bytes) /\ Len(s) = 16
<1>1. 16 \in Nat
  OBVIOUS
<1>2. s \in Seq(Bytes)
  BY <1>1, SeqDef
<1>3. QED
  BY <1>2, LenProperties

\* What EncodeHeader writes, field by field.
LEMMA Encoded == ASSUME NEW h \in Headers PROVE HeaderBytes(EncodeHeader(h), h)
<1> DEFINE f2 == <<kProtocolVersion, TypeCode[h.type]>>
           f4 == <<kPcmS16Le, h.channels>>
           f3 == WriteU32BE(h.rate)
           f5 == WriteU32BE(h.seq)
           f6 == WriteU64BE(h.timestamp)
           f8 == WriteU32BE(h.length)
           s2 == kProtocolMagic \o f2
           s3 == s2 \o f3
           s4 == s3 \o f4
           s5 == s4 \o f5
           s6 == s5 \o f6
           s7 == s6 \o h.session
           s8 == s7 \o f8
<1>1. f2 \in Seq(Bytes) /\ Len(f2) = 2
  BY TypeOfCode, ByteIsNat DEF Headers, Bytes, kProtocolVersion
<1>2. f4 \in Seq(Bytes) /\ Len(f4) = 2
  BY ByteIsNat DEF Headers, Bytes, kPcmS16Le
<1>3. /\ f3 \in Seq(Bytes) /\ Len(f3) = 4 /\ f5 \in Seq(Bytes) /\ Len(f5) = 4
      /\ f6 \in Seq(Bytes) /\ Len(f6) = 8 /\ f8 \in Seq(Bytes) /\ Len(f8) = 4
  BY WordType, LongType DEF Headers, U32, U64
<1>4. h.session \in Seq(Bytes) /\ Len(h.session) = 16
  BY SessionBytes DEF Headers
<1>5. EncodeHeader(h) = s8
  BY DEF EncodeHeader
<1> HIDE DEF f2, f3, f4, f5, f6, f8
<1>6. /\ s2 \in Seq(Bytes) /\ Len(s2) = 6 /\ Holds(s2, 0, kProtocolMagic) /\ Holds(s2, 4, f2)
  <2>1. /\ kProtocolMagic \o f2 \in Seq(Bytes)
        /\ Len(kProtocolMagic \o f2) = Len(kProtocolMagic) + Len(f2)
        /\ Holds(kProtocolMagic \o f2, 0, kProtocolMagic)
        /\ Holds(kProtocolMagic \o f2, Len(kProtocolMagic), f2)
    BY <1>1, Magic, HoldsConcat
  <2>2. QED
    BY <2>1, <1>1, Magic
<1> HIDE DEF s2
<1>7. /\ s3 \in Seq(Bytes) /\ Len(s3) = 10 /\ Holds(s3, 0, kProtocolMagic) /\ Holds(s3, 4, f2)
      /\ Holds(s3, 6, f3)
  <2>1. /\ s2 \o f3 \in Seq(Bytes) /\ Len(s2 \o f3) = Len(s2) + Len(f3)
        /\ Holds(s2 \o f3, Len(s2), f3)
        /\ \A at \in Nat : \A field : Len(field) \in Nat /\ Holds(s2, at, field)
                                    => Holds(s2 \o f3, at, field)
    BY <1>3, <1>6, HoldsConcat
  <2>2. QED
    BY <2>1, <1>1, <1>3, <1>6, Magic
<1> HIDE DEF s3
<1>8. /\ s4 \in Seq(Bytes) /\ Len(s4) = 12 /\ Holds(s4, 0, kProtocolMagic) /\ Holds(s4, 4, f2)
      /\ Holds(s4, 6, f3) /\ Holds(s4, 10, f4)
  <2>1. /\ s3 \o f4 \in Seq(Bytes) /\ Len(s3 \o f4) = Len(s3) + Len(f4)
        /\ Holds(s3 \o f4, Len(s3), f4)
        /\ \A at \in Nat : \A field : Len(field) \in Nat /\ Holds(s3, at, field)
                                    => Holds(s3 \o f4, at, field)
    BY <1>2, <1>7, HoldsConcat
  <2>2. QED
    BY <2>1, <1>1, <1>2, <1>3, <1>7, Magic
<1> HIDE DEF s4
<1>9. /\ s5 \in Seq(Bytes) /\ Len(s5) = 16 /\ Holds(s5, 0, kProtocolMagic) /\ Holds(s5, 4, f2)
      /\ Holds(s5, 6, f3) /\ Holds(s5, 10, f4) /\ Holds(s5, 12, f5)
  <2>1. /\ s4 \o f5 \in Seq(Bytes) /\ Len(s4 \o f5) = Len(s4) + Len(f5)
        /\ Holds(s4 \o f5, Len(s4), f5)
        /\ \A at \in Nat : \A field : Len(field) \in Nat /\ Holds(s4, at, field)
                                    => Holds(s4 \o f5, at, field)
    BY <1>3, <1>8, HoldsConcat
  <2>2. QED
    BY <2>1, <1>1, <1>2, <1>3, <1>8, Magic
<1> HIDE DEF s5
<1>10. /\ s6 \in Seq(Bytes) /\ Len(s6) = 24 /\ Holds(s6, 0, kProtocolMagic) /\ Holds(s6, 4, f2)
       /\ Holds(s6, 6, f3) /\ Holds(s6, 10, f4) /\ Holds(s6, 12, f5) /\ Holds(s6, 16, f6)
  <2>1. /\ s5 \o f6 \in Seq(Bytes) /\ Len(s5 \o f6) = Len(s5) + Len(f6)
        /\ Holds(s5 \o f6, Len(s5), f6)
        /\ \A at \in Nat : \A field : Len(field) \in Nat /\ Holds(s5, at, field)
                                    => Holds(s5 \o f6, at, field)
    BY <1>3, <1>9, HoldsConcat
  <2>2. QED
    BY <2>1, <1>1, <1>2, <1>3, <1>9, Magic
<1> HIDE DEF s6
<1>11. /\ s7 \in Seq(Bytes) /\ Len(s7) = 40 /\ Holds(s7, 0, kProtocolMagic) /\ Holds(s7, 4, f2)
       /\ Holds(s7, 6, f3) /\ Holds(s7, 10, f4) /\ Holds(s7, 12, f5) /\ Holds(s7, 16, f6)
       /\ Holds(s7, 24, h.session)
  <2>1. /\ s6 \o h.session \in Seq(Bytes) /\ Len(s6 \o h.session) = Len(s6) + Len(h.session)
        /\ Holds(s6 \o h.session, Len(s6), h.session)
        /\ \A at \in Nat : \A field : Len(field) \in Nat /\ Holds(s6, at, field)
                                    => Holds(s6 \o h.session, at, field)
    BY <1>4, <1>10, HoldsConcat
  <2>2. QED
    BY <2>1, <1>1, <1>2, <1>3, <1>4, <1>10, Magic
<1> HIDE DEF s7
<1>12. /\ s8 \in Seq(Bytes) /\ Len(s8) = 44 /\ Holds(s8, 0, kProtocolMagic) /\ Holds(s8, 4, f2)
       /\ Holds(s8, 6, f3) /\ Holds(s8, 10, f4) /\ Holds(s8, 12, f5) /\ Holds(s8, 16, f6)
       /\ Holds(s8, 24, h.session) /\ Holds(s8, 40, f8)
  <2>1. /\ s7 \o f8 \in Seq(Bytes) /\ Len(s7 \o f8) = Len(s7) + Len(f8)
        /\ Holds(s7 \o f8, Len(s7), f8)
        /\ \A at \in Nat : \A field : Len(field) \in Nat /\ Holds(s7, at, field)
                                    => Holds(s7 \o f8, at, field)
    BY <1>3, <1>11, HoldsConcat
  <2>2. QED
    BY <2>1, <1>1, <1>2, <1>3, <1>4, <1>11, Magic
<1> HIDE DEF s8
<1>13. QED
  BY <1>5, <1>12 DEF HeaderBytes, kHeaderSize, f2, f3, f4, f5, f6, f8

\* Cutting a field out of the bytes gives the field.
Cut(data, at, size) == SubSeq(data, at + 1, at + size)

LEMMA CutField ==
    ASSUME NEW data \in Seq(Bytes), NEW field \in Seq(Bytes), NEW at \in Nat, NEW size,
           Holds(data, at, field), Len(field) = size
    PROVE  Cut(data, at, size) = field
<1>1. Len(data) \in Nat /\ size \in Nat
  BY LenProperties
<1> DEFINE first == at + 1
           last == at + size
           cut == SubSeq(data, first, last)
<1>2. \A i \in first..last : data[i] \in Bytes
  BY <1>1, LenProperties DEF Holds
<1>3. /\ cut \in Seq(Bytes)
      /\ Len(cut) = IF first <= last THEN last - first + 1 ELSE 0
      /\ \A i \in 1..(last - first + 1) : cut[i] = data[first + i - 1]
  BY <1>1, <1>2, SubSeqProperties
<1>4. Cut(data, at, size) = cut
  BY DEF Cut
<1> HIDE DEF cut
<1>5. Len(cut) = Len(field)
  BY <1>1, <1>3
<1>6. ASSUME NEW i \in 1..Len(cut) PROVE cut[i] = field[i]
  <2>1. i \in 1..(last - first + 1) /\ first + i - 1 = at + i
    BY <1>1, <1>5
  <2>2. cut[i] = data[at + i]
    BY <1>3, <2>1
  <2>3. QED
    BY <1>1, <1>5, <2>2 DEF Holds
<1>7. cut = field
  BY <1>3, <1>5, <1>6, SeqEqual
<1>8. QED
  BY <1>4, <1>7

\* DecodeHeader gives the header back, whatever its fields hold.
LEMMA Decodes == ASSUME NEW h \in Headers, NEW data, HeaderBytes(data, h)
                 PROVE  DecodeHeader(data) = h
<1>1. data \in Seq(Bytes) /\ Len(data) = 44 /\ Len(data) \in Nat
  BY DEF HeaderBytes, kHeaderSize
<1>2. SubSeq(data, 1, 4) = kProtocolMagic
  <2>1. data \in Seq(Bytes) /\ Holds(data, 0, kProtocolMagic) /\ 0 \in Nat
    BY DEF HeaderBytes
  <2>2. Cut(data, 0, 4) = kProtocolMagic
    BY <2>1, Magic, CutField, Zenon
  <2>3. QED
    BY <2>2 DEF Cut
<1>3. data[5] = kProtocolVersion /\ data[6] = TypeCode[h.type] /\ data[12] = h.channels
  BY <1>1 DEF HeaderBytes, Holds
<1>4. SubSeq(data, 25, 40) = h.session
  <2>1. h.session \in Seq(Bytes) /\ Len(h.session) = 16
    BY SessionBytes DEF Headers
  <2>2. data \in Seq(Bytes) /\ Holds(data, 24, h.session)
    BY DEF HeaderBytes
  <2>3. Cut(data, 24, 16) = h.session
    BY <2>1, <2>2, CutField
  <2>4. QED
    BY <2>3 DEF Cut
<1>5. /\ ReadU32BE(data, 6) = h.rate /\ ReadU32BE(data, 12) = h.seq
      /\ ReadU32BE(data, 40) = h.length /\ ReadU64BE(data, 16) = h.timestamp
  BY <1>1, WordRead, LongRead DEF HeaderBytes, Headers
<1>6. TypeOf(data[6]) = h.type
  BY <1>3, TypeOfCode DEF Headers
<1>7. DecodeHeader(data) = Header(h.type, h.session, h.seq, h.timestamp, h.length, h.rate,
                                  h.channels)
  BY <1>2, <1>3, <1>4, <1>5, <1>6 DEF DecodeHeader
<1>8. QED
  BY <1>7 DEF Header, Headers

\* What struct.pack writes, struct.unpack reads.
LEMMA UnpackedWritten == /\ \A v \in U32 : Unpacked(WriteU32BE(v)) = v
                         /\ \A v \in U64 : Unpacked(WriteU64BE(v)) = v
<1>1. ASSUME NEW v \in U32 PROVE Unpacked(WriteU32BE(v)) = v
  <2>1. WriteU32BE(v) \in Seq(Bytes) /\ Len(WriteU32BE(v)) = 4
    BY WordType DEF U32
  <2>2. Holds(WriteU32BE(v), 0, WriteU32BE(v))
    BY <2>1 DEF Holds
  <2>3. QED
    BY <2>1, <2>2, UnpackedWord, WordRead
<1>2. ASSUME NEW v \in U64 PROVE Unpacked(WriteU64BE(v)) = v
  <2>1. WriteU64BE(v) \in Seq(Bytes) /\ Len(WriteU64BE(v)) = 8
    BY LongType DEF U64
  <2>2. Holds(WriteU64BE(v), 0, WriteU64BE(v))
    BY <2>1 DEF Holds
  <2>3. QED
    BY <2>1, <2>2, UnpackedLong, LongRead
<1>3. QED
  BY <1>1, <1>2

\* What protocol.py takes: a rate, channels and a payload within its limits.
WellFormed(h) == h.rate > 0 /\ h.channels > 0 /\ h.length <= MaxPayloadBytes

\* decode_header gives every header back that it does not refuse.
LEMMA PyDecodes == ASSUME NEW h \in Headers, WellFormed(h), NEW data, HeaderBytes(data, h)
                   PROVE  PyDecodeHeader(data) = h
<1> DEFINE bytes(i) == SubSeq(data, Position[i] + 1, Position[i] + Format[i])
           field(i) == Unpacked(bytes(i))
<1>1. data \in Seq(Bytes) /\ Len(data) = 44 /\ Len(data) \in Nat
  BY DEF HeaderBytes, kHeaderSize
<1>2. /\ Format[1] = 4 /\ Format[2] = 1 /\ Format[3] = 1 /\ Format[4] = 4 /\ Format[5] = 1
      /\ Format[6] = 1 /\ Format[7] = 4 /\ Format[8] = 8 /\ Format[9] = 16 /\ Format[10] = 4
  BY DEF Format
<1>3. /\ WriteU32BE(h.rate) \in Seq(Bytes) /\ Len(WriteU32BE(h.rate)) = 4
      /\ WriteU32BE(h.seq) \in Seq(Bytes) /\ Len(WriteU32BE(h.seq)) = 4
      /\ WriteU32BE(h.length) \in Seq(Bytes) /\ Len(WriteU32BE(h.length)) = 4
      /\ WriteU64BE(h.timestamp) \in Seq(Bytes) /\ Len(WriteU64BE(h.timestamp)) = 8
      /\ h.session \in Seq(Bytes) /\ Len(h.session) = 16
  BY WordType, LongType, SessionBytes DEF Headers, U32, U64
<1>4. /\ bytes(1) = kProtocolMagic /\ bytes(4) = WriteU32BE(h.rate)
      /\ bytes(7) = WriteU32BE(h.seq) /\ bytes(8) = WriteU64BE(h.timestamp)
      /\ bytes(9) = h.session /\ bytes(10) = WriteU32BE(h.length)
  <2>1. /\ Holds(data, 0, kProtocolMagic) /\ Holds(data, 6, WriteU32BE(h.rate))
        /\ Holds(data, 12, WriteU32BE(h.seq)) /\ Holds(data, 16, WriteU64BE(h.timestamp))
        /\ Holds(data, 24, h.session) /\ Holds(data, 40, WriteU32BE(h.length))
    BY DEF HeaderBytes
  <2>2. /\ bytes(1) = Cut(data, 0, 4) /\ bytes(4) = Cut(data, 6, 4)
        /\ bytes(7) = Cut(data, 12, 4) /\ bytes(8) = Cut(data, 16, 8)
        /\ bytes(9) = Cut(data, 24, 16) /\ bytes(10) = Cut(data, 40, 4)
    BY <1>2, Positions DEF Cut
  <2>3. ASSUME NEW f \in Seq(Bytes), NEW at \in Nat, NEW size, Len(f) = size, Holds(data, at, f)
        PROVE  Cut(data, at, size) = f
    BY <1>1, <2>3, CutField
  <2>4. Cut(data, 0, 4) = kProtocolMagic
    <3>1. 0 \in Nat
      OBVIOUS
    <3>2. QED
      BY <2>1, <2>3, <3>1, Magic, Zenon
  <2>5. Cut(data, 24, 16) = h.session
    BY <1>3, <2>1, <2>3
  <2>6. Cut(data, 6, 4) = WriteU32BE(h.rate)
    BY <1>3, <2>1, <2>3
  <2>7. Cut(data, 12, 4) = WriteU32BE(h.seq)
    BY <1>3, <2>1, <2>3
  <2>8. Cut(data, 40, 4) = WriteU32BE(h.length)
    BY <1>3, <2>1, <2>3
  <2>9. Cut(data, 16, 8) = WriteU64BE(h.timestamp)
    BY <1>3, <2>1, <2>3
  <2> HIDE DEF bytes
  <2>10. QED
    BY <2>2, <2>4, <2>5, <2>6, <2>7, <2>8, <2>9
<1>5. ASSUME NEW b \in Bytes, NEW at \in Nat, at + 1 <= 44, data[at + 1] = b
      PROVE  Unpacked(SubSeq(data, at + 1, at + 1)) = b
  <2>1. <<b>> \in Seq(Bytes) /\ Len(<<b>>) = 1
    OBVIOUS
  <2>2. Holds(data, at, <<b>>)
    BY <1>1, <1>5 DEF Holds
  <2>3. Cut(data, at, 1) = <<b>>
    BY <1>1, <2>1, <2>2, CutField
  <2>4. QED
    BY <2>3, UnpackedByte DEF Cut
<1>6. /\ data[5] = kProtocolVersion /\ data[6] = TypeCode[h.type]
      /\ data[11] = kPcmS16Le /\ data[12] = h.channels
  BY <1>1 DEF HeaderBytes, Holds
<1>7. kProtocolVersion \in Bytes /\ TypeCode[h.type] \in Bytes /\ kPcmS16Le \in Bytes
      /\ h.channels \in Bytes
  BY TypeOfCode, ByteIsNat DEF Headers, Bytes, kProtocolVersion, kPcmS16Le
<1>8. /\ field(2) = kProtocolVersion /\ field(3) = TypeCode[h.type]
      /\ field(5) = kPcmS16Le /\ field(6) = h.channels
  <2>1. /\ Unpacked(SubSeq(data, 4 + 1, 4 + 1)) = kProtocolVersion
        /\ Unpacked(SubSeq(data, 5 + 1, 5 + 1)) = TypeCode[h.type]
        /\ Unpacked(SubSeq(data, 10 + 1, 10 + 1)) = kPcmS16Le
        /\ Unpacked(SubSeq(data, 11 + 1, 11 + 1)) = h.channels
    BY <1>5, <1>6, <1>7
  <2>2. QED
    BY <2>1, <1>2, Positions
<1>9. /\ field(4) = h.rate /\ field(7) = h.seq /\ field(8) = h.timestamp /\ field(10) = h.length
  BY <1>4, UnpackedWritten DEF Headers
<1>10. PyDecodeHeader(data) =
          IF \/ Len(data) < kHeaderSize
             \/ bytes(1) # kProtocolMagic \/ field(2) # kProtocolVersion
             \/ field(3) \notin Range(TypeCode) \/ field(5) # kPcmS16Le
             \/ field(4) <= 0 \/ field(6) <= 0 \/ field(10) > MaxPayloadBytes
          THEN Rejected
          ELSE Header(TypeOf(field(3)), bytes(9), field(7), field(8), field(10),
                      field(4), field(6))
  BY DEF PyDecodeHeader
<1> HIDE DEF bytes, field
<1>11. /\ field(3) \in Range(TypeCode) /\ TypeOf(field(3)) = h.type
  BY <1>8, TypeOfCode DEF Headers
<1>12. ~(field(4) <= 0) /\ ~(field(6) <= 0) /\ ~(field(10) > MaxPayloadBytes)
       /\ ~(Len(data) < kHeaderSize)
  <2>1. /\ h.rate \in Nat /\ h.channels \in Nat /\ h.length \in Nat /\ MaxPayloadBytes \in Int
        /\ h.rate > 0 /\ h.channels > 0 /\ h.length <= MaxPayloadBytes
    BY ByteIsNat DEF Headers, U32, Bytes, MaxPayloadBytes, kHeaderSize, WellFormed
  <2>2. QED
    BY <1>1, <1>8, <1>9, <2>1 DEF kHeaderSize
<1>13. PyDecodeHeader(data) = Header(h.type, h.session, h.seq, h.timestamp, h.length, h.rate,
                                     h.channels)
  BY <1>4, <1>8, <1>9, <1>10, <1>11, <1>12
<1>14. QED
  BY <1>13 DEF Header, Headers

\* Two bytes appended one by one.
LEMMA TwoBytes == ASSUME NEW s \in Seq(Bytes), NEW a \in Bytes, NEW b \in Bytes
                  PROVE  (s \o <<a>>) \o <<b>> = s \o <<a, b>>
<1>1. <<a>> \in Seq(Bytes) /\ <<b>> \in Seq(Bytes)
  OBVIOUS
<1>2. <<a>> \o <<b>> = <<a, b>>
  <2>1. /\ <<a>> \o <<b>> \in Seq(Bytes) /\ Len(<<a>> \o <<b>>) = Len(<<a>>) + Len(<<b>>)
        /\ \A i \in 1..(Len(<<a>>) + Len(<<b>>)) :
              (<<a>> \o <<b>>)[i] = IF i <= Len(<<a>>) THEN <<a>>[i] ELSE <<b>>[i - Len(<<a>>)]
    BY <1>1, ConcatProperties, Zenon
  <2>2. /\ <<a, b>> \in Seq(Bytes) /\ Len(<<a, b>>) = 2 /\ Len(<<a>>) = 1 /\ Len(<<b>>) = 1
        /\ <<a, b>>[1] = a /\ <<a, b>>[2] = b /\ <<a>>[1] = a /\ <<b>>[1] = b
    OBVIOUS
  <2> DEFINE w == <<a>> \o <<b>>
  <2>3. /\ w \in Seq(Bytes) /\ Len(w) = 2
        /\ w[1] = a /\ w[2] = b
    <3> HIDE DEF w
    <3>1. /\ w \in Seq(Bytes) /\ Len(w) = 2
          /\ \A i \in 1..2 : w[i] = IF i <= 1 THEN <<a>>[i] ELSE <<b>>[i - 1]
      BY <2>1, <2>2 DEF w
    <3>2. QED
      BY <2>2, <3>1
  <2> HIDE DEF w
  <2>4. Len(w) = Len(<<a, b>>) /\ \A i \in 1..Len(w) : w[i] = <<a, b>>[i]
    BY <2>2, <2>3
  <2>5. w = <<a, b>>
    BY <2>2, <2>3, <2>4, SeqEqual, Zenon
  <2>6. QED
    BY <2>5 DEF w
<1>3. (s \o <<a>>) \o <<b>> = s \o (<<a>> \o <<b>>)
  BY <1>1, ConcatAssociative
<1>4. QED
  BY <1>2, <1>3

\* protocol_codec.h:1-3: the headers of the firmware and of the server are the
\* same bytes, whatever the fields hold, and each side reads in them what the
\* other wrote.
THEOREM CodecsAgree ==
    \A h \in Headers : /\ EncodeMessage(h) = EncodeHeader(h)
                       /\ DecodeHeader(EncodeMessage(h)) = h
                       /\ WellFormed(h) => PyDecodeHeader(EncodeHeader(h)) = h
<1> SUFFICES ASSUME NEW h \in Headers
             PROVE  /\ EncodeMessage(h) = EncodeHeader(h)
                    /\ DecodeHeader(EncodeMessage(h)) = h
                    /\ WellFormed(h) => PyDecodeHeader(EncodeHeader(h)) = h
  OBVIOUS
<1> DEFINE code == TypeCode[h.type]
           s2 == kProtocolMagic \o <<kProtocolVersion, code>>
           s3 == s2 \o WriteU32BE(h.rate)
<1>1. kProtocolVersion \in Bytes /\ code \in Bytes /\ kPcmS16Le \in Bytes /\ h.channels \in Bytes
  BY TypeOfCode, ByteIsNat DEF Headers, Bytes, kProtocolVersion, kPcmS16Le
<1>2. /\ Packed(kProtocolVersion, 1) = <<kProtocolVersion>> /\ Packed(code, 1) = <<code>>
      /\ Packed(kPcmS16Le, 1) = <<kPcmS16Le>> /\ Packed(h.channels, 1) = <<h.channels>>
  BY <1>1, PackedByte
<1>3. /\ Packed(h.rate, 4) = WriteU32BE(h.rate) /\ Packed(h.seq, 4) = WriteU32BE(h.seq)
      /\ Packed(h.length, 4) = WriteU32BE(h.length)
      /\ Packed(h.timestamp, 8) = WriteU64BE(h.timestamp)
  BY PackedWord, PackedLong DEF Headers, U32, U64
<1>4. (kProtocolMagic \o <<kProtocolVersion>>) \o <<code>> = s2
  BY <1>1, Magic, TwoBytes
<1>5. s3 \in Seq(Bytes)
  <2>1. <<kProtocolVersion, code>> \in Seq(Bytes)
    BY <1>1
  <2>2. WriteU32BE(h.rate) \in Seq(Bytes)
    BY WordType DEF Headers, U32
  <2>3. QED
    BY <2>1, <2>2, Magic, ConcatProperties
<1>6. (s3 \o <<kPcmS16Le>>) \o <<h.channels>> = s3 \o <<kPcmS16Le, h.channels>>
  BY <1>1, <1>5, TwoBytes
<1>7. EncodeMessage(h) = EncodeHeader(h)
  BY <1>2, <1>3, <1>4, <1>6 DEF EncodeMessage, EncodeHeader
<1>8. QED
  BY <1>7, Encoded, Decodes, PyDecodes
-----------------------------------------------------------------------------
(* The connection *)

\* The calls of StreamingTask between which a descriptor is held.
InSession == Places \ {"idle", "connect"}

\* A request begins without a descriptor, a session has one.
SocketInv == /\ place \in Places
             /\ socket \in BOOLEAN /\ connected = socket
             /\ socket <=> place \in InSession

\* Every way out of a session goes through Disconnect.
LEMMA SocketInvariant == Spec => []SocketInv
<1>1. Init => SocketInv
  BY DEF Init, SocketInv, Places, InSession
<1>2. SocketInv /\ [Next]_vars => SocketInv'
  <2> SUFFICES ASSUME SocketInv, [Next]_vars PROVE SocketInv'
    OBVIOUS
  <2> USE DEF SocketInv, Places, InSession
  <2>1. CASE TakeRequest
    BY <2>1 DEF TakeRequest, socketVars
  <2>2. CASE Connect
    <3>1. CASE socket' = TRUE /\ connected' = TRUE /\ place' = "start"
      BY <3>1
    <3>2. CASE place' = "idle" /\ UNCHANGED socketVars
      BY <2>2, <3>2 DEF Connect, socketVars
    <3>3. QED
      BY <2>2, <3>1, <3>2 DEF Connect
  <2>3. CASE SendStart
    BY <2>3 DEF SendStart, Begin, AfterSend, socketVars
  <2>4. CASE SendChunk
    BY <2>4 DEF SendChunk, Begin, AfterSend, socketVars
  <2>5. CASE SkipPreRoll \/ StopStreaming
    BY <2>5 DEF SkipPreRoll, StopStreaming, socketVars
  <2>6. CASE SendEnd
    BY <2>6 DEF SendEnd, Begin, AfterSend, socketVars
  <2>7. CASE SendHeader
    BY <2>7 DEF SendHeader, AfterHeader, AfterSend, socketVars
  <2>8. CASE SendPayload
    BY <2>8 DEF SendPayload, AfterSend, socketVars
  <2>9. CASE ReceiveHeader
    BY <2>9 DEF ReceiveHeader, Decoded, socketVars
  <2>10. CASE ReceiveText
    BY <2>10 DEF ReceiveText, socketVars
  <2>11. CASE Disconnect
    BY <2>11 DEF Disconnect, socketVars
  <2>12. CASE UNCHANGED vars
    BY <2>12 DEF vars, socketVars
  <2>13. QED
    BY <2>1, <2>2, <2>3, <2>4, <2>5, <2>6, <2>7, <2>8, <2>9, <2>10, <2>11, <2>12 DEF Next
<1>3. QED
  BY <1>1, <1>2, PTL DEF Spec

\* Flag and descriptor agree and none is lost, in every behaviour.
THEOREM SocketsPaired == Spec => []SocketPaired
<1>1. SocketInv => SocketPaired
  BY DEF SocketInv, SocketPaired, InSession
<1>2. QED
  BY <1>1, SocketInvariant, PTL
-----------------------------------------------------------------------------
(* What is on the connection *)

Parts == [type : Types \cup {"payload"}, declared : Nat, asked : Nat, moved : Nat]

\* Only a chunk has a payload.
WireOK == /\ parts \in Seq(Parts)
          /\ place \in Places
          /\ message.type \in Types /\ message.length \in Nat
          /\ message.length > 0 => message.type = "CHUNK"

\* Every part but the last is followed by what it announces.
Unbroken == \A i \in 1..(Len(parts) - 1) : Expected(i)
\* The last part announces no payload.
AtBoundary == Len(parts) > 0 => parts[Len(parts)].declared = 0

\* Where StreamingTask sends a message that is not END, nothing is torn; where
\* it sends END, at most the last message is.
BoundaryInv ==
    /\ place \in {"connect", "start"} => parts = <<>>
    /\ \/ place \in {"preroll", "live"}
       \/ place = "header" /\ message.type # "END"
       => Unbroken /\ AtBoundary
    /\ place = "payload" => /\ Unbroken /\ Len(parts) > 0
                            /\ parts[Len(parts)].declared > 0
                            /\ message.type = "CHUNK" /\ message.length > 0
    /\ place = "end" \/ (place = "header" /\ message.type = "END") => Unbroken

FramingInv == WireOK /\ BoundaryInv /\ TornOnlyBeforeEnd

\* Appending a part: what is new is the part and whether the one before it
\* announces its kind.
LEMMA AppendParts ==
    ASSUME WireOK, NEW p \in Parts, parts' = Append(parts, p)
    PROVE  /\ parts' \in Seq(Parts) /\ Len(parts') = Len(parts) + 1
           /\ parts'[Len(parts')] = p
           /\ \A i \in 1..Len(parts) : parts'[i] = parts[i]
           /\ \A i \in 1..Len(parts) :
                Expected(i)' <=> IF i < Len(parts) THEN Expected(i)
                                 ELSE (p.type = "payload") <=> (parts[i].declared > 0)
<1>1. /\ parts' \in Seq(Parts) /\ Len(parts') = Len(parts) + 1 /\ Len(parts) \in Nat
      /\ parts'[Len(parts')] = p
      /\ \A i \in 1..Len(parts) : parts'[i] = parts[i]
  BY DEF WireOK
<1>2. ASSUME NEW i \in 1..Len(parts), i < Len(parts)
      PROVE  Expected(i)' <=> Expected(i)
  BY <1>1, <1>2 DEF Expected
<1>3. ASSUME NEW i \in 1..Len(parts), ~(i < Len(parts))
      PROVE  Expected(i)' <=> ((p.type = "payload") <=> (parts[i].declared > 0))
  BY <1>1, <1>3 DEF Expected
<1>4. QED
  BY <1>1, <1>2, <1>3

\* A step that puts nothing on the connection keeps what has been said of it.
LEMMA PartsUnchanged ==
    ASSUME UNCHANGED parts
    PROVE  /\ Unbroken' <=> Unbroken
           /\ AtBoundary' <=> AtBoundary
           /\ TornOnlyBeforeEnd' <=> TornOnlyBeforeEnd
BY DEF Unbroken, AtBoundary, TornOnlyBeforeEnd, Expected

\* A part that is what the one before it announces leaves nothing torn; END may
\* follow a torn message.
LEMMA PartsGrow ==
    ASSUME WireOK, Unbroken, NEW p \in Parts, parts' = Append(parts, p),
           \/ Len(parts) = 0
           \/ (p.type = "payload") <=> (parts[Len(parts)].declared > 0)
           \/ p.type = "END"
    PROVE  /\ TornOnlyBeforeEnd'
           /\ parts' \in Seq(Parts) /\ Len(parts') > 0 /\ parts'[Len(parts')] = p
           /\ p.type # "END" => Unbroken'
<1>1. Len(parts) \in Nat /\ Len(parts') = Len(parts) + 1 /\ parts' \in Seq(Parts)
      /\ parts'[Len(parts')] = p
  BY AppendParts DEF WireOK
<1>2. \A i \in 1..Len(parts) : i < Len(parts) => Expected(i)'
  <2>1. \A i \in 1..Len(parts) : i < Len(parts) => Expected(i)
    BY <1>1 DEF Unbroken
  <2>2. QED
    BY <2>1, AppendParts
<1>3. \A i \in 1..Len(parts) : p.type # "END" => Expected(i)'
  BY <1>1, <1>2, AppendParts
<1>4. TornOnlyBeforeEnd'
  BY <1>1, <1>2, <1>3 DEF TornOnlyBeforeEnd
<1>5. p.type # "END" => Unbroken'
  BY <1>1, <1>3 DEF Unbroken
<1>6. QED
  BY <1>1, <1>4, <1>5

\* What SendMessage does before its first send.
LEMMA BeginKeeps ==
    ASSUME FramingInv, NEW type \in Types, NEW seq, NEW size \in Nat,
           Begin(type, seq, size),
           size > 0 => type = "CHUNK",
           Unbroken, type # "END" => AtBoundary
    PROVE  FramingInv'
<1>1. /\ message' = MessageHeader(type, seq, size) /\ UNCHANGED parts
      /\ message'.type = type /\ message'.length = size
  BY DEF Begin, MessageHeader, Header
<1>2. Unbroken' /\ TornOnlyBeforeEnd' /\ (AtBoundary' <=> AtBoundary)
  BY <1>1, PartsUnchanged DEF FramingInv
<1>3. \/ place' = "header"
      \/ place' \in {"hangup", "end", "result"}
  BY DEF Begin, AfterSend, Types
<1>4. WireOK'
  BY <1>1, <1>3 DEF FramingInv, WireOK, Places
<1>5. BoundaryInv'
  BY <1>1, <1>2, <1>3 DEF BoundaryInv
<1>6. QED
  BY <1>2, <1>4, <1>5 DEF FramingInv

\* Every step keeps the invariant.
LEMMA FramingStep == FramingInv /\ [Next]_vars => FramingInv'
<1> SUFFICES ASSUME FramingInv, [Next]_vars PROVE FramingInv'
  OBVIOUS
<1>1. CASE TakeRequest
  <2>1. parts' = <<>> /\ place' = "connect" /\ UNCHANGED message
    BY <1>1 DEF TakeRequest
  <2>2. QED
    BY <2>1 DEF FramingInv, WireOK, BoundaryInv, TornOnlyBeforeEnd, Places
<1>2. CASE Connect
  <2>1. UNCHANGED <<parts, message>> /\ place = "connect" /\ place' \in {"start", "idle"}
    BY <1>2 DEF Connect
  <2>2. QED
    BY <2>1, PartsUnchanged DEF FramingInv, WireOK, BoundaryInv, Places
<1>3. CASE SendStart
  <2>1. parts = <<>>
    BY <1>3 DEF SendStart, FramingInv, BoundaryInv
  <2>2. Unbroken /\ AtBoundary
    BY <2>1 DEF Unbroken, AtBoundary
  <2>3. QED
    BY <1>3, <2>2, BeginKeeps DEF SendStart, Types
<1>4. CASE SendChunk
  <2>1. Unbroken /\ AtBoundary
    BY <1>4 DEF SendChunk, FramingInv, BoundaryInv
  <2>2. PICK size \in ChunkSizes : Begin("CHUNK", chunks, size)
    BY <1>4 DEF SendChunk
  <2>3. QED
    BY <1>4, <2>1, <2>2, BeginKeeps, TransportAssumption DEF Types
<1>5. CASE SkipPreRoll
  <2>1. UNCHANGED <<parts, message>> /\ place = "preroll" /\ place' = "live"
    BY <1>5 DEF SkipPreRoll
  <2>2. QED
    BY <2>1, PartsUnchanged DEF FramingInv, WireOK, BoundaryInv, Places
<1>6. CASE StopStreaming
  <2>1. UNCHANGED <<parts, message>> /\ place = "live" /\ place' = "end"
    BY <1>6 DEF StopStreaming
  <2>2. QED
    BY <2>1, PartsUnchanged DEF FramingInv, WireOK, BoundaryInv, Places
<1>7. CASE SendEnd
  <2>1. Unbroken
    BY <1>7 DEF SendEnd, FramingInv, BoundaryInv
  <2>2. QED
    BY <1>7, <2>1, BeginKeeps DEF SendEnd, Types
<1>8. CASE SendHeader
  <2>1. place = "header" /\ UNCHANGED message /\ Unbroken
        /\ (message.type # "END" => AtBoundary)
    BY <1>8 DEF SendHeader, FramingInv, BoundaryInv
  <2>2. CASE UNCHANGED parts /\ AfterSend(message.type, "SendFailed")
    <3>1. place' \in {"result", "hangup", "end"}
      BY <2>2 DEF AfterSend
    <3>2. QED
      BY <2>1, <2>2, <3>1, PartsUnchanged DEF FramingInv, WireOK, BoundaryInv, Places
  <2>3. CASE Sent(message.type, message.length, kHeaderSize) /\ AfterHeader
    <3>1. PICK k \in Nat : parts' = Append(parts,
              [type |-> message.type, declared |-> message.length,
               asked |-> kHeaderSize, moved |-> k])
      BY <2>3 DEF Sent, Moved, kHeaderSize
    <3> DEFINE p == [type |-> message.type, declared |-> message.length,
                     asked |-> kHeaderSize, moved |-> k]
    <3>2. /\ p \in Parts /\ p.type = message.type /\ p.type # "payload"
          /\ p.declared = message.length
      BY DEF FramingInv, WireOK, Parts, Types, kHeaderSize
    <3>3. \/ Len(parts) = 0
          \/ (p.type = "payload") <=> (parts[Len(parts)].declared > 0)
          \/ p.type = "END"
      BY <2>1, <3>2 DEF AtBoundary, FramingInv, WireOK
    <3> HIDE DEF p
    <3>4. /\ TornOnlyBeforeEnd'
          /\ parts' \in Seq(Parts) /\ Len(parts') > 0 /\ parts'[Len(parts')] = p
          /\ p.type # "END" => Unbroken'
      BY <2>1, <3>1, <3>2, <3>3, PartsGrow DEF FramingInv, p
    <3>5. CASE message.length > 0
      BY <2>1, <2>3, <3>2, <3>4, <3>5
         DEF AfterHeader, FramingInv, WireOK, BoundaryInv, Places
    <3>6. CASE ~(message.length > 0)
      <4>1. message.length = 0 /\ AfterSend(message.type, "Ok")
        BY <2>3, <3>6 DEF AfterHeader, FramingInv, WireOK
      <4>2. AtBoundary'
        BY <3>2, <3>4, <4>1 DEF AtBoundary
      <4>3. place' = CASE message.type = "END" -> "result"
                       [] message.type = "START" -> "preroll" [] OTHER -> "live"
        BY <4>1 DEF AfterSend
      <4>4. \/ message.type = "END" /\ place' = "result"
            \/ message.type # "END" /\ place' \in {"preroll", "live"}
        BY <4>3
      <4>5. QED
        BY <2>1, <3>2, <3>4, <4>2, <4>4 DEF FramingInv, WireOK, BoundaryInv, Places
    <3>7. QED
      BY <3>5, <3>6
  <2>4. QED
    BY <1>8, <2>2, <2>3 DEF SendHeader
<1>9. CASE SendPayload
  <2>1. /\ place = "payload" /\ UNCHANGED message /\ Unbroken /\ Len(parts) > 0
        /\ parts[Len(parts)].declared > 0
        /\ message.type = "CHUNK" /\ message.length > 0
    BY <1>9 DEF SendPayload, FramingInv, BoundaryInv
  <2>2. CASE UNCHANGED parts /\ AfterSend(message.type, "SendFailed")
    <3>1. place' \in {"hangup", "end"}
      BY <2>1, <2>2 DEF AfterSend
    <3>2. QED
      BY <2>1, <2>2, <3>1, PartsUnchanged DEF FramingInv, WireOK, BoundaryInv, Places
  <2>3. CASE Sent("payload", 0, message.length) /\ AfterSend(message.type, "Ok")
    <3>1. PICK k \in Nat : parts' = Append(parts,
              [type |-> "payload", declared |-> 0, asked |-> message.length, moved |-> k])
      BY <2>3 DEF Sent, Moved, FramingInv, WireOK
    <3> DEFINE p == [type |-> "payload", declared |-> 0,
                     asked |-> message.length, moved |-> k]
    <3>2. p \in Parts /\ p.type = "payload" /\ p.declared = 0
      BY DEF FramingInv, WireOK, Parts
    <3> HIDE DEF p
    <3>3. /\ TornOnlyBeforeEnd' /\ Unbroken'
          /\ parts' \in Seq(Parts) /\ Len(parts') > 0 /\ parts'[Len(parts')] = p
      BY <2>1, <3>1, <3>2, PartsGrow DEF FramingInv, p
    <3>4. AtBoundary' /\ place' = "live"
      BY <2>1, <2>3, <3>2, <3>3 DEF AtBoundary, AfterSend
    <3>5. QED
      BY <2>1, <3>3, <3>4 DEF FramingInv, WireOK, BoundaryInv, Places
  <2>4. QED
    BY <1>9, <2>2, <2>3 DEF SendPayload
<1>10. CASE ReceiveHeader \/ ReceiveText \/ Disconnect
  <2>1. UNCHANGED <<parts, message>> /\ place' \in {"text", "hangup", "idle"}
    BY <1>10 DEF ReceiveHeader, Decoded, ReceiveText, Disconnect
  <2>2. QED
    BY <2>1, PartsUnchanged DEF FramingInv, WireOK, BoundaryInv, Places
<1>11. CASE UNCHANGED vars
  BY <1>11, PartsUnchanged DEF vars, FramingInv, WireOK, BoundaryInv
<1>12. QED
  BY <1>1, <1>2, <1>3, <1>4, <1>5, <1>6, <1>7, <1>8, <1>9, <1>10, <1>11 DEF Next

LEMMA FramingInvariant == Spec => []FramingInv
<1>1. Init => FramingInv
  BY DEF Init, FramingInv, WireOK, BoundaryInv, TornOnlyBeforeEnd, Places,
         NoMessage, MessageHeader, Header, Types
<1>2. QED
  BY <1>1, FramingStep, PTL DEF Spec

\* What a send that failed leaves on the connection is the end of it, or is
\* followed by END only, for sessions of every length (StreamingTask).
THEOREM TornBeforeEnd == Spec => []TornOnlyBeforeEnd
<1>1. FramingInv => TornOnlyBeforeEnd
  BY DEF FramingInv
<1>2. QED
  BY <1>1, FramingInvariant, PTL
-----------------------------------------------------------------------------
(* What the headers of this connection say *)

LEMMA SmallNumbers ==
    /\ \A v \in Nat : v <= 57289760 => v \in U32
    /\ \A v \in 0..(MaxChunks + 1) : v \in U32
    /\ 0 \in U64 /\ 300000000 \in U64
<1>1. ASSUME NEW v \in Nat, v <= 57289760 PROVE v \in U32
  <2>1. v < Byte * (Byte * (Byte * Byte))
    BY <1>1, FourthPower
  <2>2. QED
    BY <2>1, Below32
<1>2. ASSUME NEW v \in 0..(MaxChunks + 1) PROVE v \in U32
  <2>1. MaxChunks \in Nat /\ MaxChunks + 1 < Byte * (Byte * (Byte * Byte))
    BY TransportAssumption
  <2>2. v \in Nat /\ v < Byte * (Byte * (Byte * Byte))
    BY <2>1, FourthPower
  <2>3. QED
    BY <2>2, Below32
<1>3. 0 \in U64
  BY <1>1, ZeroShifts DEF U64
<1>4. 300000000 \in U64
  <2>1. Shr(300000000) \in Nat /\ Shr(300000000) < 3448276
    <3>1. 87 * 3448276 <= Byte * 3448276
      BY ByteIsNat
    <3>2. 300000000 < Byte * 3448276
      BY <3>1, ByteIsNat
    <3>3. QED
      BY <3>2, ShiftBound
  <2>2. ASSUME NEW v \in Nat, v < 3448276 PROVE Shr(v) \in Nat /\ Shr(v) < 3448276
    <3>1. 3448276 <= Byte * 3448276
      BY ByteIsNat
    <3>2. v < Byte * 3448276
      BY <2>2, <3>1, ByteIsNat
    <3>3. QED
      BY <3>2, ShiftBound
  <2>3. Shr(Shr(300000000)) \in Nat /\ Shr(Shr(300000000)) < 3448276
    BY <2>1, <2>2
  <2>4. Shr(Shr(Shr(300000000))) \in Nat /\ Shr(Shr(Shr(300000000))) < 3448276
    BY <2>2, <2>3
  <2>5. /\ Shr(Shr(Shr(Shr(300000000)))) \in Nat
        /\ Shr(Shr(Shr(Shr(300000000)))) < 3448276
    BY <2>2, <2>4
  <2>6. Shr(Shr(Shr(Shr(300000000)))) \in U32
    BY <1>1, <2>5
  <2>7. QED
    BY <2>6 DEF U64
<1>5. QED
  BY <1>1, <1>2, <1>3, <1>4

LEMMA Identifier == SessionId \in [1..16 -> Bytes]
  BY ByteIsNat DEF SessionId, Bytes

\* What SendMessage sends is a header that protocol.py takes.
LEMMA MessageHeaders ==
    ASSUME NEW type \in Types, NEW seq \in 0..(MaxChunks + 1), NEW size \in Nat,
           kHeaderSize + size <= MaxFrame
    PROVE  MessageHeader(type, seq, size) \in Headers /\ WellFormed(MessageHeader(type, seq, size))
<1>1. type \in DOMAIN TypeCode
  BY TypeCodes DEF Types
<1>2. seq \in U32 /\ 16000 \in U32 /\ 0 \in U64
  BY SmallNumbers
<1>3. MaxFrame \in 0..65536
  BY TransportAssumption
<1>4. size <= MaxPayloadBytes /\ size <= 57289760
  BY <1>3 DEF MaxPayloadBytes, kHeaderSize
<1>5. size \in U32
  BY <1>4, SmallNumbers
<1>6. 1 \in Bytes
  BY ByteIsNat DEF Bytes
<1> DEFINE h == MessageHeader(type, seq, size)
<1>7. h = [type |-> type, session |-> SessionId, seq |-> seq, timestamp |-> 0,
           length |-> size, rate |-> 16000, channels |-> 1]
  BY DEF MessageHeader, Header
<1>8. h \in Headers
  BY <1>1, <1>2, <1>5, <1>6, <1>7, Identifier DEF Headers
<1>9. h.rate > 0 /\ h.channels > 0 /\ h.length <= MaxPayloadBytes
  BY <1>4, <1>7
<1>10. QED
  BY <1>8, <1>9 DEF WellFormed

\* What the server answers with is a header, and none that was rejected.
LEMMA AnswerHeaders ==
    ASSUME NEW type \in {"ERROR", "RESULT"}, NEW size \in AnswerSizes \cup {0}
    PROVE  /\ AnswerHeader(type, size) \in Headers
           /\ AnswerHeader(type, size).type = type /\ AnswerHeader(type, size).length = size
           /\ AnswerHeader(type, size) # Rejected
           /\ DecodeHeader(EncodeMessage(AnswerHeader(type, size))) = AnswerHeader(type, size)
<1>1. type \in DOMAIN TypeCode
  BY TypeCodes
<1>2. 0 \in U32 /\ 16000 \in U32 /\ 300000000 \in U64
  BY SmallNumbers
<1>3. size \in 0..MaxPayloadBytes
  <2>1. \A s \in AnswerSizes : s \in 0..MaxPayloadBytes
    BY TransportAssumption
  <2>2. 0 \in 0..MaxPayloadBytes
    BY DEF MaxPayloadBytes, kHeaderSize
  <2>3. QED
    BY <2>1, <2>2
<1>4. size \in U32
  <2>1. size \in Nat /\ size <= 57289760
    BY <1>3 DEF MaxPayloadBytes, kHeaderSize
  <2>2. QED
    BY <2>1, SmallNumbers
<1>5. 1 \in Bytes
  BY ByteIsNat DEF Bytes
<1> DEFINE h == AnswerHeader(type, size)
<1>6. h = [type |-> type, session |-> SessionId, seq |-> 0, timestamp |-> 300000000,
           length |-> size, rate |-> 16000, channels |-> 1]
  BY DEF AnswerHeader, Header
<1>7. h \in Headers /\ h.type = type /\ h.length = size
  BY <1>1, <1>2, <1>4, <1>5, <1>6, Identifier DEF Headers
<1>8. h # Rejected
  <2>1. Rejected.type = "rejected"
    BY DEF Rejected
  <2>2. QED
    BY <1>7, <2>1
<1> HIDE DEF h
<1>9. DecodeHeader(EncodeMessage(h)) = h
  BY <1>7, CodecsAgree
<1>10. QED
  BY <1>7, <1>8, <1>9 DEF h

\* Neither another protocol nor another version is taken for an answer.
LEMMA ForeignRejected == \A bytes \in ForeignStarts : DecodeHeader(bytes) = Rejected
<1> DEFINE sent == EncodeMessage(NoAnswer)
<1>1. NoAnswer \in Headers
  BY AnswerHeaders DEF NoAnswer
<1>2. sent \in Seq(Bytes) /\ Len(sent) = 44
  BY <1>1, CodecsAgree, Encoded DEF HeaderBytes, kHeaderSize
<1>3. ASSUME NEW bytes, bytes = [sent EXCEPT ![1] = 72]
      PROVE  DecodeHeader(bytes) = Rejected
  <2> HIDE DEF sent
  <2>1. bytes \in Seq(Bytes) /\ Len(bytes) = 44 /\ bytes[1] = 72
    <3>1. 72 \in Bytes
      BY ByteIsNat DEF Bytes
    <3>2. QED
      BY <1>2, <1>3, <3>1
  <2>2. \A i \in 1..4 : bytes[i] \in Bytes
    <3>1. bytes \in [1..Len(bytes) -> Bytes]
      BY <2>1, LenProperties
    <3>2. bytes \in [1..44 -> Bytes]
      BY <2>1, <3>1
    <3>3. QED
      BY <3>2
  <2>3. \A i \in 1..(4 - 1 + 1) : SubSeq(bytes, 1, 4)[i] = bytes[1 + i - 1]
    BY <2>2, SubSeqProperties
  <2>4. SubSeq(bytes, 1, 4)[1] = 72
    BY <2>1, <2>3
  <2>5. SubSeq(bytes, 1, 4) # kProtocolMagic
    BY <2>4, Magic
  <2>6. QED
    BY <2>5 DEF DecodeHeader
<1>4. ASSUME NEW bytes, bytes = [sent EXCEPT ![5] = kProtocolVersion + 1]
      PROVE  DecodeHeader(bytes) = Rejected
  <2> HIDE DEF sent
  <2>1. bytes[5] = 2
    BY <1>2, <1>4 DEF kProtocolVersion
  <2>2. QED
    BY <2>1 DEF DecodeHeader, kProtocolVersion
<1>5. QED
  BY <1>3, <1>4 DEF ForeignStarts
-----------------------------------------------------------------------------
(* What was sent and what was answered *)

\* Every send is of a header, which has bytes, or of the payload it declares.
PartsMoved == \A i \in 1..Len(parts) : parts[i].moved \in 1..parts[i].asked

\* The message is one that SendMessage built, and a header is on its way only
\* when frame and payload are within the limit.
MessageInv == /\ message = MessageHeader(message.type, message.seq, message.length)
              /\ message.type \in Types
              /\ message.seq \in 0..(MaxChunks + 1)
              /\ message.length \in ChunkSizes \cup {0}
              /\ chunks \in 0..(MaxChunks + 1)
              /\ place = "header" => kHeaderSize + message.length <= MaxFrame
              /\ PartsMoved

\* Nothing was answered before the answer is waited for; what is decoded is
\* what the server sent; a call ends Ok only behind a transcript.
AnswerInv == /\ reply = Rejected \/ \E r \in Replies : reply = AnswerHeader(r.type, r.length)
             /\ place \in Places \ {"idle", "text", "hangup"} => reply = Rejected
             /\ place = "text" => reply # Rejected
             /\ answer.length \in AnswerSizes \cup {0}
             /\ status \in Statuses
             /\ text.written \in 0..(TextCapacity - 1) /\ text.end \in 0..(TextCapacity - 1)
             /\ AnswerUnderstood

\* SendMessage, for any message: the frame is within the limit, or the header
\* is not sent.
LEMMA BeginMessage ==
    ASSUME MessageInv, NEW type \in Types, NEW seq \in 0..(MaxChunks + 1),
           NEW size \in ChunkSizes \cup {0}, Begin(type, seq, size),
           chunks' \in 0..(MaxChunks + 1)
    PROVE  MessageInv'
<1>1. /\ message' = MessageHeader(type, seq, size) /\ UNCHANGED parts
      /\ message'.type = type /\ message'.length = size /\ message'.seq = seq
  BY DEF Begin, MessageHeader, Header
<1>2. place' = "header" => kHeaderSize + size <= MaxFrame
  <2>1. \/ kHeaderSize + size <= MaxFrame
        \/ AfterSend(type, IF connected THEN "ProtocolError" ELSE "SendFailed")
    BY DEF Begin
  <2>2. CASE AfterSend(type, IF connected THEN "ProtocolError" ELSE "SendFailed")
    BY <2>2 DEF AfterSend, Types
  <2>3. QED
    BY <2>1, <2>2
<1>3. PartsMoved'
  BY <1>1 DEF MessageInv, PartsMoved
<1>4. QED
  BY <1>1, <1>2, <1>3 DEF MessageInv

\* A send moves something, and no more than it was asked to.
LEMMA SentMoved ==
    ASSUME FramingInv, PartsMoved, NEW type, NEW declared, NEW n \in Nat \ {0},
           Sent(type, declared, n)
    PROVE  PartsMoved'
<1>1. PICK k \in Moved(n) :
        parts' = Append(parts, [type |-> type, declared |-> declared, asked |-> n, moved |-> k])
  BY DEF Sent
<1> DEFINE p == [type |-> type, declared |-> declared, asked |-> n, moved |-> k]
<1>2. k \in 1..n
  BY <1>1 DEF Moved
<1>3. p.moved \in 1..p.asked
  BY <1>2
<1>4. parts \in Seq(Parts)
  BY DEF FramingInv, WireOK
<1>5. parts' = Append(parts, p)
  BY <1>1
<1> HIDE DEF p
<1>6. /\ Len(parts) \in Nat /\ Len(parts') = Len(parts) + 1
      /\ \A i \in 1..Len(parts) : parts'[i] = parts[i]
      /\ parts'[Len(parts) + 1] = p
  BY <1>4, <1>5
<1>7. QED
  BY <1>3, <1>6 DEF PartsMoved

LEMMA MessageStep == FramingInv /\ MessageInv /\ [Next]_vars => MessageInv'
<1> SUFFICES ASSUME FramingInv, MessageInv, [Next]_vars PROVE MessageInv'
  OBVIOUS
<1>0. MaxChunks \in Nat
  BY TransportAssumption
<1>1. CASE TakeRequest
  <2>1. parts' = <<>> /\ chunks' = 0 /\ UNCHANGED message /\ place' = "connect"
    BY <1>1 DEF TakeRequest
  <2>2. PartsMoved'
    BY <2>1 DEF PartsMoved
  <2>3. QED
    BY <1>0, <2>1, <2>2 DEF MessageInv
<1>2. CASE \/ Connect \/ StopStreaming \/ ReceiveHeader \/ ReceiveText \/ Disconnect
  <2>1. UNCHANGED <<message, parts, chunks>> /\ place' # "header"
    BY <1>2 DEF Connect, StopStreaming, ReceiveHeader, Decoded, ReceiveText, Disconnect
  <2>2. QED
    BY <2>1 DEF MessageInv, PartsMoved
<1>3. CASE SendStart
  BY <1>0, <1>3, BeginMessage DEF SendStart, MessageInv, Types
<1>4. CASE SendChunk
  <2>1. PICK size \in ChunkSizes : Begin("CHUNK", chunks, size)
    BY <1>4 DEF SendChunk
  <2>2. chunks \in 0..(MaxChunks + 1) /\ chunks' \in 0..(MaxChunks + 1)
    BY <1>0, <1>4 DEF SendChunk, MessageInv
  <2>3. QED
    BY <2>1, <2>2, BeginMessage DEF Types
<1>5. CASE SkipPreRoll
  <2>1. UNCHANGED <<message, parts>> /\ chunks' = 1 /\ place' # "header"
    BY <1>5 DEF SkipPreRoll
  <2>2. QED
    BY <1>0, <2>1 DEF MessageInv, PartsMoved
<1>6. CASE SendEnd
  BY <1>0, <1>6, BeginMessage DEF SendEnd, MessageInv, Types
<1>7. CASE SendHeader
  <2>1. UNCHANGED <<message, chunks>> /\ place' # "header"
    BY <1>7 DEF SendHeader, AfterHeader, AfterSend
  <2>2. PartsMoved'
    <3>1. CASE UNCHANGED parts
      BY <3>1 DEF MessageInv, PartsMoved
    <3>2. CASE Sent(message.type, message.length, kHeaderSize)
      <4>1. kHeaderSize \in Nat \ {0}
        BY DEF kHeaderSize
      <4>2. QED
        BY <3>2, <4>1, SentMoved DEF MessageInv
    <3>3. QED
      BY <1>7, <3>1, <3>2 DEF SendHeader
  <2>3. QED
    BY <2>1, <2>2 DEF MessageInv
<1>8. CASE SendPayload
  <2>1. UNCHANGED <<message, chunks>> /\ place' # "header"
    BY <1>8 DEF SendPayload, AfterSend
  <2>2. message.length \in Nat \ {0}
    BY <1>8 DEF SendPayload, FramingInv, WireOK, BoundaryInv
  <2>3. PartsMoved'
    <3>1. CASE UNCHANGED parts
      BY <3>1 DEF MessageInv, PartsMoved
    <3>2. CASE Sent("payload", 0, message.length)
      BY <2>2, <3>2, SentMoved DEF MessageInv
    <3>3. QED
      BY <1>8, <3>1, <3>2 DEF SendPayload
  <2>4. QED
    BY <2>1, <2>3 DEF MessageInv
<1>9. CASE UNCHANGED vars
  BY <1>9 DEF vars, MessageInv, PartsMoved
<1>10. QED
  BY <1>1, <1>2, <1>3, <1>4, <1>5, <1>6, <1>7, <1>8, <1>9 DEF Next

LEMMA MessageInvariant == Spec => []MessageInv
<1>1. Init => MessageInv
  <2> SUFFICES ASSUME Init PROVE MessageInv
    OBVIOUS
  <2>1. message = MessageHeader("START", 0, 0) /\ chunks = 0 /\ parts = <<>> /\ place = "idle"
    BY DEF Init, NoMessage
  <2>2. MaxChunks \in Nat
    BY TransportAssumption
  <2>3. PartsMoved
    BY <2>1 DEF PartsMoved
  <2>4. message.type = "START" /\ message.seq = 0 /\ message.length = 0
    BY <2>1 DEF MessageHeader, Header
  <2>5. QED
    BY <2>1, <2>2, <2>3, <2>4 DEF MessageInv, Types
<1>2. QED
  BY <1>1, FramingInvariant, MessageStep, PTL DEF Spec

\* The server reads every header the firmware sends, for every chunk that fits
\* a frame and every number of chunks (SendMessage, decode_header).
THEOREM ServerUnderstands == Spec => []ServerReadsHeader
<1>1. MessageInv => ServerReadsHeader
  <2> SUFFICES ASSUME MessageInv, place = "header"
               PROVE  PyDecodeHeader(EncodeHeader(message)) = message
    BY DEF ServerReadsHeader
  <2>1. ChunkSizes \subseteq Nat
    BY TransportAssumption
  <2>2. message \in Headers /\ WellFormed(message)
    BY <2>1, MessageHeaders DEF MessageInv
  <2>3. QED
    BY <2>2, CodecsAgree
<1>2. QED
  BY <1>1, MessageInvariant, PTL

\* A step of the connection or of a message leaves the answer alone; where it
\* ends the session, it does not report Ok.
LEMMA AnswerUntouched ==
    ASSUME AnswerInv, UNCHANGED <<reply, answer, text>>, reply = Rejected,
           status' \in Statuses, place' \in Places \ {"text"},
           place' = "hangup" => status' # "Ok"
    PROVE  AnswerInv'
<1>1. AnswerUnderstood'
  BY DEF AnswerUnderstood
<1>2. QED
  BY <1>1 DEF AnswerInv

LEMMA AfterSendEnds ==
    ASSUME NEW type \in Types, NEW result \in Statuses, AfterSend(type, result)
    PROVE  /\ status' \in Statuses /\ place' \in Places \ {"text"}
           /\ place' = "hangup" => status' # "Ok"
<1>1. CASE type = "END"
  BY <1>1 DEF AfterSend, Places
<1>2. CASE type = "START"
  BY <1>2 DEF AfterSend, Places
<1>3. CASE type = "CHUNK"
  <2>1. /\ status' = result
        /\ place' = IF result = "Ok" THEN "live" ELSE IF chunks' = 1 THEN "hangup" ELSE "end"
    BY <1>3 DEF AfterSend
  <2>2. QED
    BY <2>1 DEF Places
<1>4. QED
  BY <1>1, <1>2, <1>3 DEF Types

LEMMA BeginAnswer ==
    ASSUME AnswerInv, reply = Rejected, NEW type \in Types, NEW seq, NEW size,
           Begin(type, seq, size)
    PROVE  AnswerInv'
<1>1. UNCHANGED <<reply, answer, text>>
  BY DEF Begin, answerVars
<1>2. CASE place' = "header" /\ UNCHANGED status
  BY <1>1, <1>2, AnswerUntouched DEF AnswerInv, Places
<1>3. CASE AfterSend(type, IF connected THEN "ProtocolError" ELSE "SendFailed")
  <2>1. (IF connected THEN "ProtocolError" ELSE "SendFailed") \in Statuses
    BY DEF Statuses
  <2>2. /\ status' \in Statuses /\ place' \in Places \ {"text"}
        /\ place' = "hangup" => status' # "Ok"
    BY <1>3, <2>1, AfterSendEnds
  <2>3. QED
    BY <1>1, <2>2, AnswerUntouched
<1>4. QED
  BY <1>2, <1>3 DEF Begin

\* Decoding what the server sent, and what something else did.
LEMMA ReceiveHeaderAnswer == FramingInv /\ AnswerInv /\ ReceiveHeader => AnswerInv'
<1> SUFFICES ASSUME FramingInv, AnswerInv, ReceiveHeader PROVE AnswerInv'
  OBVIOUS
<1>1. UNCHANGED text /\ place = "result" /\ reply = Rejected
  BY DEF ReceiveHeader, AnswerInv, Places
<1>2. CASE status' = "Timeout" /\ place' = "hangup" /\ UNCHANGED answerVars
  BY <1>1, <1>2, AnswerUntouched DEF answerVars, Statuses, Places
<1>3. CASE \E r \in Replies : reply' = AnswerHeader(r.type, r.length)
                              /\ Decoded(EncodeMessage(reply'))
  <2>1. PICK r \in Replies : /\ reply' = AnswerHeader(r.type, r.length)
                             /\ Decoded(EncodeMessage(reply'))
    BY <1>3
  <2>2. r.type \in {"ERROR", "RESULT"} /\ r.length \in AnswerSizes
    BY DEF Replies
  <2>3. /\ reply' # Rejected /\ reply'.length = r.length
        /\ DecodeHeader(EncodeMessage(reply')) = reply'
    BY <2>1, <2>2, AnswerHeaders
  <2>4. answer' = reply' /\ place' = "text" /\ UNCHANGED status
    BY <2>1, <2>3 DEF Decoded
  <2>5. AnswerUnderstood'
    BY <2>4 DEF AnswerUnderstood
  <2>6. QED
    BY <1>1, <2>1, <2>2, <2>3, <2>4, <2>5 DEF AnswerInv
<1>4. CASE \E bytes \in ForeignStarts : Decoded(bytes) /\ UNCHANGED reply
  <2>1. PICK bytes \in ForeignStarts : Decoded(bytes) /\ UNCHANGED reply
    BY <1>4
  <2>2. DecodeHeader(bytes) = Rejected
    BY ForeignRejected
  <2>3. status' = "ProtocolError" /\ place' = "hangup" /\ UNCHANGED answer
    BY <2>1, <2>2 DEF Decoded
  <2>4. QED
    BY <1>1, <2>1, <2>3, AnswerUntouched DEF Statuses, Places
<1>5. QED
  BY <1>2, <1>3, <1>4 DEF ReceiveHeader

\* The transcript never takes the last byte of its buffer, which is left for
\* the terminator.
LEMMA TextFits == AnswerInv => Asked \in 0..(TextCapacity - 1)
<1> SUFFICES ASSUME AnswerInv PROVE Asked \in 0..(TextCapacity - 1)
  OBVIOUS
<1>1. TextCapacity \in Nat \ {0} /\ \A size \in AnswerSizes : size \in Nat
  BY TransportAssumption
<1>2. answer.length \in Nat
  <2>1. answer.length \in AnswerSizes \cup {0}
    BY DEF AnswerInv
  <2>2. QED
    BY <1>1, <2>1
<1>3. QED
  BY <1>1, <1>2 DEF Asked, Fewer

LEMMA ReceiveTextAnswer == AnswerInv /\ ReceiveText => AnswerInv'
<1> SUFFICES ASSUME AnswerInv, ReceiveText PROVE AnswerInv'
  OBVIOUS
<1>1. /\ place = "text" /\ place' = "hangup" /\ UNCHANGED <<reply, answer>>
      /\ answer = reply /\ reply # Rejected
  BY DEF ReceiveText, answerVars, AnswerInv, AnswerUnderstood
<1>2. reply.type \in {"ERROR", "RESULT"}
  BY <1>1, AnswerHeaders DEF AnswerInv, Replies
<1>3. CASE status' = "Timeout" /\ UNCHANGED text
  <2>1. AnswerUnderstood'
    BY <1>1, <1>3 DEF AnswerUnderstood
  <2>2. QED
    BY <1>1, <1>3, <2>1 DEF AnswerInv, Statuses
<1>4. CASE \E k \in 0..Asked : /\ text' = [written |-> k, end |-> k]
                               /\ status' = IF answer.type = "ERROR" THEN "ProtocolError" ELSE "Ok"
  <2>1. PICK k \in 0..Asked : text' = [written |-> k, end |-> k]
    BY <1>4
  <2>2. text'.written \in 0..(TextCapacity - 1) /\ text'.end \in 0..(TextCapacity - 1)
    <3>1. TextCapacity \in Nat /\ Asked \in 0..(TextCapacity - 1)
      BY TextFits, TransportAssumption
    <3>2. k \in 0..(TextCapacity - 1)
      BY <3>1
    <3>3. QED
      BY <2>1, <3>2
  <2>3. status' = IF reply.type = "ERROR" THEN "ProtocolError" ELSE "Ok"
    BY <1>1, <1>4
  <2>4. AnswerUnderstood'
    BY <1>1, <1>2, <2>3 DEF AnswerUnderstood
  <2>5. QED
    BY <1>1, <2>2, <2>3, <2>4 DEF AnswerInv, Statuses
<1>5. QED
  BY <1>3, <1>4 DEF ReceiveText

LEMMA AnswerStep == FramingInv /\ SocketInv /\ AnswerInv /\ [Next]_vars => AnswerInv'
<1> SUFFICES ASSUME FramingInv, SocketInv, AnswerInv, [Next]_vars PROVE AnswerInv'
  OBVIOUS
<1>1. CASE TakeRequest
  <2>1. /\ place' = "connect" /\ text' = NoText /\ reply' = Rejected /\ UNCHANGED <<answer, status>>
    BY <1>1 DEF TakeRequest
  <2>2. TextCapacity \in Nat \ {0}
    BY TransportAssumption
  <2>3. AnswerUnderstood'
    BY <2>1 DEF AnswerUnderstood
  <2>4. QED
    BY <2>1, <2>2, <2>3 DEF AnswerInv, NoText
<1>2. CASE Connect
  <2>1. place = "connect" /\ UNCHANGED <<reply, answer, text>>
        /\ status' \in Statuses /\ place' \in {"start", "idle"}
    BY <1>2 DEF Connect, answerVars, Statuses
  <2>2. QED
    BY <2>1, AnswerUntouched DEF AnswerInv, Places
<1>3. CASE SendStart
  BY <1>3, BeginAnswer DEF SendStart, AnswerInv, Places, Types
<1>4. CASE SendChunk
  <2>1. reply = Rejected
    BY <1>4 DEF SendChunk, AnswerInv, Places
  <2>2. QED
    BY <1>4, <2>1, BeginAnswer DEF SendChunk, Types
<1>5. CASE SkipPreRoll \/ StopStreaming
  <2>1. place \in {"preroll", "live"} /\ UNCHANGED <<reply, answer, text, status>>
        /\ place' \in {"live", "end"}
    BY <1>5 DEF SkipPreRoll, StopStreaming, answerVars
  <2>2. QED
    BY <2>1, AnswerUntouched DEF AnswerInv, Places
<1>6. CASE SendEnd
  BY <1>6, BeginAnswer DEF SendEnd, AnswerInv, Places, Types
<1>7. CASE SendHeader \/ SendPayload
  <2>1. /\ place \in {"header", "payload"} /\ UNCHANGED <<reply, answer, text>>
        /\ message.type \in Types
    BY <1>7 DEF SendHeader, SendPayload, answerVars, FramingInv, WireOK
  <2>2. reply = Rejected
    BY <2>1 DEF AnswerInv, Places
  <2>3. CASE place' = "payload" /\ UNCHANGED status
    BY <2>1, <2>2, <2>3, AnswerUntouched DEF AnswerInv, Places
  <2>4. CASE AfterSend(message.type, "Ok") \/ AfterSend(message.type, "SendFailed")
    <3>1. "Ok" \in Statuses /\ "SendFailed" \in Statuses
      BY DEF Statuses
    <3>2. QED
      BY <2>1, <2>2, <2>4, <3>1, AfterSendEnds, AnswerUntouched
  <2>5. QED
    BY <1>7, <2>3, <2>4 DEF SendHeader, SendPayload, AfterHeader
<1>8. CASE ReceiveHeader
  BY <1>8, ReceiveHeaderAnswer
<1>9. CASE ReceiveText
  BY <1>9, ReceiveTextAnswer
<1>10. CASE Disconnect
  <2>1. place' = "idle" /\ UNCHANGED <<reply, answer, text, status>>
    BY <1>10 DEF Disconnect, answerVars
  <2>2. AnswerUnderstood'
    BY <2>1 DEF AnswerUnderstood
  <2>3. QED
    BY <2>1, <2>2 DEF AnswerInv
<1>11. CASE UNCHANGED vars
  <2>1. UNCHANGED <<place, connected, reply, answer, text, status>>
    BY <1>11 DEF vars, answerVars, socketVars
  <2>2. AnswerUnderstood'
    BY <2>1 DEF AnswerInv, AnswerUnderstood
  <2>3. QED
    BY <2>1, <2>2 DEF AnswerInv
<1>12. QED
  BY <1>1, <1>2, <1>3, <1>4, <1>5, <1>6, <1>7, <1>8, <1>9, <1>10, <1>11 DEF Next

LEMMA AnswerInvariant == Spec => []AnswerInv
<1>1. Init => AnswerInv
  <2> SUFFICES ASSUME Init PROVE AnswerInv
    OBVIOUS
  <2>1. /\ place = "idle" /\ reply = Rejected /\ answer = NoAnswer
        /\ status = "Ok" /\ text = NoText
    BY DEF Init
  <2>2. answer.length = 0
    BY <2>1, AnswerHeaders DEF NoAnswer
  <2>3. TextCapacity \in Nat \ {0}
    BY TransportAssumption
  <2>4. AnswerUnderstood
    BY <2>1 DEF AnswerUnderstood
  <2>5. QED
    BY <2>1, <2>2, <2>3, <2>4 DEF AnswerInv, Statuses, NoText
<1>2. QED
  BY <1>1, FramingInvariant, SocketInvariant, AnswerStep, PTL DEF Spec

\* Ok means the header of a transcript, and a protocol error an answer of the
\* kind or something foreign, for answers of every size (ReceiveResult).
THEOREM AnswersUnderstood == Spec => []AnswerUnderstood
<1>1. AnswerInv => AnswerUnderstood
  BY DEF AnswerInv
<1>2. QED
  BY <1>1, AnswerInvariant, PTL

\* Types, the text within its buffer and sends that move no more than asked.
THEOREM TransportTypes == Spec => []TypeOK
<1>1. FramingInv /\ SocketInv /\ MessageInv /\ AnswerInv => TypeOK
  <2> SUFFICES ASSUME FramingInv, SocketInv, MessageInv, AnswerInv PROVE TypeOK
    OBVIOUS
  <2>1. reply = Rejected \/ reply.type \in {"ERROR", "RESULT"}
    BY AnswerHeaders DEF AnswerInv, Replies
  <2>2. TextCapacity \in Nat
    BY TransportAssumption
  <2>3. text.written \in 0..TextCapacity /\ text.end \in 0..(TextCapacity - 1)
    BY <2>2 DEF AnswerInv
  <2>4. QED
    BY <2>1, <2>3 DEF TypeOK, FramingInv, WireOK, SocketInv, MessageInv, PartsMoved, AnswerInv
<1>2. QED
  BY <1>1, FramingInvariant, SocketInvariant, MessageInvariant, AnswerInvariant, PTL
=============================================================================
