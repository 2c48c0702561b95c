----------------------------- MODULE EscFormat ------------------------------
(***************************************************************************)
(* The bytes of .esc headers: src/esp_compressor/format/esc_format.cpp.    *)
(* A number is the sequence of its bits, lowest first, as wide as it is in *)
(* the code, and a byte is ByteBits of them: nothing is rounded, and a     *)
(* uint64_t needs no arithmetic.                                           *)
(***************************************************************************)
EXTENDS Naturals, Sequences

ByteBits == 8

Words(width) == [1 .. width -> {0, 1}]

(* n, n \div 2, n \div 4, ... *)
Halves(n, width) ==
  LET half[i \in 0 .. width] == IF i = 0 THEN n ELSE half[i - 1] \div 2
  IN half

Bits(n, width) == [i \in 1 .. width |-> Halves(n, width)[i - 1] % 2]
Fits(n, width) == Halves(n, width)[width] = 0
Byte(n)        == Bits(n, ByteBits)

kEscEncodedHeaderSize      == 24
kEscEncodedBlockHeaderSize == 13

Magic == <<Byte(69), Byte(83), Byte(67), Byte(49)>>  \* 'E', 'S', 'C', '1'

(* 0xEDB88320 *)
Polynomial == <<0,0,0,0, 0,1,0,0, 1,1,0,0, 0,0,0,1, 0,0,0,1, 1,1,0,1, 1,0,1,1, 0,1,1,1>>

Xor(a, b) == [i \in DOMAIN a |-> IF i \in DOMAIN b THEN (a[i] + b[i]) % 2 ELSE a[i]]

(* writeLe32, writeLe64: the lowest byte first.  readLe32, readLe64. *)
WriteLeBigEndian(word) ==   \* a bug the checks must notice: the highest first
  LET n == Len(word) \div ByteBits
  IN [k \in 1 .. n |-> SubSeq(word, (n - k) * ByteBits + 1, (n - k + 1) * ByteBits)]

WriteLe(word) ==
  [k \in 1 .. Len(word) \div ByteBits |-> SubSeq(word, (k - 1) * ByteBits + 1, k * ByteBits)]
ReadLe(bytes) ==
  [i \in 1 .. Len(bytes) * ByteBits |-> bytes[(i - 1) \div ByteBits + 1][((i - 1) % ByteBits) + 1]]

(* One turn of the inner loop of espCompressorCrc32: a bit is shifted out. *)
ShiftOut(crc) ==
  LET shifted == Append(Tail(crc), 0)
  IN IF crc[1] = 1 THEN Xor(shifted, Polynomial) ELSE shifted

Turned(crc) ==
  LET turn[n \in 0 .. ByteBits] == IF n = 0 THEN crc ELSE ShiftOut(turn[n - 1])
  IN turn[ByteBits]

Ones == [i \in 1 .. 4 * ByteBits |-> 1]

(* The register, byte after byte. *)
Registers(bytes) ==
  LET turned == [crc \in Words(4 * ByteBits) |-> Turned(crc)]
      after[i \in 0 .. Len(bytes)] ==
        IF i = 0 THEN Ones ELSE turned[Xor(after[i - 1], bytes[i])]
  IN after

espCompressorCrc32(bytes) == Xor(Registers(bytes)[Len(bytes)], Ones)

(* The check value of CRC-32 in the literature, CBF43926 of "123456789".   *)
ASSUME CheckValue ==
  espCompressorCrc32([i \in 1 .. 9 |-> Byte(48 + i)]) =
    <<0,1,1,0, 0,1,0,0, 1,0,0,1, 1,1,0,0, 0,0,1,0, 1,1,1,1, 1,1,0,1, 0,0,1,1>>

-----------------------------------------------------------------------------
encodeEscHeader(h) ==
  LET bytes == Magic \o <<h.version, h.flags, h.algorithm, Byte(kEscEncodedHeaderSize)>>
                 \o WriteLe(h.originalSize) \o WriteLe(h.blockSize)
  IN bytes \o WriteLe(espCompressorCrc32(bytes))

Refused == [error |-> "CorruptData"]

AcceptsLowCrc(bytes) ==   \* a bug: the CRC is compared in a uint16_t
  /\ Len(bytes) >= kEscEncodedHeaderSize
  /\ SubSeq(bytes, 1, 4) = Magic
  /\ bytes[8] = Byte(kEscEncodedHeaderSize)
  /\ SubSeq(espCompressorCrc32(SubSeq(bytes, 1, 20)), 1, 2 * ByteBits) = ReadLe(SubSeq(bytes, 21, 22))

Accepts(bytes) ==
  /\ Len(bytes) >= kEscEncodedHeaderSize
  /\ SubSeq(bytes, 1, 4) = Magic
  /\ bytes[8] = Byte(kEscEncodedHeaderSize)
  /\ espCompressorCrc32(SubSeq(bytes, 1, 20)) = ReadLe(SubSeq(bytes, 21, 24))

decodeEscHeader(bytes) ==
  IF ~Accepts(bytes) THEN Refused
  ELSE [error        |-> "Ok",
        version      |-> bytes[5],
        flags        |-> bytes[6],
        algorithm    |-> bytes[7],
        originalSize |-> ReadLe(SubSeq(bytes, 9, 16)),
        blockSize    |-> ReadLe(SubSeq(bytes, 17, 20))]

encodeEscBlockHeader(b) ==
  <<b.flags>> \o WriteLe(b.originalSize) \o WriteLe(b.storedSize) \o WriteLe(b.crc32)

decodeEscBlockHeader(bytes) ==
  IF Len(bytes) < kEscEncodedBlockHeaderSize THEN Refused
  ELSE [error        |-> "Ok",
        flags        |-> bytes[1],
        originalSize |-> ReadLe(SubSeq(bytes, 2, 5)),
        storedSize   |-> ReadLe(SubSeq(bytes, 6, 9)),
        crc32        |-> ReadLe(SubSeq(bytes, 10, 13))]
=============================================================================
