------------------------------ MODULE LzFormat ------------------------------
(***************************************************************************)
(* The block format of the LzLite codec (src/esp_compressor/codec): a      *)
(* block is sequences of some literals followed by one match, the last     *)
(* one without match.  A sequence starts with a token, two numbers below   *)
(* TokenBase (the two nibbles of a byte) for the two lengths; a length     *)
(* that does not fit saturates its half and goes on in bytes of its own.   *)
(* TokenBase is 16 in the code.  With a smaller one every form a length    *)
(* can take occurs in a short block.                                       *)
(***************************************************************************)
EXTENDS Naturals, Sequences

CONSTANT TokenBase

ASSUME TokenBaseAssumption == TokenBase \in Nat /\ TokenBase > 1

kMinMatch == 3

Nibble    == TokenBase - 1          \* 15
ByteBase  == TokenBase * TokenBase  \* 256
ByteMax   == ByteBase - 1           \* 255
MaxOffset == ByteBase * ByteBase - 1
Byte      == 0 .. ByteMax

(* appendLength: 255 as often as it goes into value, and what is left. *)
LengthBytes(value) ==
  [i \in 1 .. value \div ByteMax + 1 |-> IF i <= value \div ByteMax THEN ByteMax ELSE value % ByteMax]

InToken(length)   == IF length < Nibble THEN length ELSE Nibble
PastToken(length) == IF length < Nibble THEN <<>> ELSE LengthBytes(length - Nibble)

(* emitSequence; match 0 is hasMatch = false.  The offset is a uint16_t.   *)
EmitSequence(literals, offset, match) ==
  LET coded == IF match = 0 THEN 0 ELSE match - kMinMatch
  IN <<InToken(Len(literals)) * TokenBase + InToken(coded)>>
       \o PastToken(Len(literals)) \o literals
       \o IF match = 0 THEN <<>>
          ELSE <<offset % ByteBase, (offset \div ByteBase) % ByteBase>> \o PastToken(coded)
=============================================================================
