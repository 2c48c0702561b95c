----------------------------- MODULE EscArchive -----------------------------
(***************************************************************************)
(* The .esc container of src/esp_compressor/format, as the sequence of the *)
(* records that runCompress writes and runDecompress reads: one header,    *)
(* then block headers, each followed by its payload unless it stores       *)
(* nothing.  A byte is a value, a CRC32 is the bytes it was computed from  *)
(* (no two inputs of a run are taken to collide), and a payload is what it *)
(* decodes to and how many bytes it takes in the container.                *)
(***************************************************************************)
EXTENDS Naturals, Sequences

(* check: what decodeEscHeader and the version and algorithm tests say.    *)
HeaderItem(check, known, size, blockSize) ==
  [type |-> "header", check |-> check, known |-> known, size |-> size, blockSize |-> blockSize]

BlockItem(final, raw, original, stored, crc) ==
  [type |-> "block", final |-> final, raw |-> raw, original |-> original,
   stored |-> stored, crc |-> crc]

DataItem(bytes, size) == [type |-> "data", bytes |-> bytes, size |-> size]

(* What such records may be. *)
Checks      == {"Ok", "CorruptData", "UnsupportedVersion", "UnsupportedAlgorithm"}
HeaderItems == [type : {"header"}, check : Checks, known : BOOLEAN, size : Nat, blockSize : Nat]
BlockItems  == [type : {"block"}, final : BOOLEAN, raw : BOOLEAN, original : Nat, stored : Nat,
                crc : Seq(Nat)]
DataItems   == [type : {"data"}, bytes : Seq(Nat), size : Nat]
Records     == HeaderItems \cup BlockItems \cup DataItems

(* validateEscBlockBounds *)
InBounds(h, b) ==
  /\ b.original = 0 => b.final
  /\ b.original <= h.blockSize
  /\ b.stored <= b.original
  /\ b.raw => b.stored = b.original

(* The payload gives the original block: decompressLzLiteBlock succeeds    *)
(* and the CRC is right.                                                   *)
Intact(b, bytes) == Len(bytes) = b.original /\ bytes = b.crc

-----------------------------------------------------------------------------
(* The block at item i: what it decodes to, where the next one is, and     *)
(* whether all of it is there and agrees.                                  *)
BlockOutput(a, i) == IF a[i].stored = 0 THEN <<>> ELSE a[i + 1].bytes
NextBlock(a, i)   == i + IF a[i].stored = 0 THEN 1 ELSE 2

WholeBlock(a, i) ==
  /\ i <= Len(a)
  /\ InBounds(a[1], a[i])
  /\ NextBlock(a, i) <= Len(a) + 1
  /\ Intact(a[i], BlockOutput(a, i))

(* What an archive means, said without the decoder's loop: Meaning(a)[i]   *)
(* is the error and the output of the blocks from item i on.               *)
Corrupt == [error |-> "CorruptData", output |-> <<>>]

Meaning(a) ==
  LET tail[i \in 2 .. Len(a) + 1] ==
        IF ~WholeBlock(a, i) THEN Corrupt
        ELSE IF a[i].final THEN [error |-> "Ok", output |-> BlockOutput(a, i)]
        ELSE [error  |-> tail[NextBlock(a, i)].error,
              output |-> BlockOutput(a, i) \o tail[NextBlock(a, i)].output]
  IN tail

Decode(a) ==
  IF a = <<>> THEN Corrupt
  ELSE IF a[1].check # "Ok" THEN [error |-> a[1].check, output |-> <<>>]
  ELSE IF a[1].blockSize = 0 THEN Corrupt
  ELSE LET blocks == Meaning(a)[2]
       IN IF a[1].known /\ blocks.error = "Ok" /\ Len(blocks.output) # a[1].size
            THEN Corrupt ELSE blocks

(* Nothing follows the final block. *)
FinalIsLast(a) ==
  \A i, j \in 1 .. Len(a) :
    i < j /\ a[i].type = "block" /\ a[j].type = "block" => ~a[i].final
=============================================================================
