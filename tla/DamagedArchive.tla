--------------------------- MODULE DamagedArchive ---------------------------
(***************************************************************************)
(* runDecompress on an archive that runCompress wrote and that was damaged *)
(* once since: a field of a record, a payload, a tail that is missing, a   *)
(* block that was lost, repeated or exchanged with the next.  Which damage *)
(* does the container notice?  There is a checksum of the header, one of   *)
(* the output of each block, and the size of the whole, if it was known;   *)
(* none of the block headers.                                              *)
(* Headers are written and read as bytes (EscFormat); what their fields    *)
(* say to the run is then a record of EscArchive.                          *)
(***************************************************************************)
EXTENDS DecompressRun, EscFormat, SequencesExt

CONSTANTS
  InputSize,  \* bound: bytes that were compressed
  BlockSize,  \* config.blockSize
  Wrong,      \* a byte that is not of the input
  HeaderChanges  \* what is XORed onto neighbouring bytes of the header, never 0

Input == [i \in 1 .. InputSize |-> i]

ASSUME DamageAssumption ==
  /\ InputSize \in Nat \ {0} /\ Fits(InputSize, 64)
  /\ BlockSize \in Nat \ {0} /\ Fits(BlockSize, 32)
  /\ Wrong \in Nat \ (1 .. InputSize)
  /\ HeaderChanges \subseteq Seq(Words(ByteBits))
  /\ \A change \in HeaderChanges :
       Len(change) \in 1 .. 4 /\ \E bit \in 1 .. ByteBits : change[1][bit] = 1

-----------------------------------------------------------------------------
(* What runDecompress takes from header bytes.  No size the run compares   *)
(* with is larger than all of the input and a block, and sizes beyond that *)
(* are all alike.                                                          *)
Enough   == InputSize + BlockSize + 2
Least(n) == IF n < Enough THEN n ELSE Enough

Numbers(word) ==   \* of the highest bits, one more each time
  LET high[i \in 0 .. Len(word)] ==
        IF i = 0 THEN 0 ELSE Least(2 * high[i - 1] + word[Len(word) - i + 1])
  IN high

Number(word) == Numbers(word)[Len(word)]

Flag(byte, bit) == byte[bit] = 1

HeaderRead(bytes) ==
  LET h     == decodeEscHeader(bytes)
      known == ~Flag(h.flags, 1)
  IN IF h.error # "Ok" THEN HeaderItem(h.error, FALSE, 0, 0)
     ELSE HeaderItem(IF h.version # Byte(1) THEN "UnsupportedVersion"
                     ELSE IF h.algorithm # Byte(1) THEN "UnsupportedAlgorithm" ELSE "Ok",
                     known, IF known THEN Number(h.originalSize) ELSE 0, Number(h.blockSize))

(* The CRC of a block header stands for the bytes of the block, if it is   *)
(* theirs.                                                                 *)
CrcOf(bytes) == espCompressorCrc32([i \in DOMAIN bytes |-> Byte(bytes[i])])

BlockRead(bytes, covered) ==
  LET b == decodeEscBlockHeader(bytes)
  IN BlockItem(Flag(b.flags, 2), Flag(b.flags, 1), Number(b.originalSize), Number(b.storedSize),
               IF b.crc32 = CrcOf(covered) THEN covered ELSE <<Wrong>>)

-----------------------------------------------------------------------------
(* The archives that were written, of n blocks.  The input is cut anywhere *)
(* (a source may deliver less than it is asked for), and a block takes as  *)
(* many bytes as it has, or fewer.                                         *)
Cuts(n) == {c \in [0 .. n -> 0 .. InputSize] :
              /\ c[0] = 0 /\ c[n] = InputSize
              /\ \A i \in 1 .. n : c[i - 1] < c[i] /\ c[i] <= c[i - 1] + BlockSize}

StoredSizes(n, c) == {s \in [1 .. n -> 1 .. BlockSize] : \A i \in 1 .. n : s[i] <= c[i] - c[i - 1]}

(* A block is stored raw unless it gets smaller. *)
BlockBytes(final, raw, original, stored, crc) ==
  encodeEscBlockHeader([flags        |-> Byte((IF raw THEN 1 ELSE 0) + (IF final THEN 2 ELSE 0)),
                        originalSize |-> Bits(original, 32),
                        storedSize   |-> Bits(stored, 32),
                        crc32        |-> crc])

WrittenBlock(bytes, final, stored) ==
  LET n == Len(bytes)
  IN <<BlockRead(BlockBytes(final, stored = n, n, stored, CrcOf(bytes)), bytes),
       DataItem(bytes, stored)>>

(* The CRC in the header of the last, empty block is never computed.       *)
EmptyBlock == <<BlockRead(BlockBytes(TRUE, TRUE, 0, 0, Bits(0, 32)), <<>>)>>

(* last: the last block of the input is the final one; otherwise an empty  *)
(* block follows.                                                          *)
WrittenBlocks(n, c, s, last) ==
  LET blocks == [i \in 1 .. n |->
                   WrittenBlock(SubSeq(Input, c[i - 1] + 1, c[i]), last /\ i = n, s[i])]
  IN IF last THEN blocks ELSE Append(blocks, EmptyBlock)

HeaderBytes(known) ==
  encodeEscHeader([version |-> Byte(1), flags |-> Byte(IF known THEN 0 ELSE 1), algorithm |-> Byte(1),
                   originalSize |-> IF known THEN Bits(InputSize, 64) ELSE [i \in 1 .. 64 |-> 1],
                   blockSize |-> Bits(BlockSize, 32)])

WrittenHeaders == {HeaderRead(HeaderBytes(known)) : known \in BOOLEAN}

Whole(h, blocks) == Cons(h, FlattenSeq(blocks))

WrittenOf(n, c) == {WrittenBlocks(n, c, s, last) : s \in StoredSizes(n, c), last \in BOOLEAN}

Written == UNION {UNION {WrittenOf(n, c) : c \in Cuts(n)} : n \in 1 .. InputSize}

-----------------------------------------------------------------------------
(* What may be read in the place of bytes: the same, or not.  Where a      *)
(* block begins in the wrong place there may be anything but a right CRC.  *)
Misread(bytes) == {bytes, SubSeq(bytes, 1, Len(bytes) - 1), [i \in DOMAIN bytes |-> Wrong]}
Garbage        == {BlockItem(f, TRUE, o, 0, <<Wrong>>) : f \in BOOLEAN, o \in {0, 1}}
Remainders     == {<<>>} \cup {<<g>> : g \in Garbage}

(* A size or the CRC of the block header is another, or its raw bit; the   *)
(* payload is another; less or more of the archive is taken for payload,   *)
(* and what comes next begins in the wrong place.                          *)
OtherHeads(head) ==
  {[head EXCEPT !.crc = <<Wrong>>]} \cup {[head EXCEPT !.original = n] : n \in 0 .. BlockSize + 1}
RawOrNot(head) == {[head EXCEPT !.raw = r] : r \in BOOLEAN}
Reread(payload) ==
  IF payload = <<>> THEN {<<>>}
  ELSE {<<DataItem(p, payload[1].size)>> : p \in Misread(payload[1].bytes)}
Resized(head) ==
  {<<[head EXCEPT !.stored = 0]>>} \cup
  {<<[head EXCEPT !.stored = n], DataItem(p, n)>> :
     n \in (1 .. BlockSize + 1) \ {head.stored}, p \in Misread(head.crc)}

Relabelled(head, payload) == {Cons(g, payload) : g \in OtherHeads(head)}
Reloaded(head, payload)   == {Cons(g, p) : g \in RawOrNot(head), p \in Reread(payload)}
CutShort(head)            == {<<head>>, <<>>}

(* The damages of a block, given as what takes its place and that of all   *)
(* that follows.                                                           *)
DamagedBlock(head, payload, rest) ==
  CutShort(head)
  \cup {g \o rest : g \in Relabelled(head, payload) \cup Reloaded(head, payload)}
  \cup {g \o r : g \in Resized(head), r \in Remainders}

DamagedAt(h, w, i) ==
  {Cons(h, FlattenSeq(SubSeq(w, 1, i - 1)) \o d) :
     d \in DamagedBlock(w[i][1], Tail(w[i]), FlattenSeq(SubSeq(w, i + 1, Len(w))))}

FieldDamaged(h, w) == UNION {DamagedAt(h, w, i) : i \in DOMAIN w}

(* The final bit of a block is flipped; a block is lost, comes twice, ...  *)
FlippedBlock(b) == [b EXCEPT ![1].final = ~@]
Flipped(w, i)   == [w EXCEPT ![i] = FlippedBlock(w[i])]
Miscounted(w) == UNION {{Flipped(w, i), RemoveAt(w, i), InsertAt(w, i, w[i])} : i \in DOMAIN w}

(* ... or changes places with the next. *)
Misplaced(w) ==
  {[w EXCEPT ![i] = w[i + 1], ![i + 1] = w[i]] : i \in 1 .. Len(w) - 1}

(* One byte of the header is another, or several neighbouring ones are, or *)
(* the header is cut short, which is to the run as if nothing was there.   *)
Changed(bytes, at, change) ==
  [i \in DOMAIN bytes |->
     IF i \in at + 1 .. at + Len(change) THEN Xor(bytes[i], change[i - at]) ELSE bytes[i]]

HeaderDamaged ==
  LET body == FlattenSeq(CHOOSE w \in Written : TRUE)
      DamagedHeaders(bytes) ==
        {HeaderRead(Changed(bytes, at, change)) : change \in HeaderChanges, at \in 0 .. Len(bytes) - 1}
  IN {<<>>} \cup
     {Cons(h, body) : h \in UNION {DamagedHeaders(HeaderBytes(known)) : known \in BOOLEAN}}

Damaged(h, w) ==
  {Whole(h, v) : v \in {w} \cup Miscounted(w) \cup Misplaced(w)} \cup FieldDamaged(h, w)

AllArchives == HeaderDamaged \cup UNION {Damaged(h, w) : h \in WrittenHeaders, w \in Written}

-----------------------------------------------------------------------------
(* What no checksum covers: the order of the blocks, and their number when *)
(* the size was not known.                                                 *)
Uncovered(h, w) == {Whole(h, v) : v \in Misplaced(w) \cup IF h.known THEN {} ELSE Miscounted(w)}

NotCovered == UNION {Uncovered(h, w) : h \in WrittenHeaders, w \in Written}

(* Of a damaged archive a run says Ok only if it restored the input, or if *)
(* the damage is in what no checksum covers.  Of one whose header is       *)
(* damaged it never does, not even if the CRC is all that is wrong.        *)
DamageIsNoticed ==
  Ended /\ result.error = "Ok" /\ archive \in AllArchives =>
    /\ archive \notin HeaderDamaged
    /\ archive \in NotCovered \/ Flat(sink.out) = Input

(* And of one that is as it was written a run that nothing disturbs always *)
(* says Ok: what runCompress writes, runDecompress reads, every field at   *)
(* its full width.                                                         *)
WrittenIsRead ==
  Ended /\ ~failures /\ ~cancelRequested /\
  archive \in {Whole(h, w) : h \in WrittenHeaders, w \in Written} =>
    result.error = "Ok" /\ header.blockSize = BlockSize /\ header.known = (header.size = InputSize)
=============================================================================
