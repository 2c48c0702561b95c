---------------------------- MODULE LzDecompress ----------------------------
(***************************************************************************)
(* decompressLzLiteBlock (src/esp_compressor/codec/codec.cpp) on any       *)
(* bytes.  A pass of its loop is two actions: a token with its literals,   *)
(* and the match.  runDecompress reuses the output buffer from block to    *)
(* block and resize() does not clear it, so it starts full of Stale bytes. *)
(***************************************************************************)
EXTENDS LzFormat, SequencesExt

CONSTANT Stale  \* a byte of an earlier block

VARIABLES
  data,          \* input
  expected,      \* expectedOutputSize
  inputOffset,
  outputOffset,
  buffer,        \* the MemoryBuffer of the result
  token,         \* the last token read
  status,        \* "token", "match", or what is returned
  parsed         \* history: the sequences read so far

block == <<data, expected>>
dvars == <<block, inputOffset, outputOffset, buffer, token, status, parsed>>

NoToken  == 0
Returned == {"Ok", "CorruptData", "NoMemory"}
Running  == status \notin Returned

Bad == [ok |-> FALSE, next |-> 0, value |-> 0]   \* no length can be read

(* A bug the checks must notice: one extension byte, never more. *)
ReadExtendedLengthOnce(from, value) ==
  IF from >= Len(data) THEN Bad
  ELSE [ok |-> TRUE, next |-> from + 1, value |-> value + data[from + 1]]

(* readExtendedLength: bytes up to one that is not 255.  Their sum is a    *)
(* size_t in the code; 32 bits of it are filled by 16 MiB of such bytes.   *)
ReadExtendedLength(from, value) ==
  LET ends == {k \in from + 1 .. Len(data) : data[k] # ByteMax}
      last == CHOOSE k \in ends : \A j \in ends : k <= j
  IN IF ends = {} THEN Bad
     ELSE [ok |-> TRUE, next |-> last,
           value |-> value + ByteMax * (last - from - 1) + data[last]]

(* One half of a token, with its extension if it is saturated. *)
ReadLength(half, from, least) ==
  IF half = Nibble THEN ReadExtendedLength(from, least + half)
  ELSE [ok |-> TRUE, next |-> from, value |-> least + half]

(* The offset of a match, two bytes. *)
MatchOffset == data[inputOffset + 1] + data[inputOffset + 2] * ByteBase

(* A match is copied byte by byte, so that one longer than its offset      *)
(* repeats the last offset bytes.                                          *)
Copied(offset, length) ==
  [i \in 1 .. expected |->
     IF i \in outputOffset + 1 .. outputOffset + length
       THEN buffer[outputOffset - offset + 1 + ((i - outputOffset - 1) % offset)]
       ELSE buffer[i]]

Return(e) == status' = e

-----------------------------------------------------------------------------
(* Bugs the checks must notice; none of them is part of DecompressNext.    *)

DecompressEndOk ==      \* DecompressEnd that takes the end of the block for that of the output
  /\ status = "token"
  /\ inputOffset = Len(data)
  /\ Return("Ok")
  /\ UNCHANGED <<block, inputOffset, outputOffset, buffer, token, parsed>>

ReadMatchUnbounded ==   \* ReadMatch without the test against expectedOutputSize
  LET run == ReadLength(token % TokenBase, inputOffset + 2, kMinMatch)
  IN /\ status = "match"
     /\ IF inputOffset + 2 > Len(data) \/ MatchOffset = 0 \/ MatchOffset > outputOffset \/ ~run.ok
          THEN /\ Return("CorruptData")
               /\ UNCHANGED <<inputOffset, outputOffset, buffer, parsed>>
          ELSE /\ buffer' = Copied(MatchOffset, run.value)
               /\ inputOffset' = run.next
               /\ outputOffset' = outputOffset + run.value
               /\ Return("token")
               /\ UNCHANGED parsed
     /\ UNCHANGED <<block, token>>

-----------------------------------------------------------------------------

(* output.clear() and resize(expectedOutputSize).                          *)
Resized(size) == [i \in 1 .. size |-> Stale]

Ready ==
  /\ inputOffset = 0
  /\ outputOffset = 0
  /\ buffer = Resized(expected)
  /\ token = NoToken
  /\ status = "token"
  /\ parsed = <<>>

(* The resize fails, before anything is read. *)
DecompressNoMemory ==
  /\ status = "token" /\ inputOffset = 0 /\ outputOffset = 0
  /\ expected > 0
  /\ Return("NoMemory")
  /\ UNCHANGED <<block, inputOffset, outputOffset, buffer, token, parsed>>

(* The block is used up. *)
DecompressEnd ==
  /\ status = "token"
  /\ inputOffset = Len(data)
  /\ Return(IF outputOffset = expected THEN "Ok" ELSE "CorruptData")
  /\ UNCHANGED <<block, inputOffset, outputOffset, buffer, token, parsed>>

(* A token and its literals.  When the output is complete the block has to *)
(* be used up too.                                                         *)
ReadLiterals ==
  LET t   == data[inputOffset + 1]
      run == ReadLength(t \div TokenBase, inputOffset + 1, 0)
      to  == run.next + run.value
  IN /\ status = "token"
     /\ inputOffset < Len(data)
     /\ IF ~run.ok \/ to > Len(data) \/ outputOffset + run.value > expected
          THEN /\ Return("CorruptData")
               /\ UNCHANGED <<inputOffset, outputOffset, buffer, token, parsed>>
          ELSE /\ buffer' = [i \in 1 .. expected |->
                               IF i \in outputOffset + 1 .. outputOffset + run.value
                                 THEN data[run.next + i - outputOffset] ELSE buffer[i]]
               /\ inputOffset' = to
               /\ outputOffset' = outputOffset + run.value
               /\ token' = t
               /\ parsed' = Append(parsed, [literals |-> SubSeq(data, run.next + 1, to),
                                            offset |-> 0, match |-> 0])
               /\ Return(IF outputOffset' < expected THEN "match"
                         ELSE IF to = Len(data) THEN "Ok" ELSE "CorruptData")
     /\ UNCHANGED block

(* The match of the sequence, which may only reach back into what is       *)
(* already written.                                                        *)
ReadMatch ==
  LET run == ReadLength(token % TokenBase, inputOffset + 2, kMinMatch)
  IN /\ status = "match"
     /\ IF \/ inputOffset + 2 > Len(data)
           \/ MatchOffset = 0 \/ MatchOffset > outputOffset
           \/ ~run.ok
           \/ outputOffset + run.value > expected
          THEN /\ Return("CorruptData")
               /\ UNCHANGED <<inputOffset, outputOffset, buffer, parsed>>
          ELSE /\ buffer' = Copied(MatchOffset, run.value)
               /\ inputOffset' = run.next
               /\ outputOffset' = outputOffset + run.value
               /\ parsed' = [parsed EXCEPT ![Len(parsed)].offset = MatchOffset,
                                           ![Len(parsed)].match = run.value]
               /\ Return("token")
     /\ UNCHANGED <<block, token>>

DecompressNext == DecompressNoMemory \/ DecompressEnd \/ ReadLiterals \/ ReadMatch

-----------------------------------------------------------------------------
(* Every variable has its type.                                            *)
DecompressTypeOK ==
  /\ inputOffset \in 0 .. Len(data)
  /\ outputOffset \in 0 .. expected
  /\ buffer \in [1 .. expected -> Byte \cup {Stale}]
  /\ token \in Byte
  /\ status \in Returned \cup {"token", "match"}

(* A block is decoded from nothing but itself: no byte an earlier block    *)
(* left in the buffer can be reached, through an offset or through an      *)
(* output that was not filled, whatever the bytes of the block are.        *)
NothingStale ==
  /\ \A i \in 1 .. outputOffset : buffer[i] # Stale
  /\ status = "Ok" => outputOffset = expected

(* The decoder reads what emitSequence writes: the bytes it consumed are   *)
(* the emission of the sequences it took them for.  Only the last token    *)
(* may have any second half, which the decoder does not look at.           *)
ReadsWhatIsEmitted ==
  status = "Ok" /\ parsed # <<>> =>
    LET emitted == FlattenSeq([k \in 1 .. Len(parsed) |->
                     EmitSequence(parsed[k].literals, parsed[k].offset, parsed[k].match)])
        final   == Last(parsed)
        start   == 1 + Len(data) - Len(EmitSequence(final.literals, final.offset, final.match))
    IN /\ Len(emitted) = Len(data)
       /\ \A k \in 1 .. Len(data) :
            \/ emitted[k] = data[k]
            \/ k = start /\ final.match = 0 /\ emitted[k] \div TokenBase = data[k] \div TokenBase
=============================================================================
