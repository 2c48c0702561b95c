------------------------------- MODULE LzLite -------------------------------
(***************************************************************************)
(* A block and the codec.  It is compressed as runCompress does, and what  *)
(* came out decompressed as runDecompress does, with the size that the     *)
(* block header has; or the decoder is given bytes and a size from an      *)
(* archive that was damaged.                                               *)
(***************************************************************************)
EXTENDS LzCompress

CONSTANTS
  Stale,
  Damaged,    \* bytes a damaged archive may hold
  MaxOutput   \* bound: the size a damaged block header may declare

ASSUME DamagedAssumption ==
  Damaged \subseteq Seq(Byte) /\ MaxOutput \in Nat /\ Stale \notin Byte

VARIABLES
  stage,      \* "compress", "decompress"
  data, expected, inputOffset, outputOffset, buffer, token, status, parsed

decoder == <<data, expected, inputOffset, outputOffset, buffer, token, status, parsed>>
vars    == <<cvars, stage, decoder>>

Decoder == INSTANCE LzDecompress

Init ==
  /\ \/ /\ stage = "compress"
        /\ input \in Inputs /\ windowSize \in Windows /\ hash \in Hashes
        /\ data = <<>> /\ expected = 0
     \/ /\ stage = "decompress"
        /\ input = <<>> /\ windowSize = MaxOffset /\ hash = CHOOSE h \in Hashes : TRUE
        /\ data \in Damaged /\ expected \in 0 .. MaxOutput
  /\ Start
  /\ Decoder!Ready

Compress == stage = "compress" /\ CompressNext /\ UNCHANGED <<stage, decoder>>

PassOn ==
  /\ stage = "compress" /\ error = "Ok"
  /\ stage' = "decompress"
  /\ data' = output
  /\ expected' = Size
  /\ buffer' = Decoder!Resized(Size)
  /\ UNCHANGED <<cvars, inputOffset, outputOffset, token, status, parsed>>

Decompress == stage = "decompress" /\ Decoder!DecompressNext /\ UNCHANGED <<cvars, stage>>

Next == Compress \/ PassOn \/ Decompress

(* The agent that runs it keeps running. *)
Spec == Init /\ [][Next]_vars /\ WF_vars(Next)

-----------------------------------------------------------------------------
(* Every variable has its type.  So neither loop reads or writes outside   *)
(* its buffers.                                                            *)
TypeOK ==
  /\ table \in [Slots -> -1 .. Size]
  /\ anchor \in 0 .. index
  /\ index \in 0 .. Size
  /\ output \in Seq(Byte)
  /\ error \in {"none", "Ok", "NoMemory"}
  /\ stage \in {"compress", "decompress"}
  /\ Decoder!DecompressTypeOK

(* A block is decoded from nothing but itself: no byte an earlier block    *)
(* left in the buffer can be reached, through an offset or through an      *)
(* output that was not filled, whatever the bytes of the block are.        *)
NothingStale == Decoder!NothingStale

(* The decoder reads what emitSequence writes: the bytes it accepted are   *)
(* the emission of the sequences it took them for.  Only the last token    *)
(* may have any second half, which the decoder does not look at.           *)
ReadsWhatIsEmitted == Decoder!ReadsWhatIsEmitted

(* Every block decodes to itself, whatever its bytes, the window and the   *)
(* collisions of the hash: the decoder refuses nothing the compressor made *)
(* (it may run out of memory).                                             *)
RoundTrip ==
  stage = "decompress" /\ error = "Ok" =>
    /\ status \in Decoder!Returned => status \in {"Ok", "NoMemory"}
    /\ status = "Ok" => buffer = input

(* Both loops end, whatever the bytes are.                                 *)
Terminates == <>(error = "NoMemory" \/ (stage = "decompress" /\ ~Decoder!Running))
=============================================================================
