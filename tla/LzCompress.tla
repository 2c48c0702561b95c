----------------------------- MODULE LzCompress -----------------------------
(***************************************************************************)
(* compressLzLiteBlock (src/esp_compressor/codec/codec.cpp).  One action   *)
(* is one pass of its loop.  hash3 is any function of three bytes onto the *)
(* slots of the table: collisions are what matters about it.               *)
(***************************************************************************)
EXTENDS LzFormat, Integers

CONSTANTS
  Inputs,   \* the blocks to compress
  Windows,  \* values of windowSize that init() lets through
  Slots,    \* slots of the hash table
  Hashes    \* candidates for hash3, functions from triples of bytes to Slots

ASSUME CompressAssumption ==
  /\ Inputs \subseteq Seq(Byte)
  /\ Windows \subseteq Nat
  /\ Hashes \subseteq [[1 .. kMinMatch -> Byte] -> Slots] /\ Hashes # {}

VARIABLES
  input,       \* the block
  windowSize,
  hash,        \* hash3
  table,       \* table: the position last entered in each slot, or -1
  anchor,      \* where the literals not yet emitted begin
  index,
  output,      \* the MemoryBuffer of the result
  error        \* what is returned, or "none" before

given == <<input, windowSize, hash>>
cvars == <<given, table, anchor, index, output, error>>

Size        == Len(input)
Triple(i)   == SubSeq(input, i + 1, i + kMinMatch)
Slot(i)     == hash[Triple(i)]
InTriple(i) == i + kMinMatch <= Size
Literals    == SubSeq(input, anchor + 1, index)

(* computeMatchLength *)
MatchLength(candidate) ==
  CHOOSE n \in 0 .. Size - index :
    /\ \A k \in 1 .. n : input[candidate + k] = input[index + k]
    /\ index + n < Size => input[candidate + n + 1] # input[index + n + 1]

(* A bug the checks must notice: the hash is trusted. *)
UsableUnverified(candidate) ==
  candidate >= 0 /\ index > candidate /\ index - candidate <= windowSize

(* What the table offers may be from another triple, or too far away. *)
Usable(candidate) ==
  /\ candidate >= 0
  /\ index > candidate
  /\ index - candidate <= windowSize
  /\ index - candidate <= MaxOffset
  /\ Triple(candidate) = Triple(index)

(* The slots of all positions up to length that begin a triple. *)
Entered(length) ==
  [s \in Slots |->
     LET here == {i \in index .. index + length - 1 : InTriple(i) /\ Slot(i) = s}
     IN IF here = {} THEN table[s] ELSE CHOOSE i \in here : \A j \in here : j <= i]

-----------------------------------------------------------------------------
(* A bug the checks must notice; no part of the next-state relation.       *)

AdvanceNot ==                    \* Advance without ++index
  /\ error = "none"
  /\ InTriple(index)
  /\ ~Usable(table[Slot(index)])
  /\ table' = Entered(1)
  /\ UNCHANGED <<given, anchor, index, output, error>>

-----------------------------------------------------------------------------
Start ==
  /\ table = [s \in Slots |-> -1]
  /\ anchor = 0
  /\ index = 0
  /\ output = <<>>
  /\ error = "none"

(* No match here: on to the next byte. *)
Advance ==
  /\ error = "none"
  /\ InTriple(index)
  /\ ~Usable(table[Slot(index)])
  /\ table' = Entered(1)
  /\ index' = index + 1
  /\ UNCHANGED <<given, anchor, output, error>>

(* The literals so far and the match are emitted, and all of the match is  *)
(* entered in the table.                                                   *)
TakeMatch ==
  /\ error = "none"
  /\ InTriple(index)
  /\ Usable(table[Slot(index)])
  /\ LET candidate == table[Slot(index)]
         length    == MatchLength(candidate)
     IN /\ output' = output \o EmitSequence(Literals, index - candidate, length)
        /\ table' = Entered(length)
        /\ index' = index + length
        /\ anchor' = index + length
  /\ UNCHANGED <<given, error>>

(* What is left are literals; an empty block is empty. *)
CompressTail ==
  /\ error = "none"
  /\ ~InTriple(index)
  /\ output' = IF Size = 0 THEN <<>>
               ELSE output \o EmitSequence(SubSeq(input, anchor + 1, Size), 0, 0)
  /\ error' = "Ok"
  /\ UNCHANGED <<given, table, anchor, index>>

(* output.append fails while a sequence is emitted.  The part of it that   *)
(* was appended stays in the buffer, which no caller reads after a failure. *)
CompressNoMemory ==
  /\ error = "none"
  /\ Size > 0
  /\ InTriple(index) => Usable(table[Slot(index)])
  /\ error' = "NoMemory"
  /\ UNCHANGED <<given, table, anchor, index, output>>

CompressNext == Advance \/ TakeMatch \/ CompressTail \/ CompressNoMemory
=============================================================================
