---------------------------- MODULE MemoryBuffer ----------------------------
(***************************************************************************)
(* The MemoryBuffer objects of a program (src/esp_compressor/util) and the *)
(* heap they live on.  A size_t is a number up to SizeMax and wraps.  The  *)
(* heap is external: an allocation or reallocation fails whenever it likes,*)
(* and then a reallocation leaves the old memory as it was.                *)
(***************************************************************************)
EXTENDS Naturals

CONSTANTS
  Buffers,        \* MemoryBuffer objects
  Addresses,      \* addresses the heap hands out
  Null,
  SizeBits,       \* the width of a size_t
  SizeMax,        \* SIZE_MAX
  FirstCapacity,  \* 64
  Sizes           \* arguments that are passed

ConstantsAssumption ==
  /\ SizeBits \in Nat
  /\ SizeMax \in Nat
  /\ SizeMax = 2^SizeBits - 1
  /\ FirstCapacity \in 1 .. SizeMax
  /\ Sizes \subseteq 0 .. SizeMax
  /\ Null \notin Addresses

VARIABLES
  alive,     \* constructed and not destroyed
  data,      \* _data
  size,      \* _size
  capacity,  \* _capacity
  heap,      \* bytes allocated at each address, 0 where nothing is
  demand     \* history: bytes the buffer has to hold, by its callers' count

vars == <<alive, data, size, capacity, heap, demand>>

Wrapped(n) == n % (SizeMax + 1)

(* What the loop of grow() computes: the least doubling of the old         *)
(* capacity that is enough, or just what is required when there is none    *)
(* below SIZE_MAX.                                                         *)
NewCapacity(from, required) ==
  LET start    == IF from = 0 THEN FirstCapacity ELSE from
      Enough   == {c \in required .. SizeMax : \E k \in 0 .. SizeBits : c = start * 2^k}
      Least(c) == \A d \in Enough : c <= d
  IN IF \E c \in Enough : Least(c) THEN CHOOSE c \in Enough : Least(c) ELSE required

Freed(b) == IF data[b] = Null THEN heap ELSE [heap EXCEPT ![data[b]] = 0]

(* grow() that works: the memory stays where it is or moves. *)
Grow(b, required) ==
  \E p \in {x \in Addresses : heap[x] = 0 \/ x = data[b]} :
    /\ data' = [data EXCEPT ![b] = p]
    /\ capacity' = [capacity EXCEPT ![b] = NewCapacity(capacity[b], required)]
    /\ heap' = [Freed(b) EXCEPT ![p] = NewCapacity(capacity[b], required)]

(* grow() if there is not enough. *)
Ensure(b, n) ==
  IF n <= capacity[b] THEN UNCHANGED <<data, capacity, heap>> ELSE Grow(b, n)

(* The members of an empty buffer. *)
Empty(b) ==
  /\ data' = [data EXCEPT ![b] = Null]
  /\ size' = [size EXCEPT ![b] = 0]
  /\ capacity' = [capacity EXCEPT ![b] = 0]
  /\ demand' = [demand EXCEPT ![b] = 0]

(* Taking what another buffer has, which is empty then. *)
Take(b, from) ==
  LET Moved(f, nothing) == [f EXCEPT ![b] = f[from], ![from] = nothing]
  IN /\ data' = Moved(data, Null)
     /\ size' = Moved(size, 0)
     /\ capacity' = Moved(capacity, 0)
     /\ demand' = Moved(demand, 0)

-----------------------------------------------------------------------------
Init ==
  /\ alive = [b \in Buffers |-> FALSE]
  /\ data = [b \in Buffers |-> Null]
  /\ size = [b \in Buffers |-> 0]
  /\ capacity = [b \in Buffers |-> 0]
  /\ heap = [p \in Addresses |-> 0]
  /\ demand = [b \in Buffers |-> 0]

Construct(b) ==
  /\ ~alive[b]
  /\ alive' = [alive EXCEPT ![b] = TRUE]
  /\ UNCHANGED <<data, size, capacity, heap, demand>>

MoveConstruct(b, from) ==
  /\ ~alive[b] /\ alive[from]
  /\ alive' = [alive EXCEPT ![b] = TRUE]
  /\ Take(b, from)
  /\ UNCHANGED heap

(* Onto itself it does nothing. *)
MoveAssign(b, from) ==
  /\ alive[b] /\ alive[from]
  /\ b # from
  /\ heap' = Freed(b)
  /\ Take(b, from)
  /\ UNCHANGED alive

Reserve(b, n) ==
  /\ alive[b]
  /\ Ensure(b, n)
  /\ UNCHANGED <<alive, size, demand>>

Resize(b, n) ==
  /\ alive[b]
  /\ Ensure(b, n)
  /\ size' = [size EXCEPT ![b] = n]
  /\ demand' = [demand EXCEPT ![b] = n]
  /\ UNCHANGED alive

(* n bytes, which are refused when their number wraps the size. *)
Append(b, n) ==
  /\ alive[b]
  /\ n > 0
  /\ Wrapped(size[b] + n) >= size[b]
  /\ Ensure(b, Wrapped(size[b] + n))
  /\ size' = [size EXCEPT ![b] = Wrapped(size[b] + n)]
  /\ demand' = [demand EXCEPT ![b] = @ + n]
  /\ UNCHANGED alive

Clear(b) ==
  /\ alive[b]
  /\ size' = [size EXCEPT ![b] = 0]
  /\ demand' = [demand EXCEPT ![b] = 0]
  /\ UNCHANGED <<alive, data, capacity, heap>>

Release(b) ==
  /\ alive[b]
  /\ heap' = Freed(b)
  /\ Empty(b)
  /\ UNCHANGED alive

Destroy(b) ==
  /\ alive[b]
  /\ alive' = [alive EXCEPT ![b] = FALSE]
  /\ heap' = Freed(b)
  /\ Empty(b)

(* A call whose grow() fails returns false and changes nothing.            *)
Next ==
  \E b \in Buffers :
    \/ Construct(b)
    \/ \E from \in Buffers : MoveConstruct(b, from) \/ MoveAssign(b, from)
    \/ \E n \in Sizes : Reserve(b, n) \/ Resize(b, n) \/ Append(b, n)
    \/ Clear(b) \/ Release(b) \/ Destroy(b)

Spec == Init /\ [][Next]_vars

-----------------------------------------------------------------------------
(* Every variable has its type. *)
TypeOK ==
  /\ alive \in [Buffers -> BOOLEAN]
  /\ data \in [Buffers -> Addresses \cup {Null}]
  /\ size \in [Buffers -> 0 .. SizeMax]
  /\ capacity \in [Buffers -> 0 .. SizeMax]
  /\ heap \in [Addresses -> 0 .. SizeMax]
  /\ demand \in [Buffers -> Nat]

(* What is allocated belongs to exactly one living buffer: nothing is      *)
(* leaked, freed twice or used after it was freed, whatever is moved.      *)
OwnedOnce ==
  /\ \A p \in Addresses : heap[p] > 0 => \E b \in Buffers : alive[b] /\ data[b] = p
  /\ \A b, c \in Buffers : data[b] = data[c] /\ data[b] # Null => b = c
  /\ \A b \in Buffers : ~alive[b] => data[b] = Null

(* A buffer has the memory it says it has, and none for nothing.           *)
CapacityIsReal ==
  \A b \in Buffers :
    IF data[b] = Null THEN capacity[b] = 0 ELSE capacity[b] > 0 /\ heap[data[b]] = capacity[b]

(* What the callers put in fits, and is counted right: no sum of sizes     *)
(* wraps, and no growth falls short of what it was for.                    *)
HoldsWhatWasPut == \A b \in Buffers : demand[b] = size[b] /\ size[b] <= capacity[b]
=============================================================================
