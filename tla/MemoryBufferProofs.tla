------------------------- MODULE MemoryBufferProofs -------------------------
(***************************************************************************)
(* What holds of MemoryBuffer for any number of buffers, any heap and any  *)
(* width of a size_t.                                                      *)
(***************************************************************************)
EXTENDS MemoryBuffer, Integers, TLAPS

Inv == TypeOK /\ OwnedOnce /\ CapacityIsReal /\ HoldsWhatWasPut

-----------------------------------------------------------------------------
(* The loop of grow() ends with enough, and never above SIZE_MAX.          *)
LEMMA NewCapacityFits ==
  ASSUME NEW from, NEW required \in 0 .. SizeMax, ConstantsAssumption
  PROVE  NewCapacity(from, required) \in required .. SizeMax
<1> DEFINE start    == IF from = 0 THEN FirstCapacity ELSE from
           Enough   == {c \in required .. SizeMax : \E k \in 0 .. SizeBits : c = start * 2^k}
           Least(c) == \A d \in Enough : c <= d
<1>1. NewCapacity(from, required) =
        IF \E c \in Enough : Least(c) THEN CHOOSE c \in Enough : Least(c) ELSE required
  BY DEF NewCapacity
<1>2. Enough \subseteq required .. SizeMax
  OBVIOUS
<1> HIDE DEF Enough, Least
<1>3. CASE \E c \in Enough : Least(c)
  <2>1. (CHOOSE c \in Enough : Least(c)) \in Enough
    BY <1>3
  <2> QED
    BY <1>1, <1>2, <1>3, <2>1
<1>4. CASE ~\E c \in Enough : Least(c)
  BY <1>1, <1>4 DEF ConstantsAssumption
<1> QED
  BY <1>3, <1>4

(* A sum of two sizes that is not below the first has not wrapped.         *)
LEMMA NotWrapped ==
  ASSUME ConstantsAssumption,
         NEW m \in 0 .. SizeMax, NEW n \in 0 .. SizeMax,
         Wrapped(m + n) >= m, n > 0
  PROVE  Wrapped(m + n) = m + n /\ m + n <= SizeMax
<1>1. CASE m + n <= SizeMax
  BY <1>1 DEF Wrapped, ConstantsAssumption
<1>2. CASE m + n > SizeMax
  <2>1. (m + n) % (SizeMax + 1) = m + n - (SizeMax + 1)
    BY <1>2 DEF ConstantsAssumption
  <2> QED
    BY <2>1 DEF Wrapped, ConstantsAssumption
<1> QED
  BY <1>1, <1>2 DEF ConstantsAssumption

-----------------------------------------------------------------------------
LEMMA InitInv == ConstantsAssumption /\ Init => Inv
BY DEF ConstantsAssumption, Init, Inv, TypeOK, OwnedOnce, CapacityIsReal, HoldsWhatWasPut

(* Making room for n bytes keeps the books of the heap, and makes it.      *)
LEMMA EnsureMakesRoom ==
  ASSUME ConstantsAssumption, Inv, UNCHANGED alive,
         NEW b \in Buffers, alive[b], NEW n \in 0 .. SizeMax, Ensure(b, n)
  PROVE  /\ data' \in [Buffers -> Addresses \cup {Null}]
         /\ capacity' \in [Buffers -> 0 .. SizeMax]
         /\ heap' \in [Addresses -> 0 .. SizeMax]
         /\ OwnedOnce' /\ CapacityIsReal'
         /\ capacity'[b] >= n
         /\ \A c \in Buffers : capacity'[c] >= capacity[c]
<1>1. CASE n <= capacity[b]
  BY <1>1 DEF Ensure, Inv, TypeOK, OwnedOnce, CapacityIsReal
<1>2. CASE n > capacity[b]
  <2> DEFINE new == NewCapacity(capacity[b], n)
  <2>1. new \in n .. SizeMax
    BY NewCapacityFits
  <2> HIDE DEF new
  <2>2. PICK p \in Addresses :
          /\ heap[p] = 0 \/ p = data[b]
          /\ data' = [data EXCEPT ![b] = p]
          /\ capacity' = [capacity EXCEPT ![b] = new]
          /\ heap' = [Freed(b) EXCEPT ![p] = new]
    BY <1>2 DEF Ensure, Grow, new, Inv, TypeOK
  <2>3. new > 0 /\ new > capacity[b] /\ new \in 0 .. SizeMax /\ new \in Nat
    BY <1>2, <2>1 DEF Inv, TypeOK, ConstantsAssumption
  <2>4. \A c \in Buffers : c # b => data[c] # p
    BY <2>2 DEF Inv, TypeOK, OwnedOnce, CapacityIsReal, ConstantsAssumption
  <2>5. Freed(b) \in [Addresses -> 0 .. SizeMax]
    BY DEF Freed, Inv, TypeOK, ConstantsAssumption
  <2>6. \A q \in Addresses : heap'[q] = IF q = p THEN new ELSE IF q = data[b] THEN 0 ELSE heap[q]
    BY <2>2, <2>5 DEF Freed, Inv, TypeOK, ConstantsAssumption
  <2>7. heap' \in [Addresses -> 0 .. SizeMax]
    BY <2>2, <2>3, <2>5
  <2>8. OwnedOnce'
    BY <2>2, <2>4, <2>6 DEF OwnedOnce, Inv, TypeOK, ConstantsAssumption
  <2>9. CapacityIsReal'
    BY <2>2, <2>3, <2>4, <2>6 DEF OwnedOnce, CapacityIsReal, Inv, TypeOK, ConstantsAssumption
  <2> QED
    BY <1>2, <2>1, <2>2, <2>3, <2>7, <2>8, <2>9 DEF Inv, TypeOK
<1> QED
  BY <1>1, <1>2 DEF Inv, TypeOK

(* What one buffer had another has, and nobody else is concerned.          *)
LEMMA TakeMoves ==
  ASSUME ConstantsAssumption, Inv, NEW b \in Buffers, NEW from \in Buffers, b # from,
         Take(b, from), alive' \in [Buffers -> BOOLEAN], alive'[b], alive[from],
         \A c \in Buffers \ {b} : alive'[c] = alive[c],
         heap' = Freed(b)
  PROVE  Inv'
<1>1. \A q \in Addresses : heap'[q] = IF q = data[b] THEN 0 ELSE heap[q]
  BY DEF Freed, Inv, TypeOK, ConstantsAssumption
<1>2. \A c \in Buffers :
        /\ data'[c] = IF c = b THEN data[from] ELSE IF c = from THEN Null ELSE data[c]
        /\ size'[c] = IF c = b THEN size[from] ELSE IF c = from THEN 0 ELSE size[c]
        /\ capacity'[c] = IF c = b THEN capacity[from] ELSE IF c = from THEN 0 ELSE capacity[c]
        /\ demand'[c] = IF c = b THEN demand[from] ELSE IF c = from THEN 0 ELSE demand[c]
  BY DEF Take, Inv, TypeOK
<1>3. TypeOK'
  <2>1. heap' \in [Addresses -> 0 .. SizeMax]
    BY DEF Freed, Inv, TypeOK, ConstantsAssumption
  <2>2. data' \in [Buffers -> Addresses \cup {Null}]
    BY DEF Take, Inv, TypeOK
  <2>3. size' \in [Buffers -> 0 .. SizeMax] /\ capacity' \in [Buffers -> 0 .. SizeMax]
    BY DEF Take, Inv, TypeOK, ConstantsAssumption
  <2>4. demand' \in [Buffers -> Nat]
    BY DEF Take, Inv, TypeOK
  <2> QED
    BY <2>1, <2>2, <2>3, <2>4 DEF TypeOK
<1>4. OwnedOnce'
  BY <1>1, <1>2 DEF OwnedOnce, Inv, TypeOK, ConstantsAssumption
<1>5. CapacityIsReal'
  BY <1>1, <1>2 DEF OwnedOnce, CapacityIsReal, Inv, TypeOK, ConstantsAssumption
<1>6. HoldsWhatWasPut'
  BY <1>2 DEF HoldsWhatWasPut, Inv, TypeOK, ConstantsAssumption
<1> QED
  BY <1>3, <1>4, <1>5, <1>6 DEF Inv

(* Giving the memory back, in release() and the destructor.                *)
LEMMA FreeLets ==
  ASSUME ConstantsAssumption, Inv, NEW b \in Buffers,
         Empty(b), alive' \in [Buffers -> BOOLEAN],
         \A c \in Buffers \ {b} : alive'[c] = alive[c],
         heap' = Freed(b)
  PROVE  Inv'
<1>1. \A q \in Addresses : heap'[q] = IF q = data[b] THEN 0 ELSE heap[q]
  BY DEF Freed, Inv, TypeOK, ConstantsAssumption
<1>2. TypeOK'
  <2>1. heap' \in [Addresses -> 0 .. SizeMax]
    BY DEF Freed, Inv, TypeOK, ConstantsAssumption
  <2>2. data' \in [Buffers -> Addresses \cup {Null}] /\ demand' \in [Buffers -> Nat]
    BY DEF Empty, Inv, TypeOK
  <2>3. size' \in [Buffers -> 0 .. SizeMax] /\ capacity' \in [Buffers -> 0 .. SizeMax]
    BY DEF Empty, Inv, TypeOK, ConstantsAssumption
  <2> QED
    BY <2>1, <2>2, <2>3 DEF TypeOK
<1>3. OwnedOnce'
  BY <1>1 DEF Empty, OwnedOnce, Inv, TypeOK, ConstantsAssumption
<1>4. CapacityIsReal'
  BY <1>1 DEF Empty, OwnedOnce, CapacityIsReal, Inv, TypeOK, ConstantsAssumption
<1>5. HoldsWhatWasPut'
  BY DEF Empty, HoldsWhatWasPut, Inv, TypeOK, ConstantsAssumption
<1> QED
  BY <1>2, <1>3, <1>4, <1>5 DEF Inv

LEMMA NextInv == ConstantsAssumption /\ Inv /\ [Next]_vars => Inv'
<1> SUFFICES ASSUME ConstantsAssumption, Inv, [Next]_vars PROVE Inv'
  OBVIOUS
<1>1. CASE UNCHANGED vars
  BY <1>1 DEF vars, Inv, TypeOK, OwnedOnce, CapacityIsReal, HoldsWhatWasPut
<1>2. ASSUME NEW b \in Buffers, Construct(b) PROVE Inv'
  BY <1>2 DEF Construct, Inv, TypeOK, OwnedOnce, CapacityIsReal, HoldsWhatWasPut
<1>3. ASSUME NEW b \in Buffers, NEW from \in Buffers, MoveConstruct(b, from) PROVE Inv'
  <2>1. data[b] = Null /\ heap' = Freed(b)
    BY <1>3 DEF MoveConstruct, Freed, Inv, OwnedOnce
  <2> QED
    BY <1>3, <2>1, TakeMoves DEF MoveConstruct, Inv, TypeOK
<1>4. ASSUME NEW b \in Buffers, NEW from \in Buffers, MoveAssign(b, from) PROVE Inv'
  BY <1>4, TakeMoves DEF MoveAssign, Inv, TypeOK
<1>5. ASSUME NEW b \in Buffers, NEW n \in Sizes, Reserve(b, n) PROVE Inv'
  <2>1. n \in 0 .. SizeMax
    BY DEF ConstantsAssumption
  <2> QED
    BY <1>5, <2>1, EnsureMakesRoom DEF Reserve, Inv, TypeOK, HoldsWhatWasPut, ConstantsAssumption
<1>6. ASSUME NEW b \in Buffers, NEW n \in Sizes, Resize(b, n) PROVE Inv'
  <2>1. n \in 0 .. SizeMax /\ n \in Nat
    BY DEF ConstantsAssumption
  <2> QED
    BY <1>6, <2>1, EnsureMakesRoom DEF Resize, Inv, TypeOK, HoldsWhatWasPut, ConstantsAssumption
<1>7. ASSUME NEW b \in Buffers, NEW n \in Sizes, Append(b, n) PROVE Inv'
  <2> DEFINE sum == size[b] + n
  <2>1. n \in 0 .. SizeMax /\ size[b] \in 0 .. SizeMax
    BY DEF ConstantsAssumption, Inv, TypeOK
  <2>2. Wrapped(sum) = sum /\ sum <= SizeMax
    BY <1>7, <2>1, NotWrapped DEF Append
  <2>3. sum \in 0 .. SizeMax /\ demand[b] + n = sum
    BY <2>1, <2>2 DEF ConstantsAssumption, Inv, HoldsWhatWasPut
  <2>4. Ensure(b, sum) /\ size' = [size EXCEPT ![b] = sum] /\ demand' = [demand EXCEPT ![b] = sum]
    BY <1>7, <2>2, <2>3 DEF Append
  <2> HIDE DEF sum
  <2> QED
    BY <1>7, <2>3, <2>4, EnsureMakesRoom
    DEF Append, Inv, TypeOK, HoldsWhatWasPut, ConstantsAssumption
<1>8. ASSUME NEW b \in Buffers, Clear(b) PROVE Inv'
  BY <1>8 DEF Clear, Inv, TypeOK, OwnedOnce, CapacityIsReal, HoldsWhatWasPut, ConstantsAssumption
<1>9. ASSUME NEW b \in Buffers, Release(b) PROVE Inv'
  BY <1>9, FreeLets DEF Release, Inv, TypeOK
<1>10. ASSUME NEW b \in Buffers, Destroy(b) PROVE Inv'
  BY <1>10, FreeLets DEF Destroy, Inv, TypeOK
<1> QED
  BY <1>1, <1>2, <1>3, <1>4, <1>5, <1>6, <1>7, <1>8, <1>9, <1>10 DEF Next

-----------------------------------------------------------------------------
(* Memory has one owner that lives, and gives back what it has: nothing is *)
(* leaked, freed twice or used after it was freed.                         *)
THEOREM MemoryIsOwned ==
  ASSUME ConstantsAssumption PROVE Spec => [](OwnedOnce /\ CapacityIsReal)
<1>1. Inv => OwnedOnce /\ CapacityIsReal
  BY DEF Inv
<1> QED
  BY InitInv, NextInv, <1>1, PTL DEF Spec

(* No sum of sizes wraps and no growth falls short: a buffer counts what   *)
(* was put into it, and has room for it.                                   *)
THEOREM BuffersHoldWhatWasPut ==
  ASSUME ConstantsAssumption PROVE Spec => []HoldsWhatWasPut
<1>1. Inv => HoldsWhatWasPut
  BY DEF Inv
<1> QED
  BY InitInv, NextInv, <1>1, PTL DEF Spec
=============================================================================
