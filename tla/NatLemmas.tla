------------------------------ MODULE NatLemmas ------------------------------
(***************************************************************************)
(* Induction over the natural numbers, for what recursive functions        *)
(* compute.  The provers have none over an operator; over a set of numbers *)
(* it follows from the finite subsets of Nat being well founded under      *)
(* inclusion.                                                              *)
(***************************************************************************)
EXTENDS Integers, SequencesExt, TLAPS, FiniteSetTheorems, SequenceTheorems

LEMMA LeastElement ==
  ASSUME NEW T, T \subseteq Nat, T # {}
  PROVE  \E x \in T : \A y \in T : x <= y
<1> DEFINE UpTo == {0 .. n : n \in T}
<1>1. UpTo \subseteq FiniteSubsetsOf(Nat) /\ UpTo # {}
  <2>1. ASSUME NEW n \in T PROVE 0 .. n \in FiniteSubsetsOf(Nat)
    <3>1. IsFiniteSet(0 .. n)
      BY FS_Interval
    <3> QED
      BY <3>1 DEF FiniteSubsetsOf
  <2> QED
    BY <2>1
<1>2. PICK b \in UpTo : \A c \in UpTo : <<c, b>> \notin StrictSubsetOrdering(Nat)
  <2> HIDE DEF UpTo
  <2> QED
    BY <1>1, FS_StrictSubsetOrderingWellFounded, WFMin
<1>3. PICK x \in T : b = 0 .. x
  BY <1>2
<1>4. ASSUME NEW y \in T, y < x PROVE FALSE
  <2>1. 0 .. y \in UpTo /\ <<0 .. y, b>> \in StrictSubsetOrdering(Nat)
    BY <1>3, <1>4 DEF StrictSubsetOrdering
  <2> QED
    BY <2>1, <1>2
<1> QED
  BY <1>4

LEMMA Induction ==
  ASSUME NEW S, 0 \in S, \A n \in Nat : n \in S => n + 1 \in S
  PROVE  Nat \subseteq S
<1> SUFFICES ASSUME ~(Nat \subseteq S) PROVE FALSE
  OBVIOUS
<1>1. PICK x \in Nat \ S : \A y \in Nat \ S : x <= y
  BY LeastElement
<1>2. x # 0 /\ x - 1 \in Nat /\ x - 1 \in S
  BY <1>1
<1> QED
  BY <1>1, <1>2

(* What a recursion over 1 .. n computes exists: f starts with first, and  *)
(* step[i] makes f[i] of the one before.                                   *)
StepFunctions(S, n) == [1 .. n -> [S -> S]]
Computes(f, S, n, first, step) ==
  f \in [0 .. n -> S] /\ f[0] = first /\ \A i \in 1 .. n : f[i] = step[i][f[i - 1]]

LEMMA Recursion ==
  ASSUME NEW S, NEW n \in Nat, NEW first \in S, NEW step \in StepFunctions(S, n)
  PROVE  \E f : Computes(f, S, n, first, step)
<1> USE DEF StepFunctions, Computes
<1> DEFINE Goes(k) == \E f \in [0 .. k -> S] : f[0] = first /\ \A i \in 1 .. k : f[i] = step[i][f[i - 1]]
           T == {k \in Nat : k <= n => Goes(k)}
<1>1. 0 \in T
  <2> DEFINE f == [i \in 0 .. 0 |-> first]
  <2>1. f \in [0 .. 0 -> S] /\ f[0] = first /\ \A i \in 1 .. 0 : f[i] = step[i][f[i - 1]]
    OBVIOUS
  <2> QED
    BY <2>1
<1>2. ASSUME NEW k \in Nat, k \in T PROVE k + 1 \in T
  <2> SUFFICES ASSUME k + 1 <= n PROVE Goes(k + 1)
    OBVIOUS
  <2>1. PICK f \in [0 .. k -> S] : f[0] = first /\ \A i \in 1 .. k : f[i] = step[i][f[i - 1]]
    BY <1>2
  <2>2. step[k + 1] \in [S -> S] /\ f[k] \in S
    OBVIOUS
  <2> DEFINE g == [i \in 0 .. k + 1 |-> IF i = k + 1 THEN step[k + 1][f[k]] ELSE f[i]]
  <2>3. g \in [0 .. k + 1 -> S]
    BY <2>2
  <2>4. g[0] = first
    BY <2>1
  <2>5. ASSUME NEW i \in 1 .. k + 1 PROVE g[i] = step[i][g[i - 1]]
    <3>1. i - 1 \in 0 .. k /\ g[i - 1] = f[i - 1]
      OBVIOUS
    <3>2. CASE i = k + 1
      BY <3>1, <3>2
    <3>3. CASE i \in 1 .. k
      BY <2>1, <3>1, <3>3
    <3> QED
      BY <3>2, <3>3
  <2> HIDE DEF g
  <2> QED
    BY <2>3, <2>4, <2>5
<1>3. Nat \subseteq T
  <2> HIDE DEF T
  <2> QED
    BY <1>1, <1>2, Induction
<1> QED
  BY <1>3

(* And what starts alike and goes on alike is nothing else.                *)
LEMMA Computed ==
  ASSUME NEW S, NEW n \in Nat, NEW first \in S, NEW step \in StepFunctions(S, n),
         NEW f, DOMAIN f = 0 .. n, f = [i \in 0 .. n |-> f[i]], f[0] = first,
         \A i \in 1 .. n : f[i - 1] \in S => f[i] = step[i][f[i - 1]]
  PROVE  Computes(f, S, n, first, step)
<1> DEFINE T == {k \in Nat : k <= n => f[k] \in S}
<1>1. 0 \in T
  OBVIOUS
<1>2. ASSUME NEW k \in Nat, k \in T PROVE k + 1 \in T
  <2> SUFFICES ASSUME k + 1 <= n PROVE f[k + 1] \in S
    OBVIOUS
  <2>1. k + 1 \in 1 .. n /\ (k + 1) - 1 = k /\ f[k] \in S
    BY <1>2
  <2>2. f[k + 1] = step[k + 1][f[k]] /\ step[k + 1] \in [S -> S]
    BY <2>1 DEF StepFunctions
  <2> QED
    BY <2>1, <2>2
<1>3. Nat \subseteq T
  <2> HIDE DEF T
  <2> QED
    BY <1>1, <1>2, Induction
<1>4. \A i \in 0 .. n : f[i] \in S
  BY <1>3
<1>5. f \in [0 .. n -> S]
  <2>1. [i \in 0 .. n |-> f[i]] \in [0 .. n -> S]
    BY <1>4
  <2> QED
    BY <2>1, Zenon
<1>6. ASSUME NEW i \in 1 .. n PROVE f[i] = step[i][f[i - 1]]
  <2>1. i - 1 \in 0 .. n
    OBVIOUS
  <2>2. f[i - 1] \in S
    BY <1>4, <2>1
  <2> QED
    BY <2>2, Zenon
<1> QED
  BY <1>5, <1>6 DEF Computes

-----------------------------------------------------------------------------
(* The recursion inside FlattenSeq. *)
Flattened(b) ==
  CHOOSE f : f = [i \in 1 .. Len(b) |-> IF i = 1 THEN b[i] ELSE f[i - 1] \o b[i]]

LEMMA FlattenRecursion ==
  ASSUME NEW T, NEW b \in Seq(Seq(T)), b # <<>>
  PROVE  /\ FlattenSeq(b) = Flattened(b)[Len(b)]
         /\ Flattened(b) \in [1 .. Len(b) -> Seq(T)]
         /\ Flattened(b)[1] = b[1]
         /\ \A i \in 2 .. Len(b) : Flattened(b)[i] = Flattened(b)[i - 1] \o b[i]
<1> DEFINE S == Seq(T)
           step == [i \in 1 .. Len(b) |-> [s \in S |-> s \o b[i]]]
<1>1. Len(b) \in Nat /\ Len(b) # 0 /\ <<>> \in S /\ \A i \in 1 .. Len(b) : b[i] \in S /\ <<>> \o b[i] = b[i]
  OBVIOUS
<1>2. step \in [1 .. Len(b) -> [S -> S]]
  <2>1. \A s \in S, i \in 1 .. Len(b) : s \o b[i] \in S
    BY <1>1, ConcatProperties
  <2> QED
    BY <2>1
<1>3. PICK g \in [0 .. Len(b) -> S] : g[0] = <<>> /\ \A i \in 1 .. Len(b) : g[i] = step[i][g[i - 1]]
  <2> DEFINE n == Len(b)
             none == <<>>
  <2>1. n \in Nat /\ none \in S /\ step \in StepFunctions(S, n)
    BY <1>1, <1>2 DEF StepFunctions
  <2> HIDE DEF S, step, n, none
  <2>2. \E g : Computes(g, S, n, none, step)
    BY <2>1, Recursion
  <2> QED
    BY <2>2 DEF n, none, Computes
<1> DEFINE f == [i \in 1 .. Len(b) |-> g[i]]
<1>4. ASSUME NEW i \in 1 .. Len(b) PROVE g[i] = IF i = 1 THEN b[i] ELSE f[i - 1] \o b[i]
  <2>1. g[i] = g[i - 1] \o b[i]
    <3>1. i - 1 \in 0 .. Len(b)
      BY <1>1
    <3>2. g[i - 1] \in S
      BY <3>1
    <3>3. g[i] = step[i][g[i - 1]]
      BY <1>3
    <3> QED
      BY <3>2, <3>3
  <2>2. CASE i = 1
    BY <1>1, <1>3, <2>1, <2>2
  <2>3. CASE i # 1
    <3>1. i - 1 \in 1 .. Len(b)
      BY <1>1, <2>3
    <3> QED
      BY <2>1, <2>3, <3>1
  <2> QED
    BY <2>2, <2>3
<1>5. f = [i \in 1 .. Len(b) |-> IF i = 1 THEN b[i] ELSE f[i - 1] \o b[i]]
  BY <1>4
<1>6. f \in [1 .. Len(b) -> S]
  BY <1>3
<1> HIDE DEF f
<1>7. Flattened(b) = [i \in 1 .. Len(b) |-> IF i = 1 THEN b[i] ELSE Flattened(b)[i - 1] \o b[i]]
  BY <1>5, Zenon DEF Flattened
<1>8. \A i \in 1 .. Len(b) : Flattened(b)[i] = f[i]
  <2> DEFINE h == Flattened(b)
             U == {i \in Nat : i + 1 \in 1 .. Len(b) => h[i + 1] = f[i + 1]}
  <2> HIDE DEF h
  <2>1. 0 \in U
    BY <1>1, <1>5, <1>7 DEF h
  <2>2. ASSUME NEW i \in Nat, i \in U PROVE i + 1 \in U
    <3> SUFFICES ASSUME (i + 1) + 1 \in 1 .. Len(b) PROVE h[(i + 1) + 1] = f[(i + 1) + 1]
      OBVIOUS
    <3>1. i + 1 \in 1 .. Len(b) /\ ((i + 1) + 1) - 1 = i + 1 /\ (i + 1) + 1 # 1
      BY <1>1
    <3>2. h[i + 1] = f[i + 1]
      BY <2>2, <3>1
    <3>3. h[(i + 1) + 1] = h[i + 1] \o b[(i + 1) + 1]
      BY <1>7, <3>1 DEF h
    <3>4. f[(i + 1) + 1] = f[i + 1] \o b[(i + 1) + 1]
      BY <1>5, <3>1
    <3> QED
      BY <3>2, <3>3, <3>4
  <2>3. Nat \subseteq U
    <3> HIDE DEF U
    <3> QED
      BY <2>1, <2>2, Induction
  <2>4. ASSUME NEW i \in 1 .. Len(b) PROVE h[i] = f[i]
    <3>1. i - 1 \in Nat /\ (i - 1) + 1 = i
      OBVIOUS
    <3> QED
      BY <2>3, <3>1
  <2> QED
    BY <2>4 DEF h
<1>9. FlattenSeq(b) = Flattened(b)[Len(b)]
  BY <1>1, Zenon DEF FlattenSeq, Flattened
<1>10. ASSUME NEW i \in 2 .. Len(b) PROVE Flattened(b)[i] = Flattened(b)[i - 1] \o b[i]
  <2>1. i \in 1 .. Len(b) /\ i # 1
    BY <1>1
  <2> HIDE DEF step, S
  <2> QED
    BY <1>7, <2>1
<1>11. Flattened(b)[1] = b[1]
  BY <1>1, <1>7
<1>12. Flattened(b) \in [1 .. Len(b) -> S]
  <2>1. DOMAIN Flattened(b) = 1 .. Len(b)
    BY <1>7
  <2>2. \A i \in 1 .. Len(b) : Flattened(b)[i] \in S
    BY <1>6, <1>8
  <2>3. Flattened(b) = [i \in 1 .. Len(b) |-> Flattened(b)[i]]
    BY <1>7
  <2> QED
    BY <2>2, <2>3
<1> QED
  BY <1>9, <1>10, <1>11, <1>12

LEMMA FlattenEmpty == FlattenSeq(<<>>) = <<>>
BY DEF FlattenSeq

LEMMA FlattenType == ASSUME NEW T, NEW b \in Seq(Seq(T)) PROVE FlattenSeq(b) \in Seq(T)
<1>1. CASE b = <<>>
  <2>1. FlattenSeq(b) = <<>>
    BY <1>1, FlattenEmpty
  <2>2. <<>> \in Seq(T)
    OBVIOUS
  <2> QED
    BY <2>1, <2>2
<1>2. CASE b # <<>>
  <2>1. Len(b) \in 1 .. Len(b)
    BY <1>2
  <2>2. FlattenSeq(b) = Flattened(b)[Len(b)] /\ Flattened(b) \in [1 .. Len(b) -> Seq(T)]
    BY <1>2, FlattenRecursion
  <2> QED
    BY <2>1, <2>2
<1> QED
  BY <1>1, <1>2

LEMMA FlattenAppend ==
  ASSUME NEW T, NEW b \in Seq(Seq(T)), NEW x \in Seq(T)
  PROVE  FlattenSeq(Append(b, x)) = FlattenSeq(b) \o x
<1> DEFINE c == Append(b, x)
           n == Len(b)
<1>1. /\ c \in Seq(Seq(T)) /\ c # <<>> /\ Len(c) = n + 1 /\ c[n + 1] = x /\ n \in Nat
      /\ \A i \in 1 .. n : c[i] = b[i]
  BY AppendProperties
<1>2. Len(b) = n
  OBVIOUS
<1> HIDE DEF c, n
<1>3. /\ FlattenSeq(c) = Flattened(c)[n + 1]
      /\ Flattened(c)[1] = c[1]
      /\ \A i \in 2 .. n + 1 : Flattened(c)[i] = Flattened(c)[i - 1] \o c[i]
  BY <1>1, FlattenRecursion
<1>4. CASE b = <<>>
  <2>1. n = 0 /\ FlattenSeq(b) = <<>> /\ <<>> \o x = x
    BY <1>2, <1>4, FlattenEmpty
  <2> QED
    BY <1>1, <1>3, <2>1 DEF c
<1>5. CASE b # <<>>
  <2> DEFINE S == {i \in Nat : i + 1 <= n => Flattened(c)[i + 1] = Flattened(b)[i + 1]}
  <2>1. /\ FlattenSeq(b) = Flattened(b)[n]
        /\ Flattened(b)[1] = b[1]
        /\ \A i \in 2 .. n : Flattened(b)[i] = Flattened(b)[i - 1] \o b[i]
        /\ n > 0
    <3>1. n # 0
      BY <1>2, <1>5, EmptySeq
    <3>2. /\ FlattenSeq(b) = Flattened(b)[Len(b)]
          /\ Flattened(b)[1] = b[1]
          /\ \A i \in 2 .. Len(b) : Flattened(b)[i] = Flattened(b)[i - 1] \o b[i]
      BY <1>5, FlattenRecursion
    <3>3. n > 0
      BY <1>1, <3>1
    <3> QED
      BY <1>2, <3>2, <3>3, Zenon
  <2>2. 0 \in S
    BY <1>1, <1>3, <2>1
  <2>3. ASSUME NEW i \in Nat, i \in S PROVE i + 1 \in S
    <3> SUFFICES ASSUME (i + 1) + 1 <= n PROVE Flattened(c)[(i + 1) + 1] = Flattened(b)[(i + 1) + 1]
      OBVIOUS
    <3>1. (i + 1) + 1 \in 2 .. n /\ (i + 1) + 1 \in 2 .. n + 1 /\ ((i + 1) + 1) - 1 = i + 1 /\ i + 1 <= n
      BY <1>1
    <3>2. Flattened(c)[(i + 1) + 1] = Flattened(c)[i + 1] \o c[(i + 1) + 1]
      BY <1>3, <3>1
    <3>3. Flattened(b)[(i + 1) + 1] = Flattened(b)[i + 1] \o b[(i + 1) + 1]
      BY <2>1, <3>1
    <3>4. c[(i + 1) + 1] = b[(i + 1) + 1]
      BY <1>1, <3>1
    <3> QED
      BY <2>3, <3>1, <3>2, <3>3, <3>4
  <2>4. Nat \subseteq S
    <3> HIDE DEF S
    <3> QED
      BY <2>2, <2>3, Induction
  <2>5. Flattened(c)[n] = Flattened(b)[n]
    <3>1. n - 1 \in Nat /\ (n - 1) + 1 = n
      BY <1>1, <2>1
    <3> QED
      BY <2>4, <3>1
  <2>6. Flattened(c)[n + 1] = Flattened(c)[n] \o x
    <3>1. n + 1 \in 2 .. n + 1 /\ (n + 1) - 1 = n
      BY <1>1, <2>1
    <3> QED
      BY <1>1, <1>3, <3>1
  <2> QED
    BY <1>3, <2>1, <2>5, <2>6 DEF c
<1> QED
  BY <1>4, <1>5

LEMMA FlattenConcat ==
  ASSUME NEW T, NEW b \in Seq(Seq(T)), NEW c \in Seq(Seq(T))
  PROVE  FlattenSeq(b \o c) = FlattenSeq(b) \o FlattenSeq(c)
<1> DEFINE Joins(d) == FlattenSeq(b \o d) = FlattenSeq(b) \o FlattenSeq(d)
           S == {n \in Nat : \A d \in Seq(Seq(T)) : Len(d) = n => Joins(d)}
<1>1. 0 \in S
  <2> SUFFICES ASSUME NEW d \in Seq(Seq(T)), Len(d) = 0 PROVE Joins(d)
    OBVIOUS
  <2>1. d = <<>> /\ b \o <<>> = b
    BY EmptySeq
  <2>2. FlattenSeq(b) \in Seq(T)
    BY FlattenType
  <2>3. FlattenSeq(b) \o <<>> = FlattenSeq(b)
    BY <2>2
  <2> QED
    BY <2>1, <2>3, FlattenEmpty
<1>2. ASSUME NEW n \in Nat, n \in S PROVE n + 1 \in S
  <2> SUFFICES ASSUME NEW d \in Seq(Seq(T)), Len(d) = n + 1 PROVE Joins(d)
    OBVIOUS
  <2> DEFINE front == SubSeq(d, 1, n)
             x == d[n + 1]
  <2>1. front \in Seq(Seq(T)) /\ Len(front) = n /\ x \in Seq(T) /\ d = Append(front, x)
    OBVIOUS
  <2> HIDE DEF front, x
  <2>2. b \o d = Append(b \o front, x) /\ b \o front \in Seq(Seq(T))
    BY <2>1
  <2>3. FlattenSeq(b \o d) = FlattenSeq(b \o front) \o x
    BY <2>1, <2>2, FlattenAppend
  <2>4. FlattenSeq(d) = FlattenSeq(front) \o x
    BY <2>1, FlattenAppend
  <2>5. FlattenSeq(b \o front) = FlattenSeq(b) \o FlattenSeq(front)
    BY <1>2, <2>1
  <2>6. FlattenSeq(b) \in Seq(T) /\ FlattenSeq(front) \in Seq(T)
    BY <2>1, FlattenType
  <2>7. (FlattenSeq(b) \o FlattenSeq(front)) \o x = FlattenSeq(b) \o (FlattenSeq(front) \o x)
    BY <2>1, <2>6, SMTT(30)
  <2> QED
    BY <2>3, <2>4, <2>5, <2>7
<1>3. Nat \subseteq S
  <2> HIDE DEF S
  <2> QED
    BY <1>1, <1>2, Induction
<1> QED
  BY <1>3

LEMMA FlattenOne ==
  ASSUME NEW T, NEW x \in Seq(T), NEW c \in Seq(Seq(T))
  PROVE  FlattenSeq(<<x>>) = x /\ FlattenSeq(<<x>> \o c) = x \o FlattenSeq(c)
<1>1. <<>> \in Seq(Seq(T)) /\ <<x>> = Append(<<>>, x) /\ <<x>> \in Seq(Seq(T)) /\ <<>> \o x = x
  OBVIOUS
<1>2. FlattenSeq(<<x>>) = x
  BY <1>1, FlattenAppend, FlattenEmpty
<1> QED
  BY <1>1, <1>2, FlattenConcat
=============================================================================
