------------------------------ MODULE RunLemmas ------------------------------
(***************************************************************************)
(* What the proofs about both runs rest on: what each call of a sink does  *)
(* to it, what Decode of EscArchive computes, and what the operators of    *)
(* EscFormat do: a number read is the number written, a header is read as  *)
(* it was written, and its CRC tells it from one in which a few            *)
(* neighbouring bytes differ.                                              *)
(*                                                                         *)
(* Decode and the CRC are recursive functions, so they take inductions.    *)
(***************************************************************************)
EXTENDS Sinks, EscArchive, EscFormat, NatLemmas

(* A sink to which items were written. *)
SinkOf(Item) ==
  [kind : Kinds, open : BOOLEAN, staged : Seq(Item), bytes : Nat, out : Seq(Item)]

(* What a run has written so far: a sink that does not stage publishes it. *)
WrittenTo(s) == IF IsTransactional(s) THEN s.staged ELSE s.out

(* The sink of a run that is over, or not begun. *)
AtRest(s) == ~s.open /\ (IsTransactional(s) => s.staged = <<>>)

LEMMA NewSinkIs ==
  ASSUME NEW Item, Earlier \in Item, NEW k \in Kinds
  PROVE  /\ NewSink(k) \in SinkOf(Item)
         /\ AtRest(NewSink(k))
         /\ IsTransactional(NewSink(k)) => NewSink(k).out = <<Earlier>>
         /\ ~IsTransactional(NewSink(k)) => NewSink(k).out = <<>>
BY DEF NewSink, SinkOf, AtRest, IsTransactional

LEMMA OpenSinkIs ==
  ASSUME NEW Item, NEW s \in SinkOf(Item)
  PROVE  /\ OpenSink(s) \in SinkOf(Item)
         /\ OpenSink(s).kind = s.kind /\ OpenSink(s).out = s.out
         /\ OpenSink(s).open /\ OpenSink(s).staged = <<>> /\ OpenSink(s).bytes = 0
<1>1. <<>> \in Seq(Item)
  OBVIOUS
<1> QED
  BY <1>1 DEF OpenSink, SinkOf

LEMMA WriteSinkIs ==
  ASSUME NEW Item, NEW s \in SinkOf(Item), NEW item \in Item, NEW size \in Nat
  PROVE  /\ WriteSink(s, item, size) \in SinkOf(Item)
         /\ WriteSink(s, item, size).kind = s.kind
         /\ WriteSink(s, item, size).open = s.open
         /\ WriteSink(s, item, size).bytes = s.bytes + size
         /\ WrittenTo(WriteSink(s, item, size)) = Append(WrittenTo(s), item)
         /\ IsTransactional(s) => WriteSink(s, item, size).out = s.out
<1> DEFINE n == s.bytes + size
           t == Append(WrittenTo(s), item)
<1>1. n \in Nat /\ WrittenTo(s) \in Seq(Item)
  BY DEF SinkOf, WrittenTo
<1>2. t \in Seq(Item)
  BY <1>1
<1>3. WriteSink(s, item, size) =
        IF s.kind = "print" THEN [s EXCEPT !.out = t, !.bytes = n]
                            ELSE [s EXCEPT !.staged = t, !.bytes = n]
  BY DEF WriteSink, WrittenTo, IsTransactional
<1> HIDE DEF n, t
<1>4. CASE s.kind = "print"
  <2>1. WriteSink(s, item, size) = [s EXCEPT !.out = t, !.bytes = n]
    BY <1>3, <1>4
  <2> QED
    BY <1>1, <1>2, <1>4, <2>1 DEF n, t, SinkOf, WrittenTo, IsTransactional
<1>5. CASE s.kind # "print"
  <2>1. WriteSink(s, item, size) = [s EXCEPT !.staged = t, !.bytes = n]
    BY <1>3, <1>5
  <2> QED
    BY <1>1, <1>2, <1>5, <2>1 DEF n, t, SinkOf, WrittenTo, IsTransactional
<1> QED
  BY <1>4, <1>5

LEMMA FailWriteIs ==
  ASSUME NEW Item, Cut \in Item, NEW s \in SinkOf(Item), NEW t \in FailWrite(s)
  PROVE  /\ t \in SinkOf(Item)
         /\ t.kind = s.kind
         /\ IsTransactional(s) => t.out = s.out
<1> DEFINE u == Append(s.out, Cut)
<1>1. u \in Seq(Item)
  BY DEF SinkOf
<1>2. t = s \/ (s.kind = "print" /\ t = [s EXCEPT !.out = u])
  BY DEF FailWrite
<1> HIDE DEF u
<1> QED
  BY <1>1, <1>2 DEF SinkOf, IsTransactional

LEMMA CommitSinkIs ==
  ASSUME NEW Item, NEW s \in SinkOf(Item)
  PROVE  /\ CommitSink(s) \in SinkOf(Item)
         /\ CommitSink(s).kind = s.kind
         /\ IsTransactional(s) => CommitSink(s).staged = <<>>
         /\ CommitSink(s).out = WrittenTo(s) \/ (s.kind = "fixed" /\ s.bytes = 0)
<1>1. <<>> \in Seq(Item) /\ s.staged \in Seq(Item) /\ s.out \in Seq(Item)
  BY DEF SinkOf
<1>2. CASE s.kind = "print"
  <2>1. CommitSink(s) = s
    BY <1>2 DEF CommitSink
  <2> QED
    BY <1>2, <2>1 DEF SinkOf, WrittenTo, IsTransactional
<1>3. ASSUME NEW u \in Seq(Item), NEW n \in Nat, u = s.staged \/ (s.kind = "fixed" /\ s.bytes = 0),
             s.kind # "print", CommitSink(s) = [s EXCEPT !.out = u, !.staged = <<>>, !.bytes = n]
      PROVE  /\ CommitSink(s) \in SinkOf(Item)
             /\ CommitSink(s).kind = s.kind
             /\ CommitSink(s).staged = <<>>
             /\ CommitSink(s).out = WrittenTo(s) \/ (s.kind = "fixed" /\ s.bytes = 0)
  BY <1>1, <1>3 DEF SinkOf, WrittenTo, IsTransactional
<1>4. CASE s.kind = "file"
  <2>1. CommitSink(s) = [s EXCEPT !.out = s.staged, !.staged = <<>>]
    BY <1>4 DEF CommitSink
  <2> QED
    BY <1>1, <1>4, <2>1 DEF SinkOf, WrittenTo, IsTransactional
<1>5. CASE s.kind = "dynamic"
  <2>1. CommitSink(s) = [s EXCEPT !.out = s.staged, !.staged = <<>>, !.bytes = 0]
    BY <1>5 DEF CommitSink
  <2> QED
    BY <1>1, <1>3, <1>5, <2>1
<1>6. CASE s.kind = "fixed"
  <2> DEFINE u == IF s.bytes = 0 THEN s.out ELSE s.staged
  <2>1. CommitSink(s) = [s EXCEPT !.out = u, !.staged = <<>>, !.bytes = 0]
    BY <1>6 DEF CommitSink
  <2>2. u \in Seq(Item) /\ (u = s.staged \/ s.bytes = 0)
    BY <1>1
  <2> HIDE DEF u
  <2> QED
    BY <1>3, <1>6, <2>1, <2>2
<1> QED
  BY <1>2, <1>4, <1>5, <1>6 DEF SinkOf, Kinds

(* ~ScopedIoSession leaves nothing of a run that was not committed.        *)
LEMMA EndSessionIs ==
  ASSUME NEW Item, NEW s \in SinkOf(Item), NEW opened \in BOOLEAN, NEW committed \in BOOLEAN,
         (opened /\ ~committed) \/ (IsTransactional(s) => s.staged = <<>>)
  PROVE  /\ EndSession(s, opened, committed) \in SinkOf(Item)
         /\ EndSession(s, opened, committed).kind = s.kind
         /\ EndSession(s, opened, committed).out = s.out
         /\ AtRest(EndSession(s, opened, committed))
<1> DEFINE t == IF opened /\ ~committed THEN AbortSink(s) ELSE s
<1>1. /\ AbortSink(s) \in SinkOf(Item) /\ AbortSink(s).kind = s.kind /\ AbortSink(s).out = s.out
      /\ IsTransactional(s) => AbortSink(s).staged = <<>>
  <2>1. <<>> \in Seq(Item)
    OBVIOUS
  <2>2. CASE s.kind = "print"
    BY <2>2 DEF AbortSink, SinkOf, IsTransactional
  <2>3. CASE s.kind = "file"
    <3>1. AbortSink(s) = [s EXCEPT !.staged = <<>>]
      BY <2>3 DEF AbortSink
    <3> QED
      BY <2>1, <3>1 DEF SinkOf
  <2>4. CASE s.kind \notin {"print", "file"}
    <3> DEFINE r == [s EXCEPT !.staged = <<>>, !.bytes = 0]
    <3>1. AbortSink(s) = r
      BY <2>4 DEF AbortSink
    <3>2. r \in SinkOf(Item) /\ r.kind = s.kind /\ r.out = s.out /\ r.staged = <<>>
      BY <2>1 DEF SinkOf
    <3> HIDE DEF r
    <3> QED
      BY <3>1, <3>2
  <2> QED
    BY <2>2, <2>3, <2>4
<1>2. EndSession(s, opened, committed) = [t EXCEPT !.open = FALSE]
  BY DEF EndSession, CloseSink
<1>3. t \in SinkOf(Item) /\ t.kind = s.kind /\ t.out = s.out /\ (IsTransactional(s) => t.staged = <<>>)
  BY <1>1
<1> QED
  <2> HIDE DEF t
  <2> QED
    BY <1>1, <1>2, <1>3 DEF SinkOf, AtRest, IsTransactional

-----------------------------------------------------------------------------
(* The right-hand side of the recursion of Meaning.                        *)
MeaningStep(a, f, i) ==
  IF ~WholeBlock(a, i) THEN Corrupt
  ELSE IF a[i].final THEN [error |-> "Ok", output |-> BlockOutput(a, i)]
  ELSE [error  |-> f[NextBlock(a, i)].error,
        output |-> BlockOutput(a, i) \o f[NextBlock(a, i)].output]

(* A block is followed by what comes after it: two functions that agree    *)
(* from there on have the same step.                                       *)
LEMMA StepLooksAhead ==
  ASSUME NEW a, Len(a) \in Nat, NEW i \in 2 .. Len(a) + 1, NEW f, NEW g,
         \A j \in i + 1 .. Len(a) + 1 : f[j] = g[j]
  PROVE  MeaningStep(a, f, i) = MeaningStep(a, g, i)
<1>1. CASE ~WholeBlock(a, i)
  BY <1>1 DEF MeaningStep
<1>2. CASE WholeBlock(a, i)
  <2>1. NextBlock(a, i) \in i + 1 .. Len(a) + 1
    BY <1>2 DEF WholeBlock, NextBlock
  <2>2. f[NextBlock(a, i)] = g[NextBlock(a, i)]
    BY <2>1
  <2> QED
    BY <2>2 DEF MeaningStep
<1> QED
  BY <1>1, <1>2

(* There is a function as Meaning describes it, and so it is one.          *)
LEMMA MeaningRecursion ==
  ASSUME NEW a, Len(a) \in Nat
  PROVE  \A i \in 2 .. Len(a) + 1 : Meaning(a)[i] = MeaningStep(a, Meaning(a), i)
<1> DEFINE From(k)   == {i \in 2 .. Len(a) + 1 : i + k >= Len(a) + 1}
           Reaches(k) == \E f : f = [i \in From(k) |-> MeaningStep(a, f, i)]
           Covered   == {k \in Nat : Reaches(k)}
<1>1. 0 \in Covered
  <2> DEFINE e == [i \in {} |-> 0]
             f == [i \in From(0) |-> MeaningStep(a, e, i)]
  <2>1. ASSUME NEW i \in From(0) PROVE MeaningStep(a, e, i) = MeaningStep(a, f, i)
    <3>1. i \in 2 .. Len(a) + 1 /\ \A j \in i + 1 .. Len(a) + 1 : e[j] = f[j]
      OBVIOUS
    <3> QED
      BY <3>1, StepLooksAhead
  <2>2. f = [i \in From(0) |-> MeaningStep(a, f, i)]
    <3> HIDE DEF From
    <3> QED
      BY <2>1
  <2> QED
    BY <2>2
<1>2. ASSUME NEW k \in Nat, k \in Covered PROVE k + 1 \in Covered
  <2>1. PICK f : f = [i \in From(k) |-> MeaningStep(a, f, i)]
    BY <1>2
  <2> DEFINE g == [i \in From(k + 1) |-> MeaningStep(a, f, i)]
  <2>2. From(k) \subseteq From(k + 1)
    OBVIOUS
  <2>3. \A i \in From(k) : f[i] = g[i]
    BY <2>1, <2>2
  <2>4. ASSUME NEW i \in From(k + 1) PROVE MeaningStep(a, f, i) = MeaningStep(a, g, i)
    <3>1. i \in 2 .. Len(a) + 1 /\ i + 1 .. Len(a) + 1 \subseteq From(k)
      OBVIOUS
    <3>2. \A j \in i + 1 .. Len(a) + 1 : f[j] = g[j]
      BY <2>3, <3>1
    <3> QED
      BY <3>1, <3>2, StepLooksAhead
  <2>5. g = [i \in From(k + 1) |-> MeaningStep(a, g, i)]
    <3> HIDE DEF From
    <3> QED
      BY <2>4
  <2>6. Reaches(k + 1)
    <3> HIDE DEF From, g
    <3> QED
      BY <2>5
  <2> HIDE DEF Reaches
  <2> QED
    BY <2>6
<1>3. Reaches(Len(a))
  <2> HIDE DEF Reaches
  <2>1. Nat \subseteq Covered
    BY <1>1, <1>2, Induction
  <2> QED
    BY <2>1
<1>4. From(Len(a)) = 2 .. Len(a) + 1
  OBVIOUS
<1>5. \E f : f = [i \in 2 .. Len(a) + 1 |-> MeaningStep(a, f, i)]
  BY <1>3, <1>4
<1>6. Meaning(a) = [i \in 2 .. Len(a) + 1 |-> MeaningStep(a, Meaning(a), i)]
  BY <1>5, Zenon DEF Meaning, MeaningStep
<1> QED
  BY <1>6

-----------------------------------------------------------------------------
(* Of two archives that end alike the ends mean the same: b[i] stands in a *)
(* at i + d.                                                               *)
EndsAlike(a, b, d) ==
  /\ Len(a) \in Nat /\ Len(b) \in Nat /\ d \in Nat /\ Len(a) = Len(b) + d
  /\ a[1] = b[1]
  /\ \A i \in 2 .. Len(b) : a[i + d] = b[i]

LEMMA SameBlock ==
  ASSUME NEW a, NEW b, NEW d, EndsAlike(a, b, d), NEW i \in 2 .. Len(b) + 1
  PROVE  /\ WholeBlock(a, i + d) <=> WholeBlock(b, i)
         /\ WholeBlock(b, i) => /\ a[i + d] = b[i]
                               /\ BlockOutput(a, i + d) = BlockOutput(b, i)
                               /\ NextBlock(a, i + d) = NextBlock(b, i) + d
                               /\ NextBlock(b, i) \in i + 1 .. Len(b) + 1
<1>1. Len(a) \in Nat /\ Len(b) \in Nat /\ d \in Nat /\ Len(a) = Len(b) + d /\ a[1] = b[1]
  BY DEF EndsAlike
<1>2. CASE i = Len(b) + 1
  BY <1>1, <1>2 DEF WholeBlock
<1>3. CASE i \in 2 .. Len(b)
  <2>1. a[i + d] = b[i]
    BY <1>3 DEF EndsAlike
  <2>2. NextBlock(a, i + d) = NextBlock(b, i) + d /\ NextBlock(b, i) \in {i + 1, i + 2}
    BY <1>1, <2>1 DEF NextBlock
  <2>3. ASSUME NextBlock(b, i) <= Len(b) + 1 PROVE BlockOutput(a, i + d) = BlockOutput(b, i)
    <3>1. CASE b[i].stored = 0
      BY <2>1, <3>1 DEF BlockOutput
    <3>2. CASE b[i].stored # 0
      <4>1. i + 1 \in 2 .. Len(b) /\ (i + d) + 1 = (i + 1) + d
        BY <1>1, <2>3, <3>2 DEF NextBlock
      <4>2. a[(i + 1) + d] = b[i + 1]
        BY <4>1 DEF EndsAlike
      <4> QED
        BY <2>1, <3>2, <4>1, <4>2 DEF BlockOutput
    <3> QED
      BY <3>1, <3>2
  <2>4. i + d <= Len(a) /\ i <= Len(b)
    BY <1>1, <1>3
  <2>5. NextBlock(a, i + d) <= Len(a) + 1 <=> NextBlock(b, i) <= Len(b) + 1
    BY <1>1, <1>3, <2>2
  <2>6. WholeBlock(a, i + d) <=> WholeBlock(b, i)
    BY <1>1, <2>1, <2>3, <2>4, <2>5, Zenon DEF WholeBlock
  <2>7. WholeBlock(b, i) => NextBlock(b, i) <= Len(b) + 1
    BY DEF WholeBlock
  <2> QED
    BY <1>1, <1>3, <2>1, <2>2, <2>3, <2>6, <2>7
<1> QED
  BY <1>1, <1>2, <1>3

LEMMA SameMeaning ==
  ASSUME NEW a, NEW b, NEW d, EndsAlike(a, b, d), NEW n \in 2 .. Len(b) + 1
  PROVE  Meaning(a)[n + d] = Meaning(b)[n]
<1> DEFINE M == Meaning(a)
           N == Meaning(b)
           S == {k \in Nat : \A i \in 2 .. Len(b) + 1 : i + k >= Len(b) + 1 => M[i + d] = N[i]}
<1>1. Len(a) \in Nat /\ Len(b) \in Nat /\ d \in Nat /\ Len(a) = Len(b) + d
  BY DEF EndsAlike
<1>2. ASSUME NEW i \in 2 .. Len(b) + 1 PROVE M[i + d] = MeaningStep(a, M, i + d) /\ N[i] = MeaningStep(b, N, i)
  <2>1. i + d \in 2 .. Len(a) + 1
    BY <1>1
  <2> QED
    BY <1>1, <2>1, MeaningRecursion
<1> HIDE DEF M, N
<1>3. ASSUME NEW i \in 2 .. Len(b) + 1, WholeBlock(b, i) => M[NextBlock(b, i) + d] = N[NextBlock(b, i)]
      PROVE  M[i + d] = N[i]
  <2>1. CASE ~WholeBlock(b, i)
    <3>1. ~WholeBlock(a, i + d)
      BY <2>1, SameBlock
    <3> QED
      BY <1>2, <2>1, <3>1, Zenon DEF MeaningStep
  <2>2. CASE WholeBlock(b, i)
    <3>1. /\ WholeBlock(a, i + d) /\ a[i + d] = b[i] /\ BlockOutput(a, i + d) = BlockOutput(b, i)
          /\ NextBlock(a, i + d) = NextBlock(b, i) + d
      BY <2>2, SameBlock
    <3> QED
      BY <1>2, <1>3, <2>2, <3>1, Zenon DEF MeaningStep
  <2> QED
    BY <2>1, <2>2
<1>4. 0 \in S
  <2> SUFFICES ASSUME NEW i \in 2 .. Len(b) + 1, i + 0 >= Len(b) + 1 PROVE M[i + d] = N[i]
    OBVIOUS
  <2>1. ~WholeBlock(b, i)
    BY <1>1 DEF WholeBlock
  <2> QED
    BY <1>3, <2>1
<1>5. ASSUME NEW k \in Nat, k \in S PROVE k + 1 \in S
  <2> SUFFICES ASSUME NEW i \in 2 .. Len(b) + 1, i + (k + 1) >= Len(b) + 1 PROVE M[i + d] = N[i]
    OBVIOUS
  <2>1. ASSUME WholeBlock(b, i) PROVE M[NextBlock(b, i) + d] = N[NextBlock(b, i)]
    <3> DEFINE j == NextBlock(b, i)
    <3>1. j \in i + 1 .. Len(b) + 1
      BY <2>1, SameBlock
    <3> HIDE DEF j
    <3>2. j \in 2 .. Len(b) + 1 /\ j + k >= Len(b) + 1
      BY <1>1, <3>1
    <3>3. M[j + d] = N[j]
      BY <1>5, <3>2
    <3> QED
      BY <3>3 DEF j
  <2> QED
    BY <1>3, <2>1
<1>6. Len(b) \in S
  <2>1. Nat \subseteq S
    <3> HIDE DEF S
    <3> QED
      BY <1>4, <1>5, Induction
  <2> QED
    BY <1>1, <2>1
<1> QED
  BY <1>1, <1>6 DEF M, N

-----------------------------------------------------------------------------
(* What the records x mean behind the header h. *)
Rest(h, x) == Meaning(<<h>> \o x)[2]

(* The block b, which stores nothing, comes first. *)
StoresNothing(h, b, x) ==
  IF ~(InBounds(h, b) /\ Intact(b, <<>>)) THEN Corrupt
  ELSE IF b.final THEN [error |-> "Ok", output |-> <<>>]
  ELSE [error |-> Rest(h, x).error, output |-> <<>> \o Rest(h, x).output]

(* The block b and its payload come first. *)
StoresBytes(h, b, bytes, x) ==
  IF ~(InBounds(h, b) /\ Intact(b, bytes)) THEN Corrupt
  ELSE IF b.final THEN [error |-> "Ok", output |-> bytes]
  ELSE [error |-> Rest(h, x).error, output |-> bytes \o Rest(h, x).output]

LEMMA RestIs ==
  ASSUME NEW T, NEW h \in T, NEW x \in Seq(T)
  PROVE  LET a == <<h>> \o x
         IN /\ Len(a) = Len(x) + 1 /\ Len(a) \in Nat /\ Len(x) \in Nat /\ a[1] = h
            /\ \A i \in 1 .. Len(x) : a[i + 1] = x[i]
            /\ Rest(h, x) = MeaningStep(a, Meaning(a), 2)
<1> DEFINE a == <<h>> \o x
<1>1. <<h>> \in Seq(T) /\ Len(<<h>>) = 1 /\ Len(x) \in Nat
  OBVIOUS
<1>2. /\ Len(a) = Len(x) + 1 /\ a[1] = h
      /\ \A i \in 1 .. Len(x) : a[i + 1] = x[i]
  BY <1>1, ConcatProperties
<1> HIDE DEF a
<1>3. Len(a) \in Nat /\ 2 \in 2 .. Len(a) + 1
  BY <1>1, <1>2
<1>4. Meaning(a)[2] = MeaningStep(a, Meaning(a), 2)
  BY <1>3, MeaningRecursion
<1> QED
  BY <1>1, <1>2, <1>3, <1>4 DEF Rest, a

LEMMA RestOfNothing == ASSUME NEW T, NEW h \in T PROVE Rest(h, <<>>) = Corrupt
<1> DEFINE x == <<>>
           a == <<h>> \o x
<1>1. x \in Seq(T) /\ Len(x) = 0
  OBVIOUS
<1>2. Len(a) = 1 /\ Rest(h, x) = MeaningStep(a, Meaning(a), 2)
  <2> HIDE DEF x
  <2>1. /\ Len(a) = Len(x) + 1
        /\ Rest(h, x) = MeaningStep(a, Meaning(a), 2)
    BY <1>1, RestIs
  <2> QED
    BY <1>1, <2>1
<1>3. ~WholeBlock(a, 2)
  <2> HIDE DEF a
  <2> QED
    BY <1>2 DEF WholeBlock
<1> QED
  BY <1>2, <1>3 DEF MeaningStep

LEMMA RestOfPayload ==
  ASSUME NEW T, NEW h \in T, NEW b \in T, NEW p \in T, NEW x \in Seq(T), b.stored # 0
  PROVE  Rest(h, <<b, p>> \o x) = StoresBytes(h, b, p.bytes, x)
<1> DEFINE y == <<b, p>> \o x
           a == <<h>> \o y
           c == <<h>> \o x
<1>1. <<b, p>> \in Seq(T) /\ Len(<<b, p>>) = 2 /\ Len(x) \in Nat
  OBVIOUS
<1>2. /\ y \in Seq(T) /\ Len(y) = Len(x) + 2 /\ y[1] = b /\ y[2] = p
      /\ \A i \in 1 .. Len(x) : y[i + 2] = x[i]
  BY <1>1, ConcatProperties
<1> HIDE DEF y
<1>3. /\ Len(a) = Len(y) + 1 /\ a[1] = h
      /\ \A i \in 1 .. Len(y) : a[i + 1] = y[i]
      /\ Rest(h, y) = MeaningStep(a, Meaning(a), 2)
  BY <1>2, RestIs
<1>4. /\ Len(c) = Len(x) + 1 /\ c[1] = h
      /\ \A i \in 1 .. Len(x) : c[i + 1] = x[i]
  BY RestIs
<1> HIDE DEF a, c
<1>5. Len(a) = Len(x) + 3 /\ a[2] = b /\ a[3] = p
  BY <1>1, <1>2, <1>3
<1>6. EndsAlike(a, c, 2)
  <2>1. ASSUME NEW i \in 2 .. Len(c) PROVE a[i + 2] = c[i]
    <3>1. i - 1 \in 1 .. Len(x) /\ i + 1 \in 1 .. Len(y) /\ (i - 1) + 1 = i /\ (i - 1) + 2 = i + 1
          /\ (i + 1) + 1 = i + 2
      BY <1>1, <1>2, <1>4
    <3>2. a[(i + 1) + 1] = y[(i - 1) + 2] /\ c[(i - 1) + 1] = x[i - 1] /\ y[(i - 1) + 2] = x[i - 1]
      BY <1>2, <1>3, <1>4, <3>1
    <3> QED
      BY <3>1, <3>2
  <2> QED
    BY <1>1, <1>3, <1>4, <1>5, <2>1 DEF EndsAlike
<1>7. Meaning(a)[4] = Rest(h, x)
  <2>1. 2 \in 2 .. Len(c) + 1 /\ 2 + 2 = 4
    BY <1>1, <1>4
  <2>2. Meaning(a)[2 + 2] = Meaning(c)[2]
    BY <1>6, <2>1, SameMeaning
  <2> QED
    BY <2>1, <2>2 DEF Rest, c
<1>8. NextBlock(a, 2) = 4 /\ BlockOutput(a, 2) = p.bytes
  BY <1>5 DEF NextBlock, BlockOutput
<1>9. WholeBlock(a, 2) <=> InBounds(h, b) /\ Intact(b, p.bytes)
  BY <1>1, <1>3, <1>5, <1>8 DEF WholeBlock
<1> QED
  BY <1>3, <1>5, <1>7, <1>8, <1>9, Zenon DEF MeaningStep, StoresBytes, y

LEMMA RestOfEmpty ==
  ASSUME NEW T, NEW h \in T, NEW b \in T, NEW x \in Seq(T), b.stored = 0
  PROVE  Rest(h, <<b>> \o x) = StoresNothing(h, b, x)
<1> DEFINE y == <<b>> \o x
           a == <<h>> \o y
           c == <<h>> \o x
<1>1. <<b>> \in Seq(T) /\ Len(<<b>>) = 1 /\ Len(x) \in Nat
  OBVIOUS
<1>2. /\ y \in Seq(T) /\ Len(y) = Len(x) + 1 /\ y[1] = b
      /\ \A i \in 1 .. Len(x) : y[i + 1] = x[i]
  BY <1>1, ConcatProperties
<1> HIDE DEF y
<1>3. /\ Len(a) = Len(y) + 1 /\ a[1] = h
      /\ \A i \in 1 .. Len(y) : a[i + 1] = y[i]
      /\ Rest(h, y) = MeaningStep(a, Meaning(a), 2)
  BY <1>2, RestIs
<1>4. /\ Len(c) = Len(x) + 1 /\ c[1] = h
      /\ \A i \in 1 .. Len(x) : c[i + 1] = x[i]
  BY RestIs
<1> HIDE DEF a, c
<1>5. Len(a) = Len(x) + 2 /\ a[2] = b
  BY <1>1, <1>2, <1>3
<1>6. EndsAlike(a, c, 1)
  <2>1. ASSUME NEW i \in 2 .. Len(c) PROVE a[i + 1] = c[i]
    <3>1. i - 1 \in 1 .. Len(x) /\ i \in 1 .. Len(y) /\ (i - 1) + 1 = i
      BY <1>1, <1>2, <1>4
    <3>2. a[i + 1] = y[(i - 1) + 1] /\ c[(i - 1) + 1] = x[i - 1] /\ y[(i - 1) + 1] = x[i - 1]
      BY <1>2, <1>3, <1>4, <3>1
    <3> QED
      BY <3>1, <3>2
  <2> QED
    BY <1>1, <1>3, <1>4, <1>5, <2>1 DEF EndsAlike
<1>7. Meaning(a)[3] = Rest(h, x)
  <2>1. 2 \in 2 .. Len(c) + 1 /\ 2 + 1 = 3
    BY <1>1, <1>4
  <2>2. Meaning(a)[2 + 1] = Meaning(c)[2]
    BY <1>6, <2>1, SameMeaning
  <2> QED
    BY <2>1, <2>2 DEF Rest, c
<1>8. NextBlock(a, 2) = 3 /\ BlockOutput(a, 2) = <<>>
  BY <1>5 DEF NextBlock, BlockOutput
<1>9. WholeBlock(a, 2) <=> InBounds(h, b) /\ Intact(b, <<>>)
  BY <1>1, <1>3, <1>5, <1>8 DEF WholeBlock
<1> QED
  BY <1>3, <1>5, <1>7, <1>8, <1>9, Zenon DEF MeaningStep, StoresNothing, y

(* The payload of the only block is missing. *)
LEMMA RestOfCut ==
  ASSUME NEW T, NEW h \in T, NEW b \in T, b.stored # 0
  PROVE  Rest(h, <<b>>) = Corrupt
<1> DEFINE x == <<b>>
           a == <<h>> \o x
<1>1. x \in Seq(T) /\ Len(x) = 1 /\ x[1] = b
  OBVIOUS
<1> HIDE DEF x
<1>2. /\ Len(a) = Len(x) + 1
      /\ \A i \in 1 .. Len(x) : a[i + 1] = x[i]
      /\ Rest(h, x) = MeaningStep(a, Meaning(a), 2)
  BY <1>1, RestIs
<1> HIDE DEF a
<1>3. Len(a) = 2 /\ a[2] = b
  BY <1>1, <1>2
<1>4. ~WholeBlock(a, 2)
  BY <1>3 DEF WholeBlock, NextBlock
<1> QED
  BY <1>2, <1>4 DEF MeaningStep, x

-----------------------------------------------------------------------------
(* The bits and the bytes of EscFormat.                                    *)
LEMMA WordIs ==
  ASSUME NEW n \in Nat, NEW w \in Words(n)
  PROVE  /\ w \in Seq({0, 1}) /\ Len(w) = n /\ DOMAIN w = 1 .. n
         /\ \A i \in 1 .. n : w[i] \in {0, 1}
BY DEF Words

(* The recursion inside Halves, and the bits it gives.                     *)
LEMMA HalvesAre ==
  ASSUME NEW n \in Nat, NEW width \in Nat
  PROVE  /\ Halves(n, width) \in [0 .. width -> Nat] /\ Halves(n, width)[0] = n
         /\ \A i \in 1 .. width : Halves(n, width)[i] = Halves(n, width)[i - 1] \div 2
<1> DEFINE S == Nat
           step == [i \in 1 .. width |-> [m \in S |-> m \div 2]]
           h == Halves(n, width)
<1>1. step \in StepFunctions(S, width) /\ n \in S
  <2>1. \A m \in S : m \div 2 \in S
    OBVIOUS
  <2> QED
    BY <2>1 DEF StepFunctions
<1>2. \A i \in 1 .. width, m \in S : step[i][m] = m \div 2
  OBVIOUS
<1> HIDE DEF step, S
<1>3. PICK f : Computes(f, S, width, n, step)
  BY <1>1, Recursion
<1>4. f = [i \in 0 .. width |-> IF i = 0 THEN n ELSE f[i - 1] \div 2]
  <2>1. \A i \in 1 .. width : i - 1 \in 0 .. width
    OBVIOUS
  <2>2. f \in [0 .. width -> S] /\ f[0] = n /\ \A i \in 1 .. width : f[i] = step[i][f[i - 1]]
    BY <1>3 DEF Computes
  <2>3. ASSUME NEW i \in 0 .. width PROVE f[i] = IF i = 0 THEN n ELSE f[i - 1] \div 2
    <3>1. CASE i = 0
      BY <2>2, <3>1
    <3>2. CASE i # 0
      <4>1. i \in 1 .. width
        BY <3>2
      <4>2. f[i - 1] \in S
        BY <2>1, <2>2, <4>1
      <4>3. f[i] = f[i - 1] \div 2
        BY <1>2, <2>2, <4>1, <4>2
      <4> QED
        BY <3>2, <4>3
    <3> QED
      BY <3>1, <3>2
  <2>4. f = [i \in 0 .. width |-> f[i]]
    BY <2>2, Zenon
  <2> QED
    BY <2>3, <2>4
<1>5. h = [i \in 0 .. width |-> IF i = 0 THEN n ELSE h[i - 1] \div 2]
  BY <1>4, Zenon DEF Halves
<1> HIDE DEF h
<1>6. /\ DOMAIN h = 0 .. width /\ h = [i \in 0 .. width |-> h[i]] /\ h[0] = n
      /\ \A i \in 1 .. width : h[i] = h[i - 1] \div 2
  <2>1. DOMAIN h = 0 .. width /\ h[0] = n /\ \A i \in 1 .. width : h[i] = h[i - 1] \div 2
    BY <1>5
  <2>2. h = [i \in DOMAIN h |-> h[i]]
    BY <1>5, Zenon
  <2> QED
    BY <2>1, <2>2
<1>7. Computes(h, S, width, n, step)
  BY <1>1, <1>2, <1>6, Computed
<1> QED
  BY <1>6, <1>7 DEF Computes, h, S

LEMMA BitsAre ==
  ASSUME NEW n \in Nat, NEW width \in Nat
  PROVE  Bits(n, width) \in Words(width)
<1>1. \A i \in 1 .. width : i - 1 \in 0 .. width
  OBVIOUS
<1>2. \A i \in 1 .. width : Halves(n, width)[i - 1] \in Nat
  BY <1>1, HalvesAre
<1> QED
  BY <1>2 DEF Bits, Words

LEMMA XorIs ==
  ASSUME NEW n \in Nat, NEW m \in Nat, NEW a \in Words(n), NEW b \in Words(m)
  PROVE  /\ Xor(a, b) \in Words(n)
         /\ \A i \in 1 .. n : Xor(a, b)[i] = IF i <= m THEN (a[i] + b[i]) % 2 ELSE a[i]
<1>1. \A i \in 1 .. n : Xor(a, b)[i] = IF i <= m THEN (a[i] + b[i]) % 2 ELSE a[i]
  BY DEF Words, Xor
<1>2. ASSUME NEW i \in 1 .. n PROVE Xor(a, b)[i] \in {0, 1}
  <2>1. a[i] \in {0, 1} /\ (i <= m => b[i] \in {0, 1})
    BY DEF Words
  <2> QED
    BY <1>1, <2>1
<1>3. Xor(a, b) = [i \in 1 .. n |-> Xor(a, b)[i]]
  BY DEF Xor, Words
<1> QED
  BY <1>1, <1>2, <1>3 DEF Words

LEMMA XorWords ==
  ASSUME NEW n \in Nat, NEW a \in Words(n), NEW b \in Words(n)
  PROVE  Xor(a, b) \in Words(n) /\ \A i \in 1 .. n : Xor(a, b)[i] = (a[i] + b[i]) % 2
BY XorIs

LEMMA PolynomialIs == Polynomial \in Words(32) /\ Polynomial[32] = 1
BY DEF Polynomial, Words

(* A bit that is shifted out.                                              *)
LEMMA AppendedIs ==
  ASSUME NEW n \in Nat, NEW a \in Words(n), n > 0
  PROVE  LET t == Append(Tail(a), 0)
         IN /\ t \in Words(n) /\ t[n] = 0
            /\ \A i \in 1 .. n : i < n => t[i] = a[i + 1]
<1> DEFINE S == {0, 1}
           m == Tail(a)
           t == Append(m, 0)
<1>1. a \in Seq(S) /\ Len(a) = n /\ 0 \in S
  BY WordIs
<1> HIDE DEF S
<1>2. a # <<>>
  BY <1>1, EmptySeq
<1>3. m \in Seq(S) /\ Len(m) = n - 1 /\ \A i \in 1 .. n - 1 : m[i] = a[i + 1]
  BY <1>1, <1>2, HeadTailProperties
<1> HIDE DEF m
<1>4. /\ t \in Seq(S) /\ Len(t) = Len(m) + 1 /\ t[Len(m) + 1] = 0
      /\ \A i \in 1 .. Len(m) : t[i] = m[i]
  BY <1>1, <1>3, AppendProperties
<1> HIDE DEF t
<1>5. t \in Seq(S) /\ Len(t) = n /\ t[n] = 0 /\ \A i \in 1 .. n : i < n => t[i] = a[i + 1]
  BY <1>3, <1>4
<1>6. t \in [1 .. n -> S]
  BY <1>5, LenProperties
<1> QED
  BY <1>5, <1>6 DEF Words, S, t, m

LEMMA ShiftOutIs ==
  ASSUME NEW a \in Words(32)
  PROVE  /\ ShiftOut(a) \in Words(32) /\ ShiftOut(a)[32] = a[1]
         /\ \A i \in 1 .. 31 : ShiftOut(a)[i] =
              IF a[1] = 1 THEN (a[i + 1] + Polynomial[i]) % 2 ELSE a[i + 1]
<1> DEFINE t == Append(Tail(a), 0)
<1>1. t \in Words(32) /\ t[32] = 0 /\ \A i \in 1 .. 31 : t[i] = a[i + 1]
  <2>1. t \in Words(32) /\ t[32] = 0 /\ \A i \in 1 .. 32 : i < 32 => t[i] = a[i + 1]
    <3>1. 32 \in Nat /\ 32 > 0
      OBVIOUS
    <3> QED
      BY <3>1, AppendedIs, Zenon
  <2> HIDE DEF t
  <2> QED
    BY <2>1
<1>2. a[1] \in {0, 1}
  BY WordIs
<1>3. ShiftOut(a) = IF a[1] = 1 THEN Xor(t, Polynomial) ELSE t
  BY DEF ShiftOut
<1> HIDE DEF t
<1>4. CASE a[1] = 1
  <2>1. /\ Xor(t, Polynomial) \in Words(32)
        /\ \A i \in 1 .. 32 : Xor(t, Polynomial)[i] = (t[i] + Polynomial[i]) % 2
    BY <1>1, PolynomialIs, XorWords
  <2> QED
    BY <1>1, <1>3, <1>4, <2>1, PolynomialIs
<1>5. CASE a[1] = 0
  BY <1>1, <1>3, <1>5
<1> QED
  BY <1>2, <1>4, <1>5

(* No two words become one.                                                *)
LEMMA ShiftOutInjective ==
  ASSUME NEW a \in Words(32), NEW b \in Words(32), ShiftOut(a) = ShiftOut(b)
  PROVE  a = b
<1>1. a[1] = b[1]
  BY ShiftOutIs
<1>2. ASSUME NEW i \in 1 .. 31 PROVE a[i + 1] = b[i + 1]
  <2>1. ShiftOut(a)[i] = IF a[1] = 1 THEN (a[i + 1] + Polynomial[i]) % 2 ELSE a[i + 1]
    BY ShiftOutIs
  <2>2. ShiftOut(b)[i] = IF a[1] = 1 THEN (b[i + 1] + Polynomial[i]) % 2 ELSE b[i + 1]
    BY <1>1, ShiftOutIs
  <2>3. a[i + 1] \in {0, 1} /\ b[i + 1] \in {0, 1} /\ Polynomial[i] \in {0, 1}
    BY PolynomialIs DEF Words
  <2> QED
    BY <2>1, <2>2, <2>3
<1>3. ASSUME NEW i \in 1 .. 32 PROVE a[i] = b[i]
  <2>1. i = 1 \/ (i - 1 \in 1 .. 31 /\ (i - 1) + 1 = i)
    OBVIOUS
  <2> QED
    BY <1>1, <1>2, <2>1
<1> QED
  BY <1>3 DEF Words

(* The recursion inside Turned.                                            *)
Turns(f, crc) ==
  /\ f \in [0 .. 8 -> Words(32)] /\ f[0] = crc
  /\ \A i \in 1 .. 8 : f[i] = ShiftOut(f[i - 1])

LEMMA TurnedIs ==
  ASSUME NEW crc \in Words(32)
  PROVE  \E f : Turns(f, crc) /\ Turned(crc) = f[8]
<1> DEFINE S == Words(32)
           n == ByteBits
           step == [i \in 1 .. n |-> [w \in S |-> ShiftOut(w)]]
           g == CHOOSE turn : turn = [i \in 0 .. n |-> IF i = 0 THEN crc ELSE ShiftOut(turn[i - 1])]
<1>1. step \in StepFunctions(S, n) /\ crc \in S /\ n \in Nat
  <2>1. \A w \in S : ShiftOut(w) \in S
    BY ShiftOutIs
  <2> QED
    BY <2>1 DEF StepFunctions, ByteBits
<1>2. \A i \in 1 .. n, w \in S : step[i][w] = ShiftOut(w)
  OBVIOUS
<1>3. Turned(crc) = g[n]
  BY Zenon DEF Turned
<1>4. n = 8
  BY DEF ByteBits
<1> HIDE DEF step, S, n
<1>5. PICK f : Computes(f, S, n, crc, step)
  BY <1>1, Recursion
<1>6. f = [i \in 0 .. n |-> IF i = 0 THEN crc ELSE ShiftOut(f[i - 1])]
  <2>1. ASSUME NEW i \in 0 .. n PROVE f[i] = IF i = 0 THEN crc ELSE ShiftOut(f[i - 1])
    <3>1. i = 0 \/ (i \in 1 .. n /\ i - 1 \in 0 .. n)
      BY <1>1
    <3> QED
      BY <1>2, <1>5, <3>1 DEF Computes
  <2> QED
    BY <1>5, <2>1 DEF Computes
<1>7. g = [i \in 0 .. n |-> IF i = 0 THEN crc ELSE ShiftOut(g[i - 1])]
  BY <1>6, Zenon
<1> HIDE DEF g
<1>8. DOMAIN g = 0 .. n /\ g[0] = crc /\ \A i \in 1 .. n : g[i] = ShiftOut(g[i - 1])
  BY <1>1, <1>7
<1>9. g = [i \in 0 .. n |-> g[i]]
  <2>1. g = [i \in DOMAIN g |-> g[i]]
    BY <1>7, Zenon
  <2> QED
    BY <1>8, <2>1
<1>10. Computes(g, S, n, crc, step)
  <2>1. \A i \in 1 .. n : g[i - 1] \in S => g[i] = step[i][g[i - 1]]
    BY <1>2, <1>8
  <2> QED
    BY <1>1, <1>8, <1>9, <2>1, Computed
<1>11. Turns(g, crc)
  BY <1>4, <1>8, <1>10 DEF Turns, Computes, S
<1> QED
  BY <1>3, <1>4, <1>11

LEMMA TurnedType == ASSUME NEW crc \in Words(32) PROVE Turned(crc) \in Words(32)
BY TurnedIs DEF Turns

LEMMA TurnedInjective ==
  ASSUME NEW a \in Words(32), NEW b \in Words(32), Turned(a) = Turned(b)
  PROVE  a = b
<1>1. PICK f : Turns(f, a) /\ Turned(a) = f[8]
  BY TurnedIs
<1>2. PICK g : Turns(g, b) /\ Turned(b) = g[8]
  BY TurnedIs
<1> DEFINE T == {j \in Nat : j <= 8 => f[8 - j] = g[8 - j]}
<1>3. 0 \in T
  <2>1. f[8] = g[8]
    BY <1>1, <1>2, Zenon
  <2>2. 8 - 0 = 8
    OBVIOUS
  <2> QED
    BY <2>1, <2>2
<1>4. ASSUME NEW j \in Nat, j \in T PROVE j + 1 \in T
  <2> SUFFICES ASSUME j + 1 <= 8 PROVE f[8 - (j + 1)] = g[8 - (j + 1)]
    OBVIOUS
  <2>1. 8 - j \in 1 .. 8 /\ (8 - j) - 1 = 8 - (j + 1) /\ 8 - (j + 1) \in 0 .. 8
    OBVIOUS
  <2>2. ShiftOut(f[8 - (j + 1)]) = f[8 - j] /\ ShiftOut(g[8 - (j + 1)]) = g[8 - j]
    BY <1>1, <1>2, <2>1 DEF Turns
  <2>3. f[8 - (j + 1)] \in Words(32) /\ g[8 - (j + 1)] \in Words(32)
    BY <1>1, <1>2, <2>1 DEF Turns
  <2>4. f[8 - j] = g[8 - j]
    BY <1>4
  <2> QED
    BY <2>2, <2>3, <2>4, ShiftOutInjective
<1>5. Nat \subseteq T
  <2> HIDE DEF T
  <2> QED
    BY <1>3, <1>4, Induction
<1>6. f[8 - 8] = g[8 - 8]
  BY <1>5
<1> QED
  BY <1>1, <1>2, <1>6 DEF Turns

(* The recursion inside Registers.                                         *)
LEMMA RegistersAre ==
  ASSUME NEW bytes \in Seq(Words(8))
  PROVE  /\ Registers(bytes) \in [0 .. Len(bytes) -> Words(32)] /\ Registers(bytes)[0] = Ones
         /\ \A i \in 1 .. Len(bytes) : Registers(bytes)[i] = Turned(Xor(Registers(bytes)[i - 1], bytes[i]))
<1> DEFINE S == Words(4 * ByteBits)
           n == Len(bytes)
           turned == [crc \in S |-> Turned(crc)]
           step == [i \in 1 .. n |-> [w \in S |-> turned[Xor(w, bytes[i])]]]
           g == Registers(bytes)
<1>0. S = Words(32)
  BY DEF ByteBits
<1>1. Ones \in S /\ n \in Nat /\ \A i \in 1 .. n : bytes[i] \in Words(8)
  BY DEF Ones, Words, ByteBits
<1>2. \A i \in 1 .. n, w \in S : Xor(w, bytes[i]) \in S
  BY <1>0, <1>1, XorIs
<1>3. \A i \in 1 .. n, w \in S : turned[Xor(w, bytes[i])] = Turned(Xor(w, bytes[i]))
                            /\ turned[Xor(w, bytes[i])] \in S
  BY <1>0, <1>2, TurnedType
<1> HIDE DEF S, n
<1>5. step \in StepFunctions(S, n) /\ \A i \in 1 .. n, w \in S : step[i][w] = turned[Xor(w, bytes[i])]
  <2> HIDE DEF turned
  <2> QED
    BY <1>3 DEF StepFunctions
<1> HIDE DEF step
<1>6. PICK f : Computes(f, S, n, Ones, step)
  BY <1>1, <1>5, Recursion
<1>7. f = [i \in 0 .. n |-> IF i = 0 THEN Ones ELSE turned[Xor(f[i - 1], bytes[i])]]
  <2>1. \A i \in 1 .. n : i - 1 \in 0 .. n
    BY <1>1
  <2> HIDE DEF turned
  <2> QED
    BY <1>1, <1>5, <1>6, <2>1 DEF Computes
<1>8. g = [i \in 0 .. n |-> IF i = 0 THEN Ones ELSE turned[Xor(g[i - 1], bytes[i])]]
  <2>1. g = [i \in 0 .. Len(bytes) |->
               IF i = 0 THEN Ones ELSE [crc \in Words(4 * ByteBits) |-> Turned(crc)][Xor(g[i - 1], bytes[i])]]
    BY <1>7, Zenon DEF Registers, n, turned, S
  <2> QED
    BY <2>1, Zenon DEF n, turned, S
<1> HIDE DEF g, turned
<1>9. DOMAIN g = 0 .. n /\ g[0] = Ones /\ \A i \in 1 .. n : g[i] = turned[Xor(g[i - 1], bytes[i])]
  BY <1>1, <1>8
<1>10. g = [i \in 0 .. n |-> g[i]]
  <2>1. g = [i \in DOMAIN g |-> g[i]]
    BY <1>8, Zenon
  <2> QED
    BY <1>9, <2>1
<1>11. Computes(g, S, n, Ones, step)
  <2>1. \A i \in 1 .. n : g[i - 1] \in S => g[i] = step[i][g[i - 1]]
    BY <1>5, <1>9
  <2> QED
    BY <1>1, <1>5, <1>9, <1>10, <2>1, Computed
<1>12. \A i \in 1 .. n : g[i] = Turned(Xor(g[i - 1], bytes[i]))
  <2>1. \A i \in 1 .. n : i - 1 \in 0 .. n
    BY <1>1
  <2> QED
    BY <1>3, <1>9, <1>11, <2>1 DEF Computes
<1> QED
  BY <1>0, <1>9, <1>11, <1>12 DEF Computes, g, n

(* A word shifted down by n bits.                                          *)
Down(x, n) == [i \in 1 .. 32 |-> IF i + n <= 32 THEN x[i + n] ELSE 0]

LEMMA DownIs ==
  ASSUME NEW x \in Words(32), NEW n \in 0 .. 32
  PROVE  /\ Down(x, n) \in Words(32)
         /\ \A i \in 1 .. 32 : Down(x, n)[i] = IF i + n <= 32 THEN x[i + n] ELSE 0
<1>1. ASSUME NEW i \in 1 .. 32 PROVE (IF i + n <= 32 THEN x[i + n] ELSE 0) \in {0, 1}
  <2>1. CASE i + n <= 32
    <3>1. i + n \in 1 .. 32
      BY <2>1
    <3> QED
      BY <2>1, <3>1 DEF Words
  <2>2. CASE ~(i + n <= 32)
    BY <2>2
  <2> QED
    BY <2>1, <2>2
<1> QED
  BY <1>1 DEF Down, Words

(* The register is linear: what is XORed onto its high bits comes down.    *)
LEMMA ShiftOutXor ==
  ASSUME NEW a \in Words(32), NEW x \in Words(32), x[1] = 0
  PROVE  ShiftOut(Xor(a, x)) = Xor(ShiftOut(a), Down(x, 1))
<1> DEFINE d == Down(x, 1)
           l == ShiftOut(Xor(a, x))
           s == ShiftOut(a)
           r == Xor(s, d)
<1>1. /\ d \in Words(32) /\ \A i \in 1 .. 32 : d[i] = IF i + 1 <= 32 THEN x[i + 1] ELSE 0
  BY DownIs
<1>2. Xor(a, x) \in Words(32) /\ \A i \in 1 .. 32 : Xor(a, x)[i] = (a[i] + x[i]) % 2
  BY XorWords
<1>3. /\ s \in Words(32) /\ s[32] = a[1]
      /\ \A i \in 1 .. 31 : s[i] = IF a[1] = 1 THEN (a[i + 1] + Polynomial[i]) % 2 ELSE a[i + 1]
  BY ShiftOutIs
<1>4. \A i \in 1 .. 32 : a[i] \in {0, 1} /\ x[i] \in {0, 1} /\ Polynomial[i] \in {0, 1}
  BY PolynomialIs DEF Words
<1>5. Xor(a, x)[1] = a[1]
  BY <1>2, <1>4
<1>6. /\ l \in Words(32) /\ l[32] = a[1]
      /\ \A i \in 1 .. 31 : l[i] = IF a[1] = 1 THEN (Xor(a, x)[i + 1] + Polynomial[i]) % 2 ELSE Xor(a, x)[i + 1]
  BY <1>2, <1>5, ShiftOutIs
<1> HIDE DEF d, s, l
<1>7. r \in Words(32) /\ \A i \in 1 .. 32 : r[i] = (s[i] + d[i]) % 2
  BY <1>1, <1>3, XorWords
<1> HIDE DEF r
<1>8. ASSUME NEW i \in 1 .. 31 PROVE l[i] = r[i]
  <2>1. i + 1 \in 1 .. 32 /\ i \in 1 .. 32
    OBVIOUS
  <2>2. d[i] = x[i + 1] /\ Xor(a, x)[i + 1] = (a[i + 1] + x[i + 1]) % 2 /\ r[i] = (s[i] + d[i]) % 2
    BY <1>1, <1>2, <1>7, <2>1
  <2>3. a[i + 1] \in {0, 1} /\ x[i + 1] \in {0, 1} /\ Polynomial[i] \in {0, 1}
    BY <1>4, <2>1
  <2>4. CASE a[1] = 1
    <3>1. /\ l[i] = (((a[i + 1] + x[i + 1]) % 2) + Polynomial[i]) % 2
          /\ r[i] = (((a[i + 1] + Polynomial[i]) % 2) + x[i + 1]) % 2
      BY <1>3, <1>6, <2>2, <2>4
    <3> QED
      BY <2>3, <3>1
  <2>5. CASE a[1] # 1
    BY <1>3, <1>6, <2>2, <2>5
  <2> QED
    BY <2>4, <2>5
<1>9. l[32] = r[32]
  <2>1. d[32] = 0 /\ s[32] = a[1] /\ a[1] \in {0, 1} /\ r[32] = (s[32] + d[32]) % 2
    BY <1>1, <1>3, <1>4, <1>7
  <2> QED
    BY <1>6, <2>1
<1>10. l = r
  <2>1. \A i \in 1 .. 32 : l[i] = r[i]
    <3>1. \A i \in 1 .. 32 : i \in 1 .. 31 \/ i = 32
      OBVIOUS
    <3> QED
      BY <1>8, <1>9, <3>1
  <2> QED
    BY <1>6, <1>7, <2>1 DEF Words
<1> QED
  BY <1>10 DEF l, r, s, d

LEMMA TurnedXor ==
  ASSUME NEW a \in Words(32), NEW x \in Words(32), \A i \in 1 .. 8 : x[i] = 0
  PROVE  Turned(Xor(a, x)) = Xor(Turned(a), Down(x, 8))
<1>0. Xor(a, x) \in Words(32)
  BY XorWords
<1>1. PICK f : Turns(f, a) /\ Turned(a) = f[8]
  BY TurnedIs
<1>2. PICK g : Turns(g, Xor(a, x)) /\ Turned(Xor(a, x)) = g[8]
  BY <1>0, TurnedIs
<1> DEFINE T == {j \in Nat : j <= 8 => g[j] = Xor(f[j], Down(x, j))}
<1>3. 0 \in T
  <2>1. Down(x, 0) = x
    BY DEF Down, Words
  <2>2. f[0] = a /\ g[0] = Xor(a, x)
    BY <1>1, <1>2 DEF Turns
  <2> QED
    BY <2>1, <2>2
<1>4. ASSUME NEW j \in Nat, j \in T PROVE j + 1 \in T
  <2> SUFFICES ASSUME j + 1 <= 8 PROVE g[j + 1] = Xor(f[j + 1], Down(x, j + 1))
    OBVIOUS
  <2> DEFINE d == Down(x, j)
             e == Down(d, 1)
  <2>1. j + 1 \in 1 .. 8 /\ (j + 1) - 1 = j /\ j \in 0 .. 8 /\ j \in 0 .. 32 /\ j + 1 \in 0 .. 32
    OBVIOUS
  <2>2. g[j + 1] = ShiftOut(g[j]) /\ f[j + 1] = ShiftOut(f[j]) /\ f[j] \in Words(32)
    BY <1>1, <1>2, <2>1 DEF Turns
  <2>3. g[j] = Xor(f[j], d)
    BY <1>4
  <2>4. d \in Words(32) /\ \A i \in 1 .. 32 : d[i] = IF i + j <= 32 THEN x[i + j] ELSE 0
    BY <2>1, DownIs
  <2>5. d[1] = 0
    BY <2>1, <2>4
  <2> HIDE DEF d
  <2>6. ShiftOut(Xor(f[j], d)) = Xor(ShiftOut(f[j]), e)
    BY <2>2, <2>4, <2>5, ShiftOutXor
  <2>7. e = Down(x, j + 1)
    <3>1. ASSUME NEW i \in 1 .. 32
          PROVE  (IF i + 1 <= 32 THEN d[i + 1] ELSE 0) = IF i + (j + 1) <= 32 THEN x[i + (j + 1)] ELSE 0
      <4>1. CASE i + 1 <= 32
        <5>1. i + 1 \in 1 .. 32 /\ (i + 1) + j = i + (j + 1)
          BY <4>1
        <5> QED
          BY <2>4, <4>1, <5>1
      <4>2. CASE ~(i + 1 <= 32)
        BY <4>2
      <4> QED
        BY <4>1, <4>2
    <3> QED
      BY <3>1 DEF Down
  <2> QED
    BY <2>2, <2>3, <2>6, <2>7
<1>5. Nat \subseteq T
  <2> HIDE DEF T
  <2> QED
    BY <1>3, <1>4, Induction
<1>6. g[8] = Xor(f[8], Down(x, 8))
  BY <1>5
<1> QED
  BY <1>1, <1>2, <1>6

(* The four bytes behind the first k, the register with them, and what the *)
(* next byte adds.                                                         *)
Window(c, k)  == [i \in 1 .. 32 |-> c[k + ((i - 1) \div 8) + 1][((i - 1) % 8) + 1]]
Summed(c)     == Registers(SubSeq(c, 1, 20))
Ahead(c, k)   == Xor(Summed(c)[k], Window(c, k))
Top(byte)     == [i \in 1 .. 32 |-> IF i <= 24 THEN 0 ELSE byte[i - 24]]

HeaderLike(c) == c \in [1 .. 24 -> Words(8)]

LEMMA WindowIs ==
  ASSUME NEW c, HeaderLike(c), NEW k \in 0 .. 20
  PROVE  /\ Window(c, k) \in Words(32)
         /\ \A i \in 1 .. 32 : Window(c, k)[i] = c[k + ((i - 1) \div 8) + 1][((i - 1) % 8) + 1]
<1>1. ASSUME NEW i \in 1 .. 32 PROVE c[k + ((i - 1) \div 8) + 1][((i - 1) % 8) + 1] \in {0, 1}
  <2>1. (i - 1) \div 8 \in 0 .. 3 /\ ((i - 1) % 8) + 1 \in 1 .. 8
    OBVIOUS
  <2> DEFINE n == k + ((i - 1) \div 8) + 1
             j == ((i - 1) % 8) + 1
  <2>2. n \in 1 .. 24 /\ j \in 1 .. 8
    BY <2>1
  <2> HIDE DEF n, j
  <2>3. c[n] \in Words(8)
    BY <2>2 DEF HeaderLike
  <2>4. c[n][j] \in {0, 1}
    BY <2>2, <2>3 DEF Words
  <2> QED
    BY <2>4 DEF n, j
<1> QED
  BY <1>1 DEF Window, Words

LEMMA TopIs ==
  ASSUME NEW byte \in Words(8)
  PROVE  Top(byte) \in Words(32) /\ \A i \in 1 .. 32 : Top(byte)[i] = IF i <= 24 THEN 0 ELSE byte[i - 24]
<1>1. ASSUME NEW i \in 1 .. 32 PROVE (IF i <= 24 THEN 0 ELSE byte[i - 24]) \in {0, 1}
  <2>1. i <= 24 \/ i - 24 \in 1 .. 8
    OBVIOUS
  <2> QED
    BY <2>1 DEF Words
<1> QED
  BY <1>1 DEF Top, Words

LEMMA SummedAre ==
  ASSUME NEW c, HeaderLike(c)
  PROVE  /\ Summed(c) \in [0 .. 20 -> Words(32)] /\ Summed(c)[0] = Ones
         /\ \A i \in 1 .. 20 : Summed(c)[i] = Turned(Xor(Summed(c)[i - 1], c[i]))
<1> DEFINE b == SubSeq(c, 1, 20)
           n == 20
<1>1. n \in Nat
  OBVIOUS
<1>2. \A i \in 1 .. n : c[i] \in Words(8)
  BY DEF HeaderLike
<1>3. b = SubSeq(c, 1, n)
  OBVIOUS
<1> HIDE DEF n, b
<1>4. b \in Seq(Words(8)) /\ Len(b) = n /\ \A i \in 1 .. n : b[i] = c[i]
  <2>1. /\ SubSeq(c, 1, n) \in Seq(Words(8)) /\ Len(SubSeq(c, 1, n)) = IF 1 <= n THEN n - 1 + 1 ELSE 0
        /\ \A i \in 1 .. n - 1 + 1 : SubSeq(c, 1, n)[i] = c[1 + i - 1]
    BY <1>1, <1>2, SubSeqProperties
  <2>2. \A i \in 1 .. n : i \in 1 .. n - 1 + 1 /\ 1 + i - 1 = i
    BY <1>1
  <2>3. (IF 1 <= n THEN n - 1 + 1 ELSE 0) = n
    BY <1>1
  <2>4. \A i \in 1 .. n : SubSeq(c, 1, n)[i] = c[i]
    BY <2>1, <2>2
  <2> QED
    BY <1>3, <2>1, <2>3, <2>4
<1>5. /\ Registers(b) \in [0 .. n -> Words(32)] /\ Registers(b)[0] = Ones
      /\ \A i \in 1 .. n : Registers(b)[i] = Turned(Xor(Registers(b)[i - 1], b[i]))
  BY <1>4, RegistersAre
<1>6. \A i \in 1 .. n : Registers(b)[i] = Turned(Xor(Registers(b)[i - 1], c[i]))
  BY <1>4, <1>5
<1> QED
  BY <1>5, <1>6 DEF Summed, b, n

LEMMA AheadType ==
  ASSUME NEW c, HeaderLike(c), NEW k \in 0 .. 20
  PROVE  /\ Ahead(c, k) \in Words(32)
         /\ \A i \in 1 .. 32 : Ahead(c, k)[i] = (Summed(c)[k][i] + Window(c, k)[i]) % 2
<1>1. Summed(c)[k] \in Words(32) /\ Window(c, k) \in Words(32)
  BY SummedAre, WindowIs
<1> QED
  BY <1>1, XorWords DEF Ahead

(* A byte further.                                                         *)
LEMMA AheadNext ==
  ASSUME NEW c, HeaderLike(c), NEW k \in 0 .. 19
  PROVE  Ahead(c, k + 1) = Xor(Turned(Ahead(c, k)), Top(c[k + 5]))
<1> DEFINE r == Summed(c)[k]
           w == Window(c, k)
           v == Window(c, k + 1)
           b == c[k + 1]
           e == c[k + 5]
           x == [i \in 1 .. 32 |-> IF i <= 8 THEN 0 ELSE w[i]]
           d == Down(x, 8)
           s == Xor(r, b)
           t == Turned(s)
           top == Top(e)
<1>1. /\ r \in Words(32) /\ b \in Words(8) /\ e \in Words(8) /\ Summed(c)[k + 1] = t
  <2>1. k + 1 \in 1 .. 20 /\ (k + 1) - 1 = k /\ k \in 0 .. 20 /\ k + 1 \in 1 .. 24 /\ k + 5 \in 1 .. 24
    OBVIOUS
  <2>2. c[k + 1] \in Words(8) /\ c[k + 5] \in Words(8)
    BY <2>1 DEF HeaderLike
  <2> QED
    BY <2>1, <2>2, SummedAre
<1>2. /\ w \in Words(32) /\ \A i \in 1 .. 32 : w[i] = c[k + ((i - 1) \div 8) + 1][((i - 1) % 8) + 1]
  <2>1. k \in 0 .. 20
    OBVIOUS
  <2> QED
    BY <2>1, WindowIs
<1>3. /\ v \in Words(32) /\ \A i \in 1 .. 32 : v[i] = c[(k + 1) + ((i - 1) \div 8) + 1][((i - 1) % 8) + 1]
  <2>1. k + 1 \in 0 .. 20
    OBVIOUS
  <2> QED
    BY <2>1, WindowIs
<1> HIDE DEF w, v
<1>4. x \in Words(32) /\ \A i \in 1 .. 32 : x[i] = IF i <= 8 THEN 0 ELSE w[i]
  <2>1. \A i \in 1 .. 32 : (IF i <= 8 THEN 0 ELSE w[i]) \in {0, 1}
    BY <1>2 DEF Words
  <2> QED
    BY <2>1 DEF Words
<1> HIDE DEF x
<1>5. d \in Words(32) /\ \A i \in 1 .. 32 : d[i] = IF i + 8 <= 32 THEN x[i + 8] ELSE 0
  BY <1>4, DownIs, SMTT(30)
<1>6. s \in Words(32) /\ \A i \in 1 .. 32 : s[i] = IF i <= 8 THEN (r[i] + b[i]) % 2 ELSE r[i]
  <2>1. 32 \in Nat /\ 8 \in Nat
    OBVIOUS
  <2> QED
    BY <1>1, <2>1, XorIs, Zenon
<1>7. top \in Words(32) /\ \A i \in 1 .. 32 : top[i] = IF i <= 24 THEN 0 ELSE e[i - 24]
  BY <1>1, TopIs
<1>8. t \in Words(32)
  BY <1>6, TurnedType
<1> HIDE DEF d, r, b, e, s, t, top
<1>9. Ahead(c, k) = Xor(s, x)
  <2>1. Xor(s, x) \in Words(32) /\ \A i \in 1 .. 32 : Xor(s, x)[i] = (s[i] + x[i]) % 2
    BY <1>4, <1>6, XorWords
  <2>2. Ahead(c, k) \in Words(32) /\ \A i \in 1 .. 32 : Ahead(c, k)[i] = (r[i] + w[i]) % 2
    <3>1. k \in 0 .. 20
      OBVIOUS
    <3> QED
      BY <3>1, AheadType DEF r, w
  <2>3. ASSUME NEW i \in 1 .. 32 PROVE Ahead(c, k)[i] = Xor(s, x)[i]
    <3>1. Ahead(c, k)[i] = (r[i] + w[i]) % 2 /\ Xor(s, x)[i] = (s[i] + x[i]) % 2
      BY <2>1, <2>2
    <3>2. CASE i <= 8
      <4>1. w[i] = b[i]
        <5>1. (i - 1) \div 8 = 0 /\ ((i - 1) % 8) + 1 = i /\ k + 0 + 1 = k + 1
          BY <3>2
        <5> QED
          BY <1>2, <5>1 DEF b
      <4>2. s[i] = (r[i] + b[i]) % 2 /\ x[i] = 0
        BY <1>4, <1>6, <3>2
      <4>3. r[i] \in {0, 1} /\ b[i] \in {0, 1}
        BY <1>1, <3>2 DEF Words
      <4> QED
        BY <3>1, <4>1, <4>2, <4>3
    <3>3. CASE i > 8
      <4>1. s[i] = r[i] /\ x[i] = w[i]
        BY <1>4, <1>6, <3>3
      <4> QED
        BY <3>1, <4>1
    <3> QED
      BY <3>2, <3>3
  <2> QED
    BY <2>1, <2>2, <2>3 DEF Words
<1>10. Turned(Xor(s, x)) = Xor(t, d)
  <2>1. \A i \in 1 .. 8 : x[i] = 0
    BY <1>4
  <2> QED
    BY <1>4, <1>6, <2>1, TurnedXor DEF t, d
<1>11. Ahead(c, k + 1) = Xor(Xor(t, d), top)
  <2>1. Ahead(c, k + 1) \in Words(32) /\ \A i \in 1 .. 32 : Ahead(c, k + 1)[i] = (t[i] + v[i]) % 2
    <3>1. k + 1 \in 0 .. 20
      OBVIOUS
    <3> QED
      BY <1>1, <3>1, AheadType DEF v
  <2>2. Xor(t, d) \in Words(32) /\ \A i \in 1 .. 32 : Xor(t, d)[i] = (t[i] + d[i]) % 2
    BY <1>5, <1>8, XorWords
  <2> DEFINE y == Xor(t, d)
             z == Xor(y, top)
  <2> HIDE DEF y
  <2>3. z \in Words(32) /\ \A i \in 1 .. 32 : z[i] = (y[i] + top[i]) % 2
    BY <1>7, <2>2, XorWords DEF y
  <2> HIDE DEF z
  <2>4. ASSUME NEW i \in 1 .. 32 PROVE Ahead(c, k + 1)[i] = z[i]
    <3>1. /\ Ahead(c, k + 1)[i] = (t[i] + v[i]) % 2 /\ z[i] = (y[i] + top[i]) % 2
          /\ y[i] = (t[i] + d[i]) % 2 /\ t[i] \in {0, 1} /\ v[i] \in {0, 1}
      BY <1>3, <1>8, <2>1, <2>2, <2>3 DEF y, Words
    <3>2. CASE i <= 24
      <4>1. top[i] = 0
        BY <1>7, <3>2
      <4>2. d[i] = v[i]
        <5>1. i + 8 \in 1 .. 32 /\ i + 8 > 8 /\ i + 8 <= 32
          BY <3>2
        <5>2. d[i] = w[i + 8]
          BY <1>4, <1>5, <5>1
        <5>3. w[i + 8] = c[k + (((i + 8) - 1) \div 8) + 1][(((i + 8) - 1) % 8) + 1]
          BY <1>2, <5>1
        <5>4. /\ k + (((i + 8) - 1) \div 8) + 1 = (k + 1) + ((i - 1) \div 8) + 1
              /\ ((i + 8) - 1) % 8 = (i - 1) % 8
          OBVIOUS
        <5> QED
          BY <1>3, <5>2, <5>3, <5>4
      <4> QED
        BY <3>1, <4>1, <4>2
    <3>3. CASE i > 24
      <4>1. d[i] = 0 /\ top[i] = e[i - 24]
        BY <1>5, <1>7, <3>3
      <4>2. v[i] = e[i - 24]
        <5>1. (i - 1) \div 8 = 3 /\ ((i - 1) % 8) + 1 = i - 24 /\ (k + 1) + 3 + 1 = k + 5
          BY <3>3
        <5> QED
          BY <1>3, <5>1 DEF e
      <4> QED
        BY <3>1, <4>1, <4>2
    <3> QED
      BY <3>2, <3>3
  <2> QED
    BY <2>1, <2>3, <2>4 DEF Words, z, y
<1> QED
  BY <1>9, <1>10, <1>11 DEF top, e

(* The CRC is right if, and only if, the register and the stored CRC sum   *)
(* up to ones.                                                             *)
LEMMA CrcIsRight ==
  ASSUME NEW c, HeaderLike(c), Accepts(c)
  PROVE  Ahead(c, 20) = Ones
<1> DEFINE b == SubSeq(c, 1, 20)
           l == SubSeq(c, 21, 24)
           r == Summed(c)[20]
           w == Window(c, 20)
<1>1. espCompressorCrc32(b) = ReadLe(l)
  BY DEF Accepts
<1>2. Len(b) = 20
  <2>1. \A i \in 1 .. 20 : c[i] \in Words(8)
    BY DEF HeaderLike
  <2> QED
    BY <2>1, SubSeqProperties
<1>3. espCompressorCrc32(b) = Xor(r, Ones)
  BY <1>2 DEF espCompressorCrc32, Summed
<1>4. Len(l) = 4 /\ \A i \in 1 .. 4 : l[i] = c[20 + i]
  <2>1. \A i \in 21 .. 24 : c[i] \in Words(8)
    BY DEF HeaderLike
  <2>2. Len(l) = 4 /\ \A i \in 1 .. 24 - 21 + 1 : l[i] = c[21 + i - 1]
    BY <2>1, SubSeqProperties
  <2>3. \A i \in 1 .. 4 : i \in 1 .. 24 - 21 + 1 /\ 21 + i - 1 = 20 + i
    OBVIOUS
  <2> HIDE DEF l
  <2> QED
    BY <2>2, <2>3
<1> HIDE DEF l, b
<1>5. ReadLe(l) = [i \in 1 .. 32 |-> l[((i - 1) \div 8) + 1][((i - 1) % 8) + 1]]
  BY <1>4 DEF ReadLe, ByteBits
<1>6. w \in Words(32) /\ \A i \in 1 .. 32 : w[i] = c[20 + ((i - 1) \div 8) + 1][((i - 1) % 8) + 1]
  BY WindowIs
<1> HIDE DEF w
<1>7. ASSUME NEW i \in 1 .. 32 PROVE ReadLe(l)[i] = w[i]
  <2>1. ((i - 1) \div 8) + 1 \in 1 .. 4 /\ 20 + (((i - 1) \div 8) + 1) = 20 + ((i - 1) \div 8) + 1
    OBVIOUS
  <2> QED
    BY <1>4, <1>5, <1>6, <2>1
<1>8. r \in Words(32) /\ Ones \in Words(32) /\ \A i \in 1 .. 32 : Ones[i] = 1
  BY SummedAre DEF Ones, ByteBits, Words
<1>9. Xor(r, Ones) \in Words(32) /\ \A i \in 1 .. 32 : Xor(r, Ones)[i] = (r[i] + 1) % 2
  <2>1. Xor(r, Ones) \in Words(32) /\ \A i \in 1 .. 32 : Xor(r, Ones)[i] = (r[i] + Ones[i]) % 2
    BY <1>8, XorWords
  <2> QED
    BY <1>8, <2>1
<1>10. Ahead(c, 20) \in Words(32) /\ \A i \in 1 .. 32 : Ahead(c, 20)[i] = (r[i] + w[i]) % 2
  <2>1. 20 \in 0 .. 20
    OBVIOUS
  <2> QED
    BY <2>1, AheadType, ZenonT(40) DEF r, w
<1> HIDE DEF r
<1>11. ASSUME NEW i \in 1 .. 32 PROVE Ahead(c, 20)[i] = Ones[i]
  <2>1. w[i] = (r[i] + 1) % 2
    BY <1>1, <1>3, <1>7, <1>9
  <2>2. r[i] \in {0, 1} /\ Ones[i] = 1 /\ Ahead(c, 20)[i] = (r[i] + w[i]) % 2
    BY <1>8, <1>10 DEF Words
  <2> QED
    BY <2>1, <2>2
<1> QED
  BY <1>8, <1>10, <1>11 DEF Words

(* What is changed in four neighbouring bytes is noticed.                  *)
LEMMA CrcNotices ==
  ASSUME NEW b, NEW c, HeaderLike(b), HeaderLike(c), NEW at \in 0 .. 23, b[at + 1] # c[at + 1],
         \A i \in 1 .. 24 : i <= at \/ i > at + 4 => b[i] = c[i],
         Accepts(b)
  PROVE  ~Accepts(c)
<1> DEFINE m == IF at <= 20 THEN at ELSE 20
<1>1. m \in 0 .. 20 /\ m <= at /\ at <= m + 3
  OBVIOUS
<1>2. \A i \in 1 .. m : b[i] = c[i]
  OBVIOUS
<1>3. \A i \in 1 .. 24 : i > m + 4 => b[i] = c[i]
  OBVIOUS
<1> HIDE DEF m
<1>4. Summed(b)[m] = Summed(c)[m]
  <2> DEFINE T == {k \in Nat : k <= m => Summed(b)[k] = Summed(c)[k]}
  <2>1. 0 \in T
    BY SummedAre
  <2>2. ASSUME NEW k \in Nat, k \in T PROVE k + 1 \in T
    <3> SUFFICES ASSUME k + 1 <= m PROVE Summed(b)[k + 1] = Summed(c)[k + 1]
      OBVIOUS
    <3>1. k + 1 \in 1 .. 20 /\ (k + 1) - 1 = k /\ k + 1 \in 1 .. m /\ k <= m
      BY <1>1
    <3>2. /\ Summed(b)[k + 1] = Turned(Xor(Summed(b)[(k + 1) - 1], b[k + 1]))
          /\ Summed(c)[k + 1] = Turned(Xor(Summed(c)[(k + 1) - 1], c[k + 1]))
      BY <3>1, SummedAre
    <3>3. b[k + 1] = c[k + 1] /\ Summed(b)[k] = Summed(c)[k]
      BY <1>2, <2>2, <3>1
    <3> QED
      BY <3>1, <3>2, <3>3, Zenon
  <2>3. Nat \subseteq T
    <3> HIDE DEF T
    <3> QED
      BY <2>1, <2>2, Induction
  <2> QED
    BY <1>1, <2>3
<1>5. Ahead(b, m) # Ahead(c, m)
  <2>1. b[at + 1] \in Words(8) /\ c[at + 1] \in Words(8)
    <3>1. at + 1 \in 1 .. 24
      OBVIOUS
    <3> QED
      BY <3>1 DEF HeaderLike
  <2>2. PICK j \in 1 .. 8 : b[at + 1][j] # c[at + 1][j]
    BY <2>1 DEF Words
  <2> DEFINE i == 8 * (at - m) + j
  <2>3. i \in 1 .. 32 /\ m + ((i - 1) \div 8) + 1 = at + 1 /\ ((i - 1) % 8) + 1 = j
    BY <1>1
  <2> HIDE DEF i
  <2>4. Window(b, m)[i] = b[at + 1][j] /\ Window(c, m)[i] = c[at + 1][j]
    <3>1. /\ Window(b, m)[i] = b[m + ((i - 1) \div 8) + 1][((i - 1) % 8) + 1]
          /\ Window(c, m)[i] = c[m + ((i - 1) \div 8) + 1][((i - 1) % 8) + 1]
      BY <1>1, <2>3, WindowIs
    <3> QED
      BY <2>3, <3>1
  <2>5. /\ Ahead(b, m)[i] = (Summed(b)[m][i] + Window(b, m)[i]) % 2
        /\ Ahead(c, m)[i] = (Summed(c)[m][i] + Window(c, m)[i]) % 2
    BY <1>1, <2>3, AheadType
  <2>6. Summed(b)[m][i] \in {0, 1} /\ b[at + 1][j] \in {0, 1} /\ c[at + 1][j] \in {0, 1}
    <3>1. Summed(b)[m] \in Words(32)
      BY <1>1, SummedAre
    <3> QED
      BY <2>1, <2>3, <3>1 DEF Words
  <2>7. Ahead(b, m)[i] # Ahead(c, m)[i]
    BY <1>4, <2>2, <2>4, <2>5, <2>6
  <2> QED
    BY <2>7
<1>6. Ahead(b, 20) # Ahead(c, 20)
  <2> DEFINE T == {k \in Nat : m + k <= 20 => Ahead(b, m + k) # Ahead(c, m + k)}
  <2>1. 0 \in T
    <3>1. m + 0 = m
      BY <1>1
    <3> QED
      BY <1>5, <3>1
  <2>2. ASSUME NEW k \in Nat, k \in T PROVE k + 1 \in T
    <3> DEFINE n == m + k
    <3>0. m + (k + 1) = n + 1 /\ n \in Nat /\ m <= n
      BY <1>1
    <3> SUFFICES ASSUME n + 1 <= 20 PROVE Ahead(b, n + 1) # Ahead(c, n + 1)
      BY <3>0
    <3>1. n \in 0 .. 19 /\ n \in 0 .. 20 /\ n + 5 \in 1 .. 24 /\ n + 5 > m + 4 /\ m + k <= 20
      BY <1>1, <3>0
    <3>2. Ahead(b, n) # Ahead(c, n)
      BY <2>2, <3>1
    <3> HIDE DEF n
    <3> DEFINE e == b[n + 5]
               f == Turned(Ahead(b, n))
               g == Turned(Ahead(c, n))
    <3>3. Ahead(b, n) \in Words(32) /\ Ahead(c, n) \in Words(32)
      BY <3>1, AheadType
    <3>4. f \in Words(32) /\ g \in Words(32) /\ f # g
      BY <3>2, <3>3, TurnedType, TurnedInjective
    <3>5. e = c[n + 5] /\ e \in Words(8)
      BY <1>3, <3>1 DEF HeaderLike
    <3>6. Ahead(b, n + 1) = Xor(f, Top(e)) /\ Ahead(c, n + 1) = Xor(g, Top(e))
      BY <3>1, <3>5, AheadNext
    <3> HIDE DEF e, f, g
    <3>7. PICK i \in 1 .. 32 : f[i] # g[i]
      BY <3>4 DEF Words
    <3>8. Xor(f, Top(e))[i] # Xor(g, Top(e))[i]
      <4>1. Top(e) \in Words(32)
        BY <3>5, TopIs
      <4>2. Xor(f, Top(e))[i] = (f[i] + Top(e)[i]) % 2 /\ Xor(g, Top(e))[i] = (g[i] + Top(e)[i]) % 2
        BY <3>4, <4>1, XorWords
      <4>3. f[i] \in {0, 1} /\ g[i] \in {0, 1} /\ Top(e)[i] \in {0, 1}
        BY <3>4, <4>1 DEF Words
      <4> QED
        BY <3>7, <4>2, <4>3
    <3> QED
      BY <3>6, <3>8
  <2>3. Nat \subseteq T
    <3> HIDE DEF T
    <3> QED
      BY <2>1, <2>2, Induction
  <2>4. 20 - m \in Nat /\ m + (20 - m) = 20
    BY <1>1
  <2> QED
    BY <2>3, <2>4
<1> QED
  BY <1>6, CrcIsRight
-----------------------------------------------------------------------------
(* What is written is read.                                                *)
LEMMA FunctionIsSequence ==
  ASSUME NEW n \in Nat, NEW S, NEW s \in [1 .. n -> S]
  PROVE  s \in Seq(S) /\ Len(s) = n
OBVIOUS

LEMMA WriteLeIs ==
  ASSUME NEW k \in Nat, NEW w \in Words(k * 8)
  PROVE  /\ WriteLe(w) \in Seq(Words(8)) /\ Len(WriteLe(w)) = k
         /\ \A j \in 1 .. k, b \in 1 .. 8 : WriteLe(w)[j][b] = w[(j - 1) * 8 + b]
<1>1. Len(w) \div ByteBits = k
  BY WordIs DEF ByteBits
<1>2. WriteLe(w) = [j \in 1 .. k |-> SubSeq(w, (j - 1) * 8 + 1, j * 8)]
  BY <1>1 DEF WriteLe, ByteBits
<1>3. ASSUME NEW j \in 1 .. k
      PROVE  LET s == SubSeq(w, (j - 1) * 8 + 1, j * 8)
             IN s \in Words(8) /\ \A b \in 1 .. 8 : s[b] = w[(j - 1) * 8 + b]
  <2> DEFINE p == (j - 1) * 8 + 1
             q == j * 8
             s == SubSeq(w, p, q)
             S == {0, 1}
  <2>1. p \in Int /\ q \in Int /\ q - p + 1 = 8 /\ p <= q
    OBVIOUS
  <2>2. \A i \in p .. q : w[i] \in S
    <3>1. \A i \in p .. q : i \in 1 .. k * 8
      OBVIOUS
    <3> QED
      BY <3>1 DEF Words
  <2>3. \A b \in 1 .. 8 : p + b - 1 = (j - 1) * 8 + b
    OBVIOUS
  <2> HIDE DEF p, q, S
  <2>4. s \in Seq(S) /\ Len(s) = q - p + 1 /\ \A b \in 1 .. q - p + 1 : s[b] = w[p + b - 1]
    BY <2>1, <2>2, SubSeqProperties
  <2> HIDE DEF s
  <2>5. s \in [1 .. 8 -> S]
    BY <2>1, <2>4, LenProperties
  <2>6. s \in Words(8)
    BY <2>5 DEF Words, S
  <2>7. \A b \in 1 .. 8 : s[b] = w[(j - 1) * 8 + b]
    BY <2>1, <2>3, <2>4
  <2> QED
    BY <2>6, <2>7 DEF s, p, q
<1>4. WriteLe(w) \in [1 .. k -> Words(8)]
  BY <1>2, <1>3
<1>5. ASSUME NEW j \in 1 .. k, NEW b \in 1 .. 8 PROVE WriteLe(w)[j][b] = w[(j - 1) * 8 + b]
  <2>1. WriteLe(w)[j] = SubSeq(w, (j - 1) * 8 + 1, j * 8)
    BY <1>2
  <2> QED
    BY <1>3, <2>1
<1>6. WriteLe(w) \in Seq(Words(8)) /\ Len(WriteLe(w)) = k
  BY <1>4, FunctionIsSequence, Zenon
<1> QED
  BY <1>5, <1>6

LEMMA RoundTrip ==
  ASSUME NEW k \in Nat, NEW w \in Words(k * 8)
  PROVE  ReadLe(WriteLe(w)) = w
<1> DEFINE l == WriteLe(w)
<1>1. Len(l) = k /\ \A j \in 1 .. k, b \in 1 .. 8 : l[j][b] = w[(j - 1) * 8 + b]
  BY WriteLeIs
<1> HIDE DEF l
<1>2. ReadLe(l) = [i \in 1 .. k * 8 |-> l[((i - 1) \div 8) + 1][((i - 1) % 8) + 1]]
  BY <1>1 DEF ReadLe, ByteBits
<1>3. ASSUME NEW i \in 1 .. k * 8 PROVE l[((i - 1) \div 8) + 1][((i - 1) % 8) + 1] = w[i]
  <2> DEFINE j == ((i - 1) \div 8) + 1
             b == ((i - 1) % 8) + 1
  <2>1. j \in 1 .. k /\ b \in 1 .. 8 /\ (j - 1) * 8 + b = i
    OBVIOUS
  <2> HIDE DEF j, b
  <2>2. l[j][b] = w[i]
    BY <1>1, <2>1
  <2> QED
    BY <2>2 DEF j, b
<1>4. ReadLe(l) = [i \in 1 .. k * 8 |-> w[i]]
  BY <1>2, <1>3
<1> QED
  BY <1>4 DEF l, Words

JoinOf(T, x, y, z) ==
  /\ z \in Seq(T) /\ Len(z) = Len(x) + Len(y)
  /\ SubSeq(z, 1, Len(x)) = x /\ SubSeq(z, Len(x) + 1, Len(x) + Len(y)) = y
  /\ \A i \in 1 .. Len(x) : z[i] = x[i]

LEMMA Pieces ==
  ASSUME NEW T, NEW x \in Seq(T), NEW y \in Seq(T)
  PROVE  JoinOf(T, x, y, x \o y)
<1> DEFINE z == x \o y
           m == Len(x)
           n == Len(y)
<1>1. m \in Nat /\ n \in Nat
  BY LenProperties
<1>2. z \in Seq(T) /\ Len(z) = m + n /\ \A i \in 1 .. m + n : z[i] = IF i <= m THEN x[i] ELSE y[i - m]
  BY ConcatProperties
<1>3. \A i \in 1 .. m : z[i] = x[i]
  BY <1>1, <1>2
<1> HIDE DEF z
<1>4. SubSeq(z, 1, m) = x
  <2> DEFINE s == SubSeq(z, 1, m)
  <2>1. /\ s \in Seq(T) /\ Len(s) = (IF 1 <= m THEN m - 1 + 1 ELSE 0)
        /\ \A i \in 1 .. m - 1 + 1 : s[i] = z[1 + i - 1]
    <3>1. \A i \in 1 .. m : z[i] \in T
      BY <1>1, <1>3, ElementOfSeq
    <3> QED
      BY <1>1, <3>1, SubSeqProperties
  <2> HIDE DEF s
  <2>2. Len(s) = m /\ \A i \in 1 .. m : s[i] = x[i]
    <3>1. \A i \in 1 .. m : i \in 1 .. m - 1 + 1 /\ 1 + i - 1 = i
      BY <1>1
    <3>2. Len(s) = m
      BY <1>1, <2>1
    <3> QED
      BY <1>3, <2>1, <3>1, <3>2
  <2>3. s = x
    BY <2>1, <2>2, SeqEqual
  <2> QED
    BY <2>3 DEF s
<1>5. SubSeq(z, m + 1, m + n) = y
  <2> DEFINE s == SubSeq(z, m + 1, m + n)
  <2>1. /\ s \in Seq(T) /\ Len(s) = (IF m + 1 <= m + n THEN m + n - (m + 1) + 1 ELSE 0)
        /\ \A i \in 1 .. m + n - (m + 1) + 1 : s[i] = z[m + 1 + i - 1]
    <3>1. \A i \in m + 1 .. m + n : z[i] \in T
      BY <1>1, <1>2, ElementOfSeq
    <3> QED
      BY <1>1, <3>1, SubSeqProperties
  <2> HIDE DEF s
  <2>2. Len(s) = n /\ \A i \in 1 .. n : s[i] = y[i]
    <3>1. \A i \in 1 .. n : /\ i \in 1 .. m + n - (m + 1) + 1 /\ m + 1 + i - 1 = m + i
                           /\ m + i \in 1 .. m + n /\ ~(m + i <= m) /\ (m + i) - m = i
      BY <1>1
    <3>2. Len(s) = n
      BY <1>1, <2>1
    <3>3. \A i \in 1 .. n : z[m + i] = y[i]
      BY <1>2, <3>1
    <3> QED
      BY <2>1, <3>1, <3>2, <3>3
  <2>3. s = y
    BY <2>1, <2>2, SeqEqual
  <2> QED
    BY <2>3 DEF s
<1> QED
  BY <1>2, <1>3, <1>4, <1>5 DEF JoinOf, z
LEMMA ByteIs == ASSUME NEW n \in Nat PROVE Byte(n) \in Words(8)
BY BitsAre DEF Byte, ByteBits

(* The four fields of a block header, which are 1, 4, 4 and 4 bytes long.  *)
LEMMA BlockHeaderRead ==
  ASSUME NEW f \in Words(8), NEW o \in Words(32), NEW s \in Words(32), NEW c \in Words(32)
  PROVE  decodeEscBlockHeader(
           encodeEscBlockHeader([flags |-> f, originalSize |-> o, storedSize |-> s, crc32 |-> c])) =
         [error |-> "Ok", flags |-> f, originalSize |-> o, storedSize |-> s, crc32 |-> c]
<1> DEFINE T == Words(8)
           x == <<f>>
           a == WriteLe(o)
           b == WriteLe(s)
           d == WriteLe(c)
           xa == x \o a
           xab == xa \o b
           e == xab \o d
<1>1. x \in Seq(T) /\ Len(x) = 1 /\ x[1] = f
  OBVIOUS
<1>2. /\ a \in Seq(T) /\ Len(a) = 4 /\ ReadLe(a) = o
      /\ b \in Seq(T) /\ Len(b) = 4 /\ ReadLe(b) = s
      /\ d \in Seq(T) /\ Len(d) = 4 /\ ReadLe(d) = c
  <2>1. 4 \in Nat /\ 4 * 8 = 32
    OBVIOUS
  <2>2. o \in Words(4 * 8) /\ s \in Words(4 * 8) /\ c \in Words(4 * 8)
    BY <2>1
  <2> QED
    BY <2>1, <2>2, WriteLeIs, RoundTrip, Zenon
<1>3. encodeEscBlockHeader([flags |-> f, originalSize |-> o, storedSize |-> s, crc32 |-> c]) = e
  BY DEF encodeEscBlockHeader
<1> HIDE DEF T, x, a, b, d
<1>4. JoinOf(T, x, a, xa)
  BY <1>1, <1>2, Pieces
<1> HIDE DEF xa
<1>5. JoinOf(T, xa, b, xab)
  <2>1. xa \in Seq(T)
    BY <1>4 DEF JoinOf
  <2> QED
    BY <1>2, <2>1, Pieces
<1> HIDE DEF xab
<1>6. JoinOf(T, xab, d, e)
  <2>1. xab \in Seq(T)
    BY <1>5 DEF JoinOf
  <2> QED
    BY <1>2, <2>1, Pieces
<1> USE DEF JoinOf
<1>7. Len(xa) = 5 /\ Len(xab) = 9 /\ Len(e) = 13
  BY <1>1, <1>2, <1>4, <1>5, <1>6
<1>8. /\ SubSeq(xa, 2, 5) = a /\ SubSeq(xab, 6, 9) = b /\ SubSeq(e, 10, 13) = d
  <2>1. /\ Len(x) + 1 = 2 /\ Len(x) + Len(a) = 5 /\ Len(xa) + 1 = 6 /\ Len(xa) + Len(b) = 9
        /\ Len(xab) + 1 = 10 /\ Len(xab) + Len(d) = 13
    BY <1>1, <1>2, <1>7
  <2> HIDE DEF e
  <2> QED
    BY <1>4, <1>5, <1>6, <2>1, Zenon
<1>9. SubSeq(e, 2, 5) = a
  <2>1. 2 \in 1 .. Len(xab) /\ 5 \in 1 .. Len(xab) /\ 2 \in 1 .. Len(xa) /\ 5 \in 1 .. Len(xa)
    BY <1>7
  <2>2. SubSeq(e, 2, 5) = SubSeq(xab, 2, 5)
    BY <1>2, <1>5, <2>1, SubSeqOfConcat1
  <2>3. SubSeq(xab, 2, 5) = SubSeq(xa, 2, 5)
    BY <1>2, <1>4, <2>1, SubSeqOfConcat1 DEF xab
  <2> QED
    BY <1>8, <2>2, <2>3
<1>10. SubSeq(e, 6, 9) = b
  <2>1. 6 \in 1 .. Len(xab) /\ 9 \in 1 .. Len(xab)
    BY <1>7
  <2>2. SubSeq(e, 6, 9) = SubSeq(xab, 6, 9)
    BY <1>2, <1>5, <2>1, SubSeqOfConcat1
  <2> QED
    BY <1>8, <2>2
<1>11. e[1] = f
  <2>1. 1 \in 1 .. Len(xab) /\ 1 \in 1 .. Len(xa) /\ 1 \in 1 .. Len(x)
    BY <1>1, <1>7
  <2> QED
    BY <1>1, <1>4, <1>5, <1>6, <2>1
<1>12. ~(Len(e) < kEscEncodedBlockHeaderSize)
  <2> HIDE DEF e
  <2> QED
    BY <1>7 DEF kEscEncodedBlockHeaderSize
<1> HIDE DEF e
<1> QED
  BY <1>2, <1>3, <1>8, <1>9, <1>10, <1>11, <1>12, Zenon DEF decodeEscBlockHeader
LEMMA CrcType ==
  ASSUME NEW bytes \in Seq(Words(8))
  PROVE  espCompressorCrc32(bytes) \in Words(32)
<1>1. Len(bytes) \in 0 .. Len(bytes)
  BY LenProperties
<1>2. Registers(bytes)[Len(bytes)] \in Words(32)
  BY <1>1, RegistersAre
<1>3. Ones \in Words(32)
  BY DEF Ones, Words, ByteBits
<1> QED
  BY <1>2, <1>3, XorWords DEF espCompressorCrc32

(* The fields of the header: four bytes each, but for the size, which is   *)
(* 8 bytes long, and the magic and the four bytes behind it.               *)
LEMMA HeaderDecoded ==
  ASSUME NEW v \in Words(8), NEW f \in Words(8), NEW g \in Words(8),
         NEW o \in Words(64), NEW s \in Words(32)
  PROVE  LET c == encodeEscHeader([version |-> v, flags |-> f, algorithm |-> g,
                                   originalSize |-> o, blockSize |-> s])
         IN /\ HeaderLike(c) /\ Accepts(c)
            /\ decodeEscHeader(c) = [error |-> "Ok", version |-> v, flags |-> f, algorithm |-> g,
                                     originalSize |-> o, blockSize |-> s]
<1> DEFINE T == Words(8)
           h == Byte(kEscEncodedHeaderSize)
           m == Magic
           q == <<v, f, g, h>>
           a == WriteLe(o)
           b == WriteLe(s)
           x == m \o q
           y == x \o a
           z == y \o b
           d == WriteLe(espCompressorCrc32(z))
           e == z \o d
           c == encodeEscHeader([version |-> v, flags |-> f, algorithm |-> g,
                                 originalSize |-> o, blockSize |-> s])
<1>1. /\ m \in Seq(T) /\ Len(m) = 4
      /\ q \in Seq(T) /\ Len(q) = 4 /\ q[1] = v /\ q[2] = f /\ q[3] = g /\ q[4] = h
  <2>1. h \in T
    BY ByteIs DEF kEscEncodedHeaderSize
  <2>2. Byte(69) \in T /\ Byte(83) \in T /\ Byte(67) \in T /\ Byte(49) \in T
    BY ByteIs
  <2> HIDE DEF h, T
  <2>3. v \in T /\ f \in T /\ g \in T
    BY DEF T
  <2> QED
    BY <2>1, <2>2, <2>3 DEF Magic
<1>2. /\ a \in Seq(T) /\ Len(a) = 8 /\ ReadLe(a) = o
      /\ b \in Seq(T) /\ Len(b) = 4 /\ ReadLe(b) = s
  <2>1. 4 \in Nat /\ 4 * 8 = 32 /\ 8 \in Nat /\ 8 * 8 = 64
    OBVIOUS
  <2>2. o \in Words(8 * 8) /\ s \in Words(4 * 8)
    BY <2>1
  <2> QED
    BY <2>1, <2>2, WriteLeIs, RoundTrip, ZenonT(40)
<1>3. c = e
  BY DEF encodeEscHeader
<1> HIDE DEF c, h, m, q, a, b
<1>4. JoinOf(T, m, q, x)
  <2> HIDE DEF T
  <2> QED
    BY <1>1, Pieces
<1> HIDE DEF x
<1>5. JoinOf(T, x, a, y)
  <2>1. x \in Seq(T)
    BY <1>4 DEF JoinOf
  <2> HIDE DEF T
  <2> QED
    BY <1>2, <2>1, Pieces
<1> HIDE DEF y
<1>6. JoinOf(T, y, b, z)
  <2>1. y \in Seq(T)
    BY <1>5 DEF JoinOf
  <2> HIDE DEF T
  <2> QED
    BY <1>2, <2>1, Pieces
<1> HIDE DEF z
<1>7. /\ d \in Seq(T) /\ Len(d) = 4 /\ ReadLe(d) = espCompressorCrc32(z)
  <2>1. 4 \in Nat /\ 4 * 8 = 32
    OBVIOUS
  <2>2. z \in Seq(T)
    BY <1>6 DEF JoinOf
  <2>3. espCompressorCrc32(z) \in Words(4 * 8)
    BY <2>1, <2>2, CrcType
  <2> QED
    BY <2>1, <2>3, WriteLeIs, RoundTrip, Zenon
<1> HIDE DEF d
<1>8. JoinOf(T, z, d, e)
  <2>1. z \in Seq(T)
    BY <1>6 DEF JoinOf
  <2> HIDE DEF T
  <2> QED
    BY <1>7, <2>1, Pieces
<1> HIDE DEF e
<1>9. /\ Len(x) = 8 /\ Len(y) = 16 /\ Len(z) = 20 /\ Len(e) = 24
      /\ x \in Seq(T) /\ y \in Seq(T) /\ z \in Seq(T) /\ e \in Seq(T)
  BY <1>1, <1>2, <1>4, <1>5, <1>6, <1>7, <1>8 DEF JoinOf
<1> HIDE DEF T
<1>10. HeaderLike(e)
  <2>1. e \in [1 .. Len(e) -> T]
    BY <1>9, LenProperties, Zenon
  <2> QED
    BY <1>9, <2>1, Zenon DEF HeaderLike, T
<1>11. /\ SubSeq(e, 1, 20) = z /\ SubSeq(e, 21, 24) = d
       /\ SubSeq(z, 17, 20) = b /\ SubSeq(y, 9, 16) = a /\ SubSeq(x, 1, 4) = m
  <2>1. /\ Len(z) = 20 /\ Len(z) + 1 = 21 /\ Len(z) + Len(d) = 24
        /\ Len(y) + 1 = 17 /\ Len(y) + Len(b) = 20 /\ Len(x) + 1 = 9 /\ Len(x) + Len(a) = 16
        /\ Len(m) = 4
    BY <1>1, <1>2, <1>7, <1>9
  <2> QED
    BY <1>4, <1>5, <1>6, <1>8, <2>1, Zenon DEF JoinOf
<1>12. SubSeq(e, 17, 20) = b
  <2>1. 17 \in 1 .. Len(z) /\ 20 \in 1 .. Len(z)
    BY <1>9
  <2>2. SubSeq(e, 17, 20) = SubSeq(z, 17, 20)
    BY <1>7, <1>9, <2>1, SubSeqOfConcat1 DEF e
  <2> QED
    BY <1>11, <2>2
<1>13. SubSeq(e, 9, 16) = a
  <2>1. 9 \in 1 .. Len(z) /\ 16 \in 1 .. Len(z) /\ 9 \in 1 .. Len(y) /\ 16 \in 1 .. Len(y)
    BY <1>9
  <2>2. SubSeq(e, 9, 16) = SubSeq(z, 9, 16)
    BY <1>7, <1>9, <2>1, SubSeqOfConcat1 DEF e
  <2>3. SubSeq(z, 9, 16) = SubSeq(y, 9, 16)
    BY <1>2, <1>9, <2>1, SubSeqOfConcat1 DEF z
  <2> QED
    BY <1>11, <2>2, <2>3
<1>14. SubSeq(e, 1, 4) = m
  <2>1. /\ 1 \in 1 .. Len(z) /\ 4 \in 1 .. Len(z) /\ 1 \in 1 .. Len(y) /\ 4 \in 1 .. Len(y)
        /\ 1 \in 1 .. Len(x) /\ 4 \in 1 .. Len(x)
    BY <1>9
  <2>2. SubSeq(e, 1, 4) = SubSeq(z, 1, 4)
    BY <1>7, <1>9, <2>1, SubSeqOfConcat1 DEF e
  <2>3. SubSeq(z, 1, 4) = SubSeq(y, 1, 4)
    BY <1>2, <1>9, <2>1, SubSeqOfConcat1 DEF z
  <2>4. SubSeq(y, 1, 4) = SubSeq(x, 1, 4)
    BY <1>2, <1>9, <2>1, SubSeqOfConcat1 DEF y
  <2> QED
    BY <1>11, <2>2, <2>3, <2>4
<1>15. \A i \in 5 .. 8 : e[i] = q[i - 4]
  <2> SUFFICES ASSUME NEW i \in 5 .. 8 PROVE e[i] = q[i - 4]
    OBVIOUS
  <2>1. i \in 1 .. Len(z) /\ i \in 1 .. Len(y) /\ i \in 1 .. Len(x)
    BY <1>9
  <2>2. e[i] = x[i]
    BY <1>5, <1>6, <1>8, <2>1 DEF JoinOf
  <2>3. i \in 1 .. Len(m) + Len(q) /\ ~(i <= Len(m)) /\ i - Len(m) = i - 4
    BY <1>1
  <2>4. x[i] = q[i - Len(m)]
    BY <1>1, <2>3, ConcatProperties DEF x
  <2> QED
    BY <2>2, <2>3, <2>4
<1>16. e[5] = v /\ e[6] = f /\ e[7] = g /\ e[8] = h
  BY <1>1, <1>15
<1>17. Accepts(e)
  <2>1. Len(e) >= kEscEncodedHeaderSize
    BY <1>9 DEF kEscEncodedHeaderSize
  <2> QED
    BY <1>7, <1>11, <1>14, <1>16, <2>1, Zenon DEF Accepts, m, h
<1>18. decodeEscHeader(e) = [error |-> "Ok", version |-> v, flags |-> f, algorithm |-> g,
                             originalSize |-> o, blockSize |-> s]
  BY <1>2, <1>12, <1>13, <1>16, <1>17, Zenon DEF decodeEscHeader
<1> QED
  BY <1>3, <1>10, <1>17, <1>18 DEF c
=============================================================================
