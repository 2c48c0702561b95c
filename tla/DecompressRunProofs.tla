------------------------- MODULE DecompressRunProofs -------------------------
(***************************************************************************)
(* Safety of a decompression run, for every archive, every source and      *)
(* every sink; then what becomes of the archives of DamagedArchive.        *)
(***************************************************************************)
EXTENDS DamagedArchive, RunLemmas

(* What a sink holds is the items that were written, joined. *)
JoinStep(b, f, i) == IF i = 0 THEN <<>> ELSE f[i - 1] \o b[i]

LEMMA JoinRecursion ==
  ASSUME NEW b, Len(b) \in Nat
  PROVE  \A i \in 0 .. Len(b) : Joined(b)[i] = JoinStep(b, Joined(b), i)
<1> DEFINE UpTo(k) == {i \in 0 .. Len(b) : i <= k}
           Agrees(k) == \E f : f = [i \in UpTo(k) |-> JoinStep(b, f, i)]
           Covered == {k \in Nat : Agrees(k)}
<1>1. 0 \in Covered
  <2> DEFINE f == [i \in UpTo(0) |-> <<>>]
  <2>1. ASSUME NEW i \in UpTo(0) PROVE JoinStep(b, f, i) = <<>>
    BY DEF JoinStep
  <2>2. f = [i \in UpTo(0) |-> JoinStep(b, f, i)]
    <3> HIDE DEF UpTo
    <3> QED
      BY <2>1
  <2> QED
    BY <2>2
<1>2. ASSUME NEW k \in Nat, k \in Covered PROVE k + 1 \in Covered
  <2>1. PICK f : f = [i \in UpTo(k) |-> JoinStep(b, f, i)]
    BY <1>2
  <2> DEFINE g == [i \in UpTo(k + 1) |-> JoinStep(b, f, i)]
  <2>2. UpTo(k) \subseteq UpTo(k + 1) /\ \A i \in UpTo(k + 1) : i # 0 => i - 1 \in UpTo(k)
    OBVIOUS
  <2>3. \A i \in UpTo(k) : f[i] = g[i]
    BY <2>1, <2>2
  <2>4. ASSUME NEW i \in UpTo(k + 1) PROVE JoinStep(b, f, i) = JoinStep(b, g, i)
    BY <2>2, <2>3 DEF JoinStep
  <2>5. g = [i \in UpTo(k + 1) |-> JoinStep(b, g, i)]
    <3> HIDE DEF UpTo
    <3> QED
      BY <2>4
  <2>6. Agrees(k + 1)
    <3> HIDE DEF UpTo, g
    <3> QED
      BY <2>5
  <2> HIDE DEF Agrees
  <2> QED
    BY <2>6
<1>3. Agrees(Len(b))
  <2> HIDE DEF Agrees
  <2>1. Nat \subseteq Covered
    BY <1>1, <1>2, Induction
  <2> QED
    BY <2>1
<1>4. UpTo(Len(b)) = 0 .. Len(b)
  OBVIOUS
<1>5. \E f : f = [i \in 0 .. Len(b) |-> JoinStep(b, f, i)]
  BY <1>3, <1>4
<1>6. Joined(b) = [i \in 0 .. Len(b) |-> JoinStep(b, Joined(b), i)]
  BY <1>5, Zenon DEF Joined, JoinStep
<1> QED
  BY <1>6

LEMMA FlatIs ==
  /\ Flat(<<>>) = <<>>
  /\ \A b \in Seq(Seq(Nat)) : Flat(b) \in Seq(Nat)
  /\ \A b \in Seq(Seq(Nat)), x \in Seq(Nat) : Flat(Append(b, x)) = Flat(b) \o x
<1>1. Flat(<<>>) = <<>>
  <2>1. Len(<<>>) = 0
    OBVIOUS
  <2>2. Joined(<<>>)[0] = JoinStep(<<>>, Joined(<<>>), 0)
    BY <2>1, JoinRecursion
  <2> QED
    BY <2>1, <2>2 DEF Flat, JoinStep
<1>2. ASSUME NEW b \in Seq(Seq(Nat)) PROVE \A i \in 0 .. Len(b) : Joined(b)[i] \in Seq(Nat)
  <2> DEFINE S == {i \in Nat : i <= Len(b) => Joined(b)[i] \in Seq(Nat)}
  <2>1. \A i \in 0 .. Len(b) : Joined(b)[i] = JoinStep(b, Joined(b), i)
    BY JoinRecursion
  <2>2. 0 \in S
    <3>1. Joined(b)[0] = <<>>
      BY <2>1 DEF JoinStep
    <3>2. <<>> \in Seq(Nat)
      OBVIOUS
    <3> QED
      BY <3>1, <3>2
  <2>3. ASSUME NEW i \in Nat, i \in S PROVE i + 1 \in S
    <3> SUFFICES ASSUME i + 1 <= Len(b) PROVE Joined(b)[i + 1] \in Seq(Nat)
      OBVIOUS
    <3>1. Joined(b)[i + 1] = Joined(b)[i] \o b[i + 1]
      <4>1. i + 1 \in 0 .. Len(b) /\ i + 1 # 0 /\ (i + 1) - 1 = i
        OBVIOUS
      <4>2. Joined(b)[i + 1] = JoinStep(b, Joined(b), i + 1)
        BY <2>1, <4>1
      <4> QED
        BY <4>1, <4>2 DEF JoinStep
    <3>2. Joined(b)[i] \in Seq(Nat) /\ b[i + 1] \in Seq(Nat)
      BY <2>3
    <3> QED
      BY <3>1, <3>2, ConcatProperties
  <2>4. Nat \subseteq S
    <3> HIDE DEF S
    <3> QED
      BY <2>2, <2>3, Induction
  <2> QED
    BY <2>4
<1>3. ASSUME NEW b \in Seq(Seq(Nat)), NEW x \in Seq(Nat) PROVE Flat(Append(b, x)) = Flat(b) \o x
  <2> DEFINE c == Append(b, x)
             S == {i \in Nat : i <= Len(b) => Joined(c)[i] = Joined(b)[i]}
  <2>1. /\ c \in Seq(Seq(Nat)) /\ Len(c) = Len(b) + 1 /\ c[Len(b) + 1] = x /\ Len(b) \in Nat
        /\ \A i \in 1 .. Len(b) : c[i] = b[i]
    OBVIOUS
  <2> HIDE DEF c
  <2>2. \A i \in 0 .. Len(b) : Joined(b)[i] = JoinStep(b, Joined(b), i)
    BY <2>1, JoinRecursion
  <2>3. \A i \in 0 .. Len(b) + 1 : Joined(c)[i] = JoinStep(c, Joined(c), i)
    BY <2>1, JoinRecursion
  <2>4. 0 \in S
    BY <2>1, <2>2, <2>3 DEF JoinStep
  <2>5. ASSUME NEW i \in Nat, i \in S PROVE i + 1 \in S
    BY <2>1, <2>2, <2>3, <2>5, SMTT(30) DEF JoinStep
  <2>6. Nat \subseteq S
    <3> HIDE DEF S
    <3> QED
      BY <2>4, <2>5, Induction
  <2>7. Joined(c)[Len(b)] = Joined(b)[Len(b)]
    BY <2>1, <2>6
  <2>8. Joined(c)[Len(b) + 1] = Joined(c)[Len(b)] \o x
    <3>1. Len(b) + 1 \in 0 .. Len(b) + 1 /\ Len(b) + 1 # 0 /\ (Len(b) + 1) - 1 = Len(b)
      BY <2>1
    <3>2. Joined(c)[Len(b) + 1] = JoinStep(c, Joined(c), Len(b) + 1)
      BY <2>3, <3>1
    <3> QED
      BY <2>1, <3>1, <3>2 DEF JoinStep
  <2> QED
    BY <2>1, <2>7, <2>8 DEF Flat, c
<1> QED
  BY <1>1, <1>2, <1>3 DEF Flat

-----------------------------------------------------------------------------
(* An archive is a header and blocks: where one may begin, and that what   *)
(* comes from there on is bytes.                                           *)
Begins(a, i) == i \in 2 .. Len(a) + 1 /\ (i <= Len(a) => a[i].type = "block")

LEMMA RecordsAre ==
  ASSUME NEW a \in Archives, NEW i \in 1 .. Len(a)
  PROVE  /\ a \in Seq(Records) /\ a[i] \in Records
         /\ a[i].type = "header" => a[i] \in HeaderItems
         /\ a[i].type = "block" => a[i] \in BlockItems
         /\ a[i].type = "data" => a[i] \in DataItems
         /\ i = 1 => a[i].type = "header"
<1>1. a \in Seq(Records)
  BY DecompressAssumption
<1>2. a[i] \in Records
  BY <1>1
<1>3. i = 1 => a[i].type = "header"
  BY DecompressAssumption
<1> QED
  BY <1>1, <1>2, <1>3 DEF Records, HeaderItems, BlockItems, DataItems

LEMMA BlockThen ==
  ASSUME NEW a \in Archives, NEW i, Begins(a, i), i <= Len(a)
  PROVE  /\ a[i] \in BlockItems /\ i \in 2 .. Len(a) /\ Len(a) \in Nat
         /\ a[i].stored = 0 => Begins(a, i + 1)
         /\ a[i].stored # 0 /\ i + 1 <= Len(a) => a[i + 1] \in DataItems /\ Begins(a, i + 2)
<1>1. a \in Seq(Records) /\ i \in 2 .. Len(a) /\ a[i].type = "block"
  BY DecompressAssumption DEF Begins
<1>2. a[i] \in BlockItems /\ a[i].stored \in Nat
  <2>1. a[i] \in BlockItems
    BY <1>1, RecordsAre
  <2> QED
    BY <2>1 DEF BlockItems
<1>3. ASSUME NEW j \in 2 .. Len(a)
      PROVE  a[j].type = IF a[j - 1].type = "block" /\ a[j - 1].stored > 0 THEN "data" ELSE "block"
  BY DecompressAssumption
<1>4. CASE a[i].stored = 0
  <2>1. i + 1 <= Len(a) => a[i + 1].type = "block"
    BY <1>1, <1>3, <1>4
  <2> QED
    BY <1>1, <1>2, <1>4, <2>1 DEF Begins
<1>5. CASE a[i].stored # 0 /\ i + 1 <= Len(a)
  <2>1. a[i + 1].type = "data"
    BY <1>1, <1>2, <1>3, <1>5
  <2>2. a[i + 1] \in DataItems
    BY <1>1, <1>5, <2>1, RecordsAre
  <2>3. i + 2 <= Len(a) => a[i + 2].type = "block"
    BY <1>1, <1>3, <1>5, <2>1
  <2> QED
    BY <1>1, <1>2, <1>5, <2>2, <2>3 DEF Begins
<1> QED
  BY <1>1, <1>2, <1>4, <1>5

LEMMA WholeThen ==
  ASSUME NEW a \in Archives, NEW i, Begins(a, i), WholeBlock(a, i)
  PROVE  /\ BlockOutput(a, i) \in Seq(Nat)
         /\ Begins(a, NextBlock(a, i))
         /\ NextBlock(a, i) \in i + 1 .. Len(a) + 1
<1>1. i <= Len(a) /\ NextBlock(a, i) <= Len(a) + 1 /\ Len(a) \in Nat /\ i \in 2 .. Len(a)
  BY BlockThen DEF WholeBlock
<1>2. CASE a[i].stored = 0
  <2>1. NextBlock(a, i) = i + 1 /\ BlockOutput(a, i) = <<>>
    BY <1>2 DEF NextBlock, BlockOutput
  <2>2. <<>> \in Seq(Nat)
    OBVIOUS
  <2> QED
    BY <1>1, <1>2, <2>1, <2>2, BlockThen
<1>3. CASE a[i].stored # 0
  <2>1. NextBlock(a, i) = i + 2 /\ BlockOutput(a, i) = a[i + 1].bytes
    BY <1>3 DEF NextBlock, BlockOutput
  <2>2. i + 1 <= Len(a)
    BY <1>1, <2>1
  <2>3. a[i + 1] \in DataItems /\ Begins(a, i + 2)
    BY <1>1, <1>3, <2>2, BlockThen
  <2>4. a[i + 1].bytes \in Seq(Nat)
    BY <2>3 DEF DataItems
  <2> QED
    BY <1>1, <2>1, <2>3, <2>4
<1> QED
  BY <1>2, <1>3

LEMMA MeaningIs ==
  ASSUME NEW a \in Archives, NEW n, Begins(a, n)
  PROVE  /\ Meaning(a)[n] = MeaningStep(a, Meaning(a), n)
         /\ Meaning(a)[n].output \in Seq(Nat)
         /\ Meaning(a)[n] = [error |-> Meaning(a)[n].error, output |-> Meaning(a)[n].output]
<1> DEFINE M == Meaning(a)
           Typed(i) == M[i].output \in Seq(Nat) /\ M[i] = [error |-> M[i].error, output |-> M[i].output]
           S == {k \in Nat : \A i \in 2 .. Len(a) + 1 : Begins(a, i) /\ i + k >= Len(a) + 1 => Typed(i)}
<1>1. Len(a) \in Nat
  BY DecompressAssumption
<1>2. \A i \in 2 .. Len(a) + 1 : M[i] = MeaningStep(a, M, i)
  BY <1>1, MeaningRecursion
<1> HIDE DEF M
<1>3. ASSUME NEW i \in 2 .. Len(a) + 1, Begins(a, i),
             WholeBlock(a, i) => Typed(NextBlock(a, i))
      PROVE  Typed(i)
  <2>1. M[i] = MeaningStep(a, M, i)
    BY <1>2
  <2>2. CASE ~WholeBlock(a, i)
    <3>1. <<>> \in Seq(Nat)
      OBVIOUS
    <3> QED
      BY <2>1, <2>2, <3>1 DEF MeaningStep, Corrupt
  <2>3. CASE WholeBlock(a, i) /\ a[i].final
    BY <1>3, <2>1, <2>3, WholeThen DEF MeaningStep
  <2>4. CASE WholeBlock(a, i) /\ ~a[i].final
    <3> DEFINE o == BlockOutput(a, i) \o M[NextBlock(a, i)].output
    <3>1. M[i] = [error |-> M[NextBlock(a, i)].error, output |-> o]
      BY <2>1, <2>4 DEF MeaningStep
    <3>2. o \in Seq(Nat)
      BY <1>3, <2>4, WholeThen, ConcatProperties
    <3> HIDE DEF o
    <3> QED
      BY <3>1, <3>2
  <2> QED
    BY <2>2, <2>3, <2>4
<1>4. 0 \in S
  <2> SUFFICES ASSUME NEW i \in 2 .. Len(a) + 1, Begins(a, i), i + 0 >= Len(a) + 1 PROVE Typed(i)
    OBVIOUS
  <2>1. ~WholeBlock(a, i)
    BY <1>1 DEF WholeBlock
  <2> QED
    BY <1>3, <2>1
<1>5. ASSUME NEW k \in Nat, k \in S PROVE k + 1 \in S
  <2> SUFFICES ASSUME NEW i \in 2 .. Len(a) + 1, Begins(a, i), i + (k + 1) >= Len(a) + 1 PROVE Typed(i)
    OBVIOUS
  <2>1. ASSUME WholeBlock(a, i) PROVE Typed(NextBlock(a, i))
    <3> DEFINE j == NextBlock(a, i)
    <3>1. Begins(a, j) /\ j \in i + 1 .. Len(a) + 1
      BY <2>1, WholeThen
    <3> HIDE DEF j, Typed
    <3>2. j \in 2 .. Len(a) + 1 /\ j + k >= Len(a) + 1
      BY <1>1, <3>1
    <3>3. Typed(j)
      BY <1>5, <3>1, <3>2
    <3> QED
      BY <3>3 DEF j
  <2> QED
    BY <1>3, <2>1
<1>6. Len(a) \in S
  <2> HIDE DEF Typed
  <2>1. Nat \subseteq S
    BY <1>4, <1>5, Induction
  <2> QED
    BY <1>1, <2>1
<1>7. n \in 2 .. Len(a) + 1 /\ n + Len(a) >= Len(a) + 1
  BY <1>1 DEF Begins
<1>8. Typed(n)
  <2> HIDE DEF Typed
  <2> QED
    BY <1>6, <1>7
<1> QED
  BY <1>2, <1>7, <1>8 DEF M

-----------------------------------------------------------------------------
(* What an output may hold. *)
Item == {Cut, Earlier} \cup Seq(Nat)

Faults     == {"InvalidArgument", "OpenFailed", "NoMemory", "WriteFailed", "OutputOverflow",
               "ReadFailed"}
Rejections == {"CorruptData", "UnsupportedVersion", "UnsupportedAlgorithm"}
Failures   == Faults \cup Rejections \cup {"Cancelled"}
Places     == Setup \cup Loop \cup Ending
Progress   == [produced : Nat, done : BOOLEAN]

TypeInv ==
  /\ archive \in Archives
  /\ faulty \in BOOLEAN
  /\ allowPartial \in BOOLEAN
  /\ sink \in SinkOf(Item)
  /\ cancelRequested \in BOOLEAN
  /\ pc \in Places
  /\ result \in [error : {"Ok"} \cup Failures, outputBytes : Nat]
  /\ next \in 1 .. Len(archive) + 1
  /\ header \in HeaderItems
  /\ block \in BlockItems
  /\ allocated \in 0 .. header.blockSize
  /\ reported \in Seq(Progress)
  /\ failures \in BOOLEAN
  /\ lateCancel \in BOOLEAN

(* Where the run is in the archive. *)
AtBlock  == {"checkCancel", "readBlock"}
InBlock  == {"validate", "allocate", "writeOutput"}

PlaceInv ==
  /\ pc \in Setup => next = 1 /\ allocated = 0
  /\ pc \notin Setup \cup {"ended"} =>
       archive # <<>> /\ header = archive[1] /\ header.check = "Ok" /\ header.blockSize # 0
  /\ pc = "ended" /\ result.error = "Ok" => archive # <<>> /\ header = archive[1]
  /\ pc \in AtBlock \cup {"report"} => Begins(archive, next)
  /\ pc \in InBlock => Begins(archive, next - 1) /\ next - 1 <= Len(archive) /\ block = archive[next - 1]
  /\ pc \in {"allocate", "writeOutput"} => InBounds(header, block)
  /\ pc = "writeOutput" /\ block.stored # 0 => next <= Len(archive)

(* Where the session is: what the run may publish, and when.               *)
SinkInv ==
  /\ pc \in {"start", "openSource", "openSink", "ended"} => AtRest(sink)
  /\ pc # "ended" => result.error = "Ok"
  /\ IsTransactional(sink) /\ (pc \notin {"done", "ended"} \/ result.error # "Ok") =>
       sink.out = <<Earlier>>
  /\ pc = "done" /\ IsTransactional(sink) => sink.staged = <<>>
  /\ \A i \in 1 .. Len(reported) : reported[i].done => Ended /\ result.error = "Ok"

(* A run that is beyond its last look at the flag is not cancelled, or too *)
(* late.                                                                   *)
CancelInv ==
  /\ pc \in {"commit", "done"} /\ cancelRequested => lateCancel
  /\ CancelIsHonoured

(* What is written, and what is still to come, is what the archive means.  *)
Position == IF pc \in InBlock THEN next - 1 ELSE next
AtPrefix == pc \in AtBlock \cup InBlock \/ (pc = "report" /\ ~block.final)
IsWhole  == pc \in {"checkSize", "lastCheck", "commit"} \/ (pc = "report" /\ block.final)

MeaningInv ==
  /\ pc \in Setup => result.outputBytes = 0 /\ (~IsTransactional(sink) => sink.out = <<>>)
  /\ pc = "readHeader" => WrittenTo(sink) = <<>> /\ sink.bytes = 0
  /\ AtPrefix \/ IsWhole =>
       /\ WrittenTo(sink) \in Seq(Seq(Nat))
       /\ sink.bytes = Len(Flat(WrittenTo(sink))) /\ result.outputBytes = sink.bytes
  /\ AtPrefix =>
       /\ Meaning(archive)[2].error = Meaning(archive)[Position].error
       /\ Meaning(archive)[2].output = Flat(WrittenTo(sink)) \o Meaning(archive)[Position].output
  /\ IsWhole => Meaning(archive)[2].error = "Ok" /\ Meaning(archive)[2].output = Flat(WrittenTo(sink))
  /\ pc \in {"lastCheck", "commit"} => Decode(archive) = Meaning(archive)[2]
  /\ pc = "done" \/ (pc = "ended" /\ result.error = "Ok") =>
       /\ Decode(archive).error = "Ok"
       /\ (sink.kind = "fixed" /\ Decode(archive).output = <<>>) \/ Flat(sink.out) = Decode(archive).output
       /\ result.outputBytes = Len(Decode(archive).output)
  /\ pc = "ended" /\ ~failures /\ ~cancelRequested => result.error = Decode(archive).error

Inv == TypeInv /\ PlaceInv /\ SinkInv /\ CancelInv /\ MeaningInv

-----------------------------------------------------------------------------
(* A step that ends the run with an error, and why it may.                 *)
EndsWith(e) ==
  /\ pc' = "ended"
  /\ sink' \in SinkOf(Item)
  /\ sink'.kind = sink.kind
  /\ AtRest(sink')
  /\ IsTransactional(sink) => sink'.out = sink.out
  /\ result' = [result EXCEPT !.error = e]

Frame ==
  /\ pc \notin {"done", "ended"}
  /\ UNCHANGED <<given, cancelRequested, reported, lateCancel>>
  /\ next' \in 1 .. Len(archive) + 1
  /\ header' \in HeaderItems
  /\ block' \in BlockItems
  /\ allocated' \in 0 .. header'.blockSize

RunEnds ==
  /\ Frame
  /\ failures' \in BOOLEAN
  /\ \E e \in Failures :
       /\ EndsWith(e)
       /\ e = "Cancelled" => cancelRequested
       /\ failures' \/ cancelRequested \/ e = Decode(archive).error

LEMMA ReturnEnds ==
  ASSUME TypeInv, NEW s \in SinkOf(Item), s.kind = sink.kind, IsTransactional(sink) => s.out = sink.out,
         NEW opened \in BOOLEAN, opened \/ (IsTransactional(s) => s.staged = <<>>),
         NEW e, NEW other \in BOOLEAN, Return(s, opened, FALSE, e, other)
  PROVE  EndsWith(e) /\ failures' = (failures \/ other)
<1>1. /\ EndSession(s, opened, FALSE) \in SinkOf(Item)
      /\ EndSession(s, opened, FALSE).kind = s.kind
      /\ EndSession(s, opened, FALSE).out = s.out
      /\ AtRest(EndSession(s, opened, FALSE))
  BY EndSessionIs
<1> QED
  BY <1>1 DEF Return, EndsWith, IsTransactional

LEMMA FaultEnds ==
  ASSUME TypeInv, NEW s \in SinkOf(Item), s.kind = sink.kind, IsTransactional(sink) => s.out = sink.out,
         NEW opened \in BOOLEAN, opened \/ (IsTransactional(s) => s.staged = <<>>),
         NEW e \in Faults, Return(s, opened, FALSE, e, TRUE), Frame
  PROVE  RunEnds
<1>1. EndsWith(e) /\ failures'
  BY ReturnEnds DEF TypeInv
<1>2. failures' = TRUE
  BY ReturnEnds DEF TypeInv
<1> QED
  BY <1>1, <1>2 DEF RunEnds, Failures, Faults

LEMMA FailEnds == ASSUME TypeInv, NEW e \in Faults, Fail(e), Frame PROVE RunEnds
BY FaultEnds DEF Fail, TypeInv

LEMMA RejectEnds ==
  ASSUME TypeInv, NEW e \in Rejections \cup {"Cancelled"}, Reject(e), Frame,
         IF e = "Cancelled" THEN cancelRequested ELSE e = Decode(archive).error
  PROVE  RunEnds
<1>1. EndsWith(e) /\ failures' = failures
  BY ReturnEnds DEF Reject, TypeInv
<1> QED
  BY <1>1 DEF RunEnds, Failures, Rejections, TypeInv

(* What a block that is not whole, or a header that is not right, means.   *)
LEMMA CorruptMeans ==
  ASSUME NEW a \in Archives, a # <<>>, a[1].check = "Ok", a[1].blockSize # 0,
         Meaning(a)[2].error = "CorruptData"
  PROVE  Decode(a).error = "CorruptData"
BY DEF Decode, Corrupt

LEMMA NotWholeMeans ==
  ASSUME TypeInv, PlaceInv, MeaningInv, AtPrefix, pc # "report", ~WholeBlock(archive, Position)
  PROVE  Decode(archive).error = "CorruptData"
<1>1. Begins(archive, Position)
  BY DEF AtPrefix, PlaceInv, Position, AtBlock, InBlock
<1>2. Meaning(archive)[Position].error = "CorruptData"
  <2>1. Meaning(archive)[Position] = MeaningStep(archive, Meaning(archive), Position)
    BY <1>1, MeaningIs DEF TypeInv
  <2> QED
    BY <2>1 DEF MeaningStep, Corrupt
<1>3. Meaning(archive)[2].error = "CorruptData"
  BY <1>2 DEF MeaningInv
<1>4. archive # <<>> /\ archive[1].check = "Ok" /\ archive[1].blockSize # 0
  BY DEF PlaceInv, AtPrefix, AtBlock, InBlock, Setup
<1> QED
  BY <1>3, <1>4, CorruptMeans DEF TypeInv

-----------------------------------------------------------------------------
(* What each action does when it does not end the run. *)
Goes(from, to) ==
  pc = from /\ pc' = to /\ UNCHANGED <<given, cancelRequested, failures, lateCancel>>

Quiet == UNCHANGED <<sink, result, reported>>

Starts     == Goes("start", "openSource") /\ Quiet /\ UNCHANGED <<locals, allocated>>
Opens      == Goes("openSource", "openSink") /\ Quiet /\ UNCHANGED <<locals, allocated>>
OpensSink  == /\ Goes("openSink", "readHeader") /\ sink' = OpenSink(sink)
              /\ UNCHANGED <<result, reported, locals, allocated>>
TakesHead  == /\ Goes("readHeader", "checkCancel") /\ Quiet /\ UNCHANGED <<block, allocated>>
              /\ Available /\ header' = archive[next] /\ next' = next + 1
              /\ header'.check = "Ok" /\ header'.blockSize # 0
Looks      == Goes("checkCancel", "readBlock") /\ ~cancelRequested /\ Quiet /\ UNCHANGED <<locals, allocated>>
TakesBlock == /\ Goes("readBlock", "validate") /\ Quiet /\ UNCHANGED <<header, allocated>>
              /\ Available /\ block' = archive[next] /\ next' = next + 1
Allows     == Goes("validate", "allocate") /\ InBounds(header, block) /\ Quiet /\ UNCHANGED <<locals, allocated>>
TakesData  == /\ Goes("allocate", "writeOutput") /\ Quiet /\ UNCHANGED locals
              /\ Demand(block.stored) /\ (block.stored # 0 => Available)
Writes     == /\ Goes("writeOutput", "report") /\ UNCHANGED <<header, block, reported>>
              /\ Intact(block, Output)
              /\ sink' = WriteSink(sink, Output, Len(Output))
              /\ result' = [result EXCEPT !.outputBytes = @ + Len(Output)]
              /\ Demand(IF block.raw THEN 0 ELSE block.original)
              /\ next' = IF block.stored = 0 THEN next ELSE next + 1
Reports    == /\ Goes("report", IF block.final THEN "checkSize" ELSE "checkCancel") /\ Report(FALSE)
              /\ UNCHANGED <<sink, result, locals, allocated>>
SizeAgrees == /\ Goes("checkSize", "lastCheck") /\ ~(header.known /\ result.outputBytes # header.size)
              /\ Quiet /\ UNCHANGED <<locals, allocated>>
LooksLast  == Goes("lastCheck", "commit") /\ ~cancelRequested /\ Quiet /\ UNCHANGED <<locals, allocated>>
Commits    == /\ Goes("commit", "done") /\ sink' = CommitSink(sink)
              /\ UNCHANGED <<result, reported, locals, allocated>>
Finishes   == /\ Goes("done", "ended") /\ sink' = EndSession(sink, TRUE, TRUE) /\ Report(TRUE)
              /\ UNCHANGED <<result, locals, allocated>>

Proceeds ==
  \/ Starts \/ Opens \/ OpensSink \/ TakesHead \/ Looks \/ TakesBlock \/ Allows \/ TakesData
  \/ Writes \/ Reports \/ SizeAgrees \/ LooksLast \/ Commits \/ Finishes

(* Sizes of the block at hand, and what is asked for it. *)
LEMMA SizesAre ==
  ASSUME TypeInv
  PROVE  /\ header.blockSize \in Nat /\ header.size \in Nat
         /\ block.original \in Nat /\ block.stored \in Nat /\ allocated \in Nat
         /\ Len(archive) \in Nat /\ archive \in Seq(Records)
BY DecompressAssumption DEF TypeInv, HeaderItems, BlockItems

LEMMA DemandIs ==
  ASSUME TypeInv, NEW n \in 0 .. header.blockSize, Demand(n)
  PROVE  allocated' \in 0 .. header.blockSize
BY SizesAre DEF Demand, TypeInv

LEMMA StartEndsOrProceeds ==
  ASSUME TypeInv, SinkInv, Start \/ OpenSource \/ OpenTheSink PROVE RunEnds \/ Proceeds
<1>0. UNCHANGED <<given, cancelRequested, locals, allocated, reported, lateCancel>>
  BY DEF Start, OpenSource, OpenTheSink
<1>1. pc \in {"start", "openSource", "openSink"} /\ AtRest(sink) /\ sink \in SinkOf(Item)
  BY DEF Start, OpenSource, OpenTheSink, SinkInv, TypeInv
<1>2. Frame
  BY <1>0, <1>1 DEF Frame, locals, TypeInv
<1>3. ASSUME NEW e \in Faults, Return(sink, FALSE, FALSE, e, TRUE) PROVE RunEnds
  BY <1>1, <1>2, <1>3, FaultEnds DEF AtRest
<1>4. CASE Start
  <2>1. CASE ~IsTransactional(sink) /\ ~allowPartial
    <3>1. EndsWith("InvalidArgument") /\ failures' = TRUE
      BY <1>1, <1>4, <2>1 DEF Start, EndsWith
    <3> QED
      BY <1>2, <3>1 DEF RunEnds, Failures, Faults
  <2>2. CASE IsTransactional(sink) \/ allowPartial
    BY <1>0, <1>4, <2>2 DEF Start, Continue, Goto, Proceeds, Starts, Goes, Quiet
  <2> QED
    BY <2>1, <2>2
<1>5. CASE OpenSource
  <2>1. CASE Continue("openSink")
    BY <1>0, <1>5, <2>1 DEF OpenSource, Continue, Goto, Proceeds, Opens, Goes, Quiet
  <2>2. CASE Return(sink, FALSE, FALSE, "OpenFailed", TRUE)
    BY <1>3, <2>2 DEF Faults
  <2> QED
    BY <1>5, <2>1, <2>2 DEF OpenSource
<1>6. CASE OpenTheSink
  <2>1. PICK e \in OpenErrors(sink) :
          IF e = "Ok"
            THEN sink' = OpenSink(sink) /\ Goto("readHeader") /\ UNCHANGED <<result, failures>>
            ELSE Return(sink, FALSE, FALSE, e, TRUE)
    BY <1>6 DEF OpenTheSink
  <2>2. CASE e = "Ok"
    BY <1>0, <1>6, <2>1, <2>2 DEF OpenTheSink, Goto, Proceeds, OpensSink, Goes
  <2>3. CASE e # "Ok"
    <3>1. e \in Faults
      BY <2>3 DEF OpenErrors, Faults
    <3> QED
      BY <1>3, <2>1, <2>3, <3>1
  <2> QED
    BY <2>2, <2>3
<1> QED
  BY <1>4, <1>5, <1>6

LEMMA ReadHeaderEndsOrProceeds ==
  ASSUME TypeInv, PlaceInv, ReadHeader PROVE RunEnds \/ Proceeds
<1>0. UNCHANGED <<given, cancelRequested, block, allocated, reported, lateCancel>> /\ pc = "readHeader"
  BY DEF ReadHeader
<1>1. next = 1 /\ allocated = 0 /\ archive \in Archives
  BY <1>0 DEF PlaceInv, Setup, TypeInv
<1>2. ASSUME UNCHANGED <<next, header>> PROVE Frame
  BY <1>0, <1>2 DEF Frame, TypeInv
<1>3. CASE ReadFails /\ UNCHANGED <<next, header>>
  BY <1>2, <1>3, FailEnds DEF ReadFails, Faults
<1>4. CASE ~Available /\ Reject("CorruptData") /\ UNCHANGED <<next, header>>
  <2>1. archive = <<>>
    BY <1>1, <1>4, SizesAre DEF Available
  <2>2. Decode(archive).error = "CorruptData"
    BY <2>1 DEF Decode, Corrupt
  <2> QED
    BY <1>2, <1>4, <2>2, RejectEnds DEF Rejections
<1>5. CASE /\ Available
           /\ header' = archive[next]
           /\ next' = next + 1
           /\ CASE header'.check # "Ok"  -> Reject(header'.check)
                [] header'.check = "Ok" /\ header'.blockSize = 0 -> Reject("CorruptData")
                [] OTHER -> Continue("checkCancel")
  <2>1. 1 \in 1 .. Len(archive) /\ archive # <<>> /\ header' = archive[1] /\ next' = 2
    BY <1>1, <1>5, SizesAre DEF Available
  <2>2. header' \in HeaderItems /\ header'.blockSize \in Nat
    <3>1. archive[1] \in HeaderItems
      BY <1>1, <2>1, RecordsAre
    <3> QED
      BY <2>1, <3>1 DEF HeaderItems
  <2>3. Frame
    BY <1>0, <1>1, <2>1, <2>2, SizesAre DEF Frame, TypeInv
  <2>4. CASE header'.check # "Ok"
    <3>1. Decode(archive).error = header'.check
      BY <2>1, <2>4 DEF Decode
    <3>2. header'.check \in Rejections
      BY <2>2, <2>4 DEF HeaderItems, Checks, Rejections
    <3>3. Reject(header'.check)
      BY <1>5, <2>4
    <3>4. PICK e : e = header'.check
      OBVIOUS
    <3>5. e \in Rejections /\ Reject(e) /\ e # "Cancelled" /\ e = Decode(archive).error
      BY <3>1, <3>2, <3>3, <3>4 DEF Rejections
    <3> QED
      BY <2>3, <3>5, RejectEnds
  <2>5. CASE header'.check = "Ok" /\ header'.blockSize = 0
    <3>1. Decode(archive).error = "CorruptData"
      BY <2>1, <2>5 DEF Decode, Corrupt
    <3> QED
      BY <1>5, <2>3, <2>5, <3>1, RejectEnds DEF Rejections
  <2>6. CASE header'.check = "Ok" /\ header'.blockSize # 0
    <3>1. Continue("checkCancel")
      BY <1>5, <2>6
    <3> QED
      BY <1>0, <1>5, <2>6, <3>1 DEF Continue, Goto, Proceeds, TakesHead, Goes, Quiet
  <2> QED
    BY <2>4, <2>5, <2>6
<1> QED
  BY <1>3, <1>4, <1>5 DEF ReadHeader

LEMMA ReadBlockEndsOrProceeds ==
  ASSUME TypeInv, PlaceInv, MeaningInv, CheckCancel \/ ReadBlock \/ Validate PROVE RunEnds \/ Proceeds
<1>0. UNCHANGED <<given, cancelRequested, header, allocated, reported, lateCancel>>
  BY DEF CheckCancel, ReadBlock, Validate, locals
<1>1. pc \in {"checkCancel", "readBlock", "validate"} /\ AtPrefix
  BY DEF CheckCancel, ReadBlock, Validate, AtPrefix, AtBlock, InBlock
<1>2. ASSUME UNCHANGED <<next, block>> PROVE Frame
  BY <1>0, <1>1, <1>2 DEF Frame, TypeInv
<1>3. ASSUME UNCHANGED <<next, block>>, Reject("CorruptData"), ~WholeBlock(archive, Position)
      PROVE  RunEnds
  <2>1. Decode(archive).error = "CorruptData"
    BY <1>1, <1>3, NotWholeMeans
  <2> QED
    BY <1>2, <1>3, <2>1, RejectEnds DEF Rejections
<1>4. CASE CheckCancel
  <2>1. UNCHANGED <<next, block>>
    BY <1>4 DEF CheckCancel, locals
  <2>2. CASE cancelRequested
    BY <1>2, <1>4, <2>1, <2>2, RejectEnds DEF CheckCancel
  <2>3. CASE ~cancelRequested
    BY <1>0, <1>4, <2>3 DEF CheckCancel, Continue, Goto, Proceeds, Looks, Goes, Quiet
  <2> QED
    BY <2>2, <2>3
<1>5. CASE ReadBlock
  <2>1. CASE ReadFails /\ UNCHANGED <<next, block>>
    BY <1>2, <2>1, FailEnds DEF ReadFails, Faults
  <2>2. CASE ~Available /\ Reject("CorruptData") /\ UNCHANGED <<next, block>>
    <3>1. ~WholeBlock(archive, Position)
      BY <1>5, <2>2 DEF ReadBlock, Available, WholeBlock, Position, InBlock
    <3> QED
      BY <1>3, <2>2, <3>1
  <2>3. CASE Available /\ block' = archive[next] /\ next' = next + 1 /\ Continue("validate")
    BY <1>0, <1>5, <2>3 DEF ReadBlock, Continue, Goto, Proceeds, TakesBlock, Goes, Quiet
  <2> QED
    BY <1>5, <2>1, <2>2, <2>3 DEF ReadBlock
<1>6. CASE Validate
  <2>1. UNCHANGED <<next, block>>
    BY <1>6 DEF Validate, locals
  <2>2. CASE InBounds(header, block)
    BY <1>0, <1>6, <2>2 DEF Validate, Continue, Goto, Proceeds, Allows, Goes, Quiet
  <2>3. CASE ~InBounds(header, block)
    <3>1. header = archive[1] /\ block = archive[next - 1] /\ Position = next - 1
      BY <1>6 DEF Validate, PlaceInv, Position, InBlock, Setup
    <3>2. ~WholeBlock(archive, Position)
      BY <2>3, <3>1 DEF WholeBlock
    <3> QED
      BY <1>3, <1>6, <2>1, <2>3, <3>2 DEF Validate
  <2> QED
    BY <2>2, <2>3
<1> QED
  BY <1>4, <1>5, <1>6

LEMMA AllocateEndsOrProceeds ==
  ASSUME TypeInv, PlaceInv, MeaningInv, Allocate PROVE RunEnds \/ Proceeds
<1>0. UNCHANGED <<given, cancelRequested, locals, reported, lateCancel>> /\ pc = "allocate"
  BY DEF Allocate
<1>1. Frame
  <2>1. block.stored \in 0 .. header.blockSize
    BY <1>0, SizesAre DEF PlaceInv, InBounds
  <2>2. allocated' \in 0 .. header.blockSize
    BY <2>1, DemandIs DEF Allocate
  <2> QED
    BY <1>0, <2>2 DEF Frame, TypeInv, locals
<1>2. CASE block.stored > 0 /\ (Fail("NoMemory") \/ ReadFails)
  BY <1>1, <1>2, FailEnds DEF ReadFails, Faults
<1>3. CASE block.stored > 0 /\ ~Available /\ Reject("CorruptData")
  <2>1. block = archive[next - 1] /\ Position = next - 1 /\ next \in Nat /\ next > Len(archive)
    BY <1>0, <1>3, SizesAre DEF PlaceInv, Position, InBlock, Available, TypeInv
  <2>2. ~WholeBlock(archive, Position)
    BY <1>3, <2>1, SizesAre DEF WholeBlock, NextBlock
  <2>3. Decode(archive).error = "CorruptData"
    BY <1>0, <2>2, NotWholeMeans DEF AtPrefix, InBlock
  <2> QED
    BY <1>1, <1>3, <2>3, RejectEnds DEF Rejections
<1>4. CASE ~(block.stored > 0 /\ ~Available) /\ Continue("writeOutput")
  <2>1. block.stored # 0 => Available
    BY <1>4, SizesAre
  <2> QED
    BY <1>0, <1>4, <2>1 DEF Allocate, Continue, Goto, Proceeds, TakesData, Goes, Quiet
<1> QED
  BY <1>2, <1>3, <1>4 DEF Allocate

(* The block at hand, where writeOutput decodes it. *)
LEMMA OutputIs ==
  ASSUME TypeInv, PlaceInv, pc = "writeOutput"
  PROVE  /\ Begins(archive, Position) /\ Position = next - 1 /\ archive[Position] = block
         /\ Output = BlockOutput(archive, Position) /\ Output \in Seq(Nat)
         /\ NextBlock(archive, Position) = IF block.stored = 0 THEN next ELSE next + 1
         /\ WholeBlock(archive, Position) <=> Intact(block, Output)
         /\ NextBlock(archive, Position) \in 1 .. Len(archive) + 1
<1>1. /\ Position = next - 1 /\ Begins(archive, next - 1) /\ next - 1 <= Len(archive)
      /\ block = archive[next - 1] /\ header = archive[1] /\ InBounds(header, block)
      /\ block.stored # 0 => next <= Len(archive)
  BY DEF Position, InBlock, PlaceInv, Setup
<1>2. next \in 1 .. Len(archive) + 1 /\ (next - 1) + 1 = next /\ (next - 1) + 2 = next + 1
      /\ Len(archive) \in Nat /\ archive \in Archives
  BY SizesAre DEF TypeInv
<1>3. Output = BlockOutput(archive, Position)
  BY <1>1, <1>2 DEF Output, BlockOutput
<1>4. NextBlock(archive, Position) = IF block.stored = 0 THEN next ELSE next + 1
  BY <1>1, <1>2 DEF NextBlock
<1>5. Output \in Seq(Nat)
  <2>1. CASE block.stored = 0
    <3>1. <<>> \in Seq(Nat)
      OBVIOUS
    <3> QED
      BY <2>1, <3>1 DEF Output
  <2>2. CASE block.stored # 0
    <3>1. archive[(next - 1) + 1] \in DataItems
      BY <1>1, <1>2, <2>2, BlockThen
    <3> QED
      BY <1>2, <2>2, <3>1 DEF Output, DataItems
  <2> QED
    BY <2>1, <2>2
<1>6. NextBlock(archive, Position) \in 1 .. Len(archive) + 1
  BY <1>1, <1>2, <1>4
<1>7. WholeBlock(archive, Position) <=> Intact(block, Output)
  BY <1>1, <1>2, <1>3, <1>6 DEF WholeBlock
<1> QED
  BY <1>1, <1>3, <1>4, <1>5, <1>6, <1>7

LEMMA WriteOutputEndsOrProceeds ==
  ASSUME TypeInv, PlaceInv, MeaningInv, WriteOutput PROVE RunEnds \/ Proceeds
<1>0. /\ UNCHANGED <<given, cancelRequested, header, block, reported, lateCancel>> /\ pc = "writeOutput"
      /\ Demand(IF block.raw THEN 0 ELSE block.original)
      /\ next' = IF block.stored = 0 THEN next ELSE next + 1
  BY DEF WriteOutput
<1>1. Frame
  <2>1. (IF block.raw THEN 0 ELSE block.original) \in 0 .. header.blockSize
    BY <1>0, SizesAre DEF PlaceInv, InBounds
  <2>2. allocated' \in 0 .. header.blockSize
    BY <1>0, <2>1, DemandIs
  <2>3. next' \in 1 .. Len(archive) + 1
    BY <1>0, OutputIs
  <2> QED
    BY <1>0, <2>2, <2>3 DEF Frame, TypeInv
<1>2. CASE Fail("NoMemory")
  BY <1>1, <1>2, FailEnds DEF Faults
<1>3. CASE ~Intact(block, Output) /\ Reject("CorruptData")
  <2>1. Decode(archive).error = "CorruptData"
    BY <1>0, <1>3, OutputIs, NotWholeMeans DEF AtPrefix, InBlock
  <2> QED
    BY <1>1, <1>3, <2>1, RejectEnds DEF Rejections
<1>4. CASE Intact(block, Output) /\ WriteThenReport
  <2>1. PICK e \in WriteErrors(sink, Len(Output)) :
          IF e = "Ok"
            THEN /\ sink' = WriteSink(sink, Output, Len(Output))
                 /\ result' = [result EXCEPT !.outputBytes = @ + Len(Output)]
                 /\ Goto("report")
                 /\ UNCHANGED failures
            ELSE \E s \in FailWrite(sink) : Return(s, TRUE, FALSE, e, TRUE)
    BY <1>4 DEF WriteThenReport
  <2>2. CASE e = "Ok"
    <3>1. Writes
      BY <1>0, <1>4, <2>1, <2>2 DEF Goto, Writes, Goes
    <3> QED
      BY <3>1 DEF Proceeds
  <2>3. CASE e # "Ok"
    <3>1. PICK s \in FailWrite(sink) : Return(s, TRUE, FALSE, e, TRUE)
      BY <2>1, <2>3
    <3>2. s \in SinkOf(Item) /\ s.kind = sink.kind /\ (IsTransactional(sink) => s.out = sink.out)
      BY FailWriteIs DEF TypeInv, Item
    <3>3. e \in Faults
      BY <2>3 DEF WriteErrors, Faults
    <3> QED
      BY <1>1, <3>1, <3>2, <3>3, FaultEnds
  <2> QED
    BY <2>2, <2>3
<1> QED
  BY <1>2, <1>3, <1>4 DEF WriteOutput

LEMMA FinishEndsOrProceeds ==
  ASSUME TypeInv, PlaceInv, MeaningInv, ReportBlock \/ CheckSize \/ LastCheck \/ Commit \/ Finish
  PROVE  RunEnds \/ Proceeds
<1>0. UNCHANGED <<given, cancelRequested, locals, allocated, lateCancel>>
  BY DEF ReportBlock, CheckSize, LastCheck, Commit, Finish
<1>1. ASSUME CheckSize \/ LastCheck \/ Commit PROVE Frame
  BY <1>0, <1>1 DEF CheckSize, LastCheck, Commit, Frame, TypeInv, locals
<1>2. CASE ReportBlock
  BY <1>0, <1>2 DEF ReportBlock, Continue, Goto, Proceeds, Reports, Goes
<1>3. CASE CheckSize
  <2>1. CASE header.known /\ result.outputBytes # header.size
    <3>1. archive # <<>> /\ header = archive[1] /\ header.check = "Ok" /\ header.blockSize # 0
      BY <1>3 DEF CheckSize, PlaceInv, Setup
    <3>2. Meaning(archive)[2].error = "Ok" /\ Len(Meaning(archive)[2].output) = result.outputBytes
      BY <1>3 DEF CheckSize, MeaningInv, IsWhole
    <3>3. Decode(archive).error = "CorruptData"
      BY <2>1, <3>1, <3>2 DEF Decode, Corrupt
    <3> QED
      BY <1>1, <1>3, <2>1, <3>3, RejectEnds DEF CheckSize, Rejections
  <2>2. CASE ~(header.known /\ result.outputBytes # header.size)
    BY <1>0, <1>3, <2>2 DEF CheckSize, Continue, Goto, Proceeds, SizeAgrees, Goes, Quiet
  <2> QED
    BY <2>1, <2>2
<1>4. CASE LastCheck
  <2>1. CASE cancelRequested
    BY <1>1, <1>4, <2>1, RejectEnds DEF LastCheck
  <2>2. CASE ~cancelRequested
    BY <1>0, <1>4, <2>2 DEF LastCheck, Continue, Goto, Proceeds, LooksLast, Goes, Quiet
  <2> QED
    BY <2>1, <2>2
<1>5. CASE Commit
  <2>1. PICK e \in CommitErrors(sink) :
          IF e = "Ok"
            THEN sink' = CommitSink(sink) /\ Goto("done") /\ UNCHANGED <<result, failures>>
            ELSE Fail(e)
    BY <1>5 DEF Commit
  <2>2. CASE e = "Ok"
    BY <1>0, <1>5, <2>1, <2>2 DEF Commit, Goto, Proceeds, Commits, Goes
  <2>3. CASE e # "Ok"
    <3>1. e \in Faults
      BY <2>3 DEF CommitErrors, Faults
    <3> QED
      BY <1>1, <1>5, <2>1, <2>3, <3>1, FailEnds
  <2> QED
    BY <2>2, <2>3
<1>6. CASE Finish
  BY <1>0, <1>6 DEF Finish, Proceeds, Finishes, Goes
<1> QED
  BY <1>2, <1>3, <1>4, <1>5, <1>6

LEMMA RunEndsOrProceeds ==
  ASSUME TypeInv, PlaceInv, SinkInv, MeaningInv, Run PROVE RunEnds \/ Proceeds
<1>1. \/ Start \/ OpenSource \/ OpenTheSink \/ ReadHeader \/ CheckCancel \/ ReadBlock \/ Validate
      \/ Allocate \/ WriteOutput \/ ReportBlock \/ CheckSize \/ LastCheck \/ Commit \/ Finish
  BY DEF Run
<1> QED
  BY <1>1, StartEndsOrProceeds, ReadHeaderEndsOrProceeds, ReadBlockEndsOrProceeds,
     AllocateEndsOrProceeds, WriteOutputEndsOrProceeds, FinishEndsOrProceeds

-----------------------------------------------------------------------------
(* What Writes and TakesHead, and a look at the flag, leave.               *)
LEMMA WriteTypes ==
  ASSUME TypeInv, PlaceInv, Writes
  PROVE  /\ sink' \in SinkOf(Item)
         /\ sink'.kind = sink.kind
         /\ sink'.bytes = sink.bytes + Len(Output)
         /\ WrittenTo(sink') = Append(WrittenTo(sink), Output)
         /\ IsTransactional(sink) => sink'.out = sink.out
         /\ Output \in Seq(Nat) /\ Len(Output) \in Nat
         /\ result'.error = result.error /\ result'.outputBytes = result.outputBytes + Len(Output)
         /\ result' \in [error : {"Ok"} \cup Failures, outputBytes : Nat]
         /\ allocated' \in 0 .. header.blockSize
         /\ next' = NextBlock(archive, Position) /\ next' \in 1 .. Len(archive) + 1
<1>1. pc = "writeOutput" /\ sink' = WriteSink(sink, Output, Len(Output)) /\ sink \in SinkOf(Item)
  BY DEF Writes, Goes, TypeInv
<1>2. Output \in Seq(Nat) /\ Output \in Item /\ Len(Output) \in Nat
  BY <1>1, OutputIs DEF Item
<1>3. sink' \in SinkOf(Item) /\ sink'.kind = sink.kind
  BY <1>1, <1>2, WriteSinkIs
<1>4. sink'.bytes = sink.bytes + Len(Output)
  BY <1>1, <1>2, WriteSinkIs
<1>5. WrittenTo(sink') = Append(WrittenTo(sink), Output)
  BY <1>1, <1>2, WriteSinkIs
<1>6. IsTransactional(sink) => sink'.out = sink.out
  BY <1>1, <1>2, WriteSinkIs
<1>7. /\ result'.error = result.error /\ result'.outputBytes = result.outputBytes + Len(Output)
      /\ result' \in [error : {"Ok"} \cup Failures, outputBytes : Nat]
  <2> DEFINE n == Len(Output)
  <2>1. result' = [result EXCEPT !.outputBytes = @ + n] /\ n \in Nat
    BY <1>2 DEF Writes
  <2> HIDE DEF n
  <2>2. result'.error = result.error /\ result'.outputBytes = result.outputBytes + n
        /\ result' \in [error : {"Ok"} \cup Failures, outputBytes : Nat]
    BY <2>1 DEF TypeInv
  <2> QED
    BY <2>2 DEF n
<1>8. allocated' \in 0 .. header.blockSize
  <2>1. (IF block.raw THEN 0 ELSE block.original) \in 0 .. header.blockSize
    BY <1>1, SizesAre DEF PlaceInv, InBounds
  <2> QED
    BY <2>1, DemandIs DEF Writes
<1>9. next' = NextBlock(archive, Position) /\ next' \in 1 .. Len(archive) + 1
  BY <1>1, OutputIs DEF Writes
<1> QED
  BY <1>2, <1>3, <1>4, <1>5, <1>6, <1>7, <1>8, <1>9

LEMMA TakeTypes ==
  ASSUME TypeInv, PlaceInv
  PROVE  /\ TakesHead => /\ header' \in HeaderItems /\ header' = archive[1] /\ archive # <<>>
                         /\ next' = 2 /\ next' \in 1 .. Len(archive) + 1 /\ Begins(archive, 2)
                         /\ allocated' = 0
         /\ TakesBlock => /\ block' \in BlockItems /\ next' \in 1 .. Len(archive) + 1
                          /\ next' - 1 = next /\ next <= Len(archive)
         /\ TakesData => allocated' \in 0 .. header.blockSize
<1>1. ASSUME TakesHead
      PROVE  /\ header' \in HeaderItems /\ header' = archive[1] /\ archive # <<>>
             /\ next' = 2 /\ next' \in 1 .. Len(archive) + 1 /\ Begins(archive, 2) /\ allocated' = 0
  <2>1. next = 1 /\ allocated = 0 /\ 1 <= Len(archive) /\ Len(archive) \in Nat /\ archive \in Archives
    BY <1>1, SizesAre DEF TakesHead, Goes, PlaceInv, Setup, Available, TypeInv
  <2>2. archive[1].type = "header" /\ archive[1] \in HeaderItems
    BY <2>1, RecordsAre
  <2>3. 2 <= Len(archive) => archive[2].type = "block"
    <3>1. ASSUME 2 <= Len(archive)
          PROVE  archive[2].type = IF archive[2 - 1].type = "block" /\ archive[2 - 1].stored > 0
                                     THEN "data" ELSE "block"
      BY <2>1, <3>1, DecompressAssumption
    <3> QED
      BY <2>2, <3>1
  <2> QED
    BY <1>1, <2>1, <2>2, <2>3 DEF TakesHead, Begins
<1>2. ASSUME TakesBlock
      PROVE  /\ block' \in BlockItems /\ next' \in 1 .. Len(archive) + 1
             /\ next' - 1 = next /\ next <= Len(archive)
  <2>1. Begins(archive, next) /\ next <= Len(archive) /\ archive \in Archives
    BY <1>2 DEF TakesBlock, Goes, PlaceInv, AtBlock, Available, TypeInv
  <2>2. archive[next] \in BlockItems
    BY <2>1, BlockThen
  <2> QED
    BY <1>2, <2>1, <2>2, SizesAre DEF TakesBlock, Begins
<1>3. ASSUME TakesData PROVE allocated' \in 0 .. header.blockSize
  <2>1. block.stored \in 0 .. header.blockSize
    BY <1>3, SizesAre DEF TakesData, Goes, PlaceInv, InBounds
  <2> QED
    BY <1>3, <2>1, DemandIs DEF TakesData
<1> QED
  BY <1>1, <1>2, <1>3

LEMMA ReportTypes ==
  ASSUME TypeInv, NEW done \in BOOLEAN, Report(done), result' = result
  PROVE  /\ reported' \in Seq(Progress)
         /\ Len(reported') = Len(reported) + 1 /\ Len(reported) \in Nat
         /\ \A i \in 1 .. Len(reported) : reported'[i] = reported[i]
         /\ reported'[Len(reported) + 1].done = done
<1> DEFINE x == [produced |-> result'.outputBytes, done |-> done]
<1>1. x \in Progress /\ x.done = done /\ reported' = Append(reported, x)
  BY DEF Report, TypeInv, Progress
<1> HIDE DEF x
<1> QED
  BY <1>1 DEF TypeInv

LEMMA NextTypeInv == ASSUME TypeInv, PlaceInv, SinkInv, MeaningInv, [Next]_vars PROVE TypeInv'
<1>1. CASE RunEnds
  <2>1. PICK e \in Failures : EndsWith(e)
    BY <1>1 DEF RunEnds
  <2>2. result' \in [error : {"Ok"} \cup Failures, outputBytes : Nat]
    BY <2>1 DEF EndsWith, TypeInv
  <2> QED
    BY <1>1, <2>1, <2>2 DEF RunEnds, EndsWith, Frame, given, TypeInv, Places, Ending
<1>2. CASE Starts \/ Opens \/ Looks \/ Allows \/ SizeAgrees \/ LooksLast
  BY <1>2 DEF Starts, Opens, Looks, Allows, SizeAgrees, LooksLast, Goes, Quiet, given, locals, TypeInv,
     Places, Setup, Loop, Ending
<1>3. CASE OpensSink \/ Commits
  <2>1. sink' \in SinkOf(Item)
    BY <1>3, OpenSinkIs, CommitSinkIs DEF OpensSink, Commits, TypeInv
  <2> QED
    BY <1>3, <2>1 DEF OpensSink, Commits, Goes, given, locals, TypeInv, Places, Setup, Loop, Ending
<1>4. CASE TakesHead
  BY <1>4, TakeTypes, SizesAre DEF TakesHead, Goes, Quiet, given, TypeInv, Places, Loop, HeaderItems
<1>5. CASE TakesBlock
  BY <1>5, TakeTypes DEF TakesBlock, Goes, Quiet, given, TypeInv, Places, Loop
<1>6. CASE TakesData
  BY <1>6, TakeTypes DEF TakesData, Goes, Quiet, given, locals, TypeInv, Places, Loop
<1>7. CASE Writes
  <2>1. /\ sink' \in SinkOf(Item) /\ result' \in [error : {"Ok"} \cup Failures, outputBytes : Nat]
        /\ allocated' \in 0 .. header.blockSize /\ next' \in 1 .. Len(archive) + 1
    BY <1>7, WriteTypes
  <2> QED
    BY <1>7, <2>1 DEF Writes, Goes, given, TypeInv, Places, Loop
<1>8. CASE Reports
  <2>1. reported' \in Seq(Progress)
    BY <1>8, ReportTypes DEF Reports
  <2> QED
    BY <1>8, <2>1 DEF Reports, Goes, given, locals, TypeInv, Places, Loop, Ending
<1>9. CASE Finishes
  <2>1. reported' \in Seq(Progress)
    BY <1>9, ReportTypes DEF Finishes
  <2>2. sink' \in SinkOf(Item)
    BY <1>9, EndSessionIs DEF Finishes, Goes, TypeInv, SinkInv
  <2> QED
    BY <1>9, <2>1, <2>2 DEF Finishes, Goes, given, locals, TypeInv, Places, Ending
<1>10. CASE Cancel
  BY <1>10 DEF Cancel, given, locals, TypeInv
<1>11. CASE UNCHANGED vars
  BY <1>11 DEF vars, given, locals, TypeInv
<1> QED
  BY <1>1, <1>2, <1>3, <1>4, <1>5, <1>6, <1>7, <1>8, <1>9, <1>10, <1>11, RunEndsOrProceeds
  DEF Next, Proceeds

(* Where the run is, step by step. *)
LEMMA NextPlaceInv == ASSUME TypeInv, PlaceInv, SinkInv, MeaningInv, [Next]_vars PROVE PlaceInv'
<1>1. CASE RunEnds
  <2>1. pc' = "ended" /\ result'.error # "Ok"
    <3>1. PICK e \in Failures : pc' = "ended" /\ result' = [result EXCEPT !.error = e]
      BY <1>1 DEF RunEnds, EndsWith
    <3> QED
      BY <3>1 DEF TypeInv, Failures, Faults, Rejections
  <2> QED
    BY <2>1 DEF PlaceInv, Setup, AtBlock, InBlock
<1>2. CASE Starts \/ Opens \/ OpensSink
  <2>1. /\ pc \in Setup /\ pc' \in Setup
        /\ next' = next /\ allocated' = allocated
    BY <1>2 DEF Starts, Opens, OpensSink, Goes, locals, Setup
  <2> QED
    BY <2>1 DEF PlaceInv, Setup, AtBlock, InBlock
<1>3. CASE Looks \/ Allows \/ SizeAgrees \/ LooksLast \/ Commits
  <2>1. /\ archive' = archive /\ header' = header /\ next' = next /\ block' = block
        /\ pc \notin Setup \cup {"ended"}
        /\ \/ pc = "checkCancel" /\ pc' = "readBlock"
           \/ pc = "validate" /\ pc' = "allocate" /\ InBounds(header, block)
           \/ pc' \in {"lastCheck", "commit", "done"}
    BY <1>3 DEF Looks, Allows, SizeAgrees, LooksLast, Commits, Goes, given, locals, Setup
  <2> QED
    BY <2>1 DEF PlaceInv, Setup, AtBlock, InBlock
<1>4. CASE TakesHead
  <2>1. /\ header' = archive[1] /\ archive # <<>> /\ next' = 2 /\ Begins(archive, 2)
        /\ header'.check = "Ok" /\ header'.blockSize # 0 /\ archive' = archive /\ pc' = "checkCancel"
    BY <1>4, TakeTypes DEF TakesHead, Goes, given
  <2> QED
    BY <2>1 DEF PlaceInv, Setup, AtBlock, InBlock
<1>5. CASE TakesBlock
  <2>1. /\ next' - 1 = next /\ next <= Len(archive) /\ block' = archive[next] /\ header' = header
        /\ archive' = archive /\ pc = "readBlock" /\ pc' = "validate"
    BY <1>5, TakeTypes DEF TakesBlock, Goes, given
  <2> QED
    BY <2>1 DEF PlaceInv, Setup, AtBlock, InBlock
<1>6. CASE TakesData
  <2>1. /\ block.stored # 0 => next <= Len(archive)
        /\ UNCHANGED <<archive, header, block, next>> /\ pc = "allocate" /\ pc' = "writeOutput"
    BY <1>6 DEF TakesData, Goes, given, locals, Available
  <2> QED
    BY <2>1 DEF PlaceInv, Setup, AtBlock, InBlock
<1>7. CASE Writes
  <2>1. /\ UNCHANGED <<archive, header, block>> /\ pc = "writeOutput" /\ pc' = "report"
        /\ Intact(block, Output)
    BY <1>7 DEF Writes, Goes, given
  <2>2. Begins(archive, Position) /\ WholeBlock(archive, Position) /\ archive \in Archives
    BY <2>1, OutputIs DEF TypeInv
  <2>3. next' = NextBlock(archive, Position)
    BY <1>7, WriteTypes
  <2>4. Begins(archive, next')
    BY <2>2, <2>3, WholeThen
  <2> QED
    BY <2>1, <2>4 DEF PlaceInv, Setup, AtBlock, InBlock
<1>8. CASE Reports
  <2>1. /\ UNCHANGED <<archive, header, block, next>> /\ pc = "report" /\ pc' \in {"checkSize", "checkCancel"}
    BY <1>8 DEF Reports, Goes, given, locals
  <2> QED
    BY <2>1 DEF PlaceInv, Setup, AtBlock, InBlock
<1>9. CASE Finishes
  BY <1>9 DEF Finishes, Goes, PlaceInv, Setup, AtBlock, InBlock, given, locals
<1>10. CASE Cancel \/ UNCHANGED vars
  BY <1>10 DEF Cancel, vars, given, locals, PlaceInv
<1> QED
  BY <1>1, <1>2, <1>3, <1>4, <1>5, <1>6, <1>7, <1>8, <1>9, <1>10, RunEndsOrProceeds
  DEF Next, Proceeds

(* What is published, step by step. *)
LEMMA NextSinkInv == ASSUME TypeInv, PlaceInv, SinkInv, MeaningInv, [Next]_vars PROVE SinkInv'
<1>0. pc # "ended" => \A i \in 1 .. Len(reported) : ~reported[i].done
  BY DEF SinkInv, Ended
<1>1. CASE RunEnds
  <2>1. PICK e \in Failures : EndsWith(e)
    BY <1>1 DEF RunEnds
  <2>2. /\ pc' = "ended" /\ result'.error = e /\ e # "Ok" /\ pc \notin {"done", "ended"}
        /\ sink'.kind = sink.kind /\ AtRest(sink') /\ (IsTransactional(sink) => sink'.out = sink.out)
        /\ reported' = reported
    BY <1>1, <2>1 DEF RunEnds, Frame, EndsWith, TypeInv, Failures, Faults, Rejections
  <2> QED
    BY <1>0, <2>2 DEF SinkInv, IsTransactional
<1>2. ASSUME pc \notin {"done", "ended"}, pc' \notin {"done", "ended"},
             pc' \in {"start", "openSource", "openSink"} =>
               pc \in {"start", "openSource", "openSink"} /\ sink' = sink,
             sink'.kind = sink.kind, IsTransactional(sink) => sink'.out = sink.out,
             result'.error = result.error,
             \A i \in 1 .. Len(reported') : ~reported'[i].done
      PROVE  SinkInv'
  BY <1>2 DEF SinkInv, IsTransactional
<1>3. CASE Starts \/ Opens \/ TakesHead \/ Looks \/ TakesBlock \/ Allows \/ TakesData \/ SizeAgrees \/ LooksLast
  <2>1. /\ pc \notin {"done", "ended"} /\ pc' \notin {"done", "ended"}
        /\ pc' \in {"start", "openSource", "openSink"} => pc \in {"start", "openSource", "openSink"}
        /\ Quiet
    BY <1>3 DEF Starts, Opens, TakesHead, Looks, TakesBlock, Allows, TakesData, SizeAgrees, LooksLast, Goes
  <2> QED
    BY <1>0, <1>2, <2>1 DEF Quiet
<1>4. CASE OpensSink
  BY <1>0, <1>2, <1>4, OpenSinkIs DEF OpensSink, Goes, TypeInv
<1>5. CASE Writes
  <2>1. sink'.kind = sink.kind /\ (IsTransactional(sink) => sink'.out = sink.out)
        /\ result'.error = result.error
    BY <1>5, WriteTypes
  <2> QED
    BY <1>0, <1>2, <1>5, <2>1 DEF Writes, Goes
<1>6. CASE Reports
  <2>1. \A i \in 1 .. Len(reported') : ~reported'[i].done
    <3>1. Report(FALSE) /\ result' = result /\ pc # "ended"
      BY <1>6 DEF Reports, Goes
    <3>2. /\ Len(reported') = Len(reported) + 1 /\ Len(reported) \in Nat
          /\ \A i \in 1 .. Len(reported) : reported'[i] = reported[i]
          /\ reported'[Len(reported) + 1].done = FALSE
      BY <3>1, ReportTypes
    <3> QED
      BY <1>0, <3>1, <3>2
  <2> QED
    BY <1>2, <1>6, <2>1 DEF Reports, Goes
<1>7. CASE Commits
  <2>1. sink'.kind = sink.kind /\ (IsTransactional(sink) => sink'.staged = <<>>)
    BY <1>7, CommitSinkIs DEF Commits, TypeInv
  <2>2. pc = "commit" /\ pc' = "done" /\ result' = result /\ reported' = reported
    BY <1>7 DEF Commits, Goes
  <2> QED
    BY <1>0, <2>1, <2>2 DEF SinkInv, IsTransactional
<1>8. CASE Finishes
  <2>1. sink'.kind = sink.kind /\ AtRest(sink')
    BY <1>8, EndSessionIs DEF Finishes, Goes, TypeInv, SinkInv
  <2>2. pc' = "ended" /\ result'.error = "Ok"
    BY <1>8 DEF Finishes, Goes, SinkInv
  <2> QED
    BY <2>1, <2>2 DEF SinkInv, IsTransactional, Ended
<1>9. CASE Cancel \/ UNCHANGED vars
  BY <1>9 DEF Cancel, vars, SinkInv, Ended
<1> QED
  BY <1>1, <1>3, <1>4, <1>5, <1>6, <1>7, <1>8, <1>9, RunEndsOrProceeds DEF Next, Proceeds

(* Whether the run has looked at the flag. *)
LEMMA NextCancelInv ==
  ASSUME TypeInv, PlaceInv, SinkInv, CancelInv, MeaningInv, [Next]_vars PROVE CancelInv'
<1>1. CASE RunEnds
  <2>1. PICK e \in Failures : EndsWith(e) /\ (e = "Cancelled" => cancelRequested)
    BY <1>1 DEF RunEnds
  <2>2. pc' = "ended" /\ result'.error = e /\ e # "Ok" /\ cancelRequested' = cancelRequested
    BY <1>1, <2>1 DEF RunEnds, Frame, EndsWith, TypeInv, Failures, Faults, Rejections
  <2> QED
    BY <2>1, <2>2 DEF CancelInv, CancelIsHonoured, Ended
<1>2. CASE Cancel
  <2>1. pc \in {"commit", "done"} => lateCancel'
    BY <1>2, Zenon DEF Cancel
  <2> QED
    BY <1>2, <2>1 DEF Cancel, CancelInv, CancelIsHonoured, Ended
<1>3. CASE Proceeds /\ ~Finishes
  <2>1. /\ pc' # "ended"
        /\ UNCHANGED <<cancelRequested, lateCancel>>
        /\ pc' \in {"commit", "done"} => pc = "commit" \/ ~cancelRequested
    BY <1>3 DEF Proceeds, Starts, Opens, OpensSink, TakesHead, Looks, TakesBlock, Allows, TakesData,
       Writes, Reports, SizeAgrees, LooksLast, Commits, Goes
  <2> QED
    BY <2>1 DEF CancelInv, CancelIsHonoured, Ended
<1>4. CASE Finishes
  BY <1>4 DEF Finishes, Goes, SinkInv, CancelInv, CancelIsHonoured, Ended
<1>5. CASE UNCHANGED vars
  BY <1>5 DEF vars, CancelInv, CancelIsHonoured, Ended
<1> QED
  BY <1>1, <1>2, <1>3, <1>4, <1>5, RunEndsOrProceeds DEF Next

(* What is written and what is still to come, step by step. *)
LEMMA MeaningMoves ==
  ASSUME TypeInv, PlaceInv, SinkInv, MeaningInv, pc \notin Setup \cup {"done", "ended"},
         UNCHANGED <<archive, sink, result>>, AtPrefix' \/ IsWhole',
         pc' \notin Setup \cup {"lastCheck", "commit", "done", "ended"},
         AtPrefix \/ IsWhole,
         AtPrefix' => AtPrefix /\ Position' = Position,
         IsWhole' => IsWhole
  PROVE  MeaningInv'
<1>1. WrittenTo(sink)' = WrittenTo(sink)
  BY DEF WrittenTo, IsTransactional
<1> QED
  BY <1>1 DEF MeaningInv, Setup

LEMMA WholeMeans ==
  ASSUME NEW a \in Archives, NEW i, Begins(a, i), WholeBlock(a, i)
  PROVE  IF a[i].final
           THEN Meaning(a)[i].error = "Ok" /\ Meaning(a)[i].output = BlockOutput(a, i)
           ELSE /\ Meaning(a)[i].error = Meaning(a)[NextBlock(a, i)].error
                /\ Meaning(a)[i].output = BlockOutput(a, i) \o Meaning(a)[NextBlock(a, i)].output
<1>1. Meaning(a)[i] = MeaningStep(a, Meaning(a), i)
  BY MeaningIs
<1> QED
  BY <1>1 DEF MeaningStep

LEMMA JoinAssociative ==
  ASSUME NEW x \in Seq(Nat), NEW y \in Seq(Nat), NEW z \in Seq(Nat)
  PROVE  x \o (y \o z) = (x \o y) \o z
BY SMTT(30)

LEMMA WritesMeaning ==
  ASSUME TypeInv, PlaceInv, SinkInv, MeaningInv, Writes PROVE MeaningInv'
<1> DEFINE M == Meaning(archive)
           w == WrittenTo(sink)
           i == Position
           j == NextBlock(archive, i)
           o == Output
<1>1. /\ pc = "writeOutput" /\ pc' = "report" /\ archive' = archive /\ block' = block /\ Intact(block, o)
      /\ archive \in Archives /\ AtPrefix
  BY DEF Writes, Goes, given, TypeInv, AtPrefix, InBlock
<1>2. Begins(archive, i) /\ WholeBlock(archive, i) /\ archive[i] = block /\ o = BlockOutput(archive, i)
  BY <1>1, OutputIs
<1>3. /\ WrittenTo(sink') = Append(w, o) /\ sink'.bytes = sink.bytes + Len(o)
      /\ result'.outputBytes = result.outputBytes + Len(o) /\ next' = j /\ o \in Seq(Nat)
  BY WriteTypes
<1>4. /\ w \in Seq(Seq(Nat)) /\ sink.bytes = Len(Flat(w)) /\ result.outputBytes = sink.bytes
      /\ M[2].error = M[i].error /\ M[2].output = Flat(w) \o M[i].output
  BY <1>1 DEF MeaningInv
<1>5. Flat(w) \in Seq(Nat) /\ Flat(Append(w, o)) = Flat(w) \o o /\ Append(w, o) \in Seq(Seq(Nat))
  BY <1>3, <1>4, FlatIs
<1>6. Len(Flat(Append(w, o))) = Len(Flat(w)) + Len(o)
  BY <1>3, <1>5
<1>7. WrittenTo(sink') \in Seq(Seq(Nat)) /\ sink'.bytes = Len(Flat(WrittenTo(sink')))
      /\ result'.outputBytes = sink'.bytes
  BY <1>3, <1>4, <1>5, <1>6
<1>8. CASE block.final
  <2>1. M[2].error = "Ok" /\ M[2].output = Flat(WrittenTo(sink'))
    <3>1. M[i].error = "Ok" /\ M[i].output = o
      BY <1>1, <1>2, <1>8, WholeMeans
    <3> QED
      BY <1>3, <1>4, <1>5, <3>1
  <2>2. ~AtPrefix' /\ IsWhole' /\ pc' = "report"
    BY <1>1, <1>8 DEF AtPrefix, IsWhole, AtBlock, InBlock
  <2> HIDE DEF M, w, i, j, o
  <2> QED
    BY <1>1, <1>7, <2>1, <2>2 DEF MeaningInv, M, Setup, WrittenTo, IsTransactional
<1>9. CASE ~block.final
  <2>1. M[2].error = M[j].error /\ M[2].output = Flat(WrittenTo(sink')) \o M[j].output
    <3>1. M[i].error = M[j].error /\ M[i].output = o \o M[j].output
      BY <1>1, <1>2, <1>9, WholeMeans
    <3>2. M[j].output \in Seq(Nat)
      BY <1>1, <1>2, WholeThen, MeaningIs
    <3>3. Flat(w) \o (o \o M[j].output) = (Flat(w) \o o) \o M[j].output
      BY <1>3, <1>5, <3>2, JoinAssociative
    <3> QED
      BY <1>3, <1>4, <1>5, <3>1, <3>3
  <2>2. AtPrefix' /\ ~IsWhole' /\ pc' = "report" /\ Position' = j
    BY <1>1, <1>3, <1>9 DEF AtPrefix, IsWhole, AtBlock, InBlock, Position
  <2> HIDE DEF M, w, i, j, o
  <2> QED
    BY <1>1, <1>7, <2>1, <2>2 DEF MeaningInv, M, Setup, WrittenTo, IsTransactional
<1> QED
  BY <1>8, <1>9

LEMMA NextMeaningInv == ASSUME TypeInv, PlaceInv, SinkInv, MeaningInv, [Next]_vars PROVE MeaningInv'
<1>1. CASE RunEnds
  <2>1. PICK e \in Failures : EndsWith(e) /\ (failures' \/ cancelRequested \/ e = Decode(archive).error)
    BY <1>1 DEF RunEnds
  <2>2. /\ pc' = "ended" /\ result'.error = e /\ e # "Ok" /\ archive' = archive
        /\ cancelRequested' = cancelRequested
    BY <1>1, <2>1 DEF RunEnds, Frame, EndsWith, given, TypeInv, Failures, Faults, Rejections
  <2> QED
    BY <2>1, <2>2 DEF MeaningInv, AtPrefix, IsWhole, AtBlock, InBlock, Setup
<1>2. CASE Starts \/ Opens
  <2>1. pc \in Setup /\ pc' \in {"openSource", "openSink"} /\ UNCHANGED <<sink, result, archive>>
    BY <1>2 DEF Starts, Opens, Goes, Quiet, given, Setup
  <2> QED
    BY <2>1 DEF MeaningInv, AtPrefix, IsWhole, AtBlock, InBlock, Setup, IsTransactional
<1>3. CASE OpensSink
  <2>1. /\ sink'.kind = sink.kind /\ sink'.out = sink.out /\ sink'.staged = <<>> /\ sink'.bytes = 0
        /\ result' = result /\ pc = "openSink" /\ pc' = "readHeader"
    BY <1>3, OpenSinkIs DEF OpensSink, Goes, TypeInv
  <2> QED
    BY <2>1 DEF MeaningInv, AtPrefix, IsWhole, AtBlock, InBlock, Setup, WrittenTo, IsTransactional
<1>4. CASE TakesHead
  <2> DEFINE M == Meaning(archive)
  <2>1. /\ pc = "readHeader" /\ pc' = "checkCancel" /\ UNCHANGED <<archive, sink, result>>
        /\ Begins(archive, 2) /\ next' = 2 /\ archive \in Archives
    BY <1>4, TakeTypes DEF TakesHead, Goes, Quiet, given, TypeInv
  <2>2. WrittenTo(sink) = <<>> /\ sink.bytes = 0 /\ result.outputBytes = 0
    BY <2>1 DEF MeaningInv, Setup
  <2>3. Flat(<<>>) = <<>> /\ <<>> \in Seq(Seq(Nat)) /\ Len(<<>>) = 0
    BY FlatIs
  <2>4. <<>> \o M[2].output = M[2].output
    <3>1. M[2].output \in Seq(Nat)
      BY <2>1, MeaningIs
    <3> HIDE DEF M
    <3> QED
      BY <3>1, ConcatEmptySeq
  <2>5. AtPrefix' /\ ~IsWhole' /\ Position' = 2
    BY <2>1 DEF AtPrefix, IsWhole, AtBlock, InBlock, Position
  <2>6. WrittenTo(sink') = <<>>
    BY <2>1, <2>2
  <2> HIDE DEF M
  <2> QED
    BY <2>1, <2>2, <2>3, <2>4, <2>5, <2>6 DEF MeaningInv, M, Setup, WrittenTo, IsTransactional
<1>5. CASE Looks \/ Allows \/ TakesData \/ Reports
  <2>1. /\ pc \notin Setup \cup {"done", "ended"} /\ UNCHANGED <<archive, sink, result, next, block>>
        /\ pc' \notin Setup \cup {"lastCheck", "commit", "done", "ended"}
    BY <1>5 DEF Looks, Allows, TakesData, Reports, Goes, Quiet, given, locals, Setup
  <2>2. /\ AtPrefix' \/ IsWhole'
        /\ AtPrefix \/ IsWhole
        /\ AtPrefix' => AtPrefix /\ Position' = Position
        /\ IsWhole' => IsWhole
    BY <1>5, <2>1 DEF Looks, Allows, TakesData, Reports, Goes, AtPrefix, IsWhole, AtBlock, InBlock, Position
  <2>3. AtPrefix' \/ IsWhole'
    BY <1>5, <2>1 DEF Looks, Allows, TakesData, Reports, Goes, AtPrefix, IsWhole, AtBlock, InBlock
  <2> QED
    BY <2>1, <2>2, <2>3, MeaningMoves
<1>6. CASE TakesBlock
  <2>1. /\ pc = "readBlock" /\ pc' = "validate" /\ UNCHANGED <<archive, sink, result>> /\ next' - 1 = next
    BY <1>6, TakeTypes DEF TakesBlock, Goes, Quiet, given
  <2>2. AtPrefix /\ AtPrefix' /\ ~IsWhole' /\ Position' = Position
    BY <2>1 DEF AtPrefix, IsWhole, AtBlock, InBlock, Position
  <2> QED
    BY <2>1, <2>2, MeaningMoves DEF Setup
<1>7. CASE SizeAgrees
  <2>1. /\ pc = "checkSize" /\ pc' = "lastCheck" /\ UNCHANGED <<archive, sink, result>>
        /\ ~(header.known /\ result.outputBytes # header.size)
        /\ archive # <<>> /\ header = archive[1] /\ header.check = "Ok" /\ header.blockSize # 0
    BY <1>7 DEF SizeAgrees, Goes, Quiet, given, PlaceInv, Setup
  <2>2. IsWhole /\ IsWhole' /\ ~AtPrefix'
    BY <2>1 DEF AtPrefix, IsWhole, AtBlock, InBlock
  <2>3. Meaning(archive)[2].output = Flat(WrittenTo(sink)) /\ result.outputBytes = Len(Flat(WrittenTo(sink)))
    BY <2>2 DEF MeaningInv
  <2>4. Decode(archive) = Meaning(archive)[2]
    BY <2>1, <2>3 DEF Decode
  <2>5. WrittenTo(sink)' = WrittenTo(sink)
    BY <2>1 DEF WrittenTo, IsTransactional
  <2> QED
    BY <2>1, <2>2, <2>4, <2>5 DEF MeaningInv, Setup
<1>8. CASE LooksLast
  <2>1. /\ pc = "lastCheck" /\ pc' = "commit" /\ UNCHANGED <<archive, sink, result>>
    BY <1>8 DEF LooksLast, Goes, Quiet, given
  <2>2. IsWhole /\ IsWhole' /\ ~AtPrefix'
    BY <2>1 DEF AtPrefix, IsWhole, AtBlock, InBlock
  <2>3. WrittenTo(sink)' = WrittenTo(sink)
    BY <2>1 DEF WrittenTo, IsTransactional
  <2> QED
    BY <2>1, <2>2, <2>3 DEF MeaningInv, Setup
<1>9. CASE Commits
  <2> DEFINE w == WrittenTo(sink)
             D == Decode(archive)
  <2>1. /\ pc = "commit" /\ pc' = "done" /\ archive' = archive /\ result' = result
        /\ sink' = CommitSink(sink) /\ sink \in SinkOf(Item)
    BY <1>9 DEF Commits, Goes, given, TypeInv
  <2>2. /\ w \in Seq(Seq(Nat)) /\ sink.bytes = Len(Flat(w)) /\ result.outputBytes = sink.bytes
        /\ D.error = "Ok" /\ D.output = Flat(w)
    BY <2>1 DEF MeaningInv, IsWhole
  <2>3. sink'.kind = sink.kind /\ (sink'.out = w \/ (sink.kind = "fixed" /\ sink.bytes = 0))
    BY <2>1, CommitSinkIs
  <2>4. Len(Flat(w)) = 0 => Flat(w) = <<>>
    <3>1. Flat(w) \in Seq(Nat)
      BY <2>2, FlatIs
    <3> HIDE DEF w
    <3> QED
      BY <3>1
  <2>5. (sink'.kind = "fixed" /\ D.output = <<>>) \/ Flat(sink'.out) = D.output
    BY <2>2, <2>3, <2>4
  <2>6. D.error = "Ok" /\ result'.outputBytes = Len(D.output) /\ Decode(archive') = D
    BY <2>1, <2>2
  <2> HIDE DEF w, D
  <2> QED
    BY <2>1, <2>5, <2>6 DEF MeaningInv, AtPrefix, IsWhole, AtBlock, InBlock, Setup
<1>10. CASE Finishes
  <2>1. /\ pc = "done" /\ pc' = "ended" /\ archive' = archive /\ result' = result
        /\ sink'.kind = sink.kind /\ sink'.out = sink.out /\ result.error = "Ok"
    BY <1>10, EndSessionIs DEF Finishes, Goes, given, TypeInv, SinkInv
  <2> QED
    BY <2>1 DEF MeaningInv, AtPrefix, IsWhole, AtBlock, InBlock, Setup
<1>11. CASE Cancel \/ UNCHANGED vars
  <2>1. /\ UNCHANGED <<archive, sink, result, pc, next, block, failures>>
        /\ pc = "ended" => cancelRequested' = cancelRequested
    BY <1>11 DEF Cancel, vars, given, locals
  <2>2. /\ AtPrefix' = AtPrefix /\ IsWhole' = IsWhole /\ Position' = Position
        /\ WrittenTo(sink)' = WrittenTo(sink)
    BY <2>1 DEF AtPrefix, IsWhole, Position, WrittenTo, IsTransactional
  <2> QED
    BY <2>1, <2>2 DEF MeaningInv, IsTransactional
<1> QED
  BY <1>1, <1>2, <1>3, <1>4, <1>5, <1>6, <1>7, <1>8, <1>9, <1>10, <1>11, WritesMeaning,
     RunEndsOrProceeds
  DEF Next, Proceeds

-----------------------------------------------------------------------------
LEMMA InitInv == Init => Inv
<1> SUFFICES ASSUME Init PROVE Inv
  OBVIOUS
<1>1. /\ sink \in SinkOf(Item) /\ AtRest(sink)
      /\ IsTransactional(sink) => sink.out = <<Earlier>>
      /\ ~IsTransactional(sink) => sink.out = <<>>
  BY NewSinkIs DEF Init, Item
<1>2. pc = "start" /\ result.error = "Ok" /\ result.outputBytes = 0 /\ ~cancelRequested /\ reported = <<>>
  BY DEF Init
<1>3. header \in HeaderItems /\ header.blockSize = 0 /\ block \in BlockItems
  <2>1. <<>> \in Seq(Nat)
    OBVIOUS
  <2> QED
    BY <2>1 DEF Init, NoHeader, NoBlock, HeaderItem, BlockItem, HeaderItems, BlockItems, Checks
<1>4. next = 1 /\ next \in 1 .. Len(archive) + 1 /\ archive \in Archives
  BY DecompressAssumption DEF Init
<1>5. TypeInv
  <2>1. result \in [error : {"Ok"} \cup Failures, outputBytes : Nat] /\ reported \in Seq(Progress)
    BY DEF Init
  <2>2. allocated \in 0 .. header.blockSize
    BY <1>3 DEF Init
  <2> QED
    BY <1>1, <1>3, <1>4, <2>1, <2>2 DEF Init, TypeInv, Places, Setup
<1>6. PlaceInv
  BY <1>2, <1>4 DEF Init, PlaceInv, Setup, AtBlock, InBlock
<1>7. SinkInv
  BY <1>1, <1>2 DEF SinkInv
<1>8. CancelInv
  BY <1>2 DEF CancelInv, CancelIsHonoured, Ended
<1>9. MeaningInv
  BY <1>1, <1>2 DEF MeaningInv, AtPrefix, IsWhole, AtBlock, InBlock, Setup
<1> QED
  BY <1>5, <1>6, <1>7, <1>8, <1>9 DEF Inv

(* The inductive invariant: types, the place in the archive, the session,  *)
(* the flag, and what has been written against what the archive means.     *)
THEOREM Invariance == Spec => []Inv
<1>1. Inv /\ [Next]_vars => Inv'
  BY NextTypeInv, NextPlaceInv, NextSinkInv, NextCancelInv, NextMeaningInv DEF Inv
<1> QED
  BY <1>1, InitInv, PTL DEF Spec

(* Every variable of runDecompress has its type, whatever the archive.     *)
THEOREM DecompressRunTypeOK == Spec => []TypeOK
<1>1. TypeInv => TypeOK
  <2> SUFFICES ASSUME TypeInv PROVE TypeOK
    OBVIOUS
  <2>1. {faulty, allowPartial, cancelRequested, failures, lateCancel} \subseteq BOOLEAN
    BY DEF TypeInv
  <2>2. sink.kind \in Kinds /\ sink.open \in BOOLEAN /\ sink.bytes \in Nat
    BY DEF TypeInv, SinkOf
  <2>3. header.type = "header" /\ block.type = "block" /\ allocated \in Nat
    BY SizesAre DEF TypeInv, HeaderItems, BlockItems
  <2> QED
    BY <2>1, <2>2, <2>3 DEF TypeInv, TypeOK, Places
<1> QED
  BY <1>1, Invariance, PTL DEF Inv

(* A run of runDecompress that nothing disturbs returns what the archive   *)
(* means, and a run that is disturbed never says Ok of a bad archive or    *)
(* publishes anything but the meaning of a good one: for every archive,    *)
(* every source and every sink.                                            *)
THEOREM DecompressionIsMeaning == Spec => []ResultIsMeaning
<1>1. Inv => ResultIsMeaning
  BY DEF Inv, MeaningInv, ResultIsMeaning, Ended
<1> QED
  BY <1>1, Invariance, PTL

(* The output that a run of runDecompress was to replace is touched by the *)
(* sink's commit and by nothing else, nothing stays staged, and onProgress *)
(* hears of the end of a run that said Ok and of no other.                 *)
THEOREM FailedDecompressionPublishesNothing == Spec => []FailedRunPublishesNothing
<1>1. Inv => FailedRunPublishesNothing
  BY DEF Inv, SinkInv, AtRest, FailedRunPublishesNothing, Ended
<1> QED
  BY <1>1, Invariance, PTL

(* validateEscBlockBounds comes before MemoryBuffer::resize: no archive    *)
(* makes a run ask for more than a block of its own header.                *)
THEOREM AllocationIsBounded == Spec => []AllocationBounded
<1>1. TypeInv => AllocationBounded
  BY SizesAre DEF TypeInv, AllocationBounded
<1> QED
  BY <1>1, Invariance, PTL DEF Inv

(* A cancel before the last shouldAbortForCancel of a run stops it, and    *)
(* only a run that was cancelled says so.                                  *)
THEOREM DecompressionCancelIsHonoured == Spec => []CancelIsHonoured
<1>1. Inv => CancelIsHonoured
  BY DEF Inv, CancelInv
<1> QED
  BY <1>1, Invariance, PTL

-----------------------------------------------------------------------------
(* The bytes of the input between two cuts. *)
Part(from, to) == SubSeq(Input, from + 1, to)

(* The records of a block that holds these bytes; the last, and no other,  *)
(* may be empty.                                                           *)
HeadOf(bytes, final, stored) == BlockItem(final, stored = Len(bytes), Len(bytes), stored, bytes)
LastHead == BlockItem(TRUE, TRUE, 0, 0, <<>>)

Holds(b, bytes, final) ==
  \/ \E s \in 1 .. Len(bytes) : b = <<HeadOf(bytes, final, s), DataItem(bytes, s)>>
  \/ bytes = <<>> /\ final /\ b = <<LastHead>>

(* The blocks w hold the input, cut as c says. *)
Consist(w, c) ==
  /\ w \in Seq(Seq(Records)) /\ w # <<>>
  /\ c \in [0 .. Len(w) -> 0 .. InputSize] /\ c[0] = 0 /\ c[Len(w)] = InputSize
  /\ \A i \in 1 .. Len(w) : /\ c[i - 1] <= c[i] /\ c[i] <= c[i - 1] + BlockSize
                            /\ Holds(w[i], Part(c[i - 1], c[i]), i = Len(w))

(* The header of such an archive. *)
HeaderOf(h) ==
  /\ h \in HeaderItems /\ h.check = "Ok" /\ h.blockSize = BlockSize
  /\ h.known => h.size = InputSize

LEMMA PartIs ==
  ASSUME NEW p \in 0 .. InputSize, NEW q \in 0 .. InputSize, p <= q
  PROVE  /\ Part(p, q) \in Seq(Nat) /\ Len(Part(p, q)) = q - p
         /\ \A i \in 1 .. q - p : Part(p, q)[i] = p + i
         /\ Wrong \in Nat /\ \A i \in 1 .. q - p : Part(p, q)[i] # Wrong
<1>1. InputSize \in Nat /\ Wrong \in Nat \ (1 .. InputSize)
  BY DamageAssumption
<1>2. Input \in Seq(Nat) /\ Len(Input) = InputSize /\ \A i \in 1 .. InputSize : Input[i] = i
  BY <1>1 DEF Input
<1>3. p + 1 \in 1 .. InputSize + 1 /\ q \in p + 1 - 1 .. InputSize /\ q - (p + 1) + 1 = q - p
  BY <1>1
<1>4. /\ Part(p, q) \in Seq(Nat) /\ Len(Part(p, q)) = q - p
      /\ \A i \in 1 .. q - p : Part(p, q)[i] = Input[p + 1 + i - 1]
  BY <1>1, <1>2, <1>3, SubSeqProperties DEF Part
<1>5. ASSUME NEW i \in 1 .. q - p PROVE Part(p, q)[i] = p + i /\ Part(p, q)[i] \in 1 .. InputSize
  <2>1. p + 1 + i - 1 = p + i /\ p + i \in 1 .. InputSize
    BY <1>1
  <2>2. Part(p, q)[i] = Input[p + 1 + i - 1]
    BY <1>4
  <2> QED
    BY <1>2, <2>1, <2>2
<1> QED
  BY <1>1, <1>4, <1>5

LEMMA PartsJoin ==
  ASSUME NEW p \in 0 .. InputSize, NEW q \in 0 .. InputSize, NEW r \in 0 .. InputSize, p <= q, q <= r
  PROVE  Part(p, q) \o Part(q, r) = Part(p, r)
<1> DEFINE s == Part(p, q)
           t == Part(q, r)
           u == Part(p, r)
<1>0. InputSize \in Nat
  BY DamageAssumption
<1>1. /\ s \in Seq(Nat) /\ Len(s) = q - p /\ \A i \in 1 .. q - p : s[i] = p + i
      /\ t \in Seq(Nat) /\ Len(t) = r - q /\ \A i \in 1 .. r - q : t[i] = q + i
      /\ u \in Seq(Nat) /\ Len(u) = r - p /\ \A i \in 1 .. r - p : u[i] = p + i
  <2>1. p <= r
    BY <1>0
  <2> QED
    BY <2>1, PartIs, Zenon
<1> HIDE DEF s, t, u
<1>2. s \o t \in Seq(Nat) /\ Len(s \o t) = Len(s) + Len(t)
      /\ \A i \in 1 .. Len(s) + Len(t) : (s \o t)[i] = IF i <= Len(s) THEN s[i] ELSE t[i - Len(s)]
  BY <1>1, ConcatProperties
<1>3. Len(s) + Len(t) = r - p
  BY <1>0, <1>1
<1>4. ASSUME NEW i \in 1 .. r - p PROVE (s \o t)[i] = p + i
  <2>1. CASE i <= q - p
    BY <1>0, <1>1, <1>2, <1>3, <2>1
  <2>2. CASE i > q - p
    <3> DEFINE k == i - (q - p)
    <3>1. k \in 1 .. r - q /\ q + k = p + i
      BY <1>0, <2>2
    <3>2. (s \o t)[i] = t[k]
      BY <1>0, <1>1, <1>2, <1>3, <2>2, SMTT(30)
    <3> HIDE DEF k
    <3> QED
      BY <1>1, <3>1, <3>2
  <2>3. i <= q - p \/ i > q - p
    BY <1>0
  <2> QED
    BY <2>1, <2>2, <2>3, Zenon
<1>5. s \o t = u
  <2>1. Len(s \o t) = Len(u) /\ \A i \in 1 .. Len(u) : (s \o t)[i] = u[i]
    BY <1>1, <1>2, <1>3, <1>4
  <2> QED
    BY <1>1, <1>2, <2>1, SeqEqual
<1> QED
  BY <1>5 DEF s, t, u

(* What follows a block comes behind its bytes, unless the block is final. *)
After(bytes, final, r) ==
  IF final THEN [error |-> "Ok", output |-> bytes]
  ELSE [error |-> r.error, output |-> bytes \o r.output]

LEMMA BlockMeans ==
  ASSUME NEW h \in Records, HeaderOf(h), NEW b \in Seq(Records), NEW x \in Seq(Records),
         NEW bytes \in Seq(Nat), Len(bytes) <= BlockSize, NEW final \in BOOLEAN, Holds(b, bytes, final)
  PROVE  Rest(h, b \o x) = After(bytes, final, Rest(h, x))
<1>0. Len(bytes) \in Nat /\ h.blockSize = BlockSize
  BY DEF HeaderOf
<1>1. CASE bytes = <<>> /\ final /\ b = <<LastHead>>
  <2>1. LastHead \in Records /\ LastHead.stored = 0 /\ LastHead.final /\ LastHead.original = 0
        /\ LastHead.crc = <<>> /\ LastHead.raw
    <3>1. <<>> \in Seq(Nat)
      OBVIOUS
    <3> QED
      BY <3>1 DEF LastHead, BlockItem, Records, BlockItems
  <2>2. Rest(h, b \o x) = StoresNothing(h, LastHead, x)
    BY <1>1, <2>1, RestOfEmpty
  <2>3. InBounds(h, LastHead) /\ Intact(LastHead, <<>>)
    <3>1. BlockSize \in Nat
      BY DamageAssumption
    <3>2. Len(<<>>) = 0
      OBVIOUS
    <3> QED
      BY <1>0, <2>1, <3>1, <3>2 DEF InBounds, Intact
  <2> QED
    BY <1>1, <2>1, <2>2, <2>3 DEF StoresNothing, After
<1>2. ASSUME NEW s \in 1 .. Len(bytes), b = <<HeadOf(bytes, final, s), DataItem(bytes, s)>>
      PROVE  Rest(h, b \o x) = After(bytes, final, Rest(h, x))
  <2> DEFINE k == HeadOf(bytes, final, s)
             p == DataItem(bytes, s)
  <2>1. k \in Records /\ k.stored = s /\ k.final = final /\ k.original = Len(bytes) /\ k.crc = bytes
        /\ k.raw = (s = Len(bytes))
    BY <1>0 DEF HeadOf, BlockItem, Records, BlockItems
  <2>2. p \in Records /\ p.bytes = bytes
    BY <1>0 DEF DataItem, Records, DataItems
  <2> HIDE DEF k, p
  <2>3. s # 0
    OBVIOUS
  <2>4. Rest(h, <<k, p>> \o x) = StoresBytes(h, k, p.bytes, x)
    BY <2>1, <2>2, <2>3, RestOfPayload
  <2>5. InBounds(h, k) /\ Intact(k, bytes)
    <3>1. k.original # 0 /\ k.stored <= k.original /\ k.original <= h.blockSize
      BY <1>0, <2>1
    <3>2. k.raw => k.stored = k.original
      BY <2>1
    <3> QED
      BY <2>1, <3>1, <3>2 DEF InBounds, Intact
  <2>6. Rest(h, <<k, p>> \o x) = After(bytes, final, Rest(h, x))
    BY <2>1, <2>2, <2>4, <2>5, Zenon DEF StoresBytes, After
  <2> QED
    BY <1>2, <2>6 DEF k, p
<1> QED
  BY <1>1, <1>2 DEF Holds

-----------------------------------------------------------------------------
(* The records of the first j blocks, and of those from i on.              *)
FirstBlocks(w, j) == FlattenSeq(SubSeq(w, 1, j))
BlocksFrom(w, i)  == FlattenSeq(SubSeq(w, i, Len(w)))

LEMMA FirstBlocksAre ==
  ASSUME NEW w \in Seq(Seq(Records))
  PROVE  /\ FirstBlocks(w, 0) = <<>>
         /\ \A j \in 0 .. Len(w) : FirstBlocks(w, j) \in Seq(Records)
         /\ \A j \in 1 .. Len(w) : FirstBlocks(w, j) = FirstBlocks(w, j - 1) \o w[j]
<1> DEFINE T == Records
<1>1. Len(w) \in Nat /\ w \in Seq(Seq(T)) /\ \A i \in 1 .. Len(w) : w[i] \in Seq(T)
  OBVIOUS
<1> HIDE DEF T
<1>2. SubSeq(w, 1, 0) = <<>>
  BY SubSeqEmpty
<1>3. ASSUME NEW j \in 0 .. Len(w) PROVE SubSeq(w, 1, j) \in Seq(Seq(T))
  BY <1>1
<1>4. ASSUME NEW j \in 1 .. Len(w) PROVE FirstBlocks(w, j) = FirstBlocks(w, j - 1) \o w[j]
  <2>1. 1 \in 1 .. Len(w) /\ j \in 1 .. Len(w) /\ j - 1 \in 0 .. Len(w) /\ w[j] \in Seq(T)
    BY <1>1
  <2>2. SubSeq(w, 1, j) = SubSeq(w, 1, j - 1) \o <<w[j]>>
    BY <1>1, <2>1, SubSeqRecursiveSecond
  <2>3. SubSeq(w, 1, j - 1) \in Seq(Seq(T)) /\ <<w[j]>> \in Seq(Seq(T))
    BY <1>3, <2>1
  <2>4. FlattenSeq(SubSeq(w, 1, j)) = FlattenSeq(SubSeq(w, 1, j - 1)) \o FlattenSeq(<<w[j]>>)
    BY <2>2, <2>3, FlattenConcat
  <2>5. <<>> \in Seq(Seq(T))
    OBVIOUS
  <2>6. FlattenSeq(<<w[j]>>) = w[j]
    BY <2>1, <2>5, FlattenOne
  <2> QED
    BY <2>4, <2>6 DEF FirstBlocks
<1>5. ASSUME NEW j \in 0 .. Len(w) PROVE FirstBlocks(w, j) \in Seq(T)
  BY <1>3, FlattenType DEF FirstBlocks
<1>6. FirstBlocks(w, 0) = <<>>
  BY <1>2, FlattenEmpty DEF FirstBlocks
<1> QED
  BY <1>4, <1>5, <1>6 DEF T

LEMMA BlocksFromAre ==
  ASSUME NEW w \in Seq(Seq(Records))
  PROVE  /\ BlocksFrom(w, Len(w) + 1) = <<>> /\ BlocksFrom(w, 1) = FlattenSeq(w)
         /\ \A i \in 1 .. Len(w) + 1 : BlocksFrom(w, i) \in Seq(Records)
         /\ \A i \in 1 .. Len(w) : BlocksFrom(w, i) = w[i] \o BlocksFrom(w, i + 1)
<1> DEFINE T == Records
<1>1. Len(w) \in Nat /\ w \in Seq(Seq(T)) /\ \A i \in 1 .. Len(w) : w[i] \in Seq(T)
  OBVIOUS
<1> HIDE DEF T
<1>2. SubSeq(w, Len(w) + 1, Len(w)) = <<>> /\ SubSeq(w, 1, Len(w)) = w
  <2>1. Len(w) + 1 \in Int /\ Len(w) \in Int /\ Len(w) < Len(w) + 1
    BY <1>1
  <2> QED
    BY <1>1, <2>1, SubSeqEmpty, SubSeqFull
<1>3. ASSUME NEW i \in 1 .. Len(w) + 1 PROVE SubSeq(w, i, Len(w)) \in Seq(Seq(T))
  BY <1>1
<1>4. ASSUME NEW i \in 1 .. Len(w) PROVE BlocksFrom(w, i) = w[i] \o BlocksFrom(w, i + 1)
  <2>1. Len(w) \in i .. Len(w) /\ i + 1 \in 1 .. Len(w) + 1 /\ w[i] \in Seq(T)
    BY <1>1
  <2>2. SubSeq(w, i, Len(w)) = <<w[i]>> \o SubSeq(w, i + 1, Len(w))
    BY <1>1, <2>1, SubSeqRecursiveFirst
  <2>3. SubSeq(w, i + 1, Len(w)) \in Seq(Seq(T))
    BY <1>3, <2>1
  <2>4. FlattenSeq(SubSeq(w, i, Len(w))) = w[i] \o FlattenSeq(SubSeq(w, i + 1, Len(w)))
    BY <2>1, <2>2, <2>3, FlattenOne
  <2> QED
    BY <2>4 DEF BlocksFrom
<1>5. ASSUME NEW i \in 1 .. Len(w) + 1 PROVE BlocksFrom(w, i) \in Seq(T)
  BY <1>3, FlattenType DEF BlocksFrom
<1>6. BlocksFrom(w, Len(w) + 1) = <<>> /\ BlocksFrom(w, 1) = FlattenSeq(w)
  BY <1>2, FlattenEmpty DEF BlocksFrom
<1> QED
  BY <1>4, <1>5, <1>6 DEF T

LEMMA RecordsJoin ==
  ASSUME NEW f \in Seq(Records), NEW b \in Seq(Records), NEW x \in Seq(Records)
  PROVE  (f \o b) \o x = f \o (b \o x)
<1> DEFINE T == Records
<1>1. f \in Seq(T) /\ b \in Seq(T) /\ x \in Seq(T)
  OBVIOUS
<1> HIDE DEF T
<1> QED
  BY <1>1, ConcatAssociative

LEMMA ConsistIs ==
  ASSUME NEW w, NEW c, Consist(w, c)
  PROVE  /\ Len(w) \in Nat \ {0} /\ w \in Seq(Seq(Records)) /\ \A i \in 1 .. Len(w) : w[i] \in Seq(Records)
         /\ \A i \in 0 .. Len(w) : c[i] \in 0 .. InputSize
         /\ c[0] = 0 /\ c[Len(w)] = InputSize /\ InputSize \in Nat \ {0}
         /\ \A i \in 1 .. Len(w) :
              /\ i - 1 \in 0 .. Len(w)
              /\ Part(c[i - 1], c[i]) \in Seq(Nat)
              /\ Len(Part(c[i - 1], c[i])) = c[i] - c[i - 1]
              /\ c[i - 1] <= c[i] /\ c[i] - c[i - 1] <= BlockSize
              /\ Holds(w[i], Part(c[i - 1], c[i]), i = Len(w))
<1>1. /\ Len(w) \in Nat \ {0} /\ w \in Seq(Seq(Records)) /\ \A i \in 1 .. Len(w) : w[i] \in Seq(Records)
      /\ InputSize \in Nat \ {0} /\ BlockSize \in Nat
  BY EmptySeq, DamageAssumption DEF Consist
<1>2. \A i \in 0 .. Len(w) : c[i] \in 0 .. InputSize
  BY DEF Consist
<1>3. c[0] = 0 /\ c[Len(w)] = InputSize
  BY DEF Consist
<1>4. ASSUME NEW i \in 1 .. Len(w)
      PROVE  /\ i - 1 \in 0 .. Len(w)
             /\ Part(c[i - 1], c[i]) \in Seq(Nat)
             /\ Len(Part(c[i - 1], c[i])) = c[i] - c[i - 1]
             /\ c[i - 1] <= c[i] /\ c[i] - c[i - 1] <= BlockSize
             /\ Holds(w[i], Part(c[i - 1], c[i]), i = Len(w))
  <2> DEFINE p == c[i - 1]
             q == c[i]
  <2>1. p <= q /\ q <= p + BlockSize /\ Holds(w[i], Part(p, q), i = Len(w))
    BY DEF Consist
  <2>2. i - 1 \in 0 .. Len(w) /\ i \in 0 .. Len(w)
    BY <1>1
  <2>3. p \in 0 .. InputSize /\ q \in 0 .. InputSize
    BY <1>2, <2>2
  <2> HIDE DEF p, q
  <2>4. q - p <= BlockSize
    BY <1>1, <2>1, <2>3
  <2>5. Part(p, q) \in Seq(Nat) /\ Len(Part(p, q)) = q - p
    BY <2>1, <2>3, PartIs
  <2> QED
    BY <2>1, <2>2, <2>4, <2>5 DEF p, q
<1> QED
  BY <1>1, <1>2, <1>3, <1>4

-----------------------------------------------------------------------------
(* What an archive means that begins as it was written: what stands there  *)
(* instead of the rest decides.                                            *)
Then(s, t) == s \o t

LEMMA PrefixMeans ==
  ASSUME NEW h \in Records, HeaderOf(h), NEW w, NEW c, Consist(w, c), NEW j \in 0 .. Len(w) - 1,
         NEW d \in Seq(Records), Rest(h, d).error = "Ok" => Rest(h, d).output \in Seq(Nat)
  PROVE  LET r == Rest(h, Then(FirstBlocks(w, j), d))
         IN /\ r.error = Rest(h, d).error
            /\ r.error = "Ok" => r.output = Then(Part(0, c[j]), Rest(h, d).output)
<1> DEFINE Says(k, x) ==
             LET r == Rest(h, FirstBlocks(w, k) \o x)
             IN /\ r.error = Rest(h, x).error
                /\ r.error = "Ok" => r.output = Part(0, c[k]) \o Rest(h, x).output
           Typed(x) == Rest(h, x).error = "Ok" => Rest(h, x).output \in Seq(Nat)
           S == {k \in Nat : k <= Len(w) - 1 => \A x \in Seq(Records) : Typed(x) => Says(k, x)}
<1>1. 0 \in S
  <2> SUFFICES ASSUME NEW x \in Seq(Records), Typed(x) PROVE Says(0, x)
    <3> HIDE DEF Says, Typed
    <3> QED
      OBVIOUS
  <2>1. FirstBlocks(w, 0) \o x = x
    BY FirstBlocksAre, ConsistIs, ConcatEmptySeq
  <2>2. Part(0, c[0]) = <<>>
    BY ConsistIs, SubSeqEmpty DEF Part
  <2>3. Rest(h, x).error = "Ok" => <<>> \o Rest(h, x).output = Rest(h, x).output
    BY ConcatEmptySeq
  <2> QED
    BY <2>1, <2>2, <2>3
<1>2. ASSUME NEW k \in Nat, k \in S PROVE k + 1 \in S
  <2> SUFFICES ASSUME k + 1 <= Len(w) - 1, NEW x \in Seq(Records), Typed(x) PROVE Says(k + 1, x)
    <3> HIDE DEF Says, Typed
    <3> QED
      OBVIOUS
  <2> DEFINE i == k + 1
             b == w[i]
             y == b \o x
             bytes == Part(c[k], c[i])
  <2>1. i \in 1 .. Len(w) /\ i # Len(w) /\ k \in 0 .. Len(w) /\ i \in 0 .. Len(w) /\ i - 1 = k
    BY ConsistIs, SMTT(30)
  <2>2. /\ c[k] \in 0 .. InputSize /\ c[i] \in 0 .. InputSize /\ c[k] <= c[i] /\ 0 \in 0 .. InputSize /\ 0 <= c[k]
        /\ bytes \in Seq(Nat) /\ Len(bytes) <= BlockSize /\ Holds(b, bytes, FALSE)
        /\ b \in Seq(Records)
    <3>1. /\ \A n \in 0 .. Len(w) : c[n] \in 0 .. InputSize
          /\ Part(c[i - 1], c[i]) \in Seq(Nat) /\ c[i - 1] <= c[i]
          /\ Len(Part(c[i - 1], c[i])) <= BlockSize /\ Holds(w[i], Part(c[i - 1], c[i]), i = Len(w))
          /\ b \in Seq(Records) /\ InputSize \in Nat
      BY <2>1, ConsistIs, SMTT(30)
    <3>2. (i = Len(w)) = FALSE
      BY <2>1
    <3> HIDE DEF i
    <3>3. c[k] \in 0 .. InputSize /\ c[i] \in 0 .. InputSize
      BY <2>1, <3>1
    <3>4. 0 \in 0 .. InputSize /\ 0 <= c[k]
      BY <3>1, <3>3
    <3>5. bytes \in Seq(Nat) /\ Len(bytes) <= BlockSize /\ Holds(b, bytes, FALSE) /\ c[k] <= c[i]
      BY <2>1, <3>1, <3>2
    <3> QED
      BY <3>1, <3>3, <3>4, <3>5
  <2> HIDE DEF bytes, b
  <2>3. Rest(h, y) = [error |-> Rest(h, x).error, output |-> bytes \o Rest(h, x).output]
    BY <2>2, BlockMeans DEF After
  <2>4. y \in Seq(Records)
    BY <2>2, ConcatProperties
  <2>5. FirstBlocks(w, i) \o x = FirstBlocks(w, k) \o y
    <3> DEFINE f == FirstBlocks(w, k)
    <3>1. FirstBlocks(w, i) = f \o b /\ f \in Seq(Records) /\ b \in Seq(Records)
      <4> HIDE DEF i
      <4> QED
        BY <2>1, <2>2, ConsistIs, FirstBlocksAre DEF b
    <3> HIDE DEF f
    <3>2. (f \o b) \o x = f \o (b \o x)
      BY <3>1, RecordsJoin, Zenon
    <3> QED
      BY <3>1, <3>2 DEF f
  <2>6. Typed(y)
    BY <2>2, <2>3, ConcatProperties
  <2>7. Says(k, y)
    <3>1. k <= Len(w) - 1
      BY ConsistIs
    <3> HIDE DEF Says, Typed, y
    <3> QED
      BY <1>2, <2>4, <2>6, <3>1
  <2>8. Part(0, c[k]) \in Seq(Nat) /\ Part(0, c[k]) \o bytes = Part(0, c[i])
    <3> DEFINE p == c[k]
               q == c[i]
    <3>1. p \in 0 .. InputSize /\ q \in 0 .. InputSize /\ 0 \in 0 .. InputSize /\ 0 <= p /\ p <= q
      BY <2>2
    <3> HIDE DEF p, q
    <3>2. Part(0, p) \in Seq(Nat) /\ Part(0, p) \o Part(p, q) = Part(0, q)
      BY <3>1, PartIs, PartsJoin
    <3> QED
      BY <3>2 DEF p, q, bytes
  <2>9. Rest(h, x).error = "Ok" =>
          Part(0, c[k]) \o (bytes \o Rest(h, x).output) = Part(0, c[i]) \o Rest(h, x).output
    <3> SUFFICES ASSUME Rest(h, x).error = "Ok"
                 PROVE  Part(0, c[k]) \o (bytes \o Rest(h, x).output) = Part(0, c[i]) \o Rest(h, x).output
      OBVIOUS
    <3> DEFINE p == Part(0, c[k])
               o == Rest(h, x).output
    <3>1. o \in Seq(Nat) /\ p \in Seq(Nat) /\ bytes \in Seq(Nat) /\ p \o bytes = Part(0, c[i])
      BY <2>2, <2>8
    <3> HIDE DEF p, o, i
    <3>2. (p \o bytes) \o o = p \o (bytes \o o)
      BY <3>1, JoinAssociative
    <3> QED
      BY <3>1, <3>2 DEF p, o
  <2>10. /\ Rest(h, y).error = Rest(h, x).error
         /\ Rest(h, y).output = bytes \o Rest(h, x).output
    BY <2>3, SMTT(30)
  <2> HIDE DEF y
  <2> QED
    BY <2>5, <2>7, <2>9, <2>10, Zenon
<1>3. j \in S
  <2> HIDE DEF S
  <2>1. Nat \subseteq S
    BY <1>1, <1>2, Induction
  <2>2. j \in Nat
    BY ConsistIs
  <2> QED
    BY <2>1, <2>2
<1>4. Says(j, d)
  <2>1. j <= Len(w) - 1
    BY ConsistIs
  <2> HIDE DEF Says
  <2> QED
    BY <1>3, <2>1
<1> QED
  BY <1>4 DEF Then

(* The blocks from i on mean what is left of the input.                    *)
LEMMA SuffixMeans ==
  ASSUME NEW h \in Records, HeaderOf(h), NEW w, NEW c, Consist(w, c), NEW i \in 1 .. Len(w)
  PROVE  Rest(h, BlocksFrom(w, i)) = [error |-> "Ok", output |-> Part(c[i - 1], InputSize)]
<1> DEFINE n == Len(w)
           Says(k) == Rest(h, BlocksFrom(w, k)) = [error |-> "Ok", output |-> Part(c[k - 1], InputSize)]
           S == {m \in Nat : m < n => Says(n - m)}
<1>1. n \in Nat \ {0} /\ InputSize \in Nat
  BY ConsistIs
<1>2. ASSUME NEW k \in 1 .. n
      PROVE  /\ BlocksFrom(w, k) = w[k] \o BlocksFrom(w, k + 1) /\ BlocksFrom(w, k + 1) \in Seq(Records)
             /\ c[k - 1] \in 0 .. InputSize /\ c[k] \in 0 .. InputSize /\ c[k - 1] <= c[k] /\ c[k] <= InputSize
             /\ Rest(h, BlocksFrom(w, k)) = After(Part(c[k - 1], c[k]), k = n, Rest(h, BlocksFrom(w, k + 1)))
  <2> DEFINE b == w[k]
             x == BlocksFrom(w, k + 1)
             bytes == Part(c[k - 1], c[k])
  <2>1. k + 1 \in 1 .. n + 1 /\ k \in 1 .. Len(w) /\ k \in 0 .. Len(w) /\ k - 1 \in 0 .. Len(w)
    BY <1>1
  <2>2. BlocksFrom(w, k) = b \o x /\ x \in Seq(Records)
    BY <2>1, ConsistIs, BlocksFromAre
  <2>3. c[k - 1] \in 0 .. InputSize /\ c[k] \in 0 .. InputSize
    BY <2>1, ConsistIs
  <2>4. b \in Seq(Records) /\ bytes \in Seq(Nat) /\ Len(bytes) <= BlockSize /\ Holds(b, bytes, k = n)
        /\ c[k - 1] <= c[k]
    BY <2>1, ConsistIs
  <2>5. (k = n) \in BOOLEAN
    OBVIOUS
  <2>6. Rest(h, b \o x) = After(bytes, k = n, Rest(h, x))
    <3> DEFINE f == (k = n)
    <3>1. Holds(b, bytes, f) /\ f \in BOOLEAN
      BY <2>4
    <3> HIDE DEF f, b, x, bytes
    <3>2. Rest(h, b \o x) = After(bytes, f, Rest(h, x))
      BY <2>2, <2>4, <3>1, BlockMeans
    <3> QED
      BY <3>2 DEF f
  <2>7. c[k] <= InputSize
    BY <1>1, <2>3
  <2> QED
    BY <2>2, <2>3, <2>4, <2>6, <2>7
<1>3. 0 \in S
  <2>1. n \in 1 .. n /\ n - 0 = n
    BY <1>1
  <2>2. Rest(h, BlocksFrom(w, n)) = [error |-> "Ok", output |-> Part(c[n - 1], c[n])]
    <3> HIDE DEF n
    <3> QED
      BY <1>2, <2>1 DEF After
  <2>3. c[n] = InputSize
    BY ConsistIs
  <2> QED
    BY <2>1, <2>2, <2>3
<1>4. ASSUME NEW m \in Nat, m \in S PROVE m + 1 \in S
  <2> SUFFICES ASSUME m + 1 < n PROVE Says(n - (m + 1))
    OBVIOUS
  <2> DEFINE k == n - (m + 1)
  <2>1. k \in 1 .. n /\ k # n /\ k + 1 = n - m /\ m < n
    BY <1>1
  <2>2. Says(k + 1)
    <3> HIDE DEF Says, k, n
    <3> QED
      BY <1>4, <2>1
  <2> HIDE DEF k
  <2>3. (k + 1) - 1 = k
    BY <2>1
  <2>4. Rest(h, BlocksFrom(w, k)) = [error |-> "Ok", output |-> Part(c[k - 1], c[k]) \o Part(c[k], InputSize)]
    <3>1. Rest(h, BlocksFrom(w, k)) = After(Part(c[k - 1], c[k]), k = n, Rest(h, BlocksFrom(w, k + 1)))
      BY <1>2, <2>1
    <3>2. /\ Rest(h, BlocksFrom(w, k + 1)).error = "Ok"
          /\ Rest(h, BlocksFrom(w, k + 1)).output = Part(c[k], InputSize)
      BY <2>2, <2>3
    <3> HIDE DEF n
    <3> QED
      BY <2>1, <3>1, <3>2 DEF After
  <2>5. Part(c[k - 1], c[k]) \o Part(c[k], InputSize) = Part(c[k - 1], InputSize)
    <3> DEFINE p == c[k - 1]
               q == c[k]
    <3>1. p \in 0 .. InputSize /\ q \in 0 .. InputSize /\ p <= q /\ q <= InputSize /\ InputSize \in 0 .. InputSize
      <4>1. InputSize \in 0 .. InputSize
        BY <1>1
      <4> HIDE DEF n
      <4> QED
        BY <1>2, <2>1, <4>1
    <3> HIDE DEF p, q
    <3>2. Part(p, q) \o Part(q, InputSize) = Part(p, InputSize)
      BY <3>1, PartsJoin
    <3> QED
      BY <3>2 DEF p, q
  <2> QED
    BY <2>4, <2>5 DEF k
<1>5. n - i \in S
  <2>1. Nat \subseteq S
    <3> HIDE DEF S
    <3> QED
      BY <1>3, <1>4, Induction
  <2>2. n - i \in Nat
    BY <1>1
  <2> HIDE DEF S
  <2> QED
    BY <2>1, <2>2
<1> QED
  <2>1. n - i < n /\ n - (n - i) = i
    BY <1>1
  <2>2. Says(i)
    <3> HIDE DEF Says, n
    <3> QED
      BY <1>5, <2>1
  <2> QED
    BY <2>2

-----------------------------------------------------------------------------
(* What takes the place of a block that was damaged.                       *)
LEMMA RemaindersMean ==
  ASSUME NEW h \in Records, NEW r \in Remainders
  PROVE  r \in Seq(Records) /\ Rest(h, r) = Corrupt
<1>1. CASE r = <<>>
  <2>1. <<>> \in Seq(Records)
    OBVIOUS
  <2> QED
    BY <1>1, <2>1, RestOfNothing
<1>2. ASSUME NEW g \in Garbage, r = <<g>> PROVE r \in Seq(Records) /\ Rest(h, r) = Corrupt
  <2>1. Wrong \in Nat
    BY DamageAssumption
  <2> DEFINE e == <<Wrong>>
             none == <<>>
  <2>2. e \in Seq(Nat) /\ e # none /\ none \in Seq(Records)
    BY <2>1
  <2>3. PICK f \in BOOLEAN, o \in {0, 1} :
          g = [type |-> "block", final |-> f, raw |-> TRUE, original |-> o, stored |-> 0, crc |-> e]
    BY DEF Garbage, BlockItem
  <2> HIDE DEF e
  <2>4. g \in Records /\ g.stored = 0 /\ g.crc = e
    BY <2>2, <2>3 DEF Records, BlockItems
  <2>5. Rest(h, <<g>> \o none) = StoresNothing(h, g, none)
    <3> HIDE DEF none
    <3> QED
      BY <2>2, <2>4, RestOfEmpty
  <2>6. ~Intact(g, <<>>)
    BY <2>2, <2>4 DEF Intact
  <2>7. <<g>> \in Seq(Records) /\ <<g>> \o none = <<g>>
    BY <2>4
  <2> QED
    BY <1>2, <2>5, <2>6, <2>7 DEF StoresNothing
<1> QED
  BY <1>1, <1>2 DEF Remainders

(* A payload that is read at all is the one that was written.              *)
LEMMA PayloadRead ==
  ASSUME NEW h \in Records, NEW g \in BlockItems, NEW q \in DataItems, NEW x \in Seq(Records), g.stored # 0,
         Rest(h, <<g, q>> \o x).error = "Ok"
  PROVE  /\ InBounds(h, g) /\ q.bytes = g.crc
         /\ g.final \/ Rest(h, x).error = "Ok"
         /\ Rest(h, <<g, q>> \o x).output = After(g.crc, g.final, Rest(h, x)).output
<1>1. g \in Records /\ q \in Records
  BY DEF Records
<1>2. Rest(h, <<g, q>> \o x) = StoresBytes(h, g, q.bytes, x)
  BY <1>1, RestOfPayload
<1>3. InBounds(h, g) /\ Intact(g, q.bytes)
  BY <1>2 DEF StoresBytes, Corrupt
<1>4. q.bytes = g.crc
  BY <1>3 DEF Intact
<1>5. CASE g.final
  BY <1>2, <1>3, <1>4, <1>5 DEF StoresBytes, After
<1>6. CASE ~g.final
  <2>1. Rest(h, <<g, q>> \o x) = [error |-> Rest(h, x).error, output |-> q.bytes \o Rest(h, x).output]
    BY <1>2, <1>3, <1>6 DEF StoresBytes
  <2> DEFINE r == Rest(h, <<g, q>> \o x)
             o == q.bytes \o Rest(h, x).output
  <2>4. r = [error |-> Rest(h, x).error, output |-> o]
    BY <2>1
  <2> HIDE DEF r, o
  <2>2. /\ r.error = Rest(h, x).error
        /\ r.output = g.crc \o Rest(h, x).output
    <3>1. r.output = o /\ r.error = Rest(h, x).error
      BY <2>4
    <3> QED
      BY <1>4, <3>1 DEF o
  <2>3. After(g.crc, g.final, Rest(h, x)).output = g.crc \o Rest(h, x).output
    BY <1>6 DEF After
  <2> QED
    BY <1>3, <1>4, <2>2, <2>3 DEF r
<1> QED
  BY <1>5, <1>6

LEMMA NothingRead ==
  ASSUME NEW h \in Records, NEW g \in BlockItems, NEW x \in Seq(Records), g.stored = 0,
         Rest(h, <<g>> \o x).error = "Ok"
  PROVE  g.crc = <<>> /\ (g.final => Rest(h, <<g>> \o x).output = <<>>)
<1>1. g \in Records
  BY DEF Records
<1>2. Rest(h, <<g>> \o x) = StoresNothing(h, g, x)
  BY <1>1, RestOfEmpty
<1>3. InBounds(h, g) /\ Intact(g, <<>>)
  BY <1>2 DEF StoresNothing, Corrupt
<1> QED
  BY <1>2, <1>3 DEF StoresNothing, Intact

LEMMA TwoRecords ==
  ASSUME NEW T, NEW g \in T, NEW p \in T, NEW x \in Seq(T)
  PROVE  (<<g>> \o <<p>>) \o x = <<g, p>> \o x
<1> DEFINE a == <<g>> \o <<p>>
           b == <<g, p>>
<1>1. a \in Seq(T) /\ Len(a) = 2 /\ a[1] = g /\ a[2] = p
  OBVIOUS
<1>2. b \in Seq(T) /\ Len(b) = 2 /\ b[1] = g /\ b[2] = p
  OBVIOUS
<1> HIDE DEF a, b
<1>3. a = b
  <2>1. Len(a) = Len(b) /\ \A i \in 1 .. Len(a) : a[i] = b[i]
    BY <1>1, <1>2
  <2> QED
    BY <1>1, <1>2, <2>1, SeqEqual
<1> QED
  BY <1>3 DEF a, b

LEMMA DamagesAre ==
  ASSUME NEW head, NEW payload, NEW rest, NEW d \in DamagedBlock(head, payload, rest)
  PROVE  \/ d \in CutShort(head)
         \/ \E g \in Relabelled(head, payload) \cup Reloaded(head, payload) : d = Then(g, rest)
         \/ \E g \in Resized(head), r \in Remainders : d = Then(g, r)
BY DEF DamagedBlock, Then

(* Damage of a block that holds bytes.                                     *)
LEMMA DamagedBytes ==
  ASSUME NEW h \in Records, NEW bytes \in Seq(Nat), \A i \in 1 .. Len(bytes) : bytes[i] # Wrong,
         NEW final \in BOOLEAN, NEW s \in 1 .. Len(bytes), NEW x \in Seq(Records),
         NEW d \in DamagedBlock(HeadOf(bytes, final, s), <<DataItem(bytes, s)>>, x)
  PROVE  /\ d \in Seq(Records)
         /\ Rest(h, d).error = "Ok" => Rest(h, d).output = After(bytes, final, Rest(h, x)).output
<1> DEFINE k == HeadOf(bytes, final, s)
           p == DataItem(bytes, s)
           Right == /\ d \in Seq(Records)
                    /\ Rest(h, d).error = "Ok" => Rest(h, d).output = After(bytes, final, Rest(h, x)).output
<1>1. /\ Len(bytes) \in Nat /\ s \in Nat \ {0} /\ Wrong \in Nat /\ BlockSize \in Nat
      /\ bytes # <<>> /\ bytes # <<Wrong>> /\ <<Wrong>> \in Seq(Nat)
  BY DamageAssumption
<1>2. /\ k \in BlockItems /\ k.stored = s /\ k.final = final /\ k.original = Len(bytes) /\ k.crc = bytes
  BY <1>1 DEF HeadOf, BlockItem, BlockItems
<1>3. /\ p \in DataItems /\ p.bytes = bytes /\ p.size = s
      /\ \A n \in Nat, y \in Seq(Nat) : DataItem(y, n) \in DataItems
  BY <1>1 DEF DataItem, DataItems
<1> HIDE DEF k, p
<1>4. <<p>> # <<>> /\ <<p>>[1] = p
  OBVIOUS
<1>5. ASSUME NEW g \in BlockItems, NEW q \in DataItems PROVE (<<g>> \o <<q>>) \o x = <<g, q>> \o x
  <2>1. g \in Records /\ q \in Records
    BY DEF Records
  <2> QED
    BY <2>1, TwoRecords
<1>6. ASSUME NEW q \in Misread(bytes) PROVE q \in Seq(Nat)
  <2>1. SubSeq(bytes, 1, Len(bytes) - 1) \in Seq(Nat)
    BY <1>1
  <2>2. [i \in DOMAIN bytes |-> Wrong] \in Seq(Nat)
    BY <1>1
  <2> QED
    BY <2>1, <2>2 DEF Misread
<1>7. ASSUME NEW g \in BlockItems, NEW q \in DataItems, NEW y \in Seq(Records),
             g.stored # 0, g.final = final, g.crc = bytes, d = <<g, q>> \o y, y = x \/ y \in Remainders
      PROVE  Right
  <2>1. d \in Seq(Records)
    BY <1>7 DEF Records
  <2> SUFFICES ASSUME Rest(h, d).error = "Ok"
               PROVE  Rest(h, d).output = After(bytes, final, Rest(h, x)).output
    BY <2>1
  <2>2. /\ final \/ Rest(h, y).error = "Ok"
        /\ Rest(h, d).output = After(bytes, final, Rest(h, y)).output
    BY <1>7, PayloadRead
  <2>3. CASE y = x
    BY <2>2, <2>3
  <2>4. CASE y \in Remainders
    <3>1. Rest(h, y).error # "Ok"
      BY <2>4, RemaindersMean DEF Corrupt
    <3> QED
      BY <2>2, <3>1 DEF After
  <2> QED
    BY <1>7, <2>3, <2>4
<1>8. ASSUME NEW g \in OtherHeads(k), d = (<<g>> \o <<p>>) \o x PROVE Right
  <2>1. CASE g = [k EXCEPT !.crc = <<Wrong>>]
    <3>1. g \in BlockItems /\ g.stored # 0 /\ g.crc = <<Wrong>>
      BY <1>1, <1>2, <2>1 DEF BlockItems
    <3>2. d = <<g, p>> \o x
      BY <1>3, <1>5, <1>8, <3>1
    <3>3. d \in Seq(Records)
      BY <1>3, <3>1, <3>2 DEF Records
    <3>4. Rest(h, d).error # "Ok"
      BY <1>1, <1>3, <3>1, <3>2, PayloadRead
    <3> QED
      BY <3>3, <3>4
  <2>2. ASSUME NEW n \in 0 .. BlockSize + 1, g = [k EXCEPT !.original = n] PROVE Right
    <3>0. n \in Nat
      OBVIOUS
    <3>1. g \in BlockItems /\ g.stored # 0 /\ g.crc = bytes /\ g.final = final
      BY <1>1, <1>2, <2>2, <3>0 DEF BlockItems
    <3>2. d = <<g, p>> \o x
      BY <1>3, <1>5, <1>8, <3>1
    <3> QED
      BY <1>3, <1>7, <3>1, <3>2
  <2> HIDE DEF Right
  <2> QED
    BY <2>1, <2>2 DEF OtherHeads
<1>9. ASSUME NEW g \in RawOrNot(k), NEW q \in Misread(bytes), d = (<<g>> \o <<DataItem(q, s)>>) \o x PROVE Right
  <2>1. PICK r \in BOOLEAN : g = [k EXCEPT !.raw = r]
    BY DEF RawOrNot
  <2>2. g \in BlockItems /\ g.stored # 0 /\ g.crc = bytes /\ g.final = final
    BY <1>1, <1>2, <2>1 DEF BlockItems
  <2>3. DataItem(q, s) \in DataItems
    BY <1>1, <1>3, <1>6
  <2>4. d = <<g, DataItem(q, s)>> \o x
    BY <1>5, <1>9, <2>2, <2>3
  <2> QED
    BY <1>7, <2>2, <2>3, <2>4
<1>10. ASSUME NEW r \in Remainders, d = <<[k EXCEPT !.stored = 0]>> \o r PROVE Right
  <2> DEFINE g == [k EXCEPT !.stored = 0]
  <2>1. g \in BlockItems /\ g.stored = 0 /\ g.crc # <<>> /\ r \in Seq(Records)
    BY <1>1, <1>2, RemaindersMean DEF BlockItems
  <2>2. d = <<g>> \o r
    BY <1>10
  <2> HIDE DEF g
  <2>3. d \in Seq(Records)
    BY <2>1, <2>2 DEF Records
  <2>4. Rest(h, d).error # "Ok"
    BY <2>1, <2>2, NothingRead
  <2> QED
    BY <2>3, <2>4
<1>11. ASSUME NEW n \in (1 .. BlockSize + 1) \ {s}, NEW q \in Misread(bytes), NEW r \in Remainders,
              d = <<[k EXCEPT !.stored = n], DataItem(q, n)>> \o r
       PROVE  Right
  <2> DEFINE g == [k EXCEPT !.stored = n]
  <2>0. n \in Nat \ {0}
    OBVIOUS
  <2>1. g \in BlockItems /\ g.stored # 0 /\ g.crc = bytes /\ g.final = final
    BY <1>1, <1>2, <2>0 DEF BlockItems
  <2>2. DataItem(q, n) \in DataItems /\ r \in Seq(Records)
    BY <1>1, <1>3, <1>6, <2>0, RemaindersMean
  <2>3. d = <<g, DataItem(q, n)>> \o r
    BY <1>11
  <2> HIDE DEF g
  <2> QED
    BY <1>7, <2>1, <2>2, <2>3
<1>12. ASSUME d \in CutShort(k) PROVE Right
  <2>1. k \in Records /\ k.stored # 0
    BY <1>1, <1>2 DEF Records
  <2>2. Rest(h, <<k>>).error # "Ok" /\ <<k>> \in Seq(Records)
    BY <2>1, RestOfCut DEF Corrupt
  <2>3. Rest(h, <<>>).error # "Ok" /\ <<>> \in Seq(Records)
    BY RestOfNothing DEF Corrupt
  <2> QED
    BY <1>12, <2>2, <2>3 DEF CutShort
<1>13. d \in DamagedBlock(k, <<p>>, x)
  BY DEF k, p
<1> SUFFICES Right
  OBVIOUS
<1> HIDE DEF Right
<1>14. CASE d \in CutShort(k)
  BY <1>12, <1>14
<1>15. ASSUME NEW g \in Relabelled(k, <<p>>), d = Then(g, x) PROVE Right
  BY <1>8, <1>15 DEF Relabelled, Cons, Then
<1>16. ASSUME NEW g \in Reloaded(k, <<p>>), d = Then(g, x) PROVE Right
  <2>1. PICK r \in RawOrNot(k), q \in Reread(<<p>>) : g = Cons(r, q)
    BY DEF Reloaded
  <2>2. PICK m \in Misread(bytes) : q = <<DataItem(m, s)>>
    BY <1>3, <1>4 DEF Reread
  <2> QED
    BY <1>9, <1>16, <2>1, <2>2 DEF Cons, Then
<1>17. ASSUME NEW g \in Resized(k), NEW r \in Remainders, d = Then(g, r) PROVE Right
  <2>1. \/ g = <<[k EXCEPT !.stored = 0]>>
        \/ \E n \in (1 .. BlockSize + 1) \ {s}, q \in Misread(bytes) :
             g = <<[k EXCEPT !.stored = n], DataItem(q, n)>>
    BY <1>2 DEF Resized
  <2> QED
    BY <1>10, <1>11, <1>17, <2>1 DEF Then
<1>18. \/ d \in CutShort(k)
       \/ \E g \in Relabelled(k, <<p>>) \cup Reloaded(k, <<p>>) : d = Then(g, x)
       \/ \E g \in Resized(k), r \in Remainders : d = Then(g, r)
  BY <1>13, DamagesAre
<1> QED
  BY <1>14, <1>15, <1>16, <1>17, <1>18

(* Damage of the empty block that an archive may end with.                 *)
LEMMA DamagedEmpty ==
  ASSUME NEW h \in Records, NEW x \in Seq(Records), NEW d \in DamagedBlock(LastHead, <<>>, x)
  PROVE  /\ d \in Seq(Records)
         /\ Rest(h, d).error = "Ok" => Rest(h, d).output = <<>>
<1> DEFINE k == LastHead
           e == <<>>
           Right == d \in Seq(Records) /\ (Rest(h, d).error = "Ok" => Rest(h, d).output = e)
<1>1. /\ k \in BlockItems /\ k.stored = 0 /\ k.original = 0 /\ k.final /\ k.crc = e
      /\ e \in Seq(Nat) /\ e \in Seq(Records) /\ <<Wrong>> \in Seq(Nat) /\ BlockSize \in Nat
      /\ e # <<Wrong>>
  <2>1. e \in Seq(Nat) /\ e \in Seq(Records) /\ <<Wrong>> \in Seq(Nat) /\ BlockSize \in Nat /\ e # <<Wrong>>
    BY DamageAssumption
  <2> QED
    BY <2>1 DEF LastHead, BlockItem, BlockItems
<1> HIDE DEF k, e
<1>2. ASSUME NEW g \in BlockItems, g.stored = 0, g.final, NEW y \in Seq(Records), d = <<g>> \o y
      PROVE  Right /\ (Rest(h, d).error = "Ok" => g.crc = e)
  <2>1. d \in Seq(Records)
    BY <1>2 DEF Records
  <2>2. ASSUME Rest(h, d).error = "Ok" PROVE g.crc = e /\ Rest(h, d).output = e
    BY <1>2, <2>2, NothingRead DEF e
  <2> QED
    BY <2>1, <2>2
<1>3. ASSUME NEW g PROVE Cons(g, e) = <<g>>
  BY DEF Cons, e
<1>4. ASSUME NEW r \in Remainders PROVE r \in Seq(Records)
  BY RemaindersMean
<1>5. ASSUME d \in CutShort(k) PROVE Right
  <2>1. CASE d = <<k>>
    <3>1. <<k>> \o e = <<k>> /\ k \in Records
      BY <1>1 DEF e, Records
    <3> QED
      BY <1>1, <1>2, <2>1, <3>1
  <2>2. CASE d = e
    <3>1. Rest(h, e).error # "Ok"
      BY RestOfNothing DEF Corrupt, e
    <3> QED
      BY <1>1, <2>2, <3>1
  <2> QED
    BY <1>5, <2>1, <2>2 DEF CutShort, e
<1>6. ASSUME NEW g \in OtherHeads(k), d = <<g>> \o x PROVE Right
  <2>1. CASE g = [k EXCEPT !.crc = <<Wrong>>]
    <3>1. g \in BlockItems /\ g.stored = 0 /\ g.final /\ g.crc # e
      BY <1>1, <2>1 DEF BlockItems
    <3> HIDE DEF Right
    <3> QED
      BY <1>2, <1>6, <3>1
  <2>2. ASSUME NEW n \in 0 .. BlockSize + 1, g = [k EXCEPT !.original = n] PROVE Right
    <3>1. n \in Nat
      OBVIOUS
    <3>2. g \in BlockItems /\ g.stored = 0 /\ g.final
      BY <1>1, <2>2, <3>1 DEF BlockItems
    <3> HIDE DEF Right
    <3> QED
      BY <1>2, <1>6, <3>2
  <2> HIDE DEF Right
  <2> QED
    BY <2>1, <2>2 DEF OtherHeads
<1>7. ASSUME NEW g \in RawOrNot(k), d = <<g>> \o x PROVE Right
  <2>1. PICK r \in BOOLEAN : g = [k EXCEPT !.raw = r]
    BY DEF RawOrNot
  <2>2. g \in BlockItems /\ g.stored = 0 /\ g.final
    BY <1>1, <2>1 DEF BlockItems
  <2> HIDE DEF Right
  <2> QED
    BY <1>2, <1>7, <2>2
<1>8. ASSUME NEW g \in Resized(k), NEW r \in Remainders, d = Then(g, r) PROVE Right
  <2>1. CASE g = <<[k EXCEPT !.stored = 0]>>
    <3>1. [k EXCEPT !.stored = 0] = k
      BY <1>1 DEF BlockItems
    <3>2. d = <<k>> \o r
      BY <1>8, <2>1, <3>1 DEF Then
    <3> HIDE DEF Right
    <3> QED
      BY <1>1, <1>2, <1>4, <3>2
  <2>2. ASSUME NEW n \in (1 .. BlockSize + 1) \ {k.stored}, NEW q \in Misread(k.crc),
               g = <<[k EXCEPT !.stored = n], DataItem(q, n)>>
        PROVE  Right
    <3> DEFINE m == [k EXCEPT !.stored = n]
               p == DataItem(q, n)
    <3>1. n \in Nat /\ n > 0
      BY <1>1
    <3>2. m \in BlockItems /\ m.stored = n /\ m.original = 0
      BY <1>1, <3>1 DEF BlockItems
    <3>3. q \in Seq(Nat)
      <4>1. Len(e) = 0 /\ SubSeq(e, 1, Len(e) - 1) \in Seq(Nat) /\ [i \in DOMAIN e |-> Wrong] \in Seq(Nat)
        BY DamageAssumption DEF e
      <4> QED
        BY <1>1, <4>1 DEF Misread
    <3>4. p \in DataItems
      BY <3>1, <3>3 DEF DataItem, DataItems
    <3>5. d = <<m, p>> \o r
      BY <1>8, <2>2 DEF Then
    <3> HIDE DEF m, p
    <3>6. Rest(h, d).error # "Ok"
      <4>1. ~InBounds(h, m)
        BY <3>1, <3>2 DEF InBounds
      <4>2. m.stored # 0 /\ r \in Seq(Records)
        BY <1>4, <3>1, <3>2
      <4> QED
        BY <3>2, <3>4, <3>5, <4>1, <4>2, PayloadRead
    <3>7. d \in Seq(Records)
      BY <1>4, <3>2, <3>4, <3>5 DEF Records
    <3> QED
      BY <3>6, <3>7
  <2> HIDE DEF Right
  <2> QED
    BY <2>1, <2>2 DEF Resized
<1>9. d \in DamagedBlock(k, e, x)
  BY DEF k, e
<1> SUFFICES Right
  BY DEF e
<1> HIDE DEF Right
<1>10. CASE d \in CutShort(k)
  BY <1>5, <1>10
<1>11. ASSUME NEW g \in Relabelled(k, e), d = Then(g, x) PROVE Right
  BY <1>3, <1>6, <1>11 DEF Relabelled, Then
<1>12. ASSUME NEW g \in Reloaded(k, e), d = Then(g, x) PROVE Right
  <2>1. PICK r \in RawOrNot(k), q \in Reread(e) : g = Cons(r, q)
    BY DEF Reloaded
  <2>2. q = e
    BY DEF Reread, e
  <2> QED
    BY <1>3, <1>7, <1>12, <2>1, <2>2 DEF Then
<1>13. \/ d \in CutShort(k)
       \/ \E g \in Relabelled(k, e) \cup Reloaded(k, e) : d = Then(g, x)
       \/ \E g \in Resized(k), r \in Remainders : d = Then(g, r)
  BY <1>9, DamagesAre
<1> QED
  BY <1>8, <1>10, <1>11, <1>12, <1>13

-----------------------------------------------------------------------------
(* What an archive decodes to, of which the header is as it was written.   *)
LEMMA DecodeMeans ==
  ASSUME NEW h \in Records, HeaderOf(h), NEW d \in Seq(Records)
  PROVE  /\ Cons(h, d) \in Seq(Records)
         /\ Decode(Cons(h, d)) =
              IF h.known /\ Rest(h, d).error = "Ok" /\ Len(Rest(h, d).output) # InputSize
                THEN Corrupt ELSE Rest(h, d)
<1> DEFINE a == <<h>> \o d
<1>1. a \in Seq(Records) /\ a # <<>> /\ a[1] = h
  OBVIOUS
<1>2. a = Cons(h, d)
  BY DEF Cons
<1>3. h.check = "Ok" /\ h.blockSize # 0 /\ (h.known => h.size = InputSize)
  BY DamageAssumption DEF HeaderOf
<1>4. Rest(h, d) = Meaning(a)[2]
  BY DEF Rest
<1> HIDE DEF a
<1>5. Decode(a) = IF h.known /\ Rest(h, d).error = "Ok" /\ Len(Rest(h, d).output) # InputSize
                    THEN Corrupt ELSE Rest(h, d)
  <2> DEFINE r == Rest(h, d)
  <2>1. Decode(a) = IF a[1].known /\ r.error = "Ok" /\ Len(r.output) # a[1].size THEN Corrupt ELSE r
    BY <1>1, <1>3, <1>4, Zenon DEF Decode
  <2> SUFFICES Decode(a) = IF h.known /\ r.error = "Ok" /\ Len(r.output) # InputSize THEN Corrupt ELSE r
    OBVIOUS
  <2> HIDE DEF r
  <2>2. CASE h.known
    BY <1>1, <1>3, <2>1, <2>2
  <2>3. CASE ~h.known
    BY <1>1, <2>1, <2>3
  <2> QED
    BY <2>2, <2>3
<1> QED
  BY <1>1, <1>2, <1>5

LEMMA InputIs == Input \in Seq(Nat) /\ Len(Input) = InputSize /\ Part(0, InputSize) = Input
<1>1. InputSize \in Nat
  BY DamageAssumption
<1>2. Input \in Seq(Nat) /\ Len(Input) = InputSize
  BY <1>1 DEF Input
<1> QED
  BY <1>1, <1>2, SubSeqFull DEF Part

LEMMA WrittenMeans ==
  ASSUME NEW h \in Records, HeaderOf(h), NEW w, NEW c, Consist(w, c)
  PROVE  Decode(Whole(h, w)) = [error |-> "Ok", output |-> Input]
<1> DEFINE d == BlocksFrom(w, 1)
<1>1. 1 \in 1 .. Len(w) /\ 1 - 1 = 0 /\ c[0] = 0 /\ w \in Seq(Seq(Records)) /\ 1 \in 1 .. Len(w) + 1
  BY ConsistIs
<1>2. d = FlattenSeq(w) /\ d \in Seq(Records)
  BY <1>1, BlocksFromAre
<1>3. Rest(h, d) = [error |-> "Ok", output |-> Part(c[1 - 1], InputSize)]
  BY <1>1, SuffixMeans
<1>4. Rest(h, d).error = "Ok" /\ Rest(h, d) = [error |-> "Ok", output |-> Input] /\ Len(Rest(h, d).output) = InputSize
  BY <1>1, <1>3, InputIs
<1> HIDE DEF d
<1> QED
  BY <1>2, <1>4, DecodeMeans DEF Whole

LEMMA FieldDamagedAre ==
  ASSUME NEW h, NEW w, NEW a \in FieldDamaged(h, w)
  PROVE  \E i \in DOMAIN w : \E d \in DamagedBlock(w[i][1], Tail(w[i]), BlocksFrom(w, i + 1)) :
           a = Cons(h, Then(FirstBlocks(w, i - 1), d))
<1>1. PICK i \in DOMAIN w : a \in DamagedAt(h, w, i)
  BY DEF FieldDamaged
<1> DEFINE D == DamagedBlock(w[i][1], Tail(w[i]), FlattenSeq(SubSeq(w, i + 1, Len(w))))
           f == FlattenSeq(SubSeq(w, 1, i - 1))
<1>2. DamagedAt(h, w, i) = {Cons(h, f \o d) : d \in D}
  BY Zenon DEF DamagedAt
<1> HIDE DEF D, f
<1>3. PICK d \in D : a = Cons(h, f \o d)
  BY <1>1, <1>2
<1> QED
  BY <1>3, Zenon DEF D, f, BlocksFrom, FirstBlocks, Then

(* A damaged field, payload or tail is noticed, or it does not matter.     *)
LEMMA FieldDamageMeans ==
  ASSUME NEW h \in Records, HeaderOf(h), NEW w, NEW c, Consist(w, c), NEW a \in FieldDamaged(h, w),
         Decode(a).error = "Ok"
  PROVE  Decode(a).output = Input
<1>1. PICK i \in DOMAIN w : \E d \in DamagedBlock(w[i][1], Tail(w[i]), BlocksFrom(w, i + 1)) :
               a = Cons(h, Then(FirstBlocks(w, i - 1), d))
  BY FieldDamagedAre
<1> DEFINE n == Len(w)
           x == BlocksFrom(w, i + 1)
           p == c[i - 1]
           q == c[i]
           bytes == Part(p, q)
           f == (i = n)
<1>3. /\ n \in Nat /\ i \in 1 .. n /\ i - 1 \in 0 .. n - 1 /\ i - 1 \in 0 .. n /\ i \in 0 .. n
      /\ i + 1 \in 1 .. n + 1 /\ w \in Seq(Seq(Records)) /\ InputSize \in Nat
  <2>1. w \in Seq(Seq(Records)) /\ n \in Nat /\ InputSize \in Nat
    BY ConsistIs
  <2>2. i \in 1 .. n
    BY <2>1
  <2> QED
    BY <2>1, <2>2
<1>4. x \in Seq(Records)
  BY <1>3, BlocksFromAre
<1>5. /\ p \in 0 .. InputSize /\ q \in 0 .. InputSize /\ p <= q /\ f \in BOOLEAN
      /\ bytes \in Seq(Nat) /\ Len(bytes) = q - p /\ Holds(w[i], bytes, f)
  <2>1. p \in 0 .. InputSize /\ q \in 0 .. InputSize
    BY <1>3, ConsistIs
  <2>2. p <= q /\ bytes \in Seq(Nat) /\ Len(bytes) = q - p
    BY <1>3, ConsistIs, SMTT(30)
  <2>4. Holds(w[i], bytes, i = Len(w))
    BY <1>3, ConsistIs
  <2>3. f \in BOOLEAN
    OBVIOUS
  <2> QED
    BY <2>1, <2>2, <2>3, <2>4
<1>6. After(bytes, f, Rest(h, x)).output = Part(p, InputSize)
  <2>1. CASE f
    BY <2>1, ConsistIs DEF After
  <2>2. CASE ~f
    <3>1. i + 1 \in 1 .. n /\ (i + 1) - 1 = i
      BY <1>3, <2>2
    <3>2. Rest(h, x) = [error |-> "Ok", output |-> Part(c[(i + 1) - 1], InputSize)]
      BY <3>1, SuffixMeans
    <3>3. Rest(h, x).output = Part(q, InputSize)
      BY <3>1, <3>2
    <3>4. InputSize \in 0 .. InputSize /\ q <= InputSize
      BY <1>3, <1>5
    <3> HIDE DEF p, q, x, f
    <3>5. Part(p, q) \o Part(q, InputSize) = Part(p, InputSize)
      BY <1>5, <3>4, PartsJoin
    <3> QED
      BY <2>2, <3>3, <3>5 DEF After
  <2> QED
    BY <2>1, <2>2
<1>2. PICK d \in DamagedBlock(w[i][1], Tail(w[i]), BlocksFrom(w, i + 1)) :
               a = Cons(h, Then(FirstBlocks(w, i - 1), d))
  BY <1>1
<1>7. d \in Seq(Records) /\ (Rest(h, d).error = "Ok" => Rest(h, d).output = Part(p, InputSize))
  <2> HIDE DEF p, q, x, f, n
  <2>1. CASE bytes = <<>> /\ f /\ w[i] = <<LastHead>>
    <3>1. w[i][1] = LastHead /\ Tail(w[i]) = <<>>
      BY <2>1
    <3>2. After(bytes, f, Rest(h, x)).output = <<>>
      BY <2>1 DEF After
    <3> QED
      BY <1>2, <1>4, <1>6, <3>1, <3>2, DamagedEmpty DEF x
  <2>2. ASSUME NEW s \in 1 .. Len(bytes), w[i] = <<HeadOf(bytes, f, s), DataItem(bytes, s)>>
        PROVE  d \in Seq(Records) /\ (Rest(h, d).error = "Ok" => Rest(h, d).output = Part(p, InputSize))
    <3>1. w[i][1] = HeadOf(bytes, f, s) /\ Tail(w[i]) = <<DataItem(bytes, s)>>
      BY <2>2
    <3>2. \A j \in 1 .. Len(bytes) : bytes[j] # Wrong
      BY <1>5, PartIs
    <3>3. d \in DamagedBlock(HeadOf(bytes, f, s), <<DataItem(bytes, s)>>, x)
      BY <1>2, <3>1 DEF x
    <3> HIDE DEF bytes
    <3>4. /\ d \in Seq(Records)
          /\ Rest(h, d).error = "Ok" => Rest(h, d).output = After(bytes, f, Rest(h, x)).output
      BY <1>4, <1>5, <3>2, <3>3, DamagedBytes
    <3> QED
      BY <1>6, <3>4
  <2> QED
    BY <1>5, <2>1, <2>2 DEF Holds
<1> DEFINE y == Then(FirstBlocks(w, i - 1), d)
<1>8. y \in Seq(Records)
  BY <1>3, <1>7, FirstBlocksAre, ConcatProperties DEF Then
<1>9. a = Cons(h, y)
  BY <1>2
<1>10. /\ Rest(h, y).error = Rest(h, d).error
       /\ Rest(h, y).error = "Ok" => Rest(h, y).output = Then(Part(0, p), Rest(h, d).output)
  <2>1. Rest(h, d).error = "Ok" => Rest(h, d).output \in Seq(Nat)
    <3>1. InputSize \in 0 .. InputSize /\ p <= InputSize
      BY <1>3, <1>5, SMTT(30)
    <3> HIDE DEF p
    <3> QED
      BY <1>5, <1>7, <3>1, PartIs
  <2> HIDE DEF n
  <2> QED
    BY <1>3, <1>7, <2>1, PrefixMeans DEF n
<1>11. Decode(a) = Rest(h, y)
  <2> HIDE DEF y
  <2> QED
    BY <1>8, <1>9, DecodeMeans DEF Corrupt
<1>12. Part(0, p) \o Part(p, InputSize) = Input
  <2>1. 0 \in 0 .. InputSize /\ InputSize \in 0 .. InputSize /\ 0 <= p /\ p <= InputSize
    BY <1>3, <1>5, SMTT(30)
  <2> HIDE DEF p
  <2>2. Part(0, p) \o Part(p, InputSize) = Part(0, InputSize)
    BY <1>5, <2>1, PartsJoin
  <2> QED
    BY <2>2, InputIs
<1> HIDE DEF y, p
<1> QED
  BY <1>7, <1>10, <1>11, <1>12 DEF Then

-----------------------------------------------------------------------------
(* One block more, one less, or one that is the last too early or not.     *)
LEMMA SplitBlocks ==
  ASSUME NEW w \in Seq(Seq(Records)), NEW i \in 1 .. Len(w), NEW m \in Seq(Seq(Records)), NEW k \in 1 .. Len(w) + 1
  PROVE  FlattenSeq((SubSeq(w, 1, i - 1) \o m) \o SubSeq(w, k, Len(w))) =
           (FirstBlocks(w, i - 1) \o FlattenSeq(m)) \o BlocksFrom(w, k)
<1> DEFINE T == Records
           a == SubSeq(w, 1, i - 1)
           b == SubSeq(w, k, Len(w))
<1>1. a \in Seq(Seq(T)) /\ b \in Seq(Seq(T)) /\ m \in Seq(Seq(T))
  <2>1. Len(w) \in Nat /\ i - 1 \in 0 .. Len(w)
    OBVIOUS
  <2> QED
    BY <2>1
<1> HIDE DEF T, a, b
<1>2. a \o m \in Seq(Seq(T))
  BY <1>1, ConcatProperties
<1>3. FlattenSeq((a \o m) \o b) = FlattenSeq(a \o m) \o FlattenSeq(b)
  BY <1>1, <1>2, FlattenConcat
<1>4. FlattenSeq(a \o m) = FlattenSeq(a) \o FlattenSeq(m)
  BY <1>1, FlattenConcat
<1> QED
  BY <1>3, <1>4 DEF a, b, FirstBlocks, BlocksFrom

LEMMA FlippedIs ==
  ASSUME NEW w \in Seq(Seq(Records)), NEW i \in 1 .. Len(w), NEW b \in Seq(Records)
  PROVE  [w EXCEPT ![i] = b] = (SubSeq(w, 1, i - 1) \o <<b>>) \o SubSeq(w, i + 1, Len(w))
<1> DEFINE T == Seq(Records)
           n == Len(w)
           v == [w EXCEPT ![i] = b]
           x == SubSeq(w, 1, i - 1)
           y == SubSeq(w, i + 1, n)
           m == <<b>>
<1>1. n \in Nat /\ w \in Seq(T) /\ b \in T /\ i - 1 \in 0 .. n /\ i + 1 \in 1 .. n + 1
  OBVIOUS
<1>2. m \in Seq(T) /\ Len(m) = 1 /\ m[1] = b
  OBVIOUS
<1> HIDE DEF T, n
<1>3. v \in Seq(T) /\ Len(v) = n /\ \A j \in 1 .. n : v[j] = IF j = i THEN b ELSE w[j]
  BY <1>1 DEF n
<1>4. x \in Seq(T) /\ Len(x) = i - 1 /\ \A j \in 1 .. i - 1 : x[j] = w[j]
  BY <1>1 DEF n
<1>5. y \in Seq(T) /\ Len(y) = n - i /\ \A j \in 1 .. n - i : y[j] = w[i + j]
  BY <1>1 DEF n
<1> HIDE DEF v, x, y, m
<1>6. /\ x \o m \in Seq(T) /\ Len(x \o m) = i
      /\ \A j \in 1 .. i : (x \o m)[j] = IF j = i THEN b ELSE w[j]
  <2>1. /\ x \o m \in Seq(T) /\ Len(x \o m) = Len(x) + Len(m)
        /\ \A j \in 1 .. Len(x) + Len(m) : (x \o m)[j] = IF j <= Len(x) THEN x[j] ELSE m[j - Len(x)]
    BY <1>2, <1>4, ConcatProperties
  <2>2. Len(x) + Len(m) = i /\ Len(x) = i - 1
    BY <1>1, <1>2, <1>4
  <2>3. ASSUME NEW j \in 1 .. i PROVE (x \o m)[j] = IF j = i THEN b ELSE w[j]
    <3>1. CASE j = i
      <4>1. ~(j <= i - 1) /\ j - (i - 1) = 1 /\ i \in 1 .. i
        BY <1>1, <3>1
      <4> QED
        BY <1>2, <2>1, <2>2, <3>1, <4>1
    <3>2. CASE j # i
      <4>1. j <= i - 1 /\ j \in 1 .. i - 1
        BY <1>1, <3>2
      <4> QED
        BY <1>4, <2>1, <2>2, <3>2, <4>1
    <3> QED
      BY <3>1, <3>2
  <2> QED
    BY <2>1, <2>2, <2>3
<1> DEFINE u == x \o m
<1> HIDE DEF u
<1>7. u \o y \in Seq(T) /\ Len(u \o y) = n /\ \A j \in 1 .. n : (u \o y)[j] = v[j]
  <2>1. u \in Seq(T) /\ Len(u) = i /\ \A j \in 1 .. i : u[j] = IF j = i THEN b ELSE w[j]
    BY <1>6 DEF u
  <2>2. /\ u \o y \in Seq(T) /\ Len(u \o y) = Len(u) + Len(y)
        /\ \A j \in 1 .. Len(u) + Len(y) : (u \o y)[j] = IF j <= Len(u) THEN u[j] ELSE y[j - Len(u)]
    BY <1>5, <2>1, ConcatProperties
  <2>3. Len(u) + Len(y) = n
    BY <1>1, <1>5, <2>1
  <2>4. ASSUME NEW j \in 1 .. n PROVE (u \o y)[j] = v[j]
    <3>1. CASE j <= i
      <4>1. j \in 1 .. i
        BY <1>1, <3>1
      <4> QED
        BY <1>3, <2>1, <2>2, <2>3, <3>1, <4>1
    <3>2. CASE ~(j <= i)
      <4>1. j - i \in 1 .. n - i /\ i + (j - i) = j /\ j # i
        BY <1>1, <3>2
      <4> QED
        BY <1>3, <1>5, <2>1, <2>2, <2>3, <3>2, <4>1
    <3> QED
      BY <3>1, <3>2
  <2> QED
    BY <2>2, <2>3, <2>4
<1>8. u \o y = v
  <2>1. Len(u \o y) = Len(v) /\ \A j \in 1 .. Len(v) : (u \o y)[j] = v[j]
    BY <1>3, <1>7
  <2> QED
    BY <1>3, <1>7, <2>1, SeqEqual
<1> QED
  BY <1>8 DEF u, v, x, y, m, n

(* What is read of an archive of a known size is as long as the input: if  *)
(* it is a beginning and an end of the input, it is all of it.             *)
LEMMA AllOrNothing ==
  ASSUME NEW h \in Records, HeaderOf(h), h.known, NEW w, NEW c, Consist(w, c), NEW j \in 0 .. Len(w) - 1,
         NEW d \in Seq(Records), NEW q \in 0 .. InputSize, NEW p \in 0 .. InputSize, q <= p,
         Rest(h, d).error = "Ok" => Rest(h, d).output = Part(q, p),
         p = InputSize \/ q = c[j],
         NEW a, a = Cons(h, Then(FirstBlocks(w, j), d)), Decode(a).error = "Ok"
  PROVE  Decode(a).output = Input
<1> DEFINE y == Then(FirstBlocks(w, j), d)
           k == c[j]
<1>1. InputSize \in Nat /\ k \in 0 .. InputSize /\ FirstBlocks(w, j) \in Seq(Records)
  <2>1. j \in 0 .. Len(w) /\ w \in Seq(Seq(Records))
    BY ConsistIs
  <2> QED
    BY <2>1, ConsistIs, FirstBlocksAre
<1>2. y \in Seq(Records)
  BY <1>1, ConcatProperties DEF Then
<1>3. Part(q, p) \in Seq(Nat) /\ Len(Part(q, p)) = p - q
  BY PartIs
<1>4. /\ Rest(h, y).error = Rest(h, d).error
      /\ Rest(h, y).error = "Ok" => Rest(h, y).output = Then(Part(0, k), Rest(h, d).output)
  <2>1. Rest(h, d).error = "Ok" => Rest(h, d).output \in Seq(Nat)
    BY <1>3
  <2> QED
    BY <2>1, PrefixMeans
<1>13. a = Cons(h, y)
  OBVIOUS
<1> HIDE DEF y, k
<1>5. Decode(a) = Rest(h, y) /\ Rest(h, y).error = "Ok" /\ Len(Rest(h, y).output) = InputSize
  BY <1>2, <1>13, DecodeMeans DEF Corrupt
<1>6. Rest(h, y).output = Part(0, k) \o Part(q, p)
  BY <1>4, <1>5 DEF Then
<1>7. 0 \in 0 .. InputSize /\ InputSize \in 0 .. InputSize /\ 0 <= k
  BY <1>1
<1>8. Part(0, k) \in Seq(Nat) /\ Len(Part(0, k)) = k - 0
  BY <1>1, <1>7, PartIs
<1>9. Len(Part(0, k) \o Part(q, p)) = k + (p - q)
  <2> DEFINE s == Part(0, k)
             t == Part(q, p)
  <2>1. s \in Seq(Nat) /\ t \in Seq(Nat) /\ Len(s) = k /\ Len(t) = p - q
    BY <1>1, <1>3, <1>8
  <2> HIDE DEF s, t
  <2>2. Len(s \o t) = Len(s) + Len(t)
    BY <2>1, ConcatProperties
  <2> QED
    BY <2>1, <2>2 DEF s, t
<1>10. k + (p - q) = InputSize
  BY <1>5, <1>6, <1>9
<1>11. q = k /\ p = InputSize
  BY <1>1, <1>10 DEF k
<1>12. Part(0, k) \o Part(k, InputSize) = Part(0, InputSize)
  <2>1. k <= InputSize
    BY <1>1
  <2> QED
    BY <1>1, <1>7, <2>1, PartsJoin
<1> QED
  BY <1>5, <1>6, <1>11, <1>12, InputIs

LEMMA BlockAt ==
  ASSUME NEW w, NEW c, Consist(w, c), NEW i \in 1 .. Len(w)
  PROVE  /\ w \in Seq(Seq(Records)) /\ Len(w) \in Nat /\ i \in Nat /\ w[i] \in Seq(Records)
         /\ BlocksFrom(w, i + 1) \in Seq(Records) /\ BlocksFrom(w, i) \in Seq(Records)
         /\ FirstBlocks(w, i - 1) \in Seq(Records) /\ FirstBlocks(w, i) = FirstBlocks(w, i - 1) \o w[i]
         /\ i - 1 \in 0 .. Len(w) - 1 /\ InputSize \in 0 .. InputSize
         /\ c[i - 1] \in 0 .. InputSize /\ c[i] \in 0 .. InputSize /\ c[i - 1] <= c[i]
         /\ c[i] <= InputSize /\ c[i - 1] <= InputSize
         /\ i = Len(w) => c[i] = InputSize /\ BlocksFrom(w, i + 1) = <<>>
<1>1. w \in Seq(Seq(Records)) /\ Len(w) \in Nat /\ InputSize \in Nat /\ c[Len(w)] = InputSize
  BY ConsistIs
<1>2. /\ i \in Nat /\ i - 1 \in 0 .. Len(w) - 1 /\ i - 1 \in 0 .. Len(w) /\ i \in 0 .. Len(w)
      /\ i \in 1 .. Len(w) + 1 /\ i + 1 \in 1 .. Len(w) + 1
  BY <1>1
<1>3. c[i - 1] \in 0 .. InputSize /\ c[i] \in 0 .. InputSize /\ c[i - 1] <= c[i] /\ w[i] \in Seq(Records)
  BY <1>2, ConsistIs
<1>4. FirstBlocks(w, i - 1) \in Seq(Records) /\ FirstBlocks(w, i) = FirstBlocks(w, i - 1) \o w[i]
  BY <1>1, <1>2, FirstBlocksAre
<1>5. BlocksFrom(w, i + 1) \in Seq(Records) /\ BlocksFrom(w, i) \in Seq(Records)
  BY <1>1, <1>2, BlocksFromAre
<1>6. BlocksFrom(w, Len(w) + 1) = <<>>
  BY <1>1, BlocksFromAre
<1>7. c[i] <= InputSize /\ c[i - 1] <= InputSize /\ InputSize \in 0 .. InputSize
  BY <1>1, <1>3
<1> QED
  BY <1>1, <1>2, <1>3, <1>4, <1>5, <1>6, <1>7

(* The final bit of block i is flipped. *)
LEMMA FlippedBlockMeans ==
  ASSUME NEW h \in Records, HeaderOf(h), NEW w, NEW c, Consist(w, c), NEW i \in 1 .. Len(w)
  PROVE  LET b == FlippedBlock(w[i])
             r == Rest(h, b \o BlocksFrom(w, i + 1))
         IN b \in Seq(Records) /\ (r.error = "Ok" => r.output = Part(c[i - 1], c[i]))
<1> DEFINE x == BlocksFrom(w, i + 1)
           bytes == Part(c[i - 1], c[i])
           b == FlippedBlock(w[i])
           none == <<>>
<1>1. x \in Seq(Records) /\ (i = Len(w) => x = none)
  BY BlockAt
<1>2. bytes \in Seq(Nat) /\ Len(bytes) <= BlockSize
  BY ConsistIs
<1>3. Holds(w[i], bytes, i = Len(w))
  BY ConsistIs
<1>4. none \in Seq(Records) /\ none \in Seq(Nat)
  OBVIOUS
<1> SUFFICES b \in Seq(Records) /\ (Rest(h, b \o x).error = "Ok" => Rest(h, b \o x).output = bytes)
  OBVIOUS
<1> HIDE DEF x, bytes, none
<1>5. CASE bytes = <<>> /\ i = Len(w) /\ w[i] = <<LastHead>>
  <2> DEFINE g == [LastHead EXCEPT !.final = FALSE]
  <2>1. g \in Records /\ g.stored = 0 /\ g.original = 0 /\ ~g.final
    BY <1>4 DEF LastHead, BlockItem, Records, BlockItems, none
  <2>2. LastHead.final = TRUE
    BY DEF LastHead, BlockItem
  <2>3. b = <<g>>
    <3> DEFINE e == LastHead
    <3>1. [e EXCEPT !.final = ~@] = [e EXCEPT !.final = FALSE]
      BY <2>2
    <3> HIDE DEF e
    <3>2. FlippedBlock(<<e>>) = <<[e EXCEPT !.final = ~@]>>
      BY DEF FlippedBlock
    <3> QED
      BY <1>5, <3>1, <3>2 DEF e
  <2> HIDE DEF g
  <2>4. Rest(h, <<g>> \o none) = StoresNothing(h, g, none)
    BY <1>4, <2>1, RestOfEmpty
  <2>5. ~InBounds(h, g)
    BY <2>1 DEF InBounds
  <2>6. <<g>> \o none = <<g>> /\ <<g>> \in Seq(Records)
    BY <2>1 DEF none
  <2> HIDE DEF b
  <2> QED
    BY <1>1, <1>5, <2>3, <2>4, <2>5, <2>6 DEF StoresNothing, Corrupt
<1>6. ASSUME NEW f \in BOOLEAN, f <=> i = Len(w), NEW s \in 1 .. Len(bytes),
             w[i] = <<HeadOf(bytes, f, s), DataItem(bytes, s)>>
      PROVE  b \in Seq(Records) /\ (Rest(h, b \o x).error = "Ok" => Rest(h, b \o x).output = bytes)
  <2> DEFINE k == HeadOf(bytes, f, s)
             m == HeadOf(bytes, ~f, s)
             p == DataItem(bytes, s)
  <2>1. m = [k EXCEPT !.final = ~@]
    <3>1. k = [type |-> "block", final |-> f, raw |-> s = Len(bytes), original |-> Len(bytes),
               stored |-> s, crc |-> bytes]
      BY DEF HeadOf, BlockItem
    <3>2. m = [type |-> "block", final |-> ~f, raw |-> s = Len(bytes), original |-> Len(bytes),
               stored |-> s, crc |-> bytes]
      BY DEF HeadOf, BlockItem
    <3> HIDE DEF k, m
    <3> QED
      BY <3>1, <3>2
  <2>3. m \in Records /\ p \in Records
    <3>1. Len(bytes) \in Nat /\ s \in Nat
      BY <1>2
    <3> QED
      BY <1>2, <3>1 DEF HeadOf, BlockItem, DataItem, Records, BlockItems, DataItems
  <2>4. Holds(<<m, p>>, bytes, ~f)
    BY DEF Holds
  <2> HIDE DEF k, m, p
  <2>5. b = <<m, p>>
    <3>1. FlippedBlock(<<k, p>>) = <<[k EXCEPT !.final = ~@], p>>
      BY DEF FlippedBlock
    <3>2. w[i] = <<k, p>>
      BY <1>6 DEF k, p
    <3> QED
      BY <2>1, <3>1, <3>2
  <2>6. b \in Seq(Records)
    BY <2>3, <2>5
  <2> DEFINE o == ~f
  <2>7. o \in BOOLEAN /\ Holds(b, bytes, o)
    BY <2>4, <2>5
  <2> HIDE DEF b, o
  <2>8. Rest(h, b \o x) = After(bytes, o, Rest(h, x))
    BY <1>1, <1>2, <2>6, <2>7, BlockMeans
  <2>9. CASE o
    BY <2>6, <2>8, <2>9 DEF After
  <2>10. CASE ~o
    <3>1. x = none
      BY <1>1, <1>6, <2>10 DEF o
    <3>2. Rest(h, x).error # "Ok"
      BY <3>1, RestOfNothing DEF Corrupt, none
    <3> QED
      BY <2>6, <2>8, <2>10, <3>2 DEF After
  <2> QED
    BY <2>7, <2>9, <2>10
<1>7. CASE \E s \in 1 .. Len(bytes) : w[i] = <<HeadOf(bytes, i = Len(w), s), DataItem(bytes, s)>>
  <2> DEFINE f == (i = Len(w))
  <2>1. f \in BOOLEAN /\ (f <=> i = Len(w))
    OBVIOUS
  <2>2. PICK s \in 1 .. Len(bytes) : w[i] = <<HeadOf(bytes, f, s), DataItem(bytes, s)>>
    BY <1>7
  <2> HIDE DEF f, b
  <2> QED
    BY <1>6, <2>1, <2>2
<1> HIDE DEF b
<1> QED
  BY <1>3, <1>5, <1>7, Zenon DEF Holds

(* A block too many, one too few, a final bit that is wrong: of a known    *)
(* size it is noticed, or it does not matter.                              *)
LEMMA MiscountMeans ==
  ASSUME NEW h \in Records, HeaderOf(h), h.known, NEW w, NEW c, Consist(w, c), NEW v \in Miscounted(w),
         Decode(Whole(h, v)).error = "Ok"
  PROVE  Decode(Whole(h, v)).output = Input
<1>1. PICK i \in DOMAIN w : v \in {Flipped(w, i), RemoveAt(w, i), InsertAt(w, i, w[i])}
  BY DEF Miscounted
<1>2. /\ w \in Seq(Seq(Records)) /\ Len(w) \in Nat /\ i \in 1 .. Len(w)
      /\ i \in 1 .. Len(w) + 1 /\ i + 1 \in 1 .. Len(w) + 1 /\ (i + 1) - 1 = i
  <2>1. w \in Seq(Seq(Records)) /\ Len(w) \in Nat
    BY ConsistIs
  <2> QED
    BY <2>1
<1> DEFINE n == Len(w)
           f == FirstBlocks(w, i - 1)
           x == BlocksFrom(w, i + 1)
           y == BlocksFrom(w, i)
           a == Whole(h, v)
<1>3. /\ f \in Seq(Records) /\ x \in Seq(Records) /\ y \in Seq(Records) /\ w[i] \in Seq(Records)
      /\ FirstBlocks(w, i) = f \o w[i]
      /\ i - 1 \in 0 .. n - 1 /\ c[i - 1] \in 0 .. InputSize /\ c[i] \in 0 .. InputSize
      /\ c[i - 1] <= c[i] /\ c[i - 1] <= InputSize /\ c[i] <= InputSize /\ InputSize \in 0 .. InputSize
      /\ i = n => c[i] = InputSize /\ x = <<>>
  BY <1>2, BlockAt
<1>4. a = Cons(h, FlattenSeq(v))
  BY DEF Whole
<1>5. Decode(a).error = "Ok"
  OBVIOUS
<1> SUFFICES Decode(a).output = Input
  OBVIOUS
<1> HIDE DEF a, f, x, y, n
<1>6. ASSUME v = Flipped(w, i) PROVE Decode(a).output = Input
  <2> DEFINE b == FlippedBlock(w[i])
             d == b \o x
  <2>1. b \in Seq(Records) /\ (Rest(h, d).error = "Ok" => Rest(h, d).output = Part(c[i - 1], c[i]))
    BY <1>2, FlippedBlockMeans DEF x
  <2>2. v = [w EXCEPT ![i] = b]
    BY <1>6 DEF Flipped
  <2> HIDE DEF b
  <2>3. v = (SubSeq(w, 1, i - 1) \o <<b>>) \o SubSeq(w, i + 1, Len(w))
    BY <1>2, <2>1, <2>2, FlippedIs
  <2> DEFINE m == <<b>>
  <2>4. m \in Seq(Seq(Records)) /\ <<>> \in Seq(Seq(Records))
    BY <2>1
  <2>5. FlattenSeq(m) = b
    BY <2>1, <2>4, FlattenOne
  <2> HIDE DEF m
  <2>6. FlattenSeq(v) = (f \o FlattenSeq(m)) \o x
    BY <1>2, <2>3, <2>4, SplitBlocks DEF f, x, m
  <2>7. FlattenSeq(v) = Then(f, d)
    <3>1. f \in Seq(Records) /\ b \in Seq(Records) /\ x \in Seq(Records)
      BY <1>3, <2>1, Zenon
    <3>2. (f \o b) \o x = f \o (b \o x)
      BY <3>1, RecordsJoin, Zenon
    <3> QED
      BY <2>5, <2>6, <3>2, Zenon DEF Then, d
  <2>8. d \in Seq(Records)
    BY <1>3, <2>1, ConcatProperties
  <2> HIDE DEF d
  <2>9. a = Cons(h, Then(FirstBlocks(w, i - 1), d))
    BY <1>4, <2>7 DEF f
  <2> QED
    BY <1>3, <1>5, <2>1, <2>8, <2>9, AllOrNothing DEF n
<1>7. ASSUME v = RemoveAt(w, i) PROVE Decode(a).output = Input
  <2> DEFINE m == <<>>
             e == SubSeq(w, 1, i - 1)
  <2>1. m \in Seq(Seq(Records)) /\ e \in Seq(Seq(Records)) /\ e \o m = e
    BY <1>2
  <2>2. FlattenSeq(m) = <<>> /\ f \o <<>> = f
    BY <1>3, FlattenEmpty
  <2> HIDE DEF m
  <2>3. FlattenSeq((e \o m) \o SubSeq(w, i + 1, Len(w))) = (f \o FlattenSeq(m)) \o x
    BY <1>2, <2>1, SplitBlocks DEF f, x
  <2>4. FlattenSeq(v) = Then(f, x)
    BY <1>7, <2>1, <2>2, <2>3 DEF RemoveAt, Then
  <2>5. Rest(h, x).error = "Ok" => Rest(h, x).output = Part(c[i], InputSize)
    <3>1. CASE i = n
      BY <1>3, <3>1, RestOfNothing DEF Corrupt
    <3>2. CASE i # n
      <4>1. i + 1 \in 1 .. Len(w)
        BY <1>2, <3>2 DEF n
      <4>2. Rest(h, x) = [error |-> "Ok", output |-> Part(c[(i + 1) - 1], InputSize)]
        BY <4>1, SuffixMeans DEF x
      <4> QED
        BY <1>2, <4>2
    <3> QED
      BY <3>1, <3>2
  <2>6. a = Cons(h, Then(FirstBlocks(w, i - 1), x))
    BY <1>4, <2>4 DEF f
  <2> QED
    BY <1>3, <1>5, <2>5, <2>6, AllOrNothing DEF n
<1>8. ASSUME v = InsertAt(w, i, w[i]) PROVE Decode(a).output = Input
  <2> DEFINE m == <<w[i]>>
  <2>1. m \in Seq(Seq(Records)) /\ <<>> \in Seq(Seq(Records))
    BY <1>3
  <2>2. FlattenSeq(m) = w[i]
    BY <1>3, <2>1, FlattenOne
  <2> HIDE DEF m
  <2>3. FlattenSeq((SubSeq(w, 1, i - 1) \o m) \o SubSeq(w, i, Len(w))) = (f \o FlattenSeq(m)) \o y
    BY <1>2, <2>1, SplitBlocks DEF f, y
  <2>4. FlattenSeq(v) = (f \o w[i]) \o y
    BY <1>8, <2>2, <2>3 DEF InsertAt, m
  <2>5. Rest(h, y) = [error |-> "Ok", output |-> Part(c[i - 1], InputSize)]
    BY <1>2, SuffixMeans DEF y
  <2>6. CASE i = n
    <3> DEFINE bytes == Part(c[i - 1], c[i])
               d == w[i] \o y
    <3>1. Holds(w[i], bytes, TRUE) /\ bytes \in Seq(Nat) /\ Len(bytes) <= BlockSize
      <4>1. (i = Len(w)) = TRUE
        BY <2>6 DEF n
      <4>2. Holds(w[i], bytes, i = Len(w))
        BY <1>2, ConsistIs
      <4>3. \A j \in 1 .. Len(w) : /\ Part(c[j - 1], c[j]) \in Seq(Nat)
                                   /\ Len(Part(c[j - 1], c[j])) = c[j] - c[j - 1]
                                   /\ c[j] - c[j - 1] <= BlockSize
        BY ConsistIs
      <4>4. bytes \in Seq(Nat) /\ Len(bytes) = c[i] - c[i - 1] /\ c[i] - c[i - 1] <= BlockSize
        BY <1>2, <4>3
      <4> HIDE DEF bytes
      <4> QED
        BY <4>1, <4>2, <4>4
    <3> HIDE DEF bytes
    <3>2. Rest(h, d) = [error |-> "Ok", output |-> bytes]
      <4>1. TRUE \in BOOLEAN
        OBVIOUS
      <4>2. Rest(h, d) = After(bytes, TRUE, Rest(h, y))
        BY <1>3, <3>1, <4>1, BlockMeans
      <4> QED
        BY <4>2 DEF After
    <3>3. Rest(h, d).output = Part(c[i - 1], InputSize)
      BY <1>3, <2>6, <3>2 DEF bytes
    <3>4. d \in Seq(Records) /\ FlattenSeq(v) = Then(f, d)
      <4>1. d \in Seq(Records)
        BY <1>3, ConcatProperties
      <4>2. (f \o w[i]) \o y = f \o (w[i] \o y)
        BY <1>3, RecordsJoin, Zenon
      <4> QED
        BY <2>4, <4>1, <4>2, Zenon DEF Then
    <3> HIDE DEF d
    <3>5. a = Cons(h, Then(FirstBlocks(w, i - 1), d))
      BY <1>4, <3>4 DEF f
    <3> QED
      BY <1>3, <1>5, <3>3, <3>4, <3>5, AllOrNothing DEF n
  <2>7. CASE i # n
    <3>1. i \in 0 .. Len(w) - 1
      BY <1>2, <2>7 DEF n
    <3>2. a = Cons(h, Then(FirstBlocks(w, i), y))
      BY <1>3, <1>4, <2>4 DEF Then
    <3>3. Rest(h, y).output = Part(c[i - 1], InputSize)
      BY <2>5
    <3> QED
      BY <1>3, <1>5, <3>1, <3>2, <3>3, AllOrNothing
  <2> QED
    BY <2>6, <2>7
<1> QED
  BY <1>1, <1>6, <1>7, <1>8
-----------------------------------------------------------------------------
(* The numbers of the headers: what was written in bits is what is read.   *)
LEMMA LeastIs ==
  /\ Enough \in Nat /\ Enough > 1 /\ InputSize < Enough /\ BlockSize < Enough
  /\ \A n \in Nat : Least(n) \in Nat /\ (n < Enough => Least(n) = n)
  /\ \A n \in Nat, bit \in {0, 1} : Least(2 * Least(n) + bit) = Least(2 * n + bit)
<1>1. Enough \in Nat /\ Enough > 1 /\ InputSize < Enough /\ BlockSize < Enough
  BY DamageAssumption DEF Enough
<1> QED
  BY <1>1 DEF Least

LEMMA NumbersAre ==
  ASSUME NEW n \in Nat, NEW word \in Words(n)
  PROVE  /\ Numbers(word) \in [0 .. n -> Nat] /\ Numbers(word)[0] = 0
         /\ \A i \in 1 .. n : Numbers(word)[i] = Least(2 * Numbers(word)[i - 1] + word[n - i + 1])
         /\ Number(word) = Numbers(word)[n]
<1> DEFINE S == Nat
           step == [i \in 1 .. n |-> [m \in S |-> Least(2 * m + word[n - i + 1])]]
           g == Numbers(word)
<1>1. Len(word) = n /\ \A i \in 1 .. n : word[n - i + 1] \in Nat
  <2>1. \A i \in 1 .. n : n - i + 1 \in 1 .. n
    OBVIOUS
  <2>2. Len(word) = n /\ \A i \in 1 .. n : word[i] \in {0, 1}
    BY WordIs
  <2> QED
    BY <2>1, <2>2
<1>2. step \in StepFunctions(S, n) /\ 0 \in S
  <2>1. \A i \in 1 .. n, m \in S : Least(2 * m + word[n - i + 1]) \in S
    <3>1. \A i \in 1 .. n, m \in S : 2 * m + word[n - i + 1] \in Nat
      BY <1>1
    <3> QED
      BY <3>1, LeastIs
  <2> QED
    BY <2>1 DEF StepFunctions
<1>3. \A i \in 1 .. n, m \in S : step[i][m] = Least(2 * m + word[n - i + 1])
  OBVIOUS
<1> HIDE DEF step, S
<1>4. PICK f : Computes(f, S, n, 0, step)
  BY <1>2, Recursion
<1>5. f = [i \in 0 .. n |-> IF i = 0 THEN 0 ELSE Least(2 * f[i - 1] + word[n - i + 1])]
  <2>1. ASSUME NEW i \in 0 .. n PROVE f[i] = IF i = 0 THEN 0 ELSE Least(2 * f[i - 1] + word[n - i + 1])
    <3>1. i = 0 \/ (i \in 1 .. n /\ i - 1 \in 0 .. n)
      OBVIOUS
    <3> QED
      BY <1>3, <1>4, <3>1 DEF Computes
  <2> QED
    BY <1>4, <2>1 DEF Computes
<1>6. g = [i \in 0 .. n |-> IF i = 0 THEN 0 ELSE Least(2 * g[i - 1] + word[n - i + 1])]
  BY <1>1, <1>5, Zenon DEF Numbers
<1> HIDE DEF g
<1>7. DOMAIN g = 0 .. n /\ g[0] = 0 /\ \A i \in 1 .. n : g[i] = Least(2 * g[i - 1] + word[n - i + 1])
  BY <1>6
<1>8. g = [i \in 0 .. n |-> g[i]]
  <2>1. g = [i \in DOMAIN g |-> g[i]]
    BY <1>6, Zenon
  <2> QED
    BY <1>7, <2>1
<1>9. Computes(g, S, n, 0, step)
  <2>1. \A i \in 1 .. n : g[i - 1] \in S => g[i] = step[i][g[i - 1]]
    BY <1>3, <1>7
  <2> QED
    BY <1>2, <1>7, <1>8, <2>1, Computed
<1> QED
  BY <1>1, <1>7, <1>9 DEF Computes, Number, g, S

LEMMA NumberType == ASSUME NEW n \in Nat, NEW word \in Words(n) PROVE Number(word) \in Nat
<1>1. n \in 0 .. n
  OBVIOUS
<1>2. Numbers(word) \in [0 .. n -> Nat] /\ Number(word) = Numbers(word)[n]
  BY NumbersAre
<1> QED
  BY <1>1, <1>2

LEMMA NumberIs ==
  ASSUME NEW n \in Nat, NEW width \in Nat, Fits(n, width), n < Enough
  PROVE  Number(Bits(n, width)) = n
<1> DEFINE h == Halves(n, width)
           b == Bits(n, width)
           g == Numbers(b)
           T == {i \in Nat : i <= width => g[i] = Least(h[width - i])}
<1>1. /\ h \in [0 .. width -> Nat] /\ h[0] = n /\ h[width] = 0
      /\ \A i \in 1 .. width : h[i] = h[i - 1] \div 2
  BY HalvesAre DEF Fits
<1>2. b \in Words(width) /\ \A i \in 1 .. width : b[i] = h[i - 1] % 2
  BY BitsAre DEF Bits
<1> HIDE DEF h, b
<1>3. /\ g[0] = 0 /\ \A i \in 1 .. width : g[i] = Least(2 * g[i - 1] + b[width - i + 1])
      /\ Number(b) = g[width]
  BY <1>2, NumbersAre
<1> HIDE DEF g
<1>4. 0 \in T
  <2>1. width - 0 = width /\ Least(0) = 0
    BY LeastIs
  <2> QED
    BY <1>1, <1>3, <2>1
<1>5. ASSUME NEW i \in Nat, i \in T PROVE i + 1 \in T
  <2> SUFFICES ASSUME i + 1 <= width PROVE g[i + 1] = Least(h[width - (i + 1)])
    OBVIOUS
  <2> DEFINE k == width - i
  <2>1. k \in 1 .. width /\ width - (i + 1) = k - 1 /\ width - (i + 1) + 1 = k /\ k - 1 \in 0 .. width
        /\ i + 1 \in 1 .. width /\ (i + 1) - 1 = i
    OBVIOUS
  <2>2. g[i] = Least(h[k])
    BY <1>5
  <2> HIDE DEF k
  <2>3. h[k - 1] \in Nat /\ h[k] = h[k - 1] \div 2 /\ b[k] = h[k - 1] % 2
    BY <1>1, <1>2, <2>1
  <2>4. h[k] \in Nat /\ b[k] \in {0, 1} /\ 2 * h[k] + b[k] = h[k - 1]
    BY <2>3
  <2>5. g[i + 1] = Least(2 * g[i] + b[k])
    BY <1>3, <2>1
  <2> QED
    <3>1. Least(2 * Least(h[k]) + b[k]) = Least(2 * h[k] + b[k])
      BY <2>4, LeastIs
    <3> QED
      BY <2>1, <2>2, <2>4, <2>5, <3>1
<1>6. Nat \subseteq T
  <2> HIDE DEF T
  <2> QED
    BY <1>4, <1>5, Induction
<1>7. g[width] = Least(h[0])
  <2>1. width - width = 0
    OBVIOUS
  <2> QED
    BY <1>6, <2>1
<1>8. Least(n) = n
  BY LeastIs
<1> QED
  BY <1>1, <1>3, <1>7, <1>8 DEF b

LEMMA FitsLess ==
  ASSUME NEW n \in Nat, NEW m \in Nat, NEW width \in Nat, n <= m, Fits(m, width)
  PROVE  Fits(n, width)
<1> DEFINE g == Halves(n, width)
           h == Halves(m, width)
           T == {i \in Nat : i <= width => g[i] <= h[i]}
<1>1. /\ g \in [0 .. width -> Nat] /\ g[0] = n /\ \A i \in 1 .. width : g[i] = g[i - 1] \div 2
      /\ h \in [0 .. width -> Nat] /\ h[0] = m /\ \A i \in 1 .. width : h[i] = h[i - 1] \div 2
  BY HalvesAre
<1>2. h[width] = 0
  BY DEF Fits
<1> HIDE DEF g, h
<1>3. 0 \in T
  BY <1>1
<1>4. ASSUME NEW i \in Nat, i \in T PROVE i + 1 \in T
  <2> SUFFICES ASSUME i + 1 <= width PROVE g[i + 1] <= h[i + 1]
    OBVIOUS
  <2>1. i + 1 \in 1 .. width /\ (i + 1) - 1 = i /\ i \in 0 .. width
    OBVIOUS
  <2>2. /\ g[i + 1] = g[i] \div 2 /\ h[i + 1] = h[i] \div 2 /\ g[i] \in Nat /\ h[i] \in Nat
        /\ g[i] <= h[i]
    BY <1>1, <1>4, <2>1
  <2> QED
    BY <2>2
<1>5. Nat \subseteq T
  <2> HIDE DEF T
  <2> QED
    BY <1>3, <1>4, Induction
<1>6. g[width] <= h[width] /\ g[width] \in Nat
  BY <1>1, <1>5
<1> QED
  BY <1>2, <1>6 DEF Fits, g

LEMMA LowBits ==
  ASSUME NEW n \in Nat
  PROVE  Byte(n)[1] = n % 2 /\ Byte(n)[2] = (n \div 2) % 2
<1> DEFINE h == Halves(n, 8)
<1>1. h[0] = n /\ h[1] = n \div 2
  <2>1. 8 \in Nat
    OBVIOUS
  <2>2. h[0] = n /\ \A i \in 1 .. 8 : h[i] = h[i - 1] \div 2
    BY <2>1, HalvesAre, Zenon
  <2> HIDE DEF h
  <2>3. 1 \in 1 .. 8 /\ 1 - 1 = 0
    OBVIOUS
  <2> QED
    BY <2>2, <2>3
<1>2. Byte(n) = [i \in 1 .. 8 |-> h[i - 1] % 2]
  BY DEF Byte, Bits, ByteBits
<1> HIDE DEF h
<1> QED
  BY <1>1, <1>2
LEMMA SizesFit ==
  ASSUME NEW n \in 0 .. BlockSize
  PROVE  n \in Nat /\ Bits(n, 32) \in Words(32) /\ Number(Bits(n, 32)) = n
<1>1. n \in Nat /\ BlockSize \in Nat /\ n <= BlockSize /\ Fits(BlockSize, 32) /\ 32 \in Nat
  BY DamageAssumption
<1>2. Fits(n, 32)
  BY <1>1, FitsLess, Zenon
<1>3. n < Enough
  BY <1>1, LeastIs
<1> QED
  BY <1>1, <1>2, <1>3, BitsAre, NumberIs, Zenon

(* A block header as it was written is read as what was written.           *)
LEMMA BlockReadIs ==
  ASSUME NEW final \in BOOLEAN, NEW raw \in BOOLEAN, NEW n \in 0 .. BlockSize, NEW s \in 0 .. BlockSize,
         NEW crc \in Words(32), NEW bytes, crc = CrcOf(bytes)
  PROVE  BlockRead(BlockBytes(final, raw, n, s, crc), bytes) = BlockItem(final, raw, n, s, bytes)
<1> DEFINE m == (IF raw THEN 1 ELSE 0) + (IF final THEN 2 ELSE 0)
           f == Byte(m)
           o == Bits(n, 32)
           p == Bits(s, 32)
           b == decodeEscBlockHeader(BlockBytes(final, raw, n, s, crc))
<1>1. m \in Nat /\ (m % 2 = 1 <=> raw) /\ ((m \div 2) % 2 = 1 <=> final)
  OBVIOUS
<1>2. BlockBytes(final, raw, n, s, crc) =
        encodeEscBlockHeader([flags |-> f, originalSize |-> o, storedSize |-> p, crc32 |-> crc])
  BY DEF BlockBytes
<1> HIDE DEF m
<1>3. f \in Words(8) /\ f[1] = m % 2 /\ f[2] = (m \div 2) % 2
  BY <1>1, ByteIs, LowBits
<1>4. o \in Words(32) /\ p \in Words(32) /\ Number(o) = n /\ Number(p) = s
  BY SizesFit
<1> HIDE DEF f, o, p
<1>5. b = [error |-> "Ok", flags |-> f, originalSize |-> o, storedSize |-> p, crc32 |-> crc]
  BY <1>2, <1>3, <1>4, BlockHeaderRead
<1> HIDE DEF b
<1>6. BlockRead(BlockBytes(final, raw, n, s, crc), bytes) =
        BlockItem(Flag(b.flags, 2), Flag(b.flags, 1), Number(b.originalSize), Number(b.storedSize),
                  IF b.crc32 = CrcOf(bytes) THEN bytes ELSE <<Wrong>>)
  BY DEF BlockRead, b
<1>7. b.flags = f /\ b.originalSize = o /\ b.storedSize = p /\ b.crc32 = crc
  BY <1>5
<1>8. Flag(f, 2) = final /\ Flag(f, 1) = raw
  BY <1>1, <1>3 DEF Flag
<1> QED
  BY <1>4, <1>6, <1>7, <1>8

LEMMA CrcOfType ==
  ASSUME NEW bytes \in Seq(Nat)
  PROVE  CrcOf(bytes) \in Words(32)
<1> DEFINE b == [i \in DOMAIN bytes |-> Byte(bytes[i])]
<1>1. b \in Seq(Words(8))
  <2>1. Len(bytes) \in Nat /\ DOMAIN bytes = 1 .. Len(bytes) /\ \A i \in 1 .. Len(bytes) : bytes[i] \in Nat
    BY LenProperties
  <2>2. \A i \in 1 .. Len(bytes) : Byte(bytes[i]) \in Words(8)
    BY <2>1, ByteIs
  <2> QED
    BY <2>1, <2>2
<1> HIDE DEF b
<1>2. espCompressorCrc32(b) \in Words(32)
  BY <1>1, CrcType
<1> QED
  BY <1>2 DEF CrcOf, b

(* The CRC of nothing is 0, which is what the empty block says.            *)
LEMMA CrcOfNothing == CrcOf(<<>>) = Bits(0, 32)
<1> DEFINE none == <<>>
           b == [i \in DOMAIN none |-> Byte(none[i])]
<1>1. b \in Seq(Words(8)) /\ Len(b) = 0
  OBVIOUS
<1>2. espCompressorCrc32(b) = Xor(Registers(b)[Len(b)], Ones)
  BY DEF espCompressorCrc32
<1> HIDE DEF b
<1>3. Registers(b)[0] = Ones
  BY <1>1, RegistersAre
<1>4. Ones \in Words(32) /\ \A i \in 1 .. 32 : Ones[i] = 1
  BY DEF Ones, Words, ByteBits
<1>5. Xor(Ones, Ones) \in Words(32) /\ \A i \in 1 .. 32 : Xor(Ones, Ones)[i] = (Ones[i] + Ones[i]) % 2
  BY <1>4, XorWords
<1>6. \A i \in 1 .. 32 : Xor(Ones, Ones)[i] = 0
  BY <1>4, <1>5
<1> DEFINE z == Bits(0, 32)
           h == Halves(0, 32)
           T == {i \in Nat : i <= 32 => h[i] = 0}
<1>7. h[0] = 0 /\ \A i \in 1 .. 32 : h[i] = h[i - 1] \div 2
  <2>1. 0 \in Nat /\ 32 \in Nat
    OBVIOUS
  <2> QED
    BY <2>1, HalvesAre, Zenon
<1>8. z \in Words(32) /\ \A i \in 1 .. 32 : z[i] = h[i - 1] % 2
  BY BitsAre DEF Bits
<1> HIDE DEF h, z
<1>9. 0 \in T
  BY <1>7
<1>10. ASSUME NEW i \in Nat, i \in T PROVE i + 1 \in T
  <2> SUFFICES ASSUME i + 1 <= 32 PROVE h[i + 1] = 0
    OBVIOUS
  <2>1. i + 1 \in 1 .. 32 /\ (i + 1) - 1 = i /\ h[i] = 0
    BY <1>10
  <2> QED
    BY <1>7, <2>1
<1>11. Nat \subseteq T
  <2> HIDE DEF T
  <2> QED
    BY <1>9, <1>10, Induction
<1>12. \A i \in 1 .. 32 : z[i] = 0
  <2> SUFFICES ASSUME NEW i \in 1 .. 32 PROVE z[i] = 0
    OBVIOUS
  <2>1. i - 1 \in Nat /\ i - 1 <= 32
    OBVIOUS
  <2>2. h[i - 1] = 0
    BY <1>11, <2>1
  <2> QED
    BY <1>8, <2>2
<1>13. Xor(Ones, Ones) = z
  BY <1>5, <1>6, <1>8, <1>12 DEF Words
<1> QED
  BY <1>1, <1>2, <1>3, <1>13, Zenon DEF CrcOf, b, z

LEMMA WrittenBlockIs ==
  ASSUME NEW bytes \in Seq(Nat), Len(bytes) <= BlockSize, NEW final \in BOOLEAN, NEW s \in 1 .. Len(bytes)
  PROVE  WrittenBlock(bytes, final, s) = <<HeadOf(bytes, final, s), DataItem(bytes, s)>>
<1> DEFINE n == Len(bytes)
           raw == (s = n)
<1>1. BlockSize \in Nat /\ n \in Nat
  BY DamageAssumption
<1>2. n \in 0 .. BlockSize /\ s \in 0 .. BlockSize /\ raw \in BOOLEAN
  BY <1>1
<1>3. CrcOf(bytes) \in Words(32)
  BY CrcOfType
<1> HIDE DEF raw
<1>4. BlockRead(BlockBytes(final, raw, n, s, CrcOf(bytes)), bytes) = BlockItem(final, raw, n, s, bytes)
  BY <1>2, <1>3, BlockReadIs
<1> QED
  BY <1>4, Zenon DEF WrittenBlock, HeadOf, raw

LEMMA EmptyBlockIs == EmptyBlock = <<LastHead>>
<1>1. 0 \in 0 .. BlockSize /\ TRUE \in BOOLEAN
  BY DamageAssumption
<1>2. Bits(0, 32) \in Words(32)
  BY <1>1, SizesFit
<1> DEFINE none == <<>>
<1>3. Bits(0, 32) = CrcOf(none)
  BY CrcOfNothing
<1> HIDE DEF none
<1>4. BlockRead(BlockBytes(TRUE, TRUE, 0, 0, Bits(0, 32)), none) = BlockItem(TRUE, TRUE, 0, 0, none)
  BY <1>1, <1>2, <1>3, BlockReadIs
<1> QED
  BY <1>4 DEF EmptyBlock, LastHead, none

(* What runCompress writes holds the input.                                *)
LEMMA WrittenBlocksConsist ==
  ASSUME NEW n \in 1 .. InputSize, NEW c \in Cuts(n), NEW s \in StoredSizes(n, c), NEW last \in BOOLEAN
  PROVE  \E d : Consist(WrittenBlocks(n, c, s, last), d)
<1> DEFINE blocks == [i \in 1 .. n |->
                        WrittenBlock(SubSeq(Input, c[i - 1] + 1, c[i]), last /\ i = n, s[i])]
<1>1. /\ n \in Nat /\ n > 0 /\ InputSize \in Nat /\ BlockSize \in Nat
      /\ c \in [0 .. n -> 0 .. InputSize] /\ c[0] = 0 /\ c[n] = InputSize
      /\ \A i \in 1 .. n : c[i - 1] < c[i] /\ c[i] <= c[i - 1] + BlockSize
      /\ s \in [1 .. n -> 1 .. BlockSize] /\ \A i \in 1 .. n : s[i] <= c[i] - c[i - 1]
  <2>1. n \in Nat /\ n > 0 /\ InputSize \in Nat /\ BlockSize \in Nat
    BY DamageAssumption
  <2>2. /\ c \in [0 .. n -> 0 .. InputSize] /\ c[0] = 0 /\ c[n] = InputSize
        /\ \A i \in 1 .. n : c[i - 1] < c[i] /\ c[i] <= c[i - 1] + BlockSize
    BY Zenon DEF Cuts
  <2>3. s \in [1 .. n -> 1 .. BlockSize] /\ \A i \in 1 .. n : s[i] <= c[i] - c[i - 1]
    BY Zenon DEF StoredSizes
  <2> QED
    BY <2>1, <2>2, <2>3
<1>2. ASSUME NEW i \in 1 .. n
      PROVE  /\ Holds(blocks[i], Part(c[i - 1], c[i]), last /\ i = n)
             /\ blocks[i] \in Seq(Records)
  <2> DEFINE bytes == Part(c[i - 1], c[i])
             f == (last /\ i = n)
             t == s[i]
             b == blocks[i]
  <2>1. i \in 0 .. n /\ i - 1 \in 0 .. n
    BY <1>1
  <2>2. /\ c[i - 1] \in 0 .. InputSize /\ c[i] \in 0 .. InputSize /\ c[i - 1] <= c[i]
        /\ c[i] - c[i - 1] <= BlockSize /\ t \in 1 .. c[i] - c[i - 1]
    <3>1. c[i - 1] \in 0 .. InputSize /\ c[i] \in 0 .. InputSize /\ s[i] \in 1 .. BlockSize
      BY <1>1, <2>1
    <3>2. c[i - 1] < c[i] /\ c[i] <= c[i - 1] + BlockSize /\ s[i] <= c[i] - c[i - 1]
      BY <1>1
    <3>3. InputSize \in Nat /\ BlockSize \in Nat
      BY <1>1
    <3> QED
      BY <3>1, <3>2, <3>3
  <2>3. bytes \in Seq(Nat) /\ Len(bytes) = c[i] - c[i - 1]
    BY <2>2, PartIs, Zenon
  <2>4. Len(bytes) <= BlockSize /\ t \in 1 .. Len(bytes) /\ f \in BOOLEAN
    <3> HIDE DEF bytes, t
    <3> QED
      BY <2>2, <2>3
  <2>5. b = WrittenBlock(bytes, f, t)
    BY DEF Part
  <2> HIDE DEF blocks, b, bytes, t, f
  <2>6. b = <<HeadOf(bytes, f, t), DataItem(bytes, t)>>
    BY <2>3, <2>4, <2>5, WrittenBlockIs
  <2>7. HeadOf(bytes, f, t) \in Records /\ DataItem(bytes, t) \in Records
    <3>1. Len(bytes) \in Nat /\ t \in Nat
      BY <2>3, <2>4
    <3> QED
      BY <2>3, <2>4, <3>1 DEF HeadOf, BlockItem, DataItem, Records, BlockItems, DataItems
  <2>8. b \in Seq(Records)
    BY <2>6, <2>7
  <2>9. Holds(b, bytes, f)
    BY <2>4, <2>6 DEF Holds
  <2> QED
    BY <2>8, <2>9 DEF b, bytes, f
<1>3. blocks \in Seq(Seq(Records)) /\ Len(blocks) = n
  <2>1. \A i \in 1 .. n : blocks[i] \in Seq(Records)
    BY <1>2
  <2>2. blocks = [i \in 1 .. n |-> blocks[i]]
    OBVIOUS
  <2>3. DOMAIN blocks = 1 .. n
    OBVIOUS
  <2> HIDE DEF blocks
  <2>4. blocks \in [1 .. n -> Seq(Records)]
    BY <2>1, <2>2
  <2> QED
    BY <1>1, <2>4
<1>4. CASE last
  <2>1. WrittenBlocks(n, c, s, last) = blocks
    BY <1>4 DEF WrittenBlocks
  <2> HIDE DEF blocks
  <2>2. blocks # <<>>
    BY <1>1, <1>3, EmptySeq
  <2>3. \A i \in 1 .. n : Holds(blocks[i], Part(c[i - 1], c[i]), i = n)
    <3> SUFFICES ASSUME NEW i \in 1 .. n PROVE Holds(blocks[i], Part(c[i - 1], c[i]), i = n)
      OBVIOUS
    <3>1. (last /\ i = n) = (i = n)
      BY <1>4
    <3> QED
      BY <1>2, <3>1
  <2>4. Consist(blocks, c)
    <3>1. \A i \in 1 .. n : c[i - 1] <= c[i]
      <4>1. \A i \in 1 .. n : c[i - 1] \in 0 .. InputSize /\ c[i] \in 0 .. InputSize
        BY <1>1
      <4> QED
        BY <1>1, <4>1, SMTT(30)
    <3> QED
      BY <1>1, <1>3, <2>2, <2>3, <3>1 DEF Consist
  <2> QED
    BY <2>1, <2>4
<1>5. CASE ~last
  <2> DEFINE w == Append(blocks, EmptyBlock)
             d == [i \in 0 .. n + 1 |-> IF i <= n THEN c[i] ELSE InputSize]
  <2>1. WrittenBlocks(n, c, s, last) = w
    BY <1>5 DEF WrittenBlocks
  <2>2. EmptyBlock = <<LastHead>> /\ EmptyBlock \in Seq(Records)
    <3>1. LastHead \in Records
      <4> DEFINE none == <<>>
      <4>1. none \in Seq(Nat)
        OBVIOUS
      <4> HIDE DEF none
      <4>2. LastHead = BlockItem(TRUE, TRUE, 0, 0, none)
        BY DEF LastHead, none
      <4> QED
        BY <4>1, <4>2 DEF BlockItem, Records, BlockItems
    <3> QED
      BY <3>1, EmptyBlockIs
  <2> HIDE DEF blocks
  <2>3. /\ w \in Seq(Seq(Records)) /\ w # <<>> /\ Len(w) = n + 1 /\ w[n + 1] = EmptyBlock
        /\ \A i \in 1 .. n : w[i] = blocks[i]
    <3> DEFINE S == Seq(Records)
               e == EmptyBlock
    <3>1. blocks \in Seq(S) /\ Len(blocks) = n /\ e \in S /\ w = Append(blocks, e)
      BY <1>3, <2>2
    <3> HIDE DEF S, e, w
    <3>2. /\ Append(blocks, e) \in Seq(S) /\ Append(blocks, e) # <<>> /\ Len(Append(blocks, e)) = Len(blocks) + 1
          /\ \A i \in 1 .. Len(blocks) : Append(blocks, e)[i] = blocks[i]
          /\ Append(blocks, e)[Len(blocks) + 1] = e
      BY <3>1, AppendProperties
    <3> QED
      BY <3>1, <3>2 DEF S, e
  <2> HIDE DEF w
  <2>4. /\ d \in [0 .. n + 1 -> 0 .. InputSize] /\ d[n + 1] = InputSize
        /\ \A i \in 0 .. n : d[i] = c[i]
    BY <1>1
  <2> HIDE DEF d
  <2>5. ASSUME NEW i \in 1 .. n + 1
        PROVE  /\ d[i - 1] <= d[i] /\ d[i] <= d[i - 1] + BlockSize
               /\ Holds(w[i], Part(d[i - 1], d[i]), i = n + 1)
    <3>1. CASE i \in 1 .. n
      <4>1. i \in 0 .. n /\ i - 1 \in 0 .. n /\ i # n + 1
        BY <1>1, <3>1
      <4>2. d[i] = c[i] /\ d[i - 1] = c[i - 1] /\ w[i] = blocks[i]
        BY <2>3, <2>4, <3>1, <4>1
      <4>3. c[i] \in 0 .. InputSize /\ c[i - 1] \in 0 .. InputSize
        BY <1>1, <4>1
      <4>4. c[i - 1] <= c[i] /\ c[i] <= c[i - 1] + BlockSize
        BY <1>1, <3>1, <4>3
      <4>5. (last /\ i = n) = (i = n + 1)
        BY <1>5, <4>1
      <4> QED
        BY <1>2, <3>1, <4>2, <4>4, <4>5
    <3>2. CASE i = n + 1
      <4>1. i - 1 = n /\ n \in 0 .. n
        BY <1>1, <3>2
      <4>2. d[i] = InputSize /\ d[i - 1] = InputSize /\ w[i] = <<LastHead>>
        BY <1>1, <2>2, <2>3, <2>4, <3>2, <4>1
      <4> DEFINE bytes == Part(InputSize, InputSize)
      <4>3. bytes = <<>>
        <5>1. InputSize \in 0 .. InputSize /\ InputSize <= InputSize
          BY <1>1
        <5>2. bytes \in Seq(Nat) /\ Len(bytes) = InputSize - InputSize
          BY <5>1, PartIs, Zenon
        <5> HIDE DEF bytes
        <5> QED
          BY <1>1, <5>2
      <4>4. Holds(w[i], bytes, i = n + 1)
        <5> HIDE DEF bytes
        <5> QED
          BY <3>2, <4>2, <4>3 DEF Holds
      <4> QED
        BY <1>1, <4>2, <4>4
    <3> QED
      BY <1>1, <3>1, <3>2
  <2>6. Consist(w, d)
    <3>1. 0 \in 0 .. n
      BY <1>1
    <3>2. d[0] = 0
      BY <1>1, <2>4, <3>1
    <3> QED
      BY <2>3, <2>4, <2>5, <3>2 DEF Consist
  <2> QED
    BY <2>1, <2>6
<1> QED
  BY <1>4, <1>5

LEMMA WrittenConsists ==
  ASSUME NEW w \in Written
  PROVE  \E c : Consist(w, c)
<1>1. PICK n \in 1 .. InputSize : \E c \in Cuts(n) : w \in WrittenOf(n, c)
  BY DEF Written
<1>2. PICK c \in Cuts(n) : w \in WrittenOf(n, c)
  BY <1>1
<1>3. PICK s \in StoredSizes(n, c), last \in BOOLEAN : w = WrittenBlocks(n, c, s, last)
  BY <1>2 DEF WrittenOf
<1> QED
  BY <1>3, WrittenBlocksConsist

LEMMA IsWritten ==
  ASSUME NEW n \in 1 .. InputSize, NEW c \in Cuts(n), NEW s \in StoredSizes(n, c), NEW last \in BOOLEAN
  PROVE  WrittenBlocks(n, c, s, last) \in Written
<1>1. WrittenBlocks(n, c, s, last) \in WrittenOf(n, c)
  BY DEF WrittenOf
<1>2. WrittenBlocks(n, c, s, last) \in UNION {WrittenOf(n, d) : d \in Cuts(n)}
  BY <1>1
<1> QED
  BY <1>2 DEF Written

LEMMA SomethingIsWritten == Written # {}
<1> DEFINE c == [i \in 0 .. InputSize |-> i]
           s == [i \in 1 .. InputSize |-> 1]
<1>1. InputSize \in Nat \ {0} /\ BlockSize \in Nat \ {0}
  BY DamageAssumption
<1>2. c \in Cuts(InputSize)
  BY <1>1 DEF Cuts
<1>3. s \in StoredSizes(InputSize, c)
  BY <1>1 DEF StoredSizes
<1> HIDE DEF c, s
<1>4. InputSize \in 1 .. InputSize /\ TRUE \in BOOLEAN
  BY <1>1
<1> QED
  BY <1>2, <1>3, <1>4, IsWritten

-----------------------------------------------------------------------------
(* The header as it was written, and as it is read.                        *)
LEMMA HeaderBytesAre ==
  ASSUME NEW known \in BOOLEAN
  PROVE  /\ HeaderLike(HeaderBytes(known)) /\ Accepts(HeaderBytes(known))
         /\ HeaderOf(HeaderRead(HeaderBytes(known)))
         /\ HeaderRead(HeaderBytes(known)).known = known
         /\ ~known => HeaderRead(HeaderBytes(known)).size = 0
<1> DEFINE m == IF known THEN 0 ELSE 1
           v == Byte(1)
           f == Byte(m)
           o == IF known THEN Bits(InputSize, 64) ELSE [i \in 1 .. 64 |-> 1]
           s == Bits(BlockSize, 32)
           b == HeaderBytes(known)
           h == decodeEscHeader(b)
<1>1. m \in Nat /\ (m % 2 = 1 <=> ~known)
  OBVIOUS
<1>2. v \in Words(8)
  BY ByteIs
<1>3. b = encodeEscHeader([version |-> v, flags |-> f, algorithm |-> v, originalSize |-> o, blockSize |-> s])
  BY DEF HeaderBytes
<1> HIDE DEF m, v
<1>4. f \in Words(8) /\ f[1] = m % 2
  BY <1>1, ByteIs, LowBits
<1>5. /\ InputSize \in Nat /\ BlockSize \in Nat /\ Fits(InputSize, 64) /\ 64 \in Nat
      /\ BlockSize \in 0 .. BlockSize
  BY DamageAssumption
<1>6. s \in Words(32) /\ Number(s) = BlockSize
  BY <1>5, SizesFit
<1>7. o \in Words(64) /\ Number(o) \in Nat /\ (known => Number(o) = InputSize)
  <2>1. Bits(InputSize, 64) \in Words(64) /\ Number(Bits(InputSize, 64)) = InputSize
    BY <1>5, BitsAre, LeastIs, NumberIs, Zenon
  <2>2. [i \in 1 .. 64 |-> 1] \in Words(64)
    BY DEF Words
  <2>3. o \in Words(64)
    BY <2>1, <2>2
  <2>4. known => Number(o) = InputSize
    BY <2>1
  <2> HIDE DEF o
  <2> QED
    BY <1>5, <2>3, <2>4, NumberType, Zenon
<1> HIDE DEF f, o, s, b
<1>8. /\ HeaderLike(b) /\ Accepts(b)
      /\ h = [error |-> "Ok", version |-> v, flags |-> f, algorithm |-> v, originalSize |-> o, blockSize |-> s]
  BY <1>2, <1>3, <1>4, <1>6, <1>7, HeaderDecoded
<1>9. HeaderRead(b) =
        IF h.error # "Ok" THEN HeaderItem(h.error, FALSE, 0, 0)
        ELSE HeaderItem(IF h.version # v THEN "UnsupportedVersion"
                        ELSE IF h.algorithm # v THEN "UnsupportedAlgorithm" ELSE "Ok",
                        ~Flag(h.flags, 1), IF ~Flag(h.flags, 1) THEN Number(h.originalSize) ELSE 0,
                        Number(h.blockSize))
  BY DEF HeaderRead, v
<1>10. /\ h.error = "Ok" /\ h.version = v /\ h.algorithm = v /\ h.flags = f
       /\ h.originalSize = o /\ h.blockSize = s
  BY <1>8
<1> HIDE DEF h
<1>11. (~Flag(f, 1)) = known
  BY <1>1, <1>4 DEF Flag
<1>12. HeaderRead(b) = HeaderItem("Ok", known, IF known THEN Number(o) ELSE 0, BlockSize)
  BY <1>6, <1>9, <1>10, <1>11
<1>13. HeaderOf(HeaderRead(b)) /\ HeaderRead(b).known = known /\ (~known => HeaderRead(b).size = 0)
  <2>1. CASE known
    BY <1>5, <1>7, <1>12, <2>1 DEF HeaderOf, HeaderItem, HeaderItems, Checks
  <2>2. CASE ~known
    BY <1>5, <1>12, <2>2 DEF HeaderOf, HeaderItem, HeaderItems, Checks
  <2> QED
    BY <2>1, <2>2
<1> QED
  BY <1>8, <1>13 DEF b

(* A header that was damaged since is refused.                             *)
LEMMA HeaderDamageNoticed ==
  ASSUME NEW known \in BOOLEAN, NEW change \in HeaderChanges, NEW at \in 0 .. Len(HeaderBytes(known)) - 1
  PROVE  HeaderRead(Changed(HeaderBytes(known), at, change)) = HeaderItem("CorruptData", FALSE, 0, 0)
<1> DEFINE b == HeaderBytes(known)
           c == Changed(b, at, change)
           n == Len(change)
<1>1. HeaderLike(b) /\ Accepts(b)
  BY HeaderBytesAre
<1>2. /\ change \in Seq(Words(8)) /\ n \in 1 .. 4
      /\ \E bit \in 1 .. 8 : change[1][bit] = 1
  BY DamageAssumption DEF ByteBits
<1>12. n \in 1 .. 4
  BY <1>2
<1>3. Len(b) = 24 /\ at \in 0 .. 23
  <2>1. b \in [1 .. 24 -> Words(8)]
    BY <1>1, Zenon DEF HeaderLike
  <2>2. at \in 0 .. Len(b) - 1
    OBVIOUS
  <2> HIDE DEF b
  <2>3. Len(b) = 24
    <3>1. 24 \in Nat
      OBVIOUS
    <3> QED
      BY <2>1, <3>1, FunctionIsSequence, Zenon
  <2> QED
    BY <2>2, <2>3
<1>4. c = [i \in 1 .. 24 |-> IF i \in at + 1 .. at + n THEN Xor(b[i], change[i - at]) ELSE b[i]]
  BY <1>1 DEF Changed, HeaderLike
<1> HIDE DEF b, c, n
<1>5. ASSUME NEW i \in 1 .. 24
      PROVE  (IF i \in at + 1 .. at + n THEN Xor(b[i], change[i - at]) ELSE b[i]) \in Words(8)
  <2>1. b[i] \in Words(8)
    BY <1>1 DEF HeaderLike
  <2>2. CASE i \in at + 1 .. at + n
    <3>1. i - at \in 1 .. n
      BY <1>12, <1>3, <2>2
    <3>2. change[i - at] \in Words(8)
      BY <1>2, <3>1, ElementOfSeq DEF n
    <3> QED
      BY <2>1, <2>2, <3>2, XorWords
  <2> QED
    BY <2>1, <2>2
<1>6. HeaderLike(c)
  BY <1>4, <1>5 DEF HeaderLike
<1>7. \A i \in 1 .. 24 : i <= at \/ i > at + 4 => b[i] = c[i]
  <2> SUFFICES ASSUME NEW i \in 1 .. 24, i <= at \/ i > at + 4 PROVE b[i] = c[i]
    OBVIOUS
  <2>1. i \notin at + 1 .. at + n
    BY <1>12, <1>3
  <2> QED
    BY <1>4, <2>1
<1>8. b[at + 1] # c[at + 1]
  <2> DEFINE x == b[at + 1]
             y == change[1]
  <2>1. at + 1 \in 1 .. 24 /\ at + 1 \in at + 1 .. at + n /\ (at + 1) - at = 1 /\ 1 \in 1 .. n
    BY <1>12, <1>3
  <2>2. c[at + 1] = Xor(x, y)
    BY <1>4, <2>1
  <2>3. x \in Words(8) /\ y \in Words(8)
    <3>1. y \in Words(8)
      BY <1>2, <2>1, ElementOfSeq DEF n
    <3> QED
      BY <1>1, <2>1, <3>1 DEF HeaderLike
  <2>4. PICK bit \in 1 .. 8 : y[bit] = 1
    BY <1>2
  <2> HIDE DEF x, y
  <2>5. Xor(x, y)[bit] = (x[bit] + y[bit]) % 2
    BY <2>3, XorWords
  <2>6. x[bit] \in {0, 1}
    BY <2>3 DEF Words
  <2>7. Xor(x, y)[bit] # x[bit]
    BY <2>4, <2>5, <2>6
  <2> QED
    BY <2>2, <2>7 DEF x
<1>9. ~Accepts(c)
  BY <1>1, <1>3, <1>6, <1>7, <1>8, CrcNotices
<1>10. decodeEscHeader(c) = [error |-> "CorruptData"]
  BY <1>9 DEF decodeEscHeader, Refused
<1>11. HeaderRead(c) = HeaderItem("CorruptData", FALSE, 0, 0)
  BY <1>10 DEF HeaderRead
<1> QED
  BY <1>11 DEF b, c

LEMMA HeadersDamaged ==
  \A known \in BOOLEAN : \A change \in HeaderChanges : \A at \in 0 .. Len(HeaderBytes(known)) - 1 :
    HeaderRead(Changed(HeaderBytes(known), at, change)) = HeaderItem("CorruptData", FALSE, 0, 0)
BY HeaderDamageNoticed

LEMMA HeaderDamageMeans ==
  ASSUME NEW a \in HeaderDamaged
  PROVE  Decode(a).error # "Ok"
<1> DEFINE w == CHOOSE w \in Written : TRUE
           body == FlattenSeq(w)
           HeadersOf(bytes) ==
             {HeaderRead(Changed(bytes, at, change)) : change \in HeaderChanges, at \in 0 .. Len(bytes) - 1}
<1>1. body \in Seq(Records)
  <2>1. w \in Written
    BY SomethingIsWritten
  <2>2. w \in Seq(Seq(Records))
    BY <2>1, WrittenConsists DEF Consist
  <2> HIDE DEF w
  <2> QED
    BY <2>2, FlattenType
<1>2. HeaderDamaged = {<<>>} \cup {Cons(h, body) : h \in UNION {HeadersOf(HeaderBytes(known)) : known \in BOOLEAN}}
  BY DEF HeaderDamaged
<1> HIDE DEF body
<1>3. CASE a = <<>>
  BY <1>3 DEF Decode, Corrupt
<1>4. CASE a # <<>>
  <2>0. PICK known \in BOOLEAN : \E h \in HeadersOf(HeaderBytes(known)) : a = Cons(h, body)
    <3> HIDE DEF HeadersOf
    <3> QED
      BY <1>2, <1>4
  <2>1. PICK h \in HeadersOf(HeaderBytes(known)) : a = Cons(h, body)
    BY <2>0
  <2>2. h = HeaderItem("CorruptData", FALSE, 0, 0)
    <3>1. PICK change \in HeaderChanges : \E at \in 0 .. Len(HeaderBytes(known)) - 1 :
            h = HeaderRead(Changed(HeaderBytes(known), at, change))
      BY <2>1
    <3> HIDE DEF HeadersOf
    <3> QED
      BY <2>0, <3>1, HeadersDamaged
  <2>3. h \in Records
    BY <2>2 DEF HeaderItem, Records, HeaderItems, Checks
  <2>4. a = <<h>> \o body
    BY <2>1 DEF Cons
  <2>5. a # <<>> /\ a[1] = h
    BY <1>1, <2>3, <2>4
  <2>6. h.check = "CorruptData"
    BY <2>2 DEF HeaderItem
  <2> QED
    BY <2>5, <2>6 DEF Decode
<1> QED
  BY <1>3, <1>4

(* What AllArchives holds besides, damage by damage.                       *)
LEMMA DamagedAre ==
  ASSUME NEW h \in WrittenHeaders, NEW w \in Written, NEW a \in Damaged(h, w)
  PROVE  \/ a = Whole(h, w)
         \/ a \in Uncovered(h, w)
         \/ h.known /\ \E v \in Miscounted(w) : a = Whole(h, v)
         \/ a \in FieldDamaged(h, w)
BY DEF Damaged, Uncovered

LEMMA WrittenHeadersAre ==
  ASSUME NEW h \in WrittenHeaders
  PROVE  h \in Records /\ HeaderOf(h) /\ h.known \in BOOLEAN /\ h.known = (h.size = InputSize)
<1>1. PICK known \in BOOLEAN : h = HeaderRead(HeaderBytes(known))
  BY DEF WrittenHeaders
<1>2. HeaderOf(h) /\ h.known = known /\ (~known => h.size = 0)
  BY <1>1, HeaderBytesAre
<1>3. h \in Records /\ (h.known => h.size = InputSize)
  BY <1>2 DEF HeaderOf, Records
<1>4. InputSize # 0
  BY DamageAssumption
<1> QED
  BY <1>2, <1>3, <1>4

LEMMA DamageMeans ==
  ASSUME NEW a \in AllArchives, Decode(a).error = "Ok"
  PROVE  a \notin HeaderDamaged /\ (a \in NotCovered \/ Decode(a).output = Input)
<1>1. a \notin HeaderDamaged
  BY HeaderDamageMeans
<1>2. PICK h \in WrittenHeaders, w \in Written : a \in Damaged(h, w)
  BY <1>1 DEF AllArchives
<1>3. h \in Records /\ HeaderOf(h)
  BY WrittenHeadersAre
<1>4. PICK c : Consist(w, c)
  BY WrittenConsists
<1>5. CASE a = Whole(h, w)
  <2>1. Decode(Whole(h, w)).output = Input
    BY <1>3, <1>4, WrittenMeans
  <2> QED
    BY <1>1, <1>5, <2>1
<1>6. CASE a \in Uncovered(h, w)
  <2>1. a \in NotCovered
    BY <1>6 DEF NotCovered
  <2> QED
    BY <1>1, <2>1
<1>7. CASE h.known /\ \E v \in Miscounted(w) : a = Whole(h, v)
  <2>1. PICK v \in Miscounted(w) : a = Whole(h, v)
    BY <1>7
  <2>2. Decode(Whole(h, v)).output = Input
    BY <1>3, <1>4, <1>7, <2>1, MiscountMeans
  <2> QED
    BY <1>1, <2>1, <2>2
<1>8. CASE a \in FieldDamaged(h, w)
  BY <1>1, <1>3, <1>4, <1>8, FieldDamageMeans
<1> QED
  BY <1>2, <1>5, <1>6, <1>7, <1>8, DamagedAre

-----------------------------------------------------------------------------
(* No damage goes unnoticed but in what no checksum covers: of a damaged   *)
(* archive runDecompress says Ok only if it restored the input, and never  *)
(* if the header is damaged.                                               *)
THEOREM DamageIsAlwaysNoticed == Spec => []DamageIsNoticed
<1>1. Inv => DamageIsNoticed
  <2> SUFFICES ASSUME Inv, Ended, result.error = "Ok", archive \in AllArchives
               PROVE  archive \notin HeaderDamaged /\ (archive \in NotCovered \/ Flat(sink.out) = Input)
    BY DEF DamageIsNoticed
  <2>1. /\ Decode(archive).error = "Ok"
        /\ (sink.kind = "fixed" /\ Decode(archive).output = <<>>) \/ Flat(sink.out) = Decode(archive).output
    BY DEF Inv, MeaningInv, Ended
  <2>2. archive \notin HeaderDamaged /\ (archive \in NotCovered \/ Decode(archive).output = Input)
    BY <2>1, DamageMeans
  <2>3. Input # <<>>
    <3>1. InputSize # 0
      BY DamageAssumption
    <3> QED
      BY <3>1, InputIs, EmptySeq
  <2> QED
    BY <2>1, <2>2, <2>3
<1> QED
  BY <1>1, Invariance, PTL

(* What runCompress writes, runDecompress reads: an archive as it was      *)
(* written ends with Ok, and the fields of its header are what was put in. *)
THEOREM WhatIsWrittenIsRead == Spec => []WrittenIsRead
<1>1. Inv => WrittenIsRead
  <2> SUFFICES ASSUME Inv, Ended, ~failures, ~cancelRequested, NEW h \in WrittenHeaders, NEW w \in Written,
                      archive = Whole(h, w)
               PROVE  /\ result.error = "Ok" /\ header.blockSize = BlockSize
                      /\ header.known = (header.size = InputSize)
    BY DEF WrittenIsRead
  <2>1. h \in Records /\ HeaderOf(h) /\ h.known = (h.size = InputSize)
    BY WrittenHeadersAre
  <2>2. PICK c : Consist(w, c)
    BY WrittenConsists
  <2>3. Decode(archive).error = "Ok"
    BY <2>1, <2>2, WrittenMeans
  <2>4. result.error = "Ok"
    BY <2>3 DEF Inv, MeaningInv, Ended
  <2>5. header = archive[1]
    BY <2>4 DEF Inv, PlaceInv, Ended
  <2>6. archive[1] = h
    <3>1. FlattenSeq(w) \in Seq(Records)
      BY <2>2, ConsistIs, FlattenType
    <3> DEFINE d == FlattenSeq(w)
    <3>2. archive = <<h>> \o d
      BY Zenon DEF Whole, Cons
    <3> HIDE DEF d
    <3> QED
      BY <2>1, <3>1, <3>2 DEF d
  <2> QED
    BY <2>1, <2>4, <2>5, <2>6 DEF HeaderOf
<1> QED
  BY <1>1, Invariance, PTL
=============================================================================
