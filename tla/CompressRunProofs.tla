-------------------------- MODULE CompressRunProofs --------------------------
(***************************************************************************)
(* Safety of a compression run, for every size of input and block, every   *)
(* source and every sink.                                                  *)
(***************************************************************************)
EXTENDS CompressRun, RunLemmas

(* What an output may hold. *)
Item == {Cut, Earlier} \cup Records

Failures == {"InvalidArgument", "OpenFailed", "NoMemory", "WriteFailed", "OutputOverflow",
             "ReadFailed", "Cancelled"}
Places   == Setup \cup Loop \cup Ending

Source == [kind : SourceKinds, length : 0 .. MaxInput, pos : 0 .. MaxInput, ended : BOOLEAN,
           known : BOOLEAN, size : 0 .. MaxInput]
Result == [error : {"Ok"} \cup Failures, inputBytes : 0 .. MaxInput, outputBytes : Nat]
Progress == [processed : 0 .. MaxInput, produced : Nat, done : BOOLEAN]

TypeInv ==
  /\ source \in Source
  /\ source.pos <= source.length
  /\ sink \in SinkOf(Item)
  /\ allowPartial \in BOOLEAN
  /\ cancelRequested \in BOOLEAN
  /\ pc \in Places
  /\ result \in Result
  /\ result.inputBytes = source.pos
  /\ block \in Seq(Nat)
  /\ Len(block) \in 0 .. BlockSize
  /\ pc \in {"encode", "checkEof", "writeBlock", "writePayload"} => Len(block) # 0
  /\ stored \in 0 .. BlockSize
  /\ lastFinal \in BOOLEAN
  /\ reported \in Seq(Progress)
  /\ lateCancel \in BOOLEAN

(* Where the session is: what the run may publish, and when.               *)
SinkInv ==
  /\ pc \in {"start", "openSource", "openSink", "ended"} => AtRest(sink)
  /\ pc # "ended" => result.error = "Ok"
  /\ IsTransactional(sink) /\ (pc \notin {"done", "ended"} \/ result.error # "Ok") =>
       sink.out = <<Earlier>>
  /\ pc = "done" /\ IsTransactional(sink) => sink.staged = <<>>

(* A run that is beyond its last look at the flag is not cancelled, or too *)
(* late.                                                                   *)
CancelInv ==
  /\ pc \in {"commit", "done"} /\ cancelRequested => lateCancel
  /\ CancelIsHonoured

(* Nobody is told anything after the end, or of more input than there was. *)
ReportInv ==
  /\ DoneReportedOnce
  /\ \A i \in 1 .. Len(reported) : reported[i].processed <= result.inputBytes

-----------------------------------------------------------------------------
(* A step that ends the run with one of these errors. *)
EndsWith(errors) ==
  /\ pc' = "ended"
  /\ sink' \in SinkOf(Item)
  /\ sink'.kind = sink.kind
  /\ AtRest(sink')
  /\ IsTransactional(sink) => sink'.out = sink.out
  /\ \E e \in errors : result' = [result EXCEPT !.error = e]

LEMMA ReturnEnds ==
  ASSUME TypeInv, NEW s \in SinkOf(Item), s.kind = sink.kind, IsTransactional(sink) => s.out = sink.out,
         NEW opened \in BOOLEAN, opened \/ (IsTransactional(s) => s.staged = <<>>),
         NEW e, Return(s, opened, FALSE, e)
  PROVE  EndsWith({e})
<1>1. /\ EndSession(s, opened, FALSE) \in SinkOf(Item)
      /\ EndSession(s, opened, FALSE).kind = s.kind
      /\ EndSession(s, opened, FALSE).out = s.out
      /\ AtRest(EndSession(s, opened, FALSE))
  BY EndSessionIs
<1> QED
  BY <1>1 DEF Return, EndsWith, IsTransactional

LEMMA FailEnds == ASSUME TypeInv, NEW e, Fail(e) PROVE EndsWith({e})
BY ReturnEnds DEF Fail, TypeInv

LEMMA WriteThenIs ==
  ASSUME TypeInv, NEW item \in Item, NEW size \in Nat, NEW l, WriteThen(item, size, l)
  PROVE  \/ sink' = WriteSink(sink, item, size) /\ pc' = l /\ result' = result
         \/ EndsWith({"NoMemory", "WriteFailed", "OutputOverflow"})
<1>1. PICK e \in WriteErrors(sink, size) :
        IF e = "Ok"
          THEN sink' = WriteSink(sink, item, size) /\ Goto(l) /\ UNCHANGED result
          ELSE \E s \in FailWrite(sink) : Return(s, TRUE, FALSE, e)
  BY DEF WriteThen
<1>2. CASE e = "Ok"
  BY <1>1, <1>2 DEF Goto
<1>3. CASE e # "Ok"
  <2>1. PICK s \in FailWrite(sink) : Return(s, TRUE, FALSE, e)
    BY <1>1, <1>3
  <2>2. s \in SinkOf(Item) /\ s.kind = sink.kind /\ (IsTransactional(sink) => s.out = sink.out)
    BY FailWriteIs DEF TypeInv, Item
  <2>3. EndsWith({e})
    BY <2>1, <2>2, ReturnEnds
  <2>4. e \in {"NoMemory", "WriteFailed", "OutputOverflow"}
    BY <1>3 DEF WriteErrors
  <2> QED
    BY <2>3, <2>4 DEF EndsWith
<1> QED
  BY <1>2, <1>3

LEMMA BytesAre ==
  ASSUME NEW p \in Nat, NEW q \in Nat, p <= q
  PROVE  /\ Bytes(p, q) \in Seq(Nat)
         /\ Len(Bytes(p, q)) = q - p
         /\ \A i \in 1 .. q - p : Bytes(p, q)[i] = p + i
BY DEF Bytes

LEMMA EndedTypeInv ==
  ASSUME TypeInv, NEW errors, errors \subseteq Failures, EndsWith(errors),
         UNCHANGED <<source, allowPartial, cancelRequested, locals, reported, lateCancel>>
  PROVE  TypeInv'
BY DEF TypeInv, EndsWith, Result, Places, Ending, locals

(* A step from one place to another that touches only the sink. *)
LEMMA MovedTypeInv ==
  ASSUME TypeInv, pc' \in Places, result' = result, sink' \in SinkOf(Item),
         pc' \in {"encode", "checkEof", "writeBlock", "writePayload"} => Len(block) # 0,
         UNCHANGED <<source, allowPartial, cancelRequested, locals, reported, lateCancel>>
  PROVE  TypeInv'
BY DEF TypeInv, locals

LEMMA InitTypeInv == Init => TypeInv
<1> SUFFICES ASSUME Init PROVE TypeInv
  OBVIOUS
<1>1. sink \in SinkOf(Item)
  BY NewSinkIs DEF Init, Item
<1>2. source \in Source /\ source.pos = 0 /\ source.length \in Nat
  <2>1. PICK k \in SourceKinds, n \in 0 .. MaxInput : source \in NewSource(k, n)
    BY DEF Init
  <2> DEFINE Known == IF k = "stream" THEN BOOLEAN ELSE {TRUE}
             Sizes == IF k = "stream" THEN 0 .. MaxInput ELSE {n}
  <2>2. source \in [kind : {k}, length : {n}, pos : {0}, ended : {FALSE}, known : Known, size : Sizes]
    BY <2>1 DEF NewSource
  <2>3. Known \subseteq BOOLEAN /\ Sizes \subseteq 0 .. MaxInput
    OBVIOUS
  <2> HIDE DEF Known, Sizes
  <2>4. /\ source.kind = k /\ source.length = n /\ source.pos = 0 /\ source.ended = FALSE
        /\ source.known \in BOOLEAN /\ source.size \in 0 .. MaxInput
    BY <2>2, <2>3
  <2>5. source = [kind |-> source.kind, length |-> source.length, pos |-> source.pos,
                  ended |-> source.ended, known |-> source.known, size |-> source.size]
    BY <2>2
  <2>6. source.ended \in BOOLEAN
    BY <2>2
  <2>7. source.kind \in SourceKinds /\ source.length \in 0 .. MaxInput /\ source.pos \in 0 .. MaxInput
    BY <2>4, SizesAssumption
  <2> QED
    BY <2>4, <2>5, <2>6, <2>7 DEF Source
<1>3. result \in Result /\ result.inputBytes = 0
  BY SizesAssumption DEF Init, Result
<1>4. pc \in Places
  BY DEF Init, Places, Setup
<1>5. block \in Seq(Nat) /\ Len(block) = 0 /\ reported \in Seq(Progress)
  BY DEF Init
<1>6. allowPartial \in BOOLEAN /\ cancelRequested \in BOOLEAN /\ stored = 0
      /\ lastFinal \in BOOLEAN /\ lateCancel \in BOOLEAN /\ pc = "start"
  BY DEF Init
<1> QED
  BY <1>1, <1>2, <1>3, <1>4, <1>5, <1>6, SizesAssumption DEF TypeInv

-----------------------------------------------------------------------------
(* What each action does when it does not fail, and how all of them fail.  *)
Ends ==
  /\ pc \notin {"done", "ended"}
  /\ \E e \in Failures : EndsWith({e}) /\ (e = "Cancelled" => cancelRequested)
  /\ UNCHANGED <<source, allowPartial, cancelRequested, locals, reported, lateCancel>>

Goes(from, to) == pc = from /\ pc' = to /\ UNCHANGED <<allowPartial, cancelRequested, lateCancel>>

Quiet == UNCHANGED <<sink, result, reported>>

Starts    == Goes("start", "openSource") /\ Quiet /\ UNCHANGED <<source, locals>>
Opens     == /\ Goes("openSource", "openSink") /\ Quiet /\ UNCHANGED locals
             /\ source' = IF source.kind = "file" THEN [source EXCEPT !.size = source.length] ELSE source
OpensSink == /\ Goes("openSink", "allocate") /\ sink' = OpenSink(sink)
             /\ UNCHANGED <<source, result, locals, reported>>
Allocates == Goes("allocate", "writeHeader") /\ Quiet /\ UNCHANGED <<source, locals>>

Writes(from, item, size, to) ==
  /\ Goes(from, to)
  /\ sink' = WriteSink(sink, item, size)
  /\ UNCHANGED <<source, result, locals, reported>>

TheHeader == HeaderItem("Ok", source.known, source.size, BlockSize)
TheBlock  == BlockItem(lastFinal, stored = Len(block), Len(block), stored, block)
LastBlock == BlockItem(TRUE, TRUE, 0, 0, <<>>)

WritesHeader  == Writes("writeHeader", TheHeader, HeaderSize, "checkCancel")
WritesBlock   == Writes("writeBlock", TheBlock, BlockHeaderSize, "writePayload")
WritesPayload == Writes("writePayload", DataItem(block, stored), stored, "report")
WritesLast    == /\ Goes("writeFinal", "lastCheck")
                 /\ sink' = WriteSink(sink, LastBlock, BlockHeaderSize)
                 /\ result' = [result EXCEPT !.outputBytes = sink'.bytes]
                 /\ UNCHANGED <<source, locals, reported>>

Looks     == Goes("checkCancel", "read") /\ ~cancelRequested /\ Quiet /\ UNCHANGED <<source, locals>>
LooksLast == Goes("lastCheck", "commit") /\ ~cancelRequested /\ Quiet /\ UNCHANGED <<source, locals>>

ReadsBytes(n) ==
  /\ Goes("read", IF n = 0 THEN "finalBlock" ELSE "encode")
  /\ n \in ReadCounts
  /\ source' = [source EXCEPT !.pos = @ + n, !.ended = @ \/ n = 0]
  /\ block' = Bytes(source.pos, source'.pos)
  /\ result' = [result EXCEPT !.inputBytes = @ + n]
  /\ UNCHANGED <<sink, stored, lastFinal, reported>>

Encodes   == /\ Goes("encode", "checkEof") /\ stored' \in 1 .. Len(block)
             /\ Quiet /\ UNCHANGED <<source, block, lastFinal>>
Reaches   == Goes("finalBlock", IF lastFinal THEN "lastCheck" ELSE "writeFinal") /\ Eof
             /\ Quiet /\ UNCHANGED <<source, locals>>
Commits   == /\ Goes("commit", "done") /\ sink' = CommitSink(sink) /\ "Ok" \in CommitErrors(sink)
             /\ UNCHANGED <<source, result, locals, reported>>

Proceeds ==
  \/ Starts \/ Opens \/ OpensSink \/ Allocates \/ WritesHeader
  \/ Looks \/ (\E n \in Nat : ReadsBytes(n)) \/ Encodes \/ CheckEof \/ WritesBlock \/ WritesPayload
  \/ ReportBlock \/ Reaches \/ WritesLast \/ LooksLast \/ Commits \/ Finish

LEMMA FailureEnds ==
  ASSUME TypeInv, NEW e \in Failures, Fail(e), pc \notin {"done", "ended"},
         e = "Cancelled" => cancelRequested,
         UNCHANGED <<source, allowPartial, cancelRequested, locals, reported, lateCancel>>
  PROVE  Ends
BY FailEnds DEF Ends

LEMMA WriteProceeds ==
  ASSUME TypeInv, NEW from \in Places \ {"done", "ended"}, pc = from, NEW item \in Item, NEW size \in Nat,
         NEW to, WriteThen(item, size, to),
         UNCHANGED <<source, allowPartial, cancelRequested, locals, reported, lateCancel>>
  PROVE  Ends \/ Writes(from, item, size, to)
<1>1. CASE sink' = WriteSink(sink, item, size) /\ pc' = to /\ result' = result
  BY <1>1 DEF Writes, Goes
<1>2. CASE EndsWith({"NoMemory", "WriteFailed", "OutputOverflow"})
  <2>1. PICK e \in {"NoMemory", "WriteFailed", "OutputOverflow"} : EndsWith({e})
    BY <1>2 DEF EndsWith
  <2> QED
    BY <2>1 DEF Ends, Failures
<1> QED
  BY <1>1, <1>2, WriteThenIs

LEMMA RunEndsOrProceeds == ASSUME TypeInv, SinkInv, Run PROVE Ends \/ Proceeds
<1> USE SizesAssumption
<1>1. CASE Start
  <2>1. CASE ~IsTransactional(sink) /\ ~allowPartial
    <3>1. EndsWith({"InvalidArgument"})
      BY <1>1, <2>1 DEF Start, EndsWith, TypeInv, SinkInv
    <3> QED
      BY <1>1, <3>1 DEF Start, Ends, Failures
  <2>2. CASE IsTransactional(sink) \/ allowPartial
    BY <1>1, <2>2 DEF Start, Proceeds, Starts, Goes, Goto, Quiet, locals
  <2> QED
    BY <2>1, <2>2
<1>2. CASE OpenSource
  <2>1. PICK e \in OpenSourceErrors :
          IF e = "Ok"
            THEN /\ Goto("openSink")
                 /\ source' = IF source.kind = "file"
                                THEN [source EXCEPT !.size = source.length] ELSE source
                 /\ UNCHANGED <<sink, result>>
            ELSE Return(sink, FALSE, FALSE, e) /\ UNCHANGED source
    BY <1>2 DEF OpenSource
  <2>2. CASE e = "Ok"
    BY <1>2, <2>1, <2>2 DEF OpenSource, Proceeds, Opens, Goes, Goto, Quiet, locals
  <2>3. CASE e # "Ok"
    <3>1. EndsWith({e})
      BY <1>2, <2>1, <2>3, ReturnEnds DEF OpenSource, TypeInv, SinkInv, AtRest
    <3>2. e \in Failures /\ e # "Cancelled"
      BY <2>3 DEF OpenSourceErrors, Failures
    <3> QED
      BY <1>2, <2>1, <2>3, <3>1, <3>2 DEF OpenSource, Ends
  <2> QED
    BY <2>2, <2>3
<1>3. CASE OpenTheSink
  <2>1. PICK e \in OpenErrors(sink) :
          IF e = "Ok"
            THEN sink' = OpenSink(sink) /\ Goto("allocate") /\ UNCHANGED result
            ELSE Return(sink, FALSE, FALSE, e)
    BY <1>3 DEF OpenTheSink
  <2>2. CASE e = "Ok"
    BY <1>3, <2>1, <2>2 DEF OpenTheSink, Proceeds, OpensSink, Goes, Goto, locals
  <2>3. CASE e # "Ok"
    <3>1. EndsWith({e})
      BY <1>3, <2>1, <2>3, ReturnEnds DEF OpenTheSink, TypeInv, SinkInv, AtRest
    <3>2. e \in Failures /\ e # "Cancelled"
      BY <2>3 DEF OpenErrors, Failures
    <3> QED
      BY <1>3, <3>1, <3>2 DEF OpenTheSink, Ends
  <2> QED
    BY <2>2, <2>3
<1>4. CASE Allocate
  <2>1. CASE Fail("NoMemory")
    BY <1>4, <2>1, FailureEnds DEF Allocate, Failures
  <2>2. CASE Goto("writeHeader") /\ UNCHANGED <<sink, result>>
    BY <1>4, <2>2 DEF Allocate, Proceeds, Allocates, Goes, Goto, Quiet, locals
  <2> QED
    BY <1>4, <2>1, <2>2 DEF Allocate
<1>5. CASE WriteHeader
  <2>1. TheHeader \in Item /\ HeaderSize \in Nat
    BY DEF TheHeader, HeaderItem, Item, Records, HeaderItems, Checks, TypeInv, Source
  <2>2. Ends \/ WritesHeader
    BY <1>5, <2>1, WriteProceeds DEF WriteHeader, WritesHeader, TheHeader, Places, Setup
  <2> QED
    BY <2>2 DEF Proceeds
<1>6. CASE CheckCancel
  <2>1. CASE cancelRequested
    BY <1>6, <2>1, FailureEnds DEF CheckCancel, Failures
  <2>2. CASE ~cancelRequested
    BY <1>6, <2>2 DEF CheckCancel, Proceeds, Looks, Goes, Goto, Quiet, locals
  <2> QED
    BY <2>1, <2>2
<1>7. CASE Read
  <2>1. CASE source.kind = "custom" /\ Fail("ReadFailed") /\ UNCHANGED <<source, block>>
    BY <1>7, <2>1, FailureEnds DEF Read, Failures, locals
  <2>2. ASSUME NEW n \in ReadCounts,
               LET next == [source EXCEPT !.pos = @ + n, !.ended = @ \/ n = 0]
               IN /\ source' = next
                  /\ block' = Bytes(source.pos, next.pos)
                  /\ result' = [result EXCEPT !.inputBytes = @ + n]
                  /\ Goto(IF n = 0 THEN "finalBlock" ELSE "encode")
                  /\ UNCHANGED sink
        PROVE  Proceeds
    <3>1. n \in Nat
      BY DEF ReadCounts, Left, Least, TypeInv, Source, SourceKinds
    <3>2. ReadsBytes(n)
      BY <1>7, <2>2 DEF Read, ReadsBytes, Goes, Goto
    <3> QED
      BY <3>1, <3>2 DEF Proceeds
  <2> QED
    BY <1>7, <2>1, <2>2 DEF Read
<1>8. CASE Encode
  <2>1. CASE Fail("NoMemory") /\ UNCHANGED stored
    BY <1>8, <2>1, FailureEnds DEF Encode, Failures, locals
  <2>2. CASE stored' \in 1 .. Len(block) /\ Goto("checkEof") /\ UNCHANGED <<sink, result>>
    BY <1>8, <2>2 DEF Encode, Proceeds, Encodes, Goes, Goto, Quiet, locals
  <2> QED
    BY <1>8, <2>1, <2>2 DEF Encode
<1>9. CASE WriteBlock
  <2>1. TheBlock \in Item /\ BlockHeaderSize \in Nat
    BY DEF TheBlock, BlockItem, Item, Records, BlockItems, TypeInv
  <2>2. Ends \/ WritesBlock
    BY <1>9, <2>1, WriteProceeds DEF WriteBlock, WritesBlock, TheBlock, Places, Loop
  <2> QED
    BY <2>2 DEF Proceeds
<1>10. CASE WritePayload
  <2>1. DataItem(block, stored) \in Item /\ stored \in Nat
    BY DEF DataItem, Item, Records, DataItems, TypeInv
  <2>2. Ends \/ WritesPayload
    BY <1>10, <2>1, WriteProceeds DEF WritePayload, WritesPayload, Places, Loop
  <2> QED
    BY <2>2 DEF Proceeds
<1>11. CASE EndOfInput
  <2>1. CASE ~Eof
    BY <1>11, <2>1, FailureEnds DEF EndOfInput, Failures
  <2>2. CASE Eof
    BY <1>11, <2>2 DEF EndOfInput, Proceeds, Reaches, Goes, Goto, Quiet, locals
  <2> QED
    BY <2>1, <2>2
<1>12. CASE WriteFinal
  <2>1. PICK e \in WriteErrors(sink, BlockHeaderSize) :
          IF e = "Ok"
            THEN /\ sink' = WriteSink(sink, LastBlock, BlockHeaderSize)
                 /\ result' = [result EXCEPT !.outputBytes = sink'.bytes]
                 /\ Goto("lastCheck")
            ELSE \E s \in FailWrite(sink) : Return(s, TRUE, FALSE, e)
    BY <1>12 DEF WriteFinal, LastBlock
  <2>2. CASE e = "Ok"
    BY <1>12, <2>1, <2>2 DEF WriteFinal, Proceeds, WritesLast, Goes, Goto
  <2>3. CASE e # "Ok"
    <3>1. PICK s \in FailWrite(sink) : Return(s, TRUE, FALSE, e)
      BY <2>1, <2>3
    <3>2. s \in SinkOf(Item) /\ s.kind = sink.kind /\ (IsTransactional(sink) => s.out = sink.out)
      BY FailWriteIs DEF TypeInv, Item
    <3>3. EndsWith({e})
      BY <3>1, <3>2, ReturnEnds
    <3>4. e \in Failures /\ e # "Cancelled"
      BY <2>3 DEF WriteErrors, Failures
    <3> QED
      BY <1>12, <3>3, <3>4 DEF Ends, WriteFinal
  <2> QED
    BY <2>2, <2>3
<1>13. CASE LastCheck
  <2>1. CASE cancelRequested
    BY <1>13, <2>1, FailureEnds DEF LastCheck, Failures
  <2>2. CASE ~cancelRequested
    BY <1>13, <2>2 DEF LastCheck, Proceeds, LooksLast, Goes, Goto, Quiet, locals
  <2> QED
    BY <2>1, <2>2
<1>14. CASE Commit
  <2>1. PICK e \in CommitErrors(sink) :
          IF e = "Ok" THEN sink' = CommitSink(sink) /\ Goto("done") /\ UNCHANGED result ELSE Fail(e)
    BY <1>14 DEF Commit
  <2>2. CASE e = "Ok"
    BY <1>14, <2>1, <2>2 DEF Commit, Proceeds, Commits, Goes, Goto, locals
  <2>3. CASE e # "Ok"
    <3>1. e \in Failures /\ e # "Cancelled" /\ Fail(e)
      BY <2>1, <2>3 DEF CommitErrors, Failures
    <3> QED
      BY <1>14, <3>1, FailureEnds DEF Commit
  <2> QED
    BY <2>2, <2>3
<1> QED
  BY <1>1, <1>2, <1>3, <1>4, <1>5, <1>6, <1>7, <1>8, <1>9, <1>10, <1>11, <1>12, <1>13, <1>14
  DEF Run, Proceeds

-----------------------------------------------------------------------------
LEMMA WriteSinkTypes ==
  ASSUME TypeInv, NEW item \in Item, NEW size \in Nat, sink' = WriteSink(sink, item, size)
  PROVE  /\ sink' \in SinkOf(Item)
         /\ sink'.kind = sink.kind
         /\ sink'.bytes = sink.bytes + size
         /\ WrittenTo(sink') = Append(WrittenTo(sink), item)
         /\ IsTransactional(sink) => sink'.out = sink.out
<1>1. sink \in SinkOf(Item)
  BY DEF TypeInv
<1>2. sink' \in SinkOf(Item) /\ sink'.kind = sink.kind
  BY <1>1, WriteSinkIs
<1>3. sink'.bytes = sink.bytes + size
  BY <1>1, WriteSinkIs
<1>4. WrittenTo(sink') = Append(WrittenTo(sink), item)
  BY <1>1, WriteSinkIs
<1>5. IsTransactional(sink) => sink'.out = sink.out
  BY <1>1, WriteSinkIs
<1> QED
  BY <1>2, <1>3, <1>4, <1>5

LEMMA ItemsAre ==
  ASSUME TypeInv
  PROVE  /\ TheHeader \in HeaderItems /\ TheBlock \in BlockItems /\ LastBlock \in BlockItems
         /\ DataItem(block, stored) \in DataItems /\ stored \in Nat
<1>1. <<>> \in Seq(Nat)
  OBVIOUS
<1> QED
  BY <1>1, SizesAssumption DEF TheHeader, TheBlock, LastBlock, HeaderItem, BlockItem, DataItem,
     HeaderItems, Checks, BlockItems, DataItems, TypeInv, Source

LEMMA NextTypeInv == ASSUME TypeInv, SinkInv, [Next]_vars PROVE TypeInv'
<1> USE SizesAssumption
<1> DEFINE Nonempty == {"encode", "checkEof", "writeBlock", "writePayload"}
<1>0. TheHeader \in Item /\ TheBlock \in Item /\ LastBlock \in Item /\ DataItem(block, stored) \in Item
  BY ItemsAre DEF Item, Records
<1>1. CASE Ends
  BY <1>1 DEF Ends, EndsWith, TypeInv, Result, Places, Ending, locals
<1>2. ASSUME pc' \in Places, pc' \in Nonempty => Len(block) # 0, sink' \in SinkOf(Item),
             result' = result,
             UNCHANGED <<source, allowPartial, cancelRequested, locals, reported, lateCancel>>
      PROVE  TypeInv'
  BY <1>2 DEF TypeInv, locals
<1>3. CASE Starts \/ Allocates \/ Looks \/ LooksLast \/ Reaches
  <2>1. /\ pc' \in {"openSource", "writeHeader", "read", "commit", "lastCheck", "writeFinal"}
        /\ sink' = sink /\ result' = result
        /\ UNCHANGED <<source, allowPartial, cancelRequested, locals, reported, lateCancel>>
    BY <1>3 DEF Starts, Allocates, Looks, LooksLast, Reaches, Goes, Quiet
  <2> QED
    BY <1>2, <2>1 DEF Places, Setup, Loop, Ending, TypeInv
<1>4. CASE Opens
  BY <1>4 DEF Opens, Goes, Quiet, TypeInv, Source, Places, Setup, locals
<1>5. CASE OpensSink
  <2>1. sink' \in SinkOf(Item)
    BY <1>5, OpenSinkIs DEF OpensSink, TypeInv
  <2> QED
    BY <1>2, <1>5, <2>1 DEF OpensSink, Goes, Places, Setup
<1>6. ASSUME NEW from \in Places, NEW item \in Item, NEW size \in Nat, NEW to \in Places,
             to \in Nonempty => Len(block) # 0, Writes(from, item, size, to)
      PROVE  TypeInv'
  BY <1>2, <1>6, WriteSinkTypes DEF Writes, Goes
<1>7. CASE WritesHeader
  BY <1>0, <1>6, <1>7 DEF WritesHeader, Places, Setup, Loop
<1>8. CASE WritesBlock
  <2>1. Len(block) # 0
    BY <1>8 DEF WritesBlock, Writes, Goes, TypeInv
  <2> QED
    BY <1>0, <1>6, <1>8, <2>1 DEF WritesBlock, Places, Loop
<1>9. CASE WritesPayload
  BY <1>0, <1>6, <1>9, ItemsAre DEF WritesPayload, Places, Loop
<1>10. CASE WritesLast
  <2>1. sink' \in SinkOf(Item)
    BY <1>0, <1>10, WriteSinkTypes DEF WritesLast
  <2>2. result' \in Result /\ result'.inputBytes = result.inputBytes
    BY <1>10, <2>1 DEF WritesLast, TypeInv, Result, SinkOf
  <2> QED
    BY <1>10, <2>1, <2>2 DEF WritesLast, Goes, TypeInv, Places, Ending, locals
<1>11. ASSUME NEW n \in Nat, ReadsBytes(n) PROVE TypeInv'
  <2>1. n \in 0 .. BlockSize /\ source.pos + n <= source.length
    BY <1>11, SMTT(30) DEF ReadsBytes, ReadCounts, Left, Least, TypeInv, Source, SourceKinds
  <2>2. source' \in Source /\ source'.pos = source.pos + n /\ source'.length = source.length
    <3> DEFINE p == source.pos + n
               e == source.ended \/ n = 0
    <3>1. p \in 0 .. MaxInput /\ e \in BOOLEAN
      BY <2>1 DEF TypeInv, Source
    <3>2. source' = [source EXCEPT !.pos = p, !.ended = e]
      BY <1>11 DEF ReadsBytes
    <3>3. p = source.pos + n
      OBVIOUS
    <3> HIDE DEF p, e
    <3> QED
      BY <3>1, <3>2, <3>3 DEF TypeInv, Source
  <2>3. block' \in Seq(Nat) /\ Len(block') = n
    <3>1. source.pos \in Nat /\ source.pos + n \in Nat /\ source.pos + n - source.pos = n
      BY <2>1 DEF TypeInv, Source
    <3>2. block' = Bytes(source.pos, source.pos + n)
      BY <1>11, <2>2 DEF ReadsBytes
    <3> QED
      <4> DEFINE p == source.pos
                 q == source.pos + n
      <4>1. p \in Nat /\ q \in Nat /\ p <= q /\ q - p = n
        BY <2>1, <3>1
      <4>2. block' = Bytes(p, q)
        BY <3>2
      <4> HIDE DEF p, q
      <4> QED
        BY <4>1, <4>2, BytesAre
  <2>4. result' \in Result /\ result'.inputBytes = source'.pos
    BY <1>11, <2>1, <2>2 DEF ReadsBytes, TypeInv, Result, Source
  <2>5. pc' \in Places /\ (pc' \in Nonempty => n # 0)
    BY <1>11 DEF ReadsBytes, Goes, Places, Loop, Ending
  <2> QED
    BY <1>11, <2>1, <2>2, <2>3, <2>4, <2>5 DEF ReadsBytes, Goes, TypeInv
<1>12. CASE Encodes
  BY <1>12 DEF Encodes, Goes, Quiet, TypeInv, Places, Loop
<1>13. CASE CheckEof
  <2>1. lastFinal' \in BOOLEAN
    <3>1. source.ended \in BOOLEAN /\ (source.pos >= source.length) \in BOOLEAN
      BY DEF TypeInv, Source
    <3> QED
      BY <1>13, <3>1, Zenon DEF CheckEof, Eof
  <2> QED
    BY <1>13, <2>1 DEF CheckEof, Goto, TypeInv, Places, Loop
<1>14. CASE ReportBlock
  <2>1. result' \in Result /\ result'.inputBytes = result.inputBytes
    BY <1>14 DEF ReportBlock, TypeInv, Result, SinkOf
  <2>2. reported' \in Seq(Progress)
    BY <1>14, <2>1 DEF ReportBlock, Report, TypeInv, Progress, Result
  <2> QED
    BY <1>14, <2>1, <2>2 DEF ReportBlock, Goto, TypeInv, Places, Loop, locals
<1>15. CASE Commits
  <2>1. sink' \in SinkOf(Item)
    BY <1>15, CommitSinkIs DEF Commits, TypeInv
  <2> QED
    BY <1>2, <1>15, <2>1 DEF Commits, Goes, Places, Ending
<1>16. CASE Finish
  <2>1. sink' \in SinkOf(Item)
    BY <1>16, EndSessionIs DEF Finish, TypeInv, SinkInv
  <2>2. result' \in Result /\ result'.inputBytes = result.inputBytes
    BY <1>16 DEF Finish, TypeInv, Result, SinkOf
  <2>3. reported' \in Seq(Progress)
    BY <1>16, <2>2 DEF Finish, Report, TypeInv, Progress, Result
  <2> QED
    BY <1>16, <2>1, <2>2, <2>3 DEF Finish, TypeInv, Places, Ending, locals
<1>17. CASE Cancel
  BY <1>17 DEF Cancel, TypeInv, locals
<1>18. CASE Grow
  <2> DEFINE n == source.length + 1
  <2>1. n \in 0 .. MaxInput /\ source.pos <= n
    BY <1>18 DEF Grow, TypeInv, Source
  <2>2. source' = [source EXCEPT !.length = n]
    BY <1>18 DEF Grow
  <2> HIDE DEF n
  <2>3. source' \in Source /\ source'.pos = source.pos /\ source'.length = n
    BY <2>1, <2>2 DEF TypeInv, Source
  <2> QED
    BY <1>18, <2>1, <2>3 DEF Grow, TypeInv, locals
<1>19. CASE UNCHANGED vars
  BY <1>19 DEF vars, TypeInv, locals
<1> QED
  BY <1>1, <1>3, <1>4, <1>5, <1>7, <1>8, <1>9, <1>10, <1>11, <1>12, <1>13, <1>14, <1>15, <1>16,
     <1>17, <1>18, <1>19, RunEndsOrProceeds
  DEF Next, Proceeds

-----------------------------------------------------------------------------
Inv == TypeInv /\ SinkInv /\ CancelInv /\ ReportInv

LEMMA InitSafe == Init => SinkInv /\ CancelInv /\ ReportInv
<1> SUFFICES ASSUME Init PROVE SinkInv /\ CancelInv /\ ReportInv
  OBVIOUS
<1>1. SinkInv
  BY NewSinkIs, InitTypeInv DEF Init, SinkInv, Item
<1>2. CancelInv
  BY DEF Init, CancelInv, CancelIsHonoured, Ended
<1>3. ReportInv
  BY DEF Init, ReportInv, DoneReportedOnce, Ended
<1> QED
  BY <1>1, <1>2, <1>3

(* What is published, step by step. *)
LEMMA NextSinkInv == ASSUME TypeInv, SinkInv, [Next]_vars PROVE SinkInv'
<1> USE SizesAssumption
<1>0. /\ TheHeader \in Item /\ TheBlock \in Item /\ LastBlock \in Item
      /\ DataItem(block, stored) \in Item /\ stored \in Nat
  BY ItemsAre DEF Item, Records
<1>1. CASE Ends
  BY <1>1 DEF Ends, EndsWith, SinkInv, TypeInv, Result, Failures, IsTransactional
<1>2. CASE Starts \/ Allocates \/ Looks \/ LooksLast \/ Reaches \/ Encodes \/ Opens
  <2>1. /\ pc \notin {"done", "ended"}
        /\ pc' \notin {"done", "ended", "start", "allocate"}
        /\ pc' \in {"openSource", "openSink"} => pc \in {"start", "openSource"}
        /\ sink' = sink /\ result' = result
    BY <1>2 DEF Starts, Allocates, Looks, LooksLast, Reaches, Encodes, Opens, Goes, Quiet
  <2> QED
    BY <2>1 DEF SinkInv
<1>3. CASE OpensSink
  BY <1>3, OpenSinkIs DEF OpensSink, Goes, SinkInv, TypeInv, IsTransactional
<1>4. ASSUME NEW from \in Places \ {"done", "ended"}, NEW item \in Item, NEW size \in Nat,
             NEW to \in Places \ {"done", "ended", "start", "openSource", "openSink"},
             pc = from, pc' = to, sink' = WriteSink(sink, item, size), result'.error = result.error
      PROVE  SinkInv'
  <2>1. sink'.kind = sink.kind /\ (IsTransactional(sink) => sink'.out = sink.out)
    BY <1>4, WriteSinkTypes
  <2> QED
    BY <1>4, <2>1 DEF SinkInv, IsTransactional
<1>5. CASE WritesHeader
  BY <1>0, <1>4, <1>5 DEF WritesHeader, Writes, Goes, Places, Setup, Loop
<1>6. CASE WritesBlock
  BY <1>0, <1>4, <1>6 DEF WritesBlock, Writes, Goes, Places, Setup, Loop
<1>7. CASE WritesPayload
  BY <1>0, <1>4, <1>7 DEF WritesPayload, Writes, Goes, Places, Setup, Loop
<1>8. CASE WritesLast
  <2>1. result'.error = result.error
    BY <1>8 DEF WritesLast, TypeInv, Result
  <2> QED
    BY <1>0, <1>4, <1>8, <2>1 DEF WritesLast, Goes, Places, Ending
<1>9. CASE (\E n \in Nat : ReadsBytes(n)) \/ CheckEof \/ ReportBlock
  <2>1. /\ pc \in Loop /\ pc' \in Loop \cup {"finalBlock"}
        /\ sink' = sink /\ result'.error = result.error
    BY <1>9 DEF ReadsBytes, CheckEof, ReportBlock, Goes, Goto, TypeInv, Result, Loop
  <2> QED
    BY <2>1 DEF SinkInv, Loop
<1>10. CASE Commits
  <2>1. sink'.kind = sink.kind /\ (IsTransactional(sink) => sink'.staged = <<>>)
    BY <1>10, CommitSinkIs DEF Commits, TypeInv
  <2>2. pc = "commit" /\ pc' = "done" /\ result' = result
    BY <1>10 DEF Commits, Goes
  <2> QED
    BY <2>1, <2>2 DEF SinkInv, IsTransactional
<1>11. CASE Finish
  <2>1. /\ sink'.kind = sink.kind /\ AtRest(sink')
    BY <1>11, EndSessionIs DEF Finish, TypeInv, SinkInv
  <2>2. pc' = "ended" /\ result'.error = "Ok"
    BY <1>11 DEF Finish, TypeInv, Result, SinkInv
  <2> QED
    BY <2>1, <2>2 DEF SinkInv, IsTransactional
<1>12. CASE Cancel \/ Grow \/ UNCHANGED vars
  BY <1>12 DEF Cancel, Grow, vars, SinkInv
<1> QED
  BY <1>1, <1>2, <1>3, <1>5, <1>6, <1>7, <1>8, <1>9, <1>10, <1>11, <1>12, RunEndsOrProceeds
  DEF Next, Proceeds

(* Whether the run has looked at the flag. *)
LEMMA NextCancelInv == ASSUME TypeInv, SinkInv, CancelInv, [Next]_vars PROVE CancelInv'
<1>1. CASE Ends
  BY <1>1 DEF Ends, EndsWith, CancelInv, CancelIsHonoured, Ended, TypeInv, Result, Failures
<1>2. CASE Cancel
  <2>1. pc \in {"commit", "done"} => lateCancel'
    BY <1>2, Zenon DEF Cancel
  <2> QED
    BY <1>2, <2>1 DEF Cancel, CancelInv, CancelIsHonoured, Ended
<1>3. CASE Proceeds /\ ~Finish
  <2>1. /\ pc' # "ended"
        /\ UNCHANGED <<cancelRequested, lateCancel>>
        /\ pc' \in {"commit", "done"} => pc = "commit" \/ ~cancelRequested
    BY <1>3 DEF Proceeds, Starts, Opens, OpensSink, Allocates, WritesHeader, Writes, Looks, ReadsBytes,
       Encodes, CheckEof, WritesBlock, WritesPayload, ReportBlock, Reaches, WritesLast, LooksLast,
       Commits, Goes, Goto
  <2> QED
    BY <2>1 DEF CancelInv, CancelIsHonoured, Ended
<1>4. CASE Finish
  <2>1. result'.error = result.error /\ result.error = "Ok"
    BY <1>4 DEF Finish, TypeInv, Result, SinkInv
  <2> QED
    BY <1>4, <2>1 DEF Finish, CancelInv, CancelIsHonoured, Ended
<1>5. CASE Grow \/ UNCHANGED vars
  BY <1>5 DEF Grow, vars, CancelInv, CancelIsHonoured, Ended
<1> QED
  BY <1>1, <1>2, <1>3, <1>4, <1>5, RunEndsOrProceeds DEF Next

LEMMA ReportedIs ==
  ASSUME TypeInv
  PROVE  \A i \in 1 .. Len(reported) : reported[i].processed \in 0 .. MaxInput
<1>1. \A i \in 1 .. Len(reported) : reported[i] \in Progress
  BY DEF TypeInv
<1> QED
  BY <1>1 DEF Progress

(* What onProgress is told. *)
LEMMA NextReportInv == ASSUME TypeInv, TypeInv', SinkInv, ReportInv, [Next]_vars PROVE ReportInv'
<1>0. pc # "ended" => \A i \in 1 .. Len(reported) : reported[i].done = FALSE
  BY SMTT(30) DEF ReportInv, DoneReportedOnce, Ended, TypeInv, Progress
<1>1. ASSUME pc # "ended", pc' = "ended" => result'.error # "Ok", reported' = reported,
             result'.inputBytes >= result.inputBytes
      PROVE  ReportInv'
  <2>1. \A i \in 1 .. Len(reported) : ~reported[i].done
    BY <1>0, <1>1
  <2>2. \A i \in 1 .. Len(reported) : reported[i].processed \in Nat
    BY SizesAssumption, ReportedIs
  <2>3. result.inputBytes \in Nat /\ result'.inputBytes \in Nat
    BY SizesAssumption DEF TypeInv, Result
  <2>4. \A i \in 1 .. Len(reported) : reported[i].processed <= result'.inputBytes
    BY <1>1, <2>2, <2>3 DEF ReportInv
  <2> QED
    BY <1>1, <2>1, <2>4 DEF ReportInv, DoneReportedOnce, Ended
<1>2. CASE Ends
  BY <1>1, <1>2 DEF Ends, EndsWith, TypeInv, Result, Failures
<1>3. CASE Starts \/ Opens \/ OpensSink \/ Allocates \/ WritesHeader \/ Looks \/ Encodes \/ CheckEof
           \/ WritesBlock \/ WritesPayload \/ Reaches \/ LooksLast \/ Commits
  <2>1. pc # "ended" /\ pc' # "ended" /\ reported' = reported /\ result' = result
    BY <1>3 DEF Starts, Opens, OpensSink, Allocates, WritesHeader, Writes, Looks, Encodes, CheckEof,
       WritesBlock, WritesPayload, Reaches, LooksLast, Commits, Goes, Goto, Quiet
  <2> QED
    BY <1>1, <2>1 DEF TypeInv, Result
<1>4. CASE WritesLast
  <2>1. result'.inputBytes = result.inputBytes
    BY <1>4 DEF WritesLast, TypeInv, Result
  <2> QED
    BY <1>1, <1>4, <2>1 DEF WritesLast, Goes, TypeInv, Result
<1>5. ASSUME NEW n \in Nat, ReadsBytes(n) PROVE ReportInv'
  <2>1. result'.inputBytes = result.inputBytes + n
    BY <1>5 DEF ReadsBytes, TypeInv, Result
  <2>2. pc # "ended" /\ pc' # "ended" /\ reported' = reported
    BY <1>5 DEF ReadsBytes, Goes
  <2> QED
    BY <1>1, <2>1, <2>2 DEF TypeInv, Result
<1>6. ASSUME NEW done \in BOOLEAN, pc # "ended", done <=> pc' = "ended" /\ result'.error = "Ok",
             pc' = "ended" => result'.error = "Ok",
             Report(done), result'.inputBytes = result.inputBytes
      PROVE  ReportInv'
  <2> DEFINE last == [processed |-> result'.inputBytes, produced |-> result'.outputBytes, done |-> done]
  <2>1. /\ reported' \in Seq(Progress) /\ Len(reported') = Len(reported) + 1
        /\ \A i \in 1 .. Len(reported) : reported'[i] = reported[i]
        /\ reported'[Len(reported) + 1] = last
    BY <1>6 DEF Report, TypeInv
  <2>2. last.done = done /\ last.processed = result.inputBytes
    BY <1>6
  <2> HIDE DEF last
  <2>3. \A i \in 1 .. Len(reported') :
          reported'[i].done <=> pc' = "ended" /\ result'.error = "Ok" /\ i = Len(reported')
    BY <1>0, <1>6, <2>1, <2>2, SMTT(30) DEF TypeInv
  <2>4. \A i \in 1 .. Len(reported') : reported'[i].processed <= result'.inputBytes
    <3>1. \A i \in 1 .. Len(reported) : reported[i].processed <= result'.inputBytes
      BY <1>6 DEF ReportInv
    <3>2. result'.inputBytes <= result'.inputBytes /\ Len(reported) \in Nat
      BY SizesAssumption DEF TypeInv, Result
    <3> QED
      BY <1>6, <2>1, <2>2, <3>1, <3>2
  <2>5. \A i \in 2 .. Len(reported') : reported'[i - 1].processed <= reported'[i].processed
    <3>1. Len(reported) \in Nat
      BY DEF TypeInv
    <3>2. \A i \in 2 .. Len(reported) : reported[i - 1].processed <= reported[i].processed
      BY DEF ReportInv, DoneReportedOnce
    <3>3. \A i \in 1 .. Len(reported) : reported[i].processed <= result.inputBytes
      BY DEF ReportInv
    <3> QED
      BY <2>1, <2>2, <3>1, <3>2, <3>3
  <2> QED
    BY <1>6, <2>1, <2>2, <2>3, <2>4, <2>5 DEF ReportInv, DoneReportedOnce, Ended, TypeInv
<1>7. CASE ReportBlock
  <2>1. result'.inputBytes = result.inputBytes
    BY <1>7 DEF ReportBlock, TypeInv, Result
  <2> QED
    BY <1>6, <1>7, <2>1 DEF ReportBlock, Goto
<1>8. CASE Finish
  <2>1. result'.inputBytes = result.inputBytes /\ result'.error = "Ok"
    BY <1>8 DEF Finish, TypeInv, Result, SinkInv
  <2> QED
    BY <1>6, <1>8, <2>1 DEF Finish
<1>9. CASE Cancel \/ Grow \/ UNCHANGED vars
  <2>1. UNCHANGED <<pc, result, reported>>
    BY <1>9 DEF Cancel, Grow, vars
  <2> QED
    BY <2>1 DEF ReportInv, DoneReportedOnce, Ended
<1> QED
  BY <1>2, <1>3, <1>4, <1>5, <1>7, <1>8, <1>9, RunEndsOrProceeds DEF Next, Proceeds

LEMMA Safe == Spec => []Inv
<1>1. Init => Inv
  BY InitTypeInv, InitSafe DEF Inv
<1>2. Inv /\ [Next]_vars => Inv'
  BY NextTypeInv, NextSinkInv, NextCancelInv, NextReportInv DEF Inv
<1> QED
  BY <1>1, <1>2, PTL DEF Spec

(* Every variable has its type, whatever the sizes. *)
THEOREM CompressRunTypeOK == Spec => []TypeOK
<1>1. ASSUME Inv PROVE TypeOK
  <2>1. /\ source.kind \in SourceKinds
        /\ source.length \in 0 .. MaxInput
        /\ source.pos \in 0 .. source.length
        /\ source.size \in 0 .. MaxInput
        /\ source.ended \in BOOLEAN /\ source.known \in BOOLEAN
    BY <1>1, SizesAssumption DEF Inv, TypeInv, Source
  <2>2. sink.kind \in Kinds /\ sink.open \in BOOLEAN /\ sink.bytes \in Nat
    BY <1>1 DEF Inv, TypeInv, SinkOf
  <2>3. \A i \in 1 .. Len(reported) : reported[i].processed \in 0 .. MaxInput
    BY <1>1, ReportedIs DEF Inv
  <2>4. result.inputBytes \in 0 .. MaxInput /\ result.outputBytes \in Nat
    BY <1>1 DEF Inv, TypeInv, Result
  <2> QED
    BY <1>1, <2>1, <2>2, <2>3, <2>4 DEF Inv, TypeInv, TypeOK, Places
<1> QED
  BY <1>1, Safe, PTL

(* Only commit touches the output of a transactional sink: a run of        *)
(* runCompress that fails leaves it as it was, and nothing behind.         *)
THEOREM FailedCompressionPublishesNothing == Spec => []FailedRunPublishesNothing
<1>1. Inv => FailedRunPublishesNothing
  BY DEF Inv, SinkInv, AtRest, FailedRunPublishesNothing, Ended
<1> QED
  BY <1>1, Safe, PTL

(* A cancel before the last look at the flag stops runCompress before it   *)
(* publishes, and nobody else makes a run Cancelled.                       *)
THEOREM CompressionCancelIsHonoured == Spec => []CancelIsHonoured
<1>1. Inv => CancelIsHonoured
  BY DEF Inv, CancelInv
<1> QED
  BY <1>1, Safe, PTL

(* onProgress hears of the end once, last, and of no more than was read.   *)
THEOREM CompressionDoneReportedOnce == Spec => []DoneReportedOnce
<1>1. Inv => DoneReportedOnce
  BY DEF Inv, ReportInv
<1> QED
  BY <1>1, Safe, PTL

-----------------------------------------------------------------------------
(* OkDecodes.  An archive is a header and m blocks, of which the j-th      *)
(* holds the bytes from ends[j - 1] to ends[j] of the input.               *)
BlockAt(w, j, from, to) ==
  /\ from <= to
  /\ w[2 * j].type = "block"
  /\ w[2 * j].original = to - from
  /\ w[2 * j].original <= BlockSize
  /\ w[2 * j].crc = Bytes(from, to)
  /\ w[2 * j].raw => w[2 * j].stored = to - from
  /\ \/ /\ w[2 * j].stored = 0
        /\ from = to
        /\ w[2 * j].final
        /\ Len(w) = 2 * j
     \/ /\ w[2 * j].stored \in 1 .. to - from
        /\ Len(w) > 2 * j
        /\ w[2 * j + 1].type = "data"
        /\ w[2 * j + 1].bytes = Bytes(from, to)

Archive(w, m, ends) ==
  /\ Len(w) > 0
  /\ w[1].type = "header"
  /\ w[1].check = "Ok"
  /\ w[1].blockSize = BlockSize
  /\ ends[0] = 0
  /\ \A j \in 1 .. m : BlockAt(w, j, ends[j - 1], ends[j])

LEMMA BytesJoin ==
  ASSUME NEW p \in Nat, NEW q \in Nat, NEW r \in Nat, p <= q, q <= r
  PROVE  Bytes(p, q) \o Bytes(q, r) = Bytes(p, r)
<1> DEFINE s == Bytes(p, q)
           t == Bytes(q, r)
           u == Bytes(p, r)
<1>1. /\ s \in Seq(Nat) /\ Len(s) = q - p /\ \A i \in 1 .. q - p : s[i] = p + i
      /\ t \in Seq(Nat) /\ Len(t) = r - q /\ \A i \in 1 .. r - q : t[i] = q + i
      /\ u \in Seq(Nat) /\ Len(u) = r - p /\ \A i \in 1 .. r - p : u[i] = p + i
  <2>1. p <= r
    OBVIOUS
  <2> QED
    BY <2>1, BytesAre, Zenon
<1> HIDE DEF s, t, u
<1>2. s \o t \in Seq(Nat) /\ Len(s \o t) = Len(s) + Len(t)
      /\ \A i \in 1 .. Len(s) + Len(t) : (s \o t)[i] = IF i <= Len(s) THEN s[i] ELSE t[i - Len(s)]
  BY <1>1, ConcatProperties
<1>3. Len(s \o t) = Len(u) /\ \A i \in 1 .. Len(u) : (s \o t)[i] = u[i]
  <2>1. Len(s) + Len(t) = r - p
    BY <1>1
  <2>2. ASSUME NEW i \in 1 .. r - p PROVE (s \o t)[i] = p + i
    <3>1. CASE i <= q - p
      BY <1>1, <1>2, <2>1, <3>1
    <3>2. CASE i > q - p
      <4> DEFINE k == i - (q - p)
      <4>1. k \in 1 .. r - q /\ q + k = p + i
        BY <3>2
      <4>2. (s \o t)[i] = t[k]
        BY <1>1, <1>2, <2>1, <3>2, SMTT(30)
      <4> HIDE DEF k
      <4> QED
        BY <1>1, <4>1, <4>2
    <3>3. i <= q - p \/ i > q - p
      OBVIOUS
    <3> QED
      BY <3>1, <3>2, <3>3, Zenon
  <2> QED
    BY <1>1, <1>2, <2>1, <2>2
<1>4. s \o t = u
  BY <1>1, <1>2, <1>3, SeqEqual
<1> QED
  BY <1>4 DEF s, t, u

(* Whole blocks of which the last is final decode to all their bytes.      *)
LEMMA ChainMeaning ==
  ASSUME NEW a, Len(a) \in Nat, NEW m \in Nat \ {0}, NEW ends \in [0 .. m -> Nat], Len(a) >= 2 * m,
         \A j \in 1 .. m : /\ WholeBlock(a, 2 * j)
                           /\ ends[j - 1] <= ends[j]
                           /\ BlockOutput(a, 2 * j) = Bytes(ends[j - 1], ends[j])
                           /\ j < m => ~a[2 * j].final /\ NextBlock(a, 2 * j) = 2 * j + 2,
         a[2 * m].final
  PROVE  Meaning(a)[2] = [error |-> "Ok", output |-> Bytes(ends[0], ends[m])]
<1> DEFINE Decodes(j) == /\ Meaning(a)[2 * j] = [error |-> "Ok", output |-> Bytes(ends[j - 1], ends[m])]
                         /\ ends[j - 1] <= ends[m]
           S == {i \in Nat : i < m => Decodes(m - i)}
<1>1. ASSUME NEW j \in 1 .. m PROVE Meaning(a)[2 * j] = MeaningStep(a, Meaning(a), 2 * j)
  BY MeaningRecursion
<1>2. 0 \in S
  <2>1. /\ a[2 * m].final /\ WholeBlock(a, 2 * m) /\ ends[m - 1] <= ends[m]
        /\ BlockOutput(a, 2 * m) = Bytes(ends[m - 1], ends[m])
    OBVIOUS
  <2>2. Meaning(a)[2 * m] = MeaningStep(a, Meaning(a), 2 * m)
    BY <1>1
  <2>3. Meaning(a)[2 * m] = [error |-> "Ok", output |-> BlockOutput(a, 2 * m)]
    BY <2>1, <2>2, Zenon DEF MeaningStep
  <2>4. Decodes(m)
    BY <2>1, <2>3
  <2> QED
    <3> HIDE DEF Decodes
    <3> QED
      BY <2>4
<1>3. ASSUME NEW i \in Nat, i \in S PROVE i + 1 \in S
  <2> SUFFICES ASSUME i + 1 < m PROVE Decodes(m - (i + 1))
    OBVIOUS
  <2> DEFINE j == m - (i + 1)
  <2>1. j \in 1 .. m /\ j < m /\ j + 1 = m - i /\ j + 1 \in 1 .. m /\ 2 * (j + 1) = 2 * j + 2
    OBVIOUS
  <2>2. Decodes(j + 1)
    <3>1. i < m
      OBVIOUS
    <3> HIDE DEF Decodes, j
    <3> QED
      BY <1>3, <2>1, <3>1
  <2> HIDE DEF j
  <2> DEFINE p == ends[j - 1]
             q == ends[j]
             r == ends[m]
  <2>3. /\ ~a[2 * j].final /\ WholeBlock(a, 2 * j) /\ BlockOutput(a, 2 * j) = Bytes(p, q)
        /\ p <= q /\ NextBlock(a, 2 * j) = 2 * (j + 1)
        /\ p \in Nat /\ q \in Nat /\ r \in Nat
    <3>1. /\ ~a[2 * j].final /\ WholeBlock(a, 2 * j) /\ BlockOutput(a, 2 * j) = Bytes(ends[j - 1], ends[j])
          /\ ends[j - 1] <= ends[j] /\ NextBlock(a, 2 * j) = 2 * j + 2
      BY <2>1, Zenon
    <3>2. j - 1 \in 0 .. m /\ j \in 0 .. m /\ m \in 0 .. m
      BY <2>1
    <3> QED
      BY <2>1, <3>1, <3>2
  <2>4. Meaning(a)[2 * (j + 1)] = [error |-> "Ok", output |-> Bytes(q, r)] /\ q <= r
    BY <2>1, <2>2
  <2>5. Meaning(a)[2 * j] = MeaningStep(a, Meaning(a), 2 * j)
    BY <1>1, <2>1
  <2>6. Meaning(a)[2 * j] = [error |-> "Ok", output |-> Bytes(p, r)] /\ p <= r
    <3> HIDE DEF p, q, r
    <3>1. p <= r
      BY <2>3, <2>4
    <3>2. Bytes(p, q) \o Bytes(q, r) = Bytes(p, r)
      BY <2>3, <2>4, BytesJoin
    <3>3. /\ Meaning(a)[2 * (j + 1)].error = "Ok"
          /\ Meaning(a)[2 * (j + 1)].output = Bytes(q, r)
      BY <2>4
    <3>4. Meaning(a)[2 * j] = [error |-> "Ok", output |-> Bytes(p, r)]
      BY <2>3, <2>5, <3>2, <3>3, Zenon DEF MeaningStep
    <3> QED
      BY <3>1, <3>4
  <2> QED
    BY <2>6 DEF j
<1>4. m - 1 \in S
  <2> HIDE DEF Decodes
  <2>1. Nat \subseteq S
    BY <1>2, <1>3, Induction
  <2> QED
    BY <2>1
<1>5. Decodes(1)
  BY <1>4
<1> QED
  BY <1>5
LEMMA BlockIsWhole ==
  ASSUME NEW w, Len(w) \in Nat, NEW m \in Nat, NEW ends \in [0 .. m -> Nat], Archive(w, m, ends),
         NEW j \in 1 .. m
  PROVE  /\ WholeBlock(w, 2 * j)
         /\ BlockOutput(w, 2 * j) = Bytes(ends[j - 1], ends[j])
         /\ ends[j - 1] <= ends[j]
         /\ ~w[2 * j].final => NextBlock(w, 2 * j) = 2 * j + 2
<1> DEFINE p == ends[j - 1]
           q == ends[j]
           b == w[2 * j]
<1>1. p \in Nat /\ q \in Nat
  OBVIOUS
<1>2. BlockAt(w, j, p, q) /\ w[1].blockSize = BlockSize
  BY DEF Archive
<1> HIDE DEF p, q
<1>3. p <= q /\ b.original = q - p /\ b.original <= BlockSize /\ b.crc = Bytes(p, q)
  BY <1>2 DEF BlockAt
<1>4. Len(Bytes(p, q)) = q - p /\ Bytes(p, q) \in Seq(Nat)
  BY <1>1, <1>3, BytesAre
<1>5. CASE b.stored = 0
  <2>1. p = q /\ b.final /\ Len(w) = 2 * j
    BY <1>2, <1>3, <1>5 DEF BlockAt
  <2>2. Bytes(p, q) = <<>>
    BY <1>1, <1>4, <2>1
  <2>3. BlockOutput(w, 2 * j) = Bytes(p, q) /\ NextBlock(w, 2 * j) = 2 * j + 1
    BY <1>5, <2>2 DEF BlockOutput, NextBlock
  <2>4. InBounds(w[1], b)
    BY <1>1, <1>2, <1>3, <1>5, <2>1 DEF InBounds, BlockAt
  <2>5. WholeBlock(w, 2 * j)
    BY <1>3, <1>4, <2>1, <2>3, <2>4 DEF WholeBlock, Intact
  <2> QED
    BY <1>3, <2>1, <2>3, <2>5 DEF p, q
<1>6. CASE b.stored # 0
  <2>1. b.stored \in 1 .. q - p /\ Len(w) > 2 * j /\ w[2 * j + 1].bytes = Bytes(p, q)
    BY <1>2, <1>6 DEF BlockAt
  <2>2. BlockOutput(w, 2 * j) = Bytes(p, q) /\ NextBlock(w, 2 * j) = 2 * j + 2
    BY <1>6, <2>1 DEF BlockOutput, NextBlock
  <2>3. InBounds(w[1], b)
    BY <1>1, <1>2, <1>3, <2>1 DEF InBounds, BlockAt
  <2>4. WholeBlock(w, 2 * j)
    BY <1>3, <1>4, <2>1, <2>2, <2>3, SMTT(30) DEF WholeBlock, Intact
  <2> QED
    BY <1>3, <2>2, <2>4 DEF p, q
<1> QED
  BY <1>5, <1>6

LEMMA ArchiveDecodes ==
  ASSUME NEW w, Len(w) \in Nat, NEW m \in Nat \ {0}, NEW ends \in [0 .. m -> Nat], Archive(w, m, ends),
         Len(w) \in {2 * m, 2 * m + 1}, w[2 * m].final,
         \A j \in 1 .. m - 1 : ~w[2 * j].final,
         w[1].known => w[1].size = ends[m]
  PROVE  Decode(w) = [error |-> "Ok", output |-> Bytes(0, ends[m])] /\ FinalIsLast(w)
<1>1. Meaning(w)[2] = [error |-> "Ok", output |-> Bytes(0, ends[m])]
  <2>1. ASSUME NEW j \in 1 .. m
        PROVE  /\ WholeBlock(w, 2 * j)
               /\ ends[j - 1] <= ends[j]
               /\ BlockOutput(w, 2 * j) = Bytes(ends[j - 1], ends[j])
               /\ j < m => ~w[2 * j].final /\ NextBlock(w, 2 * j) = 2 * j + 2
    <3>1. /\ WholeBlock(w, 2 * j)
          /\ BlockOutput(w, 2 * j) = Bytes(ends[j - 1], ends[j])
          /\ ends[j - 1] <= ends[j]
          /\ ~w[2 * j].final => NextBlock(w, 2 * j) = 2 * j + 2
      BY BlockIsWhole
    <3>2. j < m => ~w[2 * j].final
      OBVIOUS
    <3> QED
      BY <3>1, <3>2
  <2>2. Len(w) >= 2 * m
    OBVIOUS
  <2>3. Meaning(w)[2] = [error |-> "Ok", output |-> Bytes(ends[0], ends[m])]
    BY <2>1, <2>2, ChainMeaning
  <2> QED
    BY <2>3 DEF Archive
<1>2. Decode(w) = Meaning(w)[2]
  <2>1. w # <<>> /\ w[1].check = "Ok" /\ w[1].blockSize # 0
    BY SizesAssumption DEF Archive
  <2>2. w[1].known => Len(Meaning(w)[2].output) = w[1].size
    <3>1. Len(Bytes(0, ends[m])) = ends[m]
      <4> DEFINE n == ends[m]
      <4>1. n \in Nat /\ 0 <= n /\ n - 0 = n
        OBVIOUS
      <4> HIDE DEF n
      <4>2. Len(Bytes(0, n)) = n
        BY <4>1, BytesAre
      <4> QED
        BY <4>2 DEF n
    <3> QED
      BY <1>1, <3>1 DEF Archive
  <2> QED
    BY <2>1, <2>2 DEF Decode
<1>3. FinalIsLast(w)
  <2> SUFFICES ASSUME NEW i \in 1 .. Len(w), NEW k \in 1 .. Len(w), i < k,
                      w[i].type = "block", w[k].type = "block", w[i].final
               PROVE  FALSE
    BY DEF FinalIsLast
  <2>1. ASSUME NEW x \in 1 .. Len(w), w[x].type = "block" PROVE \E j \in 1 .. m : x = 2 * j
    <3>1. x # 1
      BY <2>1 DEF Archive
    <3>2. ASSUME NEW j \in 1 .. m, x = 2 * j + 1 PROVE FALSE
      <4>1. BlockAt(w, j, ends[j - 1], ends[j]) /\ Len(w) >= 2 * j + 1
        BY <3>2 DEF Archive
      <4> QED
        BY <2>1, <3>2, <4>1, SMTT(30) DEF BlockAt
    <3>3. \E j \in 1 .. m : x = 2 * j \/ x = 2 * j + 1
      <4>1. x \in 2 .. 2 * m + 1
        BY <3>1
      <4>2. x \div 2 \in 1 .. m /\ (x = 2 * (x \div 2) \/ x = 2 * (x \div 2) + 1)
        BY <4>1
      <4> QED
        BY <4>2
    <3> QED
      BY <3>2, <3>3
  <2>2. PICK j \in 1 .. m : i = 2 * j
    BY <2>1
  <2>3. PICK l \in 1 .. m : k = 2 * l
    BY <2>1
  <2> QED
    BY <2>2, <2>3
<1> QED
  BY <1>1, <1>2, <1>3

(* The file grew while it was read: it has more than it had at open.       *)
Grew == source.kind = "file" /\ source.pos > source.size

(* The source says that it is at its end, or said so of what it had then.  *)
AtEnd == IF source.kind = "file" THEN source.pos >= source.size
         ELSE source.kind # "stream" /\ source.pos >= source.length

Between  == {"report", "checkCancel", "read", "finalBlock", "writeFinal"}
Holding  == {"encode", "checkEof", "writeBlock", "writePayload"}
Complete == {"lastCheck", "commit", "done", "ended"}

SourceInv ==
  /\ source.kind # "stream" => source.known
  /\ source.kind = "file" => source.size <= source.length
  /\ source.kind = "stream" /\ pc \in Setup \cup Loop => ~source.ended
  /\ pc \in Setup => source.pos = 0 /\ ~lastFinal /\ WrittenTo(sink) = <<>>
  /\ pc \notin Setup \cup {"done", "ended"} => sink.bytes > 0
  /\ pc \in Holding => block = Bytes(source.pos - Len(block), source.pos)
  /\ pc \in {"checkEof", "writeBlock", "writePayload"} => stored \in 1 .. Len(block)
  /\ lastFinal => AtEnd
  /\ pc = "writeFinal" => ~lastFinal

(* What the run has written of its archive, or published of it. *)
archive == IF pc \in {"done", "ended"} THEN sink.out ELSE WrittenTo(sink)

(* How far it is: a block that is not the last is final only if the file   *)
(* has grown since.                                                        *)
Stage(w, m, ends) ==
  /\ w[1].known = source.known
  /\ w[1].size = source.size
  /\ \A j \in 1 .. m : w[2 * j].final => Grew \/ (j = m /\ pc \notin Holding)
  /\ pc \in Between => /\ ends[m] = source.pos
                       /\ Len(w) = 2 * m + 1
                       /\ m = 0 => ~lastFinal
                       /\ m > 0 => w[2 * m].final = lastFinal
  /\ pc \in Holding => /\ ends[m] = source.pos - Len(block)
                       /\ Len(w) = IF pc = "writePayload" THEN 2 * m + 2 ELSE 2 * m + 1
                       /\ pc = "writePayload" => w[2 * m + 2] = TheBlock
  /\ pc \in Complete => /\ m > 0
                        /\ ends[m] = source.pos
                        /\ w[2 * m].final
                        /\ Len(w) \in {2 * m, 2 * m + 1}

ArchiveInv ==
  pc \notin Setup /\ (pc = "ended" => result.error = "Ok") =>
    \E m \in Nat : \E ends \in [0 .. m -> Nat] : Archive(archive, m, ends) /\ Stage(archive, m, ends)

LEMMA SourceIs ==
  ASSUME TypeInv
  PROVE  /\ source.kind \in SourceKinds
         /\ source.length \in Nat /\ source.pos \in Nat /\ source.size \in Nat
         /\ source.pos <= source.length
         /\ source.known \in BOOLEAN /\ source.ended \in BOOLEAN
BY SizesAssumption DEF TypeInv, Source

LEMMA InitArchive == ASSUME Init PROVE SourceInv /\ ArchiveInv
<1>1. pc = "start" /\ lastFinal = FALSE
  BY DEF Init
<1>2. WrittenTo(sink) = <<>>
  <2>1. PICK k \in Kinds : sink = NewSink(k)
    BY DEF Init
  <2> QED
    BY <2>1, NewSinkIs DEF WrittenTo, AtRest, Item
<1>3. PICK k \in SourceKinds, n \in 0 .. MaxInput : source \in NewSource(k, n)
  BY DEF Init
<1>4. source.pos = 0 /\ source.ended = FALSE
  BY <1>3 DEF NewSource
<1>5. (source.kind # "stream" => source.known) /\ (source.kind = "file" => source.size <= source.length)
  <2>1. CASE k = "stream"
    BY <1>3, <2>1 DEF NewSource
  <2>2. CASE k # "stream"
    <3>1. source \in [kind : {k}, length : {n}, pos : {0}, ended : {FALSE}, known : {TRUE}, size : {n}]
      BY <1>3, <2>2 DEF NewSource
    <3>2. source.known = TRUE
      BY <3>1
    <3>3. source.size = n /\ source.length = n /\ n <= n
      BY <3>1, SizesAssumption
    <3> QED
      BY <3>2, <3>3
  <2> QED
    BY <2>1, <2>2
<1> QED
  BY <1>1, <1>2, <1>4, <1>5 DEF SourceInv, ArchiveInv, Setup, Holding
LEMMA NextSourceInv == ASSUME TypeInv, TypeInv', SinkInv, SourceInv, [Next]_vars PROVE SourceInv'
<1> USE SizesAssumption
<1>0. /\ TheHeader \in Item /\ TheBlock \in Item /\ LastBlock \in Item
      /\ DataItem(block, stored) \in Item /\ stored \in Nat
  BY ItemsAre DEF Item, Records
<1>1. CASE Ends
  BY <1>1 DEF Ends, EndsWith, SourceInv, AtEnd, Setup, Loop, Holding, locals
<1>2. CASE Starts \/ Allocates \/ Looks \/ LooksLast \/ Reaches
  <2>1. /\ pc' \in {"openSource", "writeHeader", "read", "commit", "lastCheck", "writeFinal"}
        /\ pc' \in Setup => pc \in Setup
        /\ pc' \in Loop => pc \in Loop
        /\ pc' \notin Setup => pc \notin Setup \cup {"done", "ended"}
        /\ pc' = "writeFinal" => ~lastFinal
        /\ UNCHANGED <<source, sink, locals>>
    BY <1>2 DEF Starts, Allocates, Looks, LooksLast, Reaches, Goes, Quiet, Setup, Loop
  <2> QED
    BY <2>1 DEF SourceInv, AtEnd, Holding, locals, WrittenTo, IsTransactional
<1>3. CASE Opens
  <2>1. /\ source'.kind = source.kind /\ source'.known = source.known /\ source'.ended = source.ended
        /\ source'.pos = source.pos /\ source'.length = source.length
        /\ source'.kind = "file" => source'.size = source.length
        /\ pc = "openSource" /\ pc' = "openSink" /\ UNCHANGED <<sink, locals>>
    BY <1>3 DEF Opens, Goes, Quiet, TypeInv, Source
  <2> QED
    BY <2>1, SourceIs DEF SourceInv, AtEnd, Holding, Setup, Loop, locals, WrittenTo, IsTransactional
<1>4. CASE OpensSink
  <2>1. WrittenTo(sink') = <<>>
    BY <1>4, OpenSinkIs DEF OpensSink, Goes, SourceInv, Setup, TypeInv, WrittenTo, IsTransactional
  <2> QED
    BY <1>4, <2>1 DEF OpensSink, Goes, SourceInv, AtEnd, Holding, Setup, Loop, locals
<1>5. ASSUME NEW item \in Item, NEW size \in Nat, sink' = WriteSink(sink, item, size),
             sink.bytes > 0 \/ size > 0
      PROVE  sink'.bytes > 0
  <2>1. sink.bytes \in Nat
    BY DEF TypeInv, SinkOf
  <2>2. sink'.bytes = sink.bytes + size
    BY <1>5, WriteSinkTypes
  <2> QED
    BY <1>5, <2>1, <2>2
<1>6. CASE WritesHeader \/ WritesBlock \/ WritesPayload
  <2>1. sink'.bytes > 0
    BY <1>0, <1>5, <1>6 DEF WritesHeader, WritesBlock, WritesPayload, Writes, Goes, SourceInv, Setup
  <2>2. /\ pc' \notin Setup /\ pc' \notin {"encode", "checkEof", "writeBlock", "writeFinal"}
        /\ pc \in Setup \cup Loop
        /\ pc' = "writePayload" => pc = "writeBlock"
        /\ UNCHANGED <<source, locals>>
    BY <1>6 DEF WritesHeader, WritesBlock, WritesPayload, Writes, Goes, Setup, Loop
  <2> QED
    BY <2>1, <2>2 DEF SourceInv, AtEnd, Holding, locals
<1>7. CASE WritesLast
  <2>1. sink'.bytes > 0
    BY <1>0, <1>5, <1>7 DEF WritesLast, Goes, SourceInv, Setup
  <2> QED
    BY <1>7, <2>1 DEF WritesLast, Goes, SourceInv, AtEnd, Holding, Setup, Loop, locals
<1>8. ASSUME NEW n \in Nat, ReadsBytes(n) PROVE SourceInv'
  <2>1. /\ source'.kind = source.kind /\ source'.known = source.known /\ source'.size = source.size
        /\ source'.length = source.length /\ source'.pos = source.pos + n
        /\ source'.ended = (source.ended \/ n = 0)
    BY <1>8 DEF ReadsBytes, TypeInv, Source
  <2>2. /\ pc = "read" /\ pc' = IF n = 0 THEN "finalBlock" ELSE "encode"
        /\ UNCHANGED <<sink, stored, lastFinal>>
    BY <1>8 DEF ReadsBytes, Goes
  <2>3. n # 0 => source'.ended = source.ended
    BY <2>1, SourceIs
  <2>4. n # 0 => block' = Bytes(source'.pos - Len(block'), source'.pos)
    <3> DEFINE p == source.pos
               q == source'.pos
    <3>1. block' = Bytes(p, q)
      BY <1>8 DEF ReadsBytes
    <3>2. p \in Nat /\ q \in Nat /\ q = p + n /\ p <= q
      BY <2>1, SourceIs
    <3> HIDE DEF p, q
    <3>3. Len(block') = n /\ q - n = p
      BY <3>1, <3>2, BytesAre
    <3> QED
      BY <3>1, <3>3 DEF p, q
  <2>5. AtEnd => AtEnd'
    BY <2>1, SourceIs DEF AtEnd
  <2> QED
    BY <2>1, <2>2, <2>3, <2>4, <2>5 DEF SourceInv, Holding, Setup, Loop
<1>9. CASE Encodes
  BY <1>9 DEF Encodes, Goes, Quiet, SourceInv, AtEnd, Holding, Setup, Loop
<1>10. CASE CheckEof
  <2>1. pc = "checkEof" /\ pc' = "writeBlock" /\ UNCHANGED <<source, sink, block, stored>> /\ lastFinal' = Eof
    BY <1>10 DEF CheckEof, Goto
  <2>2. Eof => AtEnd
    BY <2>1, SourceIs DEF Eof, AtEnd, SourceInv, Loop
  <2>3. lastFinal' => AtEnd'
    BY <2>1, <2>2 DEF AtEnd
  <2> QED
    BY <2>1, <2>3 DEF SourceInv, Holding, Setup, Loop
<1>11. CASE ReportBlock
  BY <1>11 DEF ReportBlock, Goto, SourceInv, AtEnd, Holding, Setup, Loop, locals
<1>12. CASE Commits \/ Finish
  <2>1. pc' \in {"done", "ended"} /\ UNCHANGED <<source, locals>>
    BY <1>12 DEF Commits, Finish, Goes
  <2> QED
    BY <2>1 DEF SourceInv, AtEnd, Holding, Setup, Loop, locals
<1>13. CASE Cancel \/ UNCHANGED vars
  BY <1>13 DEF Cancel, vars, SourceInv, AtEnd, locals, WrittenTo, IsTransactional
<1>14. CASE Grow
  <2>1. /\ source.kind = "file" /\ source'.length = source.length + 1
        /\ source'.kind = source.kind /\ source'.known = source.known /\ source'.size = source.size
        /\ source'.pos = source.pos /\ source'.ended = source.ended
        /\ UNCHANGED <<pc, sink, locals>>
    BY <1>14 DEF Grow, TypeInv, Source
  <2> QED
    BY <2>1, SourceIs DEF SourceInv, AtEnd, locals, WrittenTo, IsTransactional
<1> QED
  BY <1>1, <1>2, <1>3, <1>4, <1>6, <1>7, <1>8, <1>9, <1>10, <1>11, <1>12, <1>13, <1>14,
     RunEndsOrProceeds
  DEF Next, Proceeds
(* One more item, one more block. *)
LEMMA ArchiveGrows ==
  ASSUME NEW w \in Seq(Item), NEW x \in Item, NEW m \in Nat, NEW ends \in [0 .. m -> Nat],
         Archive(w, m, ends), Len(w) > 2 * m
  PROVE  Archive(Append(w, x), m, ends)
<1> DEFINE v == Append(w, x)
<1>1. Len(v) = Len(w) + 1 /\ (\A i \in 1 .. Len(w) : v[i] = w[i]) /\ Len(w) \in Nat
  OBVIOUS
<1> HIDE DEF v
<1>2. ASSUME NEW j \in 1 .. m PROVE BlockAt(v, j, ends[j - 1], ends[j])
  <2>1. BlockAt(w, j, ends[j - 1], ends[j])
    BY DEF Archive
  <2>2. v[2 * j] = w[2 * j] /\ Len(w) # 2 * j
    BY <1>1
  <2>3. Len(w) > 2 * j => Len(v) > 2 * j /\ v[2 * j + 1] = w[2 * j + 1]
    BY <1>1
  <2> QED
    BY <2>1, <2>2, <2>3 DEF BlockAt
<1>3. Len(v) > 0 /\ v[1] = w[1]
  BY <1>1 DEF Archive
<1> QED
  BY <1>2, <1>3 DEF Archive, v

LEMMA ArchiveBlock ==
  ASSUME NEW w, NEW m \in Nat, NEW ends \in [0 .. m -> Nat], NEW to \in Nat,
         Archive(w, m, ends), BlockAt(w, m + 1, ends[m], to)
  PROVE  \E more \in [0 .. m + 1 -> Nat] : Archive(w, m + 1, more) /\ more[m + 1] = to
<1> DEFINE more == [i \in 0 .. m + 1 |-> IF i = m + 1 THEN to ELSE ends[i]]
<1>1. more \in [0 .. m + 1 -> Nat] /\ more[m + 1] = to /\ \A i \in 0 .. m : more[i] = ends[i]
  OBVIOUS
<1> HIDE DEF more
<1>2. ASSUME NEW j \in 1 .. m + 1 PROVE BlockAt(w, j, more[j - 1], more[j])
  <2>1. CASE j = m + 1
    BY <1>1, <2>1
  <2>2. CASE j # m + 1
    <3>1. j \in 1 .. m /\ more[j - 1] = ends[j - 1] /\ more[j] = ends[j]
      BY <1>1, <2>2
    <3> QED
      BY <3>1 DEF Archive
  <2> QED
    BY <2>1, <2>2
<1>3. Archive(w, m + 1, more)
  BY <1>1, <1>2 DEF Archive
<1> QED
  BY <1>1, <1>3

(* The step of a stage: how the proof of ArchiveInv' is put together. *)
LEMMA NextStage ==
  ASSUME NEW m \in Nat, NEW ends \in [0 .. m -> Nat], Archive(archive', m, ends), Stage(archive, m, ends)'
  PROVE  ArchiveInv'
BY DEF ArchiveInv
LEMMA NextArchiveInv ==
  ASSUME TypeInv, TypeInv', SinkInv, SourceInv, SourceInv', ArchiveInv, [Next]_vars
  PROVE  ArchiveInv'
<1> USE SizesAssumption
<1>0. /\ TheHeader \in Item /\ TheBlock \in Item /\ LastBlock \in Item
      /\ DataItem(block, stored) \in Item /\ stored \in Nat
      /\ WrittenTo(sink) \in Seq(Item)
  BY ItemsAre DEF Item, Records, TypeInv, SinkOf, WrittenTo
<1>1. CASE Ends
  <2>1. pc' = "ended" /\ result'.error # "Ok"
    BY <1>1 DEF Ends, EndsWith, TypeInv, Result, Failures
  <2> QED
    BY <2>1 DEF ArchiveInv
<1>2. CASE Starts \/ Opens \/ OpensSink \/ Allocates
  BY <1>2 DEF Starts, Opens, OpensSink, Allocates, Goes, ArchiveInv, Setup
<1>3. CASE WritesHeader
  <2> DEFINE ends == [i \in 0 .. 0 |-> 0]
  <2>1. WrittenTo(sink) = <<>> /\ WrittenTo(sink') = Append(WrittenTo(sink), TheHeader)
    <3>1. pc = "writeHeader" /\ sink' = WriteSink(sink, TheHeader, HeaderSize)
      BY <1>3 DEF WritesHeader, Writes, Goes
    <3>2. WrittenTo(sink') = Append(WrittenTo(sink), TheHeader)
      BY <1>0, <3>1, WriteSinkTypes
    <3> QED
      BY <3>1, <3>2 DEF SourceInv, Setup
  <2>2. pc' = "checkCancel" /\ source' = source /\ lastFinal' = lastFinal /\ ~lastFinal /\ source.pos = 0
    BY <1>3 DEF WritesHeader, Writes, Goes, SourceInv, Setup, locals
  <2>3. archive' = <<TheHeader>>
    BY <2>1, <2>2 DEF archive
  <2>4. ends \in [0 .. 0 -> Nat] /\ ends[0] = 0
    OBVIOUS
  <2> HIDE DEF ends
  <2>5. Len(archive') = 1 /\ archive'[1] = TheHeader
    BY <2>3
  <2>6. Archive(archive', 0, ends)
    BY <2>4, <2>5 DEF Archive, TheHeader, HeaderItem
  <2>7. Stage(archive, 0, ends)'
    BY <2>2, <2>4, <2>5 DEF Stage, Holding, Between, Complete, TheHeader, HeaderItem
  <2> QED
    BY <2>4, <2>6, <2>7, NextStage
<1>4. ASSUME pc \notin Setup \cup {"ended"}
      PROVE  \E m \in Nat : \E ends \in [0 .. m -> Nat] : Archive(archive, m, ends) /\ Stage(archive, m, ends)
  BY <1>4 DEF ArchiveInv
<1>5. CASE pc \in Setup \cup {"ended"} /\ (Cancel \/ Grow \/ UNCHANGED vars)
  <2>1. CASE Cancel \/ Grow
    BY <1>5, <2>1 DEF Cancel, Grow, ArchiveInv
  <2>2. CASE UNCHANGED vars
    <3>1. /\ UNCHANGED <<source, block, stored, lastFinal, result, pc>>
          /\ archive' = archive
      BY <2>2 DEF vars, locals, archive, WrittenTo, IsTransactional
    <3>2. \A w, m, ends : Stage(w, m, ends) => Stage(w, m, ends)'
      BY <3>1 DEF Stage, Grew, TheBlock
    <3>3. \A m, ends : Stage(archive, m, ends) => Stage(archive, m, ends)'
      BY <3>1, <3>2
    <3> QED
      BY <3>1, <3>3 DEF ArchiveInv
  <2> QED
    BY <1>5, <2>1, <2>2
<1>6. SUFFICES ASSUME pc \notin Setup \cup {"ended"},
                      NEW m \in Nat, NEW ends \in [0 .. m -> Nat],
                      Archive(archive, m, ends), Stage(archive, m, ends),
                      \/ Looks \/ (\E n \in Nat : ReadsBytes(n)) \/ Encodes \/ CheckEof \/ WritesBlock
                      \/ WritesPayload \/ ReportBlock \/ Reaches \/ WritesLast \/ LooksLast \/ Commits
                      \/ Finish \/ Cancel \/ Grow \/ UNCHANGED vars
               PROVE  ArchiveInv'
  <2>1. CASE Ends \/ Starts \/ Opens \/ OpensSink \/ Allocates \/ WritesHeader
    BY <1>1, <1>2, <1>3, <2>1
  <2>2. pc \in Setup \cup {"ended"} => \/ Ends \/ Starts \/ Opens \/ OpensSink \/ Allocates
                                       \/ WritesHeader \/ Cancel \/ Grow \/ UNCHANGED vars
    <3>1. Proceeds /\ pc \in Setup \cup {"ended"} =>
            Starts \/ Opens \/ OpensSink \/ Allocates \/ WritesHeader
      BY DEF Proceeds, Looks, ReadsBytes, Encodes, CheckEof, WritesBlock, WritesPayload, Writes,
         ReportBlock, Reaches, WritesLast, LooksLast, Commits, Finish, Goes, Goto, Setup
    <3> QED
      BY <3>1, RunEndsOrProceeds DEF Next
  <2> QED
    BY <1>4, <1>5, <2>1, <2>2, RunEndsOrProceeds DEF Next, Proceeds
<1> DEFINE w == archive
<1>7. Archive(w, m, ends) /\ Stage(w, m, ends) /\ (pc # "done" => w = WrittenTo(sink)) /\ (pc = "done" => w = sink.out)
  BY <1>6 DEF archive
<1>8. ASSUME archive' = w, Stage(archive, m, ends)' PROVE ArchiveInv'
  BY <1>6, <1>8, NextStage
<1>9. ASSUME UNCHANGED sink, pc' \in {"done", "ended"} <=> pc \in {"done", "ended"} PROVE archive' = w
  BY <1>9 DEF archive, WrittenTo, IsTransactional
<1>10. w \in Seq(Item)
  BY <1>0, <1>7 DEF TypeInv, SinkOf
<1>11. archive' = w => w' = w
  OBVIOUS
<1> HIDE DEF w
<1>12. ASSUME w' = w, Stage(w, m, ends)' PROVE ArchiveInv'
  BY <1>8, <1>12 DEF w
<1>13. CASE Looks \/ ReportBlock \/ LooksLast \/ Encodes \/ Reaches
  <2>1. /\ UNCHANGED <<source, sink, block, lastFinal>>
        /\ pc' \notin {"done", "ended"} /\ pc \notin {"done", "ended"}
    BY <1>13 DEF Looks, ReportBlock, LooksLast, Encodes, Reaches, Goes, Goto, Quiet, locals
  <2>2. w' = w
    BY <1>9, <1>11, <2>1
  <2>3. \/ pc \in Between /\ pc' \in Between
        \/ pc = "encode" /\ pc' = "checkEof"
        \/ pc = "lastCheck" /\ pc' = "commit"
        \/ pc = "finalBlock" /\ pc' = "lastCheck" /\ lastFinal
    BY <1>13 DEF Looks, ReportBlock, LooksLast, Encodes, Reaches, Goes, Goto, Between
  <2>4. /\ w'[1] = w[1] /\ Len(w') = Len(w)
        /\ \A j \in 1 .. m : w'[2 * j] = w[2 * j]
        /\ Grew' = Grew
    BY <2>1, <2>2 DEF Grew
  <2>5. Stage(w, m, ends)'
    <3>1. CASE pc \in Between /\ pc' \in Between
      BY <1>7, <2>1, <2>4, <3>1 DEF Stage, Holding, Between, Complete
    <3>2. CASE pc = "encode" /\ pc' = "checkEof"
      BY <1>7, <2>1, <2>4, <3>2 DEF Stage, Holding, Between, Complete
    <3>3. CASE \/ pc = "lastCheck" /\ pc' = "commit"
               \/ pc = "finalBlock" /\ pc' = "lastCheck" /\ lastFinal
      BY <1>7, <2>1, <2>4, <3>3 DEF Stage, Holding, Between, Complete
    <3> QED
      BY <2>3, <3>1, <3>2, <3>3
  <2> QED
    BY <1>12, <2>2, <2>5
<1>14. CASE Cancel \/ UNCHANGED vars
  <2>1. UNCHANGED <<source, sink, block, stored, lastFinal, pc>>
    BY <1>14 DEF Cancel, vars, locals
  <2>2. w' = w
    BY <1>9, <1>11, <2>1
  <2>3. Stage(w, m, ends)'
    BY <1>7, <2>1, <2>2 DEF Stage, Grew, TheBlock
  <2> QED
    BY <1>12, <2>2, <2>3
<1>15. CASE Grow
  <2>1. /\ UNCHANGED <<sink, block, stored, lastFinal, pc>>
        /\ source'.kind = source.kind /\ source'.known = source.known /\ source'.size = source.size
        /\ source'.pos = source.pos
    BY <1>15 DEF Grow, locals, TypeInv, Source
  <2>2. w' = w
    BY <1>9, <1>11, <2>1
  <2>3. Stage(w, m, ends)'
    BY <1>7, <2>1, <2>2 DEF Stage, Grew, TheBlock
  <2> QED
    BY <1>12, <2>2, <2>3
<1>16. ASSUME NEW n \in Nat, ReadsBytes(n) PROVE ArchiveInv'
  <2>1. /\ source'.kind = source.kind /\ source'.known = source.known /\ source'.size = source.size
        /\ source'.pos = source.pos + n
    BY <1>16 DEF ReadsBytes, TypeInv, Source
  <2>2. /\ pc = "read" /\ pc' = IF n = 0 THEN "finalBlock" ELSE "encode"
        /\ UNCHANGED <<sink, stored, lastFinal>> /\ n \in ReadCounts
    BY <1>16 DEF ReadsBytes, Goes
  <2>3. w' = w
    BY <1>9, <1>11, <2>2
  <2>4. Len(block') = n
    <3> DEFINE p == source.pos
               q == source'.pos
    <3>1. block' = Bytes(p, q)
      BY <1>16 DEF ReadsBytes
    <3>2. p \in Nat /\ q \in Nat /\ q - p = n /\ p <= q
      BY <2>1, SourceIs
    <3> HIDE DEF p, q
    <3> QED
      BY <3>1, <3>2, BytesAre
  <2>5. n # 0 /\ lastFinal => Grew'
    <3>1. lastFinal => AtEnd
      BY DEF SourceInv
    <3>2. source.kind # "stream" /\ source.kind # "file" /\ source.pos >= source.length => n = 0
      BY <2>2, SourceIs DEF ReadCounts, Left, Least, SourceKinds
    <3> QED
      BY <2>1, <3>1, <3>2, SourceIs DEF AtEnd, Grew
  <2>6. Grew => Grew'
    BY <2>1, SourceIs DEF Grew
  <2>7. Stage(w, m, ends)'
    <3>1. CASE n = 0
      <4>1. source'.pos = source.pos /\ pc' = "finalBlock"
        BY <2>1, <2>2, <3>1, SourceIs
      <4> QED
        BY <1>7, <2>1, <2>2, <2>3, <2>6, <4>1 DEF Stage, Holding, Between, Complete
    <3>2. CASE n # 0
      <4>1. pc' = "encode" /\ source'.pos - Len(block') = source.pos
        BY <2>1, <2>2, <2>4, <3>2, SourceIs
      <4>2. \A j \in 1 .. m : w[2 * j].final => Grew'
        BY <1>7, <2>2, <2>5, <2>6, <3>2, SMTT(30) DEF Stage, Holding, Between
      <4>3. ends[m] = source.pos /\ Len(w) = 2 * m + 1
        BY <1>7, <2>2 DEF Stage, Between
      <4> QED
        BY <1>7, <2>1, <2>2, <2>3, <4>1, <4>2, <4>3 DEF Stage, Holding, Between, Complete
    <3> QED
      BY <3>1, <3>2
  <2> QED
    BY <1>12, <2>3, <2>7
<1>17. CASE CheckEof
  <2>1. pc = "checkEof" /\ pc' = "writeBlock" /\ UNCHANGED <<source, sink, block, stored>>
    BY <1>17 DEF CheckEof, Goto
  <2>2. w' = w
    BY <1>9, <1>11, <2>1
  <2>3. Stage(w, m, ends)'
    BY <1>7, <2>1, <2>2 DEF Stage, Holding, Between, Complete, Grew
  <2> QED
    BY <1>12, <2>2, <2>3
<1>18. CASE WritesBlock
  <2>1. pc = "writeBlock" /\ pc' = "writePayload" /\ UNCHANGED <<source, block, stored, lastFinal>>
    BY <1>18 DEF WritesBlock, Writes, Goes, locals
  <2>2. archive' = Append(w, TheBlock)
    BY <1>0, <1>7, <1>18, <2>1, SizesAssumption, WriteSinkTypes DEF WritesBlock, Writes, archive
  <2>3. /\ Len(w) = 2 * m + 1 /\ ends[m] = source.pos - Len(block)
        /\ \A j \in 1 .. m : w[2 * j].final => Grew
        /\ w[1].known = source.known /\ w[1].size = source.size
    BY <1>7, <2>1 DEF Stage, Holding
  <2> DEFINE v == archive
  <2>4. /\ Len(v') = 2 * m + 2 /\ v'[2 * m + 2] = TheBlock
        /\ \A i \in 1 .. 2 * m + 1 : v'[i] = w[i]
    BY <1>0, <1>10, <2>2, <2>3
  <2>5. Archive(v', m, ends)
    <3>1. Len(w) > 2 * m
      BY <1>6, <2>3
    <3>2. Archive(Append(w, TheBlock), m, ends)
      BY <1>0, <1>6, <1>7, <1>10, <3>1, ArchiveGrows
    <3> QED
      BY <2>2, <3>2
  <2> HIDE DEF v
  <2>6. Stage(v, m, ends)'
    <3>1. TheBlock' = TheBlock /\ Grew' = Grew
      BY <2>1 DEF TheBlock, Grew
    <3>2. v'[1] = w[1] /\ \A j \in 1 .. m : v'[2 * j] = w[2 * j]
      BY <2>4
    <3> QED
      BY <2>1, <2>3, <2>4, <3>1, <3>2 DEF Stage, Holding, Between, Complete
  <2> QED
    BY <1>6, <2>5, <2>6, NextStage DEF v
<1>19. ASSUME NEW x \in Item, archive' = Append(w, x), Len(w) > 2 * m,
              NEW to \in Nat, BlockAt(archive', m + 1, ends[m], to),
              source' = source, to = source.pos,
              pc' = "report" \/ (pc' = "lastCheck" /\ archive'[2 * m + 2].final /\ Len(archive') = 2 * m + 2),
              pc' = "report" => Len(archive') = 2 * m + 3 /\ archive'[2 * m + 2].final = lastFinal',
              \A j \in 1 .. m : w[2 * j].final => Grew
       PROVE  ArchiveInv'
  <2> DEFINE v == archive
  <2>1. m \in Nat /\ ends \in [0 .. m -> Nat] /\ to \in Nat
    BY <1>6, <1>19
  <2>2. Archive(v', m, ends) /\ BlockAt(v', m + 1, ends[m], to)
    BY <1>7, <1>10, <1>19, <2>1, ArchiveGrows
  <2>3. /\ w[1].known = source.known /\ w[1].size = source.size
    BY <1>7 DEF Stage
  <2>4. v'[1] = w[1] /\ \A j \in 1 .. m : v'[2 * j] = w[2 * j]
    BY <1>10, <1>19, <2>1
  <2>5. pc' = "report" => Len(v') = 2 * m + 3 /\ v'[2 * m + 2].final = lastFinal'
    BY <1>19
  <2>6. pc' = "lastCheck" => Len(v') = 2 * m + 2 /\ v'[2 * m + 2].final
    BY <1>19
  <2> HIDE DEF v
  <2>7. PICK more \in [0 .. m + 1 -> Nat] : Archive(v', m + 1, more) /\ more[m + 1] = to
    BY <2>1, <2>2, ArchiveBlock, SMTT(30)
  <2>8. Grew' = Grew /\ source' = source /\ to = source.pos /\ pc' \in {"report", "lastCheck"}
    BY <1>19 DEF Grew
  <2>9. Stage(v, m + 1, more)'
    <3>1. 2 * (m + 1) = 2 * m + 2 /\ 2 * (m + 1) + 1 = 2 * m + 3 /\ m + 1 # 0 /\ m + 1 > 0
      BY <2>1
    <3>2. ASSUME NEW j \in 1 .. m + 1, v'[2 * j].final PROVE Grew' \/ j = m + 1
      <4>1. j # m + 1 => j \in 1 .. m
        BY <2>1
      <4> QED
        BY <1>19, <2>4, <2>8, <3>2, <4>1
    <3>3. pc' = "report" => Len(v') = 2 * (m + 1) + 1 /\ v'[2 * (m + 1)].final = lastFinal'
      BY <2>5, <3>1
    <3>4. pc' = "lastCheck" => Len(v') = 2 * (m + 1) /\ v'[2 * (m + 1)].final
      BY <2>6, <3>1
    <3>5. v'[1].known = source'.known /\ v'[1].size = source'.size /\ more[m + 1] = source'.pos
      BY <2>3, <2>4, <2>7, <2>8
    <3> HIDE DEF v
    <3> QED
      BY <2>8, <3>1, <3>2, <3>3, <3>4, <3>5 DEF Stage, Holding, Between, Complete
  <2>10. m + 1 \in Nat
    BY <2>1
  <2> QED
    BY <2>7, <2>9, <2>10, NextStage DEF v
<1>20. CASE WritesPayload
  <2>1. pc = "writePayload" /\ pc' = "report" /\ UNCHANGED <<source, block, stored, lastFinal>>
    BY <1>20 DEF WritesPayload, Writes, Goes, locals
  <2> DEFINE x == DataItem(block, stored)
  <2>2. archive' = Append(w, x)
    BY <1>0, <1>7, <1>20, <2>1, WriteSinkTypes DEF WritesPayload, Writes, archive
  <2>3. /\ Len(w) = 2 * m + 2 /\ ends[m] = source.pos - Len(block) /\ w[2 * m + 2] = TheBlock
        /\ \A j \in 1 .. m : w[2 * j].final => Grew
    BY <1>7, <2>1 DEF Stage, Holding
  <2>4. x \in Item /\ x.type = "data" /\ x.bytes = block
    BY <1>0 DEF DataItem
  <2> HIDE DEF x
  <2>5. /\ Len(archive') = 2 * m + 3 /\ archive'[2 * m + 2] = TheBlock /\ archive'[2 * m + 3] = x
    <3>1. /\ Len(archive') = Len(w) + 1 /\ archive'[Len(w) + 1] = x
          /\ \A i \in 1 .. Len(w) : archive'[i] = w[i]
      BY <1>10, <2>2, <2>4
    <3>2. 2 * m + 2 \in 1 .. Len(w) /\ Len(w) + 1 = 2 * m + 3
      BY <1>6, <2>3
    <3> QED
      BY <2>3, <3>1, <3>2
  <2>6. BlockAt(archive', m + 1, ends[m], source.pos)
    <3> DEFINE v == archive'
               from == source.pos - Len(block)
               n == Len(block)
    <3>1. n \in 0 .. BlockSize /\ source.pos \in Nat /\ stored \in 1 .. n /\ block = Bytes(from, source.pos)
      BY <2>1, SourceIs DEF TypeInv, SourceInv, Holding
    <3>2. /\ TheBlock.type = "block" /\ TheBlock.original = n /\ TheBlock.crc = block
          /\ TheBlock.stored = stored /\ (TheBlock.raw => stored = n)
      BY DEF TheBlock, BlockItem
    <3>3. 2 * (m + 1) = 2 * m + 2 /\ 2 * (m + 1) + 1 = 2 * m + 3 /\ source.pos - from = n /\ from <= source.pos
      BY <1>6, <3>1
    <3>4. v[2 * (m + 1)] = TheBlock /\ v[2 * (m + 1) + 1] = x /\ Len(v) > 2 * (m + 1) /\ ends[m] = from
      BY <1>6, <2>3, <2>5, <3>3
    <3> HIDE DEF v, from, n
    <3>5. BlockAt(v, m + 1, from, source.pos)
      BY <2>4, <3>1, <3>2, <3>3, <3>4 DEF BlockAt
    <3> QED
      BY <3>4, <3>5 DEF v
  <2>7. TheBlock.final = lastFinal
    BY DEF TheBlock, BlockItem
  <2>8. Len(w) > 2 * m
    BY <1>6, <2>3
  <2> QED
    BY <1>19, <2>1, <2>2, <2>3, <2>4, <2>5, <2>6, <2>7, <2>8, SourceIs
<1>21. CASE WritesLast
  <2>1. pc = "writeFinal" /\ pc' = "lastCheck" /\ UNCHANGED <<source, block, stored, lastFinal>> /\ ~lastFinal
    BY <1>21 DEF WritesLast, Goes, locals, SourceInv
  <2>2. archive' = Append(w, LastBlock)
    BY <1>0, <1>7, <1>21, <2>1, WriteSinkTypes DEF WritesLast, archive
  <2>3. /\ Len(w) = 2 * m + 1 /\ ends[m] = source.pos
        /\ m > 0 => w[2 * m].final = lastFinal
        /\ \A j \in 1 .. m : w[2 * j].final => Grew \/ j = m
    BY <1>7, <2>1 DEF Stage, Holding, Between
  <2>4. \A j \in 1 .. m : w[2 * j].final => Grew
    BY <1>6, <2>1, <2>3
  <2>5. Len(archive') = 2 * m + 2 /\ archive'[2 * m + 2] = LastBlock
    <3>1. Len(archive') = Len(w) + 1 /\ archive'[Len(w) + 1] = LastBlock
      BY <1>0, <1>10, <2>2
    <3>2. Len(w) + 1 = 2 * m + 2
      BY <1>6, <2>3
    <3> QED
      BY <3>1, <3>2
  <2>6. BlockAt(archive', m + 1, ends[m], source.pos)
    <3> DEFINE v == archive'
               n == source.pos
    <3>1. n \in Nat /\ n - n = 0 /\ n <= n
      BY SourceIs
    <3>2. Bytes(n, n) = <<>>
      <4> HIDE DEF n
      <4> QED
        BY <3>1, BytesAre
    <3>3. /\ LastBlock.type = "block" /\ LastBlock.original = 0 /\ LastBlock.crc = <<>>
          /\ LastBlock.stored = 0 /\ LastBlock.final
      BY DEF LastBlock, BlockItem
    <3>4. v[2 * (m + 1)] = LastBlock /\ Len(v) = 2 * (m + 1) /\ ends[m] = n
      BY <1>6, <2>3, <2>5
    <3> HIDE DEF v, n
    <3>5. BlockAt(v, m + 1, n, n)
      BY <3>1, <3>2, <3>3, <3>4, SizesAssumption DEF BlockAt
    <3> QED
      BY <3>4, <3>5 DEF v, n
  <2>7. LastBlock.final
    BY DEF LastBlock, BlockItem
  <2>8. Len(w) > 2 * m
    BY <1>6, <2>3
  <2> QED
    BY <1>0, <1>19, <2>1, <2>2, <2>3, <2>4, <2>5, <2>6, <2>7, <2>8, SourceIs
<1>22. CASE Commits
  <2>1. pc = "commit" /\ pc' = "done" /\ sink' = CommitSink(sink) /\ UNCHANGED <<source, locals>>
    BY <1>22 DEF Commits, Goes
  <2>2. sink'.out = WrittenTo(sink)
    <3>1. sink \in SinkOf(Item) /\ sink.bytes # 0
      BY <2>1 DEF TypeInv, SourceInv, Setup
    <3> QED
      BY <2>1, <3>1, CommitSinkIs
  <2>3. w' = w
    BY <1>7, <1>11, <2>1, <2>2 DEF archive
  <2>4. Stage(w, m, ends)'
    BY <1>7, <2>1, <2>3 DEF Stage, Holding, Between, Complete, Grew
  <2> QED
    BY <1>12, <2>3, <2>4
<1>23. CASE Finish
  <2>1. pc = "done" /\ pc' = "ended" /\ sink' = EndSession(sink, TRUE, TRUE) /\ UNCHANGED <<source, locals>>
    BY <1>23 DEF Finish
  <2>2. sink'.out = sink.out
    BY <2>1, EndSessionIs DEF TypeInv, SinkInv
  <2>3. w' = w
    BY <1>7, <1>11, <2>1, <2>2 DEF archive
  <2>4. Stage(w, m, ends)'
    BY <1>7, <2>1, <2>3 DEF Stage, Holding, Between, Complete, Grew
  <2> QED
    BY <1>12, <2>3, <2>4
<1> QED
  BY <1>6, <1>13, <1>14, <1>15, <1>16, <1>17, <1>18, <1>20, <1>21, <1>22, <1>23

(* The archive of every state, then. *)
LEMMA Archives == Spec => [](Inv /\ SourceInv /\ ArchiveInv)
<1>1. Init => Inv /\ SourceInv /\ ArchiveInv
  BY InitTypeInv, InitSafe, InitArchive DEF Inv
<1>2. Inv /\ SourceInv /\ ArchiveInv /\ [Next]_vars => (Inv /\ SourceInv /\ ArchiveInv)'
  BY NextTypeInv, NextSinkInv, NextCancelInv, NextReportInv, NextSourceInv, NextArchiveInv DEF Inv
<1> QED
  BY <1>1, <1>2, PTL DEF Spec

(* What a run of runCompress that says Ok has published decodes to exactly *)
(* the bytes that it read, unless the source delivered another number of   *)
(* bytes than it declared: for every size of input and block, every        *)
(* source, and every sink.                                                 *)
THEOREM CompressionOkDecodes == Spec => []OkDecodes
<1>1. ASSUME Inv, SourceInv, ArchiveInv PROVE OkDecodes
  <2> SUFFICES ASSUME Ended, result.error = "Ok", source.known => source.size = result.inputBytes
               PROVE  /\ Decode(sink.out) = [error |-> "Ok", output |-> Bytes(0, result.inputBytes)]
                      /\ FinalIsLast(sink.out)
    BY DEF OkDecodes
  <2>1. PICK m \in Nat : \E ends \in [0 .. m -> Nat] : Archive(archive, m, ends) /\ Stage(archive, m, ends)
    BY <1>1 DEF ArchiveInv, Ended, Setup
  <2>2. PICK ends \in [0 .. m -> Nat] : Archive(archive, m, ends) /\ Stage(archive, m, ends)
    BY <2>1
  <2>3. archive = sink.out /\ Len(archive) \in Nat
    BY <1>1 DEF archive, Ended, Inv, TypeInv, SinkOf
  <2>4. ~Grew
    <3>1. source.kind = "file" => source.size = source.pos
      BY <1>1 DEF Inv, TypeInv, SourceInv
    <3> QED
      BY <1>1, <3>1, SourceIs DEF Inv, Grew
  <2>5. /\ m # 0 /\ ends[m] = source.pos /\ archive[2 * m].final /\ Len(archive) \in {2 * m, 2 * m + 1}
        /\ archive[1].known = source.known /\ archive[1].size = source.size
        /\ \A j \in 1 .. m : archive[2 * j].final => j = m
    BY <2>2, <2>4 DEF Stage, Complete, Ended
  <2>6. source.pos = result.inputBytes
    BY <1>1 DEF Inv, TypeInv
  <2>7. \A j \in 1 .. m - 1 : ~archive[2 * j].final
    BY <2>5
  <2>8. archive[1].known => archive[1].size = ends[m]
    BY <2>5, <2>6
  <2>9. m \in Nat \ {0} /\ archive[2 * m].final
    BY <2>5
  <2>10. /\ Decode(archive) = [error |-> "Ok", output |-> Bytes(0, ends[m])]
         /\ FinalIsLast(archive)
    BY <2>2, <2>3, <2>5, <2>7, <2>8, <2>9, ArchiveDecodes
  <2> QED
    BY <2>3, <2>5, <2>6, <2>10
<1> QED
  BY <1>1, Archives, PTL
=============================================================================
