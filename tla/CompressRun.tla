---------------------------- MODULE CompressRun -----------------------------
(***************************************************************************)
(* One run of runCompress (src/esp_compressor/async/compressor.cpp): read  *)
(* blocks from a source, write the archive to a sink, commit it.  Another  *)
(* task may cancel the run, and the file being read may grow, between any  *)
(* two calls the run makes on its source and sink.                         *)
(*                                                                         *)
(* The input is the bytes 1, 2, 3, ...; a block is the interval last read. *)
(***************************************************************************)
EXTENDS Sinks, EscArchive

CONSTANTS
  BlockSize,        \* config.blockSize
  MaxInput,         \* bound: bytes a source ever has
  HeaderSize,       \* kEscEncodedHeaderSize
  BlockHeaderSize   \* kEscEncodedBlockHeaderSize

ASSUME SizesAssumption ==
  /\ BlockSize \in Nat \ {0}
  /\ MaxInput \in Nat
  /\ Capacity \in Nat
  /\ HeaderSize \in Nat \ {0}
  /\ BlockHeaderSize \in Nat \ {0}

VARIABLES
  source,           \* kind, length now, position, _eof, hasKnownSize(), totalSize()
  sink,             \* see Sinks
  allowPartial,     \* options.allowPartialOutput
  cancelRequested,  \* *ctx.cancelRequested
  pc,               \* the next call of the run
  result,           \* error, inputBytes, outputBytes
  block,            \* blockBuffer: what the last read returned
  stored,           \* the local payloadSize
  lastFinal,        \* wroteAnyBlock && lastBlockWasFinal
  reported,         \* the CompressionProgress values emitted, in order
  lateCancel        \* history: cancel came when the run no longer looks

locals == <<block, stored, lastFinal>>
vars   == <<source, sink, allowPartial, cancelRequested, pc, result, locals, reported, lateCancel>>

SourceKinds == {"buffer", "stream", "file", "custom"}

Setup  == {"start", "openSource", "openSink", "allocate", "writeHeader"}
Loop   == {"checkCancel", "read", "encode", "checkEof", "writeBlock", "writePayload", "report"}
Ending == {"finalBlock", "writeFinal", "lastCheck", "commit", "done", "ended"}

Bytes(from, to) == [i \in 1 .. to - from |-> from + i]
Left            == source.length - source.pos
Least(m, n)     == IF m < n THEN m ELSE n

-----------------------------------------------------------------------------
(* The sources.  A StreamSource declares what it was told, or nothing; a   *)
(* FileSource what the file held at open; a custom source (as the tests    *)
(* have one) may read less than it is asked for.                           *)
NewSource(kind, n) ==
  [kind : {kind}, length : {n}, pos : {0}, ended : {FALSE},
   known : IF kind = "stream" THEN BOOLEAN ELSE {TRUE},
   size : IF kind = "stream" THEN 0 .. MaxInput ELSE {n}]

OpenSourceErrors ==
  IF source.kind = "file" THEN {"Ok", "InvalidArgument", "OpenFailed"}
  ELSE IF source.kind = "custom" THEN {"Ok", "OpenFailed"} ELSE {"Ok"}

(* How many bytes a read may return. *)
ReadCounts ==
  LET most == Least(Left, BlockSize)
  IN CASE source.kind = "buffer" -> {most}
       [] source.kind = "custom" -> IF most = 0 THEN {0} ELSE 1 .. most
       [] source.kind \in {"stream", "file"} -> 0 .. most

Eof == IF source.kind = "stream" THEN source.ended ELSE source.pos >= source.length

-----------------------------------------------------------------------------
Init ==
  /\ \E k \in SourceKinds, n \in 0 .. MaxInput : source \in NewSource(k, n)
  /\ \E k \in Kinds : sink = NewSink(k)
  /\ allowPartial \in BOOLEAN
  /\ cancelRequested = FALSE
  /\ pc = "start"
  /\ result = [error |-> "Ok", inputBytes |-> 0, outputBytes |-> 0]
  /\ block = <<>>
  /\ stored = 0
  /\ lastFinal = FALSE
  /\ reported = <<>>
  /\ lateCancel = FALSE

Goto(l) == pc' = l

(* return result, with the session's destructor. *)
Return(s, opened, committed, e) ==
  /\ pc' = "ended"
  /\ result' = [result EXCEPT !.error = e]
  /\ sink' = EndSession(s, opened, committed)

Fail(e) == Return(sink, TRUE, FALSE, e)

(* result.error = sink->write(item): on to l, or out. *)
WriteThen(item, size, l) ==
  \E e \in WriteErrors(sink, size) :
    IF e = "Ok"
      THEN sink' = WriteSink(sink, item, size) /\ Goto(l) /\ UNCHANGED result
      ELSE \E s \in FailWrite(sink) : Return(s, TRUE, FALSE, e)

Report(done) ==
  reported' = Append(reported, [processed |-> result'.inputBytes,
                                produced |-> result'.outputBytes, done |-> done])

-----------------------------------------------------------------------------
(* Bugs the checks must notice; none of them is part of Next.              *)

ReportBlockDone ==          \* ReportBlock that takes the final block for the end of the run
  /\ pc = "report"
  /\ result' = [result EXCEPT !.outputBytes = sink.bytes]
  /\ Report(lastFinal)
  /\ Goto("checkCancel")
  /\ UNCHANGED <<source, sink, allowPartial, cancelRequested, locals, lateCancel>>

EndOfInputRetries ==        \* EndOfInput that reads again when nothing came
  /\ pc = "finalBlock"
  /\ Goto(IF ~Eof THEN "checkCancel" ELSE IF lastFinal THEN "lastCheck" ELSE "writeFinal")
  /\ UNCHANGED <<source, sink, allowPartial, cancelRequested, result, locals, reported, lateCancel>>

EndOfInputNoFinal ==        \* EndOfInput without "|| !lastBlockWasFinal"
  /\ pc = "finalBlock"
  /\ IF ~Eof THEN Fail("ReadFailed")
     ELSE Goto(IF reported # <<>> THEN "lastCheck" ELSE "writeFinal") /\ UNCHANGED <<sink, result>>
  /\ UNCHANGED <<source, allowPartial, cancelRequested, locals, reported, lateCancel>>

LastCheckSkipped ==         \* LastCheck without shouldAbortForCancel
  /\ pc = "lastCheck"
  /\ Goto("commit")
  /\ UNCHANGED <<source, sink, allowPartial, cancelRequested, result, locals, reported, lateCancel>>

-----------------------------------------------------------------------------
(* A sink that publishes as it goes is refused unless the caller allows it *)
(* (no session yet: nothing is opened, aborted or closed).                 *)
Start ==
  /\ pc = "start"
  /\ IF ~IsTransactional(sink) /\ ~allowPartial
       THEN pc' = "ended" /\ result' = [result EXCEPT !.error = "InvalidArgument"]
       ELSE Goto("openSource") /\ UNCHANGED result
  /\ UNCHANGED <<source, sink, allowPartial, cancelRequested, locals, reported, lateCancel>>

OpenSource ==
  /\ pc = "openSource"
  /\ \E e \in OpenSourceErrors :
       IF e = "Ok"
         THEN /\ Goto("openSink")
              /\ source' = IF source.kind = "file"
                             THEN [source EXCEPT !.size = source.length] ELSE source
              /\ UNCHANGED <<sink, result>>
         ELSE Return(sink, FALSE, FALSE, e) /\ UNCHANGED source
  /\ UNCHANGED <<allowPartial, cancelRequested, locals, reported, lateCancel>>

OpenTheSink ==
  /\ pc = "openSink"
  /\ \E e \in OpenErrors(sink) :
       IF e = "Ok"
         THEN sink' = OpenSink(sink) /\ Goto("allocate") /\ UNCHANGED result
         ELSE Return(sink, FALSE, FALSE, e)
  /\ UNCHANGED <<source, allowPartial, cancelRequested, locals, reported, lateCancel>>

(* blockBuffer.resize and encodeEscHeader allocate. *)
Allocate ==
  /\ pc = "allocate"
  /\ \/ Goto("writeHeader") /\ UNCHANGED <<sink, result>>
     \/ Fail("NoMemory")
  /\ UNCHANGED <<source, allowPartial, cancelRequested, locals, reported, lateCancel>>

WriteHeader ==
  /\ pc = "writeHeader"
  /\ WriteThen(HeaderItem("Ok", source.known, source.size, BlockSize), HeaderSize, "checkCancel")
  /\ UNCHANGED <<source, allowPartial, cancelRequested, locals, reported, lateCancel>>

-----------------------------------------------------------------------------
(* The loop: is it cancelled, ... *)
CheckCancel ==
  /\ pc = "checkCancel"
  /\ IF cancelRequested THEN Fail("Cancelled") ELSE Goto("read") /\ UNCHANGED <<sink, result>>
  /\ UNCHANGED <<source, allowPartial, cancelRequested, locals, reported, lateCancel>>

(* ... read a block, or find that there is none (eof() is asked then), ... *)
Read ==
  /\ pc = "read"
  /\ \/ \E n \in ReadCounts :
          LET next == [source EXCEPT !.pos = @ + n, !.ended = @ \/ n = 0]
          IN /\ source' = next
             /\ block' = Bytes(source.pos, next.pos)
             /\ result' = [result EXCEPT !.inputBytes = @ + n]
             /\ Goto(IF n = 0 THEN "finalBlock" ELSE "encode")
             /\ UNCHANGED sink
     \/ source.kind = "custom" /\ Fail("ReadFailed") /\ UNCHANGED <<source, block>>
  /\ UNCHANGED <<allowPartial, cancelRequested, stored, lastFinal, reported, lateCancel>>

(* ... compress it, if that makes it smaller, ... *)
Encode ==
  /\ pc = "encode"
  /\ \/ stored' \in 1 .. Len(block) /\ Goto("checkEof") /\ UNCHANGED <<sink, result>>
     \/ Fail("NoMemory") /\ UNCHANGED stored
  /\ UNCHANGED <<source, allowPartial, cancelRequested, block, lastFinal, reported, lateCancel>>

(* ... see whether it is the last, ... *)
CheckEof ==
  /\ pc = "checkEof"
  /\ lastFinal' = Eof
  /\ Goto("writeBlock")
  /\ UNCHANGED <<source, sink, allowPartial, cancelRequested, result, block, stored,
                 reported, lateCancel>>

(* ... write its header and its payload, ... *)
WriteBlock ==
  /\ pc = "writeBlock"
  /\ WriteThen(BlockItem(lastFinal, stored = Len(block), Len(block), stored, block),
               BlockHeaderSize, "writePayload")
  /\ UNCHANGED <<source, allowPartial, cancelRequested, locals, reported, lateCancel>>

WritePayload ==
  /\ pc = "writePayload"
  /\ WriteThen(DataItem(block, stored), stored, "report")
  /\ UNCHANGED <<source, allowPartial, cancelRequested, locals, reported, lateCancel>>

(* ... and tell onProgress. *)
ReportBlock ==
  /\ pc = "report"
  /\ result' = [result EXCEPT !.outputBytes = sink.bytes]
  /\ Report(FALSE)
  /\ Goto("checkCancel")
  /\ UNCHANGED <<source, sink, allowPartial, cancelRequested, locals, lateCancel>>

-----------------------------------------------------------------------------
(* After a read of nothing: a source that is not at its end has failed;    *)
(* an input with no final block gets an empty one.                         *)
EndOfInput ==
  /\ pc = "finalBlock"
  /\ IF ~Eof THEN Fail("ReadFailed")
     ELSE Goto(IF lastFinal THEN "lastCheck" ELSE "writeFinal") /\ UNCHANGED <<sink, result>>
  /\ UNCHANGED <<source, allowPartial, cancelRequested, locals, reported, lateCancel>>

WriteFinal ==
  /\ pc = "writeFinal"
  /\ \E e \in WriteErrors(sink, BlockHeaderSize) :
       IF e = "Ok"
         THEN /\ sink' = WriteSink(sink, BlockItem(TRUE, TRUE, 0, 0, <<>>), BlockHeaderSize)
              /\ result' = [result EXCEPT !.outputBytes = sink'.bytes]
              /\ Goto("lastCheck")
         ELSE \E s \in FailWrite(sink) : Return(s, TRUE, FALSE, e)
  /\ UNCHANGED <<source, allowPartial, cancelRequested, locals, reported, lateCancel>>

LastCheck ==
  /\ pc = "lastCheck"
  /\ IF cancelRequested THEN Fail("Cancelled") ELSE Goto("commit") /\ UNCHANGED <<sink, result>>
  /\ UNCHANGED <<source, allowPartial, cancelRequested, locals, reported, lateCancel>>

Commit ==
  /\ pc = "commit"
  /\ \E e \in CommitErrors(sink) :
       IF e = "Ok"
         THEN sink' = CommitSink(sink) /\ Goto("done") /\ UNCHANGED result
         ELSE Fail(e)
  /\ UNCHANGED <<source, allowPartial, cancelRequested, locals, reported, lateCancel>>

Finish ==
  /\ pc = "done"
  /\ pc' = "ended"
  /\ result' = [result EXCEPT !.outputBytes = sink.bytes]
  /\ Report(TRUE)
  /\ sink' = EndSession(sink, TRUE, TRUE)
  /\ UNCHANGED <<source, allowPartial, cancelRequested, locals, lateCancel>>

-----------------------------------------------------------------------------
(* Another task, or onProgress: cancel().                                  *)
Cancel ==
  /\ pc # "ended"
  /\ ~cancelRequested
  /\ cancelRequested' = TRUE
  /\ lateCancel' = (pc \in {"commit", "done"})
  /\ UNCHANGED <<source, sink, allowPartial, pc, result, locals, reported>>

(* Another task appends to the file that is being read (external).         *)
Grow ==
  /\ pc # "ended"
  /\ source.kind = "file"
  /\ source.length < MaxInput
  /\ source' = [source EXCEPT !.length = @ + 1]
  /\ UNCHANGED <<sink, allowPartial, cancelRequested, pc, result, locals, reported, lateCancel>>

Run ==
  \/ Start \/ OpenSource \/ OpenTheSink \/ Allocate \/ WriteHeader
  \/ CheckCancel \/ Read \/ Encode \/ CheckEof \/ WriteBlock \/ WritePayload \/ ReportBlock
  \/ EndOfInput \/ WriteFinal \/ LastCheck \/ Commit \/ Finish

Next == Run \/ Cancel \/ Grow

Spec == Init /\ [][Next]_vars

(* The agent that runs it keeps running. *)
FairSpec == Spec /\ WF_vars(Run)

-----------------------------------------------------------------------------
Ended == pc = "ended"

(* Every variable has its type. *)
TypeOK ==
  /\ source.kind \in SourceKinds
  /\ source.length \in 0 .. MaxInput
  /\ source.pos \in 0 .. source.length
  /\ source.size \in 0 .. MaxInput
  /\ {source.ended, source.known, allowPartial, cancelRequested, lastFinal, lateCancel} \subseteq BOOLEAN
  /\ sink.kind \in Kinds
  /\ sink.open \in BOOLEAN
  /\ sink.bytes \in Nat
  /\ pc \in Setup \cup Loop \cup Ending
  /\ result.inputBytes \in 0 .. MaxInput
  /\ result.outputBytes \in Nat
  /\ Len(block) \in 0 .. BlockSize
  /\ stored \in 0 .. BlockSize
  /\ \A i \in 1 .. Len(reported) : reported[i].processed \in 0 .. MaxInput

(* The archive of a run that says Ok decodes to exactly the bytes that     *)
(* were read, and nothing follows its final block, whatever the source     *)
(* (short reads, early end, empty input, eof() asked after the read) and   *)
(* the sink, unless the source declared a size that it did not deliver.    *)
OkDecodes ==
  Ended /\ result.error = "Ok" /\ (source.known => source.size = result.inputBytes) =>
    /\ Decode(sink.out) = [error |-> "Ok", output |-> Bytes(0, result.inputBytes)]
    /\ FinalIsLast(sink.out)

(* A transactional output is touched by commit and by nothing else, so a   *)
(* run that does not end with Ok leaves it as it was.                      *)
FailedRunPublishesNothing ==
  /\ Ended /\ result.error # "Ok" /\ IsTransactional(sink) => sink.out = <<Earlier>>
  /\ Ended => ~sink.open /\ (IsTransactional(sink) => sink.staged = <<>>)

(* A cancel that comes before the run's last look at the flag stops the    *)
(* run before it publishes, even when the last block is already written;   *)
(* and a run is Cancelled only if somebody asked.                          *)
CancelIsHonoured ==
  Ended =>
    /\ cancelRequested /\ result.error = "Ok" => lateCancel
    /\ result.error = "Cancelled" => cancelRequested

(* onProgress hears of the end exactly once, last, and only of a run that  *)
(* ends with Ok; what it is told of the input never goes back.             *)
DoneReportedOnce ==
  /\ \A i \in 1 .. Len(reported) : reported[i].done <=> Ended /\ result.error = "Ok" /\ i = Len(reported)
  /\ Ended /\ result.error = "Ok" => reported # <<>> /\ reported[Len(reported)].done
  /\ \A i \in 2 .. Len(reported) : reported[i - 1].processed <= reported[i].processed

(* Every run ends, though a source may return nothing without being at its *)
(* end and a file may grow while it is read.                               *)
RunEnds == <>Ended

-----------------------------------------------------------------------------
(* examples/basic_roundtrip prints result.outputBytes as the size of the   *)
(* archive it compressed into a DynamicBufferSink.  The code asks the sink *)
(* after commit has released the staging buffer.                           *)
ItemSize(item) ==
  CASE item.type = "header" -> HeaderSize
    [] item.type = "block"  -> BlockHeaderSize
    [] item.type = "data"   -> item.size

OutputBytesIsSize ==
  Ended /\ result.error = "Ok" =>
    LET size[i \in 0 .. Len(sink.out)] == IF i = 0 THEN 0 ELSE size[i - 1] + ItemSize(sink.out[i])
    IN result.outputBytes = size[Len(sink.out)]
=============================================================================
