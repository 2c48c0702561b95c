--------------------------- MODULE DecompressRun ----------------------------
(***************************************************************************)
(* One run of runDecompress (src/esp_compressor/async/compressor.cpp):     *)
(* read an archive from a source record by record, check it, write the     *)
(* blocks to a sink, commit it.  The archive is whatever the source holds: *)
(* complete, cut short, or with records that do not agree.  Another task   *)
(* may cancel the run between any two calls.                               *)
(***************************************************************************)
EXTENDS Sinks, EscArchive

CONSTANTS
  Archives  \* the archives a source may hold

ASSUME DecompressAssumption ==
  /\ Capacity \in Nat
  /\ Archives \subseteq Seq(Records)
  /\ \A a \in Archives : \A i \in 1 .. Len(a) :
       a[i].type = CASE i = 1 -> "header"
                     [] i > 1 /\ a[i - 1].type = "block" /\ a[i - 1].stored > 0 -> "data"
                     [] OTHER -> "block"

VARIABLES
  archive,          \* what the source delivers
  faulty,           \* the source may fail with an error of its own
  sink,             \* see Sinks
  allowPartial,     \* options.allowPartialOutput
  cancelRequested,  \* *ctx.cancelRequested
  pc,               \* the next call of the run
  result,           \* error, outputBytes
  next,             \* position in the archive
  header,           \* the local header
  block,            \* the local blockHeader
  allocated,        \* largest size storedBlock and outputBlock were asked for
  reported,         \* the CompressionProgress values emitted, in order
  failures,         \* history: a source, sink or memory failure happened
  lateCancel        \* history: cancel came when the run no longer looks

given  == <<archive, faulty, allowPartial>>
locals == <<next, header, block>>
vars   == <<given, sink, cancelRequested, pc, result, locals, allocated, reported,
            failures, lateCancel>>

Setup  == {"start", "openSource", "openSink", "readHeader"}
Loop   == {"checkCancel", "readBlock", "validate", "allocate", "writeOutput", "report"}
Ending == {"checkSize", "lastCheck", "commit", "done", "ended"}

NoHeader == HeaderItem("Ok", FALSE, 0, 0)
NoBlock  == BlockItem(FALSE, FALSE, 0, 0, <<>>)

Goto(l) == pc' = l

(* return result, with the session's destructor; other: the error is not   *)
(* the archive's.                                                          *)
Return(s, opened, committed, e, other) ==
  /\ pc' = "ended"
  /\ result' = [result EXCEPT !.error = e]
  /\ sink' = EndSession(s, opened, committed)
  /\ failures' = (failures \/ other)

Reject(e) == Return(sink, TRUE, FALSE, e, FALSE)
Fail(e)   == Return(sink, TRUE, FALSE, e, TRUE)

Continue(l) == Goto(l) /\ UNCHANGED <<sink, result, failures>>

(* readExact(): the record at next; a source that ends too early is a      *)
(* corrupt archive, an error of the source is returned as it is.           *)
Available == next <= Len(archive)
ReadFails == faulty /\ Fail("ReadFailed")

(* MemoryBuffer::resize, which fails only if it has to allocate; what it   *)
(* is asked for is what counts here.                                       *)
Demand(n) == allocated' = IF n > allocated THEN n ELSE allocated

(* The payload, as it decodes. *)
Output == IF block.stored = 0 THEN <<>> ELSE archive[next].bytes

(* result.error = sink->write(output); result.outputBytes += its size. *)
WriteThenReport ==
  \E e \in WriteErrors(sink, Len(Output)) :
    IF e = "Ok"
      THEN /\ sink' = WriteSink(sink, Output, Len(Output))
           /\ result' = [result EXCEPT !.outputBytes = @ + Len(Output)]
           /\ Goto("report")
           /\ UNCHANGED failures
      ELSE \E s \in FailWrite(sink) : Return(s, TRUE, FALSE, e, TRUE)

Report(done) ==
  reported' = Append(reported, [produced |-> result'.outputBytes, done |-> done])

-----------------------------------------------------------------------------
(* Bugs the checks must notice; none of them is part of Next.              *)

ValidateLate ==         \* Validate that leaves the bounds to the decoder
  /\ pc = "validate"
  /\ Continue("allocate")
  /\ UNCHANGED <<given, cancelRequested, locals, allocated, reported, lateCancel>>

WriteOutputUnchecked == \* WriteOutput without the CRC
  /\ pc = "writeOutput"
  /\ Demand(IF block.raw THEN 0 ELSE block.original)
  /\ next' = IF block.stored = 0 THEN next ELSE next + 1
  /\ (~block.raw /\ block.original > 0 /\ Fail("NoMemory")) \/ WriteThenReport
  /\ UNCHANGED <<given, cancelRequested, header, block, reported, lateCancel>>

LastCheckSkipped ==     \* LastCheck without shouldAbortForCancel
  /\ pc = "lastCheck"
  /\ Continue("commit")
  /\ UNCHANGED <<given, cancelRequested, locals, allocated, reported, lateCancel>>

-----------------------------------------------------------------------------
Init ==
  /\ archive \in Archives
  /\ faulty \in BOOLEAN
  /\ \E k \in Kinds : sink = NewSink(k)
  /\ allowPartial \in BOOLEAN
  /\ cancelRequested = FALSE
  /\ pc = "start"
  /\ result = [error |-> "Ok", outputBytes |-> 0]
  /\ next = 1
  /\ header = NoHeader
  /\ block = NoBlock
  /\ allocated = 0
  /\ reported = <<>>
  /\ failures = FALSE
  /\ lateCancel = FALSE

Start ==
  /\ pc = "start"
  /\ IF ~IsTransactional(sink) /\ ~allowPartial
       THEN /\ pc' = "ended"
            /\ result' = [result EXCEPT !.error = "InvalidArgument"]
            /\ failures' = TRUE
            /\ UNCHANGED sink
       ELSE Continue("openSource")
  /\ UNCHANGED <<given, cancelRequested, locals, allocated, reported, lateCancel>>

OpenSource ==
  /\ pc = "openSource"
  /\ \/ Continue("openSink")
     \/ faulty /\ Return(sink, FALSE, FALSE, "OpenFailed", TRUE)
  /\ UNCHANGED <<given, cancelRequested, locals, allocated, reported, lateCancel>>

OpenTheSink ==
  /\ pc = "openSink"
  /\ \E e \in OpenErrors(sink) :
       IF e = "Ok"
         THEN sink' = OpenSink(sink) /\ Goto("readHeader") /\ UNCHANGED <<result, failures>>
         ELSE Return(sink, FALSE, FALSE, e, TRUE)
  /\ UNCHANGED <<given, cancelRequested, locals, allocated, reported, lateCancel>>

(* decodeEscHeader, and the checks of version, algorithm and block size. *)
ReadHeader ==
  /\ pc = "readHeader"
  /\ \/ ReadFails /\ UNCHANGED <<next, header>>
     \/ ~Available /\ Reject("CorruptData") /\ UNCHANGED <<next, header>>
     \/ /\ Available
        /\ header' = archive[next]
        /\ next' = next + 1
        /\ CASE header'.check # "Ok"  -> Reject(header'.check)
             [] header'.check = "Ok" /\ header'.blockSize = 0 -> Reject("CorruptData")
             [] OTHER -> Continue("checkCancel")
  /\ UNCHANGED <<given, cancelRequested, block, allocated, reported, lateCancel>>

-----------------------------------------------------------------------------
(* The loop: is it cancelled, ... *)
CheckCancel ==
  /\ pc = "checkCancel"
  /\ IF cancelRequested THEN Reject("Cancelled") ELSE Continue("readBlock")
  /\ UNCHANGED <<given, cancelRequested, locals, allocated, reported, lateCancel>>

(* ... read a block header, ... *)
ReadBlock ==
  /\ pc = "readBlock"
  /\ \/ ReadFails /\ UNCHANGED <<next, block>>
     \/ ~Available /\ Reject("CorruptData") /\ UNCHANGED <<next, block>>
     \/ Available /\ block' = archive[next] /\ next' = next + 1 /\ Continue("validate")
  /\ UNCHANGED <<given, cancelRequested, header, allocated, reported, lateCancel>>

(* ... check its sizes before anything is allocated for them, ... *)
Validate ==
  /\ pc = "validate"
  /\ IF InBounds(header, block) THEN Continue("allocate") ELSE Reject("CorruptData")
  /\ UNCHANGED <<given, cancelRequested, locals, allocated, reported, lateCancel>>

(* ... make room for the payload and read it, ... *)
Allocate ==
  /\ pc = "allocate"
  /\ Demand(block.stored)
  /\ \/ block.stored > 0 /\ (Fail("NoMemory") \/ ReadFails)
     \/ IF block.stored > 0 /\ ~Available THEN Reject("CorruptData") ELSE Continue("writeOutput")
  /\ UNCHANGED <<given, cancelRequested, locals, reported, lateCancel>>

(* ... decode it (into a buffer of its own, unless it is raw), compare the *)
(* CRC and write it, ...                                                   *)
WriteOutput ==
  /\ pc = "writeOutput"
  /\ Demand(IF block.raw THEN 0 ELSE block.original)
  /\ next' = IF block.stored = 0 THEN next ELSE next + 1
  /\ \/ ~block.raw /\ block.original > 0 /\ Fail("NoMemory")
     \/ IF Intact(block, Output) THEN WriteThenReport ELSE Reject("CorruptData")
  /\ UNCHANGED <<given, cancelRequested, header, block, reported, lateCancel>>

(* ... and tell onProgress. *)
ReportBlock ==
  /\ pc = "report"
  /\ Continue(IF block.final THEN "checkSize" ELSE "checkCancel")
  /\ Report(FALSE)
  /\ UNCHANGED <<given, cancelRequested, locals, allocated, lateCancel>>

-----------------------------------------------------------------------------
CheckSize ==
  /\ pc = "checkSize"
  /\ IF header.known /\ result.outputBytes # header.size
       THEN Reject("CorruptData") ELSE Continue("lastCheck")
  /\ UNCHANGED <<given, cancelRequested, locals, allocated, reported, lateCancel>>

LastCheck ==
  /\ pc = "lastCheck"
  /\ IF cancelRequested THEN Reject("Cancelled") ELSE Continue("commit")
  /\ UNCHANGED <<given, cancelRequested, locals, allocated, reported, lateCancel>>

Commit ==
  /\ pc = "commit"
  /\ \E e \in CommitErrors(sink) :
       IF e = "Ok"
         THEN sink' = CommitSink(sink) /\ Goto("done") /\ UNCHANGED <<result, failures>>
         ELSE Fail(e)
  /\ UNCHANGED <<given, cancelRequested, locals, allocated, reported, lateCancel>>

Finish ==
  /\ pc = "done"
  /\ pc' = "ended"
  /\ sink' = EndSession(sink, TRUE, TRUE)
  /\ UNCHANGED <<result, failures>>
  /\ Report(TRUE)
  /\ UNCHANGED <<given, cancelRequested, locals, allocated, lateCancel>>

(* Another task, or onProgress: cancel(). *)
Cancel ==
  /\ pc # "ended"
  /\ ~cancelRequested
  /\ cancelRequested' = TRUE
  /\ lateCancel' = (pc \in {"commit", "done"})
  /\ UNCHANGED <<given, sink, pc, result, locals, allocated, reported, failures>>

Run ==
  \/ Start \/ OpenSource \/ OpenTheSink \/ ReadHeader
  \/ CheckCancel \/ ReadBlock \/ Validate \/ Allocate \/ WriteOutput \/ ReportBlock
  \/ CheckSize \/ LastCheck \/ Commit \/ Finish

Next == Run \/ Cancel

Spec == Init /\ [][Next]_vars

-----------------------------------------------------------------------------
Ended == pc = "ended"

(* Every variable has its type. *)
TypeOK ==
  /\ {faulty, allowPartial, cancelRequested, failures, lateCancel} \subseteq BOOLEAN
  /\ sink.kind \in Kinds
  /\ sink.open \in BOOLEAN
  /\ sink.bytes \in Nat
  /\ pc \in Setup \cup Loop \cup Ending
  /\ result.outputBytes \in Nat
  /\ next \in 1 .. Len(archive) + 1
  /\ header.type = "header"
  /\ block.type = "block"
  /\ allocated \in Nat

(* What a sink holds, as one. *)
Joined(blocks) ==
  LET joined[i \in 0 .. Len(blocks)] == IF i = 0 THEN <<>> ELSE joined[i - 1] \o blocks[i]
  IN joined

Flat(blocks) == Joined(blocks)[Len(blocks)]

(* A run that nothing disturbs returns what the archive means: its output  *)
(* when every record agrees, and otherwise the error of the first that     *)
(* does not.  A run that is disturbed never says Ok of a bad archive, nor  *)
(* publishes anything but the meaning of a good one.                       *)
ResultIsMeaning ==
  Ended =>
    /\ ~failures /\ ~cancelRequested => result.error = Decode(archive).error
    /\ result.error = "Ok" =>
         /\ Decode(archive).error = "Ok"
         /\ (sink.kind = "fixed" /\ Decode(archive).output = <<>>)
              \/ Flat(sink.out) = Decode(archive).output
         /\ result.outputBytes = Len(Decode(archive).output)

(* A transactional output is touched by commit and by nothing else, so a   *)
(* run that does not end with Ok leaves it as it was, and onProgress never *)
(* hears that such a run is done.                                          *)
FailedRunPublishesNothing ==
  /\ Ended /\ result.error # "Ok" /\ IsTransactional(sink) => sink.out = <<Earlier>>
  /\ Ended => ~sink.open /\ (IsTransactional(sink) => sink.staged = <<>>)
  /\ \A i \in 1 .. Len(reported) : reported[i].done => Ended /\ result.error = "Ok"

(* What a block header demands is checked against the header before memory *)
(* is asked for: no archive makes the run ask for more than a block.  (The *)
(* buffer rounds it up to a doubling of 64.)                               *)
AllocationBounded == allocated <= header.blockSize

(* A cancel that comes before the run's last look at the flag stops the    *)
(* run before it publishes, and only a run that was cancelled says so.     *)
CancelIsHonoured ==
  Ended =>
    /\ cancelRequested /\ result.error = "Ok" => lateCancel
    /\ result.error = "Cancelled" => cancelRequested
=============================================================================
