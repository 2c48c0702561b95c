------------------------------- MODULE Sinks --------------------------------
(***************************************************************************)
(* The CompressionSink classes of src/esp_compressor/io as a run sees      *)
(* them: a record that each call maps to its next value, and the errors    *)
(* each call can return.  DynamicBufferSink and FixedBufferSink stage the  *)
(* output in a MemoryBuffer, FileSink in path.tmp (module FileSink models  *)
(* its file system calls), and PrintSink does not stage at all.  An        *)
(* allocation or a device may fail whenever it is asked for something.     *)
(***************************************************************************)
EXTENDS Naturals, Sequences

CONSTANTS
  Capacity,  \* _capacity of a FixedBufferSink
  Cut,       \* what is left of a write that the device took in part
  Earlier    \* what the output held before the run

Kinds == {"dynamic", "fixed", "file", "print"}

(* staged: what is written and not published; bytes: what bytesWritten()   *)
(* returns; out: what the application finds when it looks at the output.   *)
NewSink(kind) ==
  [kind |-> kind, open |-> FALSE, staged |-> <<>>, bytes |-> 0,
   out |-> IF kind = "print" THEN <<>> ELSE <<Earlier>>]

Buffered(s)        == s.kind \in {"dynamic", "fixed"}
IsTransactional(s) == s.kind # "print"

OpenErrors(s) == IF s.kind = "file" THEN {"Ok", "InvalidArgument", "OpenFailed"} ELSE {"Ok"}
OpenSink(s)   == [s EXCEPT !.open = TRUE, !.staged = <<>>, !.bytes = 0]

WriteErrors(s, size) ==
  IF ~s.open THEN {"WriteFailed"}
  ELSE IF s.kind = "fixed" /\ s.bytes + size > Capacity THEN {"OutputOverflow"}
  ELSE IF size = 0 THEN {"Ok"}
  ELSE {"Ok", IF Buffered(s) THEN "NoMemory" ELSE "WriteFailed"}

WriteSink(s, item, size) ==
  IF s.kind = "print"
    THEN [s EXCEPT !.out = Append(@, item), !.bytes = @ + size]
    ELSE [s EXCEPT !.staged = Append(@, item), !.bytes = @ + size]

(* A write that failed: a device may have taken a part of it. *)
FailWrite(s) ==
  {s} \cup IF s.kind = "print" THEN {[s EXCEPT !.out = Append(@, Cut)]} ELSE {}

(* A file may not be renamed; a FixedBufferSink may have no buffer.  That  *)
(* a FileSink which could not commit has left the destination as it was is *)
(* what EndsAsReported of module FileSink says, of a single failure; with  *)
(* both renames failing it has not (RenameFailuresPreserve of FileSink).   *)
CommitErrors(s) == IF s.kind \in {"file", "fixed"} THEN {"Ok", "WriteFailed"} ELSE {"Ok"}

(* The buffer sinks release the staging memory, and their count with it.   *)
(* A FixedBufferSink that staged nothing copies nothing.                   *)
CommitSink(s) ==
  CASE s.kind = "print" -> s
    [] s.kind = "file"  -> [s EXCEPT !.out = s.staged, !.staged = <<>>]
    [] s.kind = "dynamic" -> [s EXCEPT !.out = s.staged, !.staged = <<>>, !.bytes = 0]
    [] s.kind = "fixed" -> [s EXCEPT !.out = IF s.bytes = 0 THEN @ ELSE s.staged,
                                     !.staged = <<>>, !.bytes = 0]

AbortSink(s) ==
  IF s.kind = "print" THEN s
  ELSE IF s.kind = "file" THEN [s EXCEPT !.staged = <<>>]
  ELSE [s EXCEPT !.staged = <<>>, !.bytes = 0]

CloseSink(s) == [s EXCEPT !.open = FALSE]

(* Bugs the checks must notice: a session that forgets abort(), and one    *)
(* that publishes what it has.                                             *)
EndSessionNoAbort(s, opened, committed) == CloseSink(s)
EndSessionCommits(s, opened, committed) ==
  CloseSink(IF opened /\ ~committed THEN CommitSink(s) ELSE s)

(* ~ScopedIoSession: whatever the way out of a run, a sink that was opened *)
(* and not committed is aborted, and every sink is closed.                 *)
EndSession(s, opened, committed) ==
  CloseSink(IF opened /\ ~committed THEN AbortSink(s) ELSE s)
=============================================================================
