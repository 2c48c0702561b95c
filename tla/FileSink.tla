------------------------------ MODULE FileSink ------------------------------
(***************************************************************************)
(* FileSink of src/esp_compressor/io/compression_io.cpp on one path, used  *)
(* the way runCompress and runDecompress use a sink: open, writes, then    *)
(* either commit, or abort, and always close (ScopedIoSession).  The       *)
(* output goes to path.tmp ("tmp"); commit moves the old destination       *)
(* ("dest") to path.bak ("bak") and path.tmp to the destination.           *)
(*                                                                         *)
(* Atomicity.  Every file system call is an action: each of them may fail  *)
(* (at most MaxFaults do in a session), and the device may lose power      *)
(* between any two of them (at most MaxCrashes times), after which a new   *)
(* FileSink on the same path is used.  What the file system promises is    *)
(* external: a rename is atomic, and onto an existing name it either       *)
(* replaces that name or fails, as the backend has it.                     *)
(***************************************************************************)
EXTENDS Naturals

CONSTANTS
  MaxSessions,  \* bound: runs that use the path
  MaxFaults,    \* bound: file system calls that fail in one session
  MaxCrashes,   \* bound: power losses
  Absent        \* there is no such file

Names == {"dest", "tmp", "bak"}

(* A file holds what one session wrote, all of it (whole) or a part.       *)
(* Session 0 is whoever wrote the destination before.                      *)
Content == [session : 0 .. MaxSessions, whole : BOOLEAN]

ASSUME BoundsAssumption ==
  /\ MaxSessions \in Nat
  /\ MaxFaults \in Nat
  /\ MaxCrashes \in Nat
  /\ Absent \notin Content

VARIABLES
  file,      \* the directory: what each name holds
  truncate,  \* _truncate
  handle,    \* _file is open on path.tmp
  pc,        \* where the session is
  result,    \* the error the run ends with
  session,   \* number of the session
  had,       \* the local hadDestination of commit
  faults,    \* calls that failed in this session
  crashes,   \* power losses so far
  before,    \* history: the destination when the session began
  latest     \* history: what was last published at the destination

sink   == <<truncate, handle, session, had>>
ghosts == <<crashes, before, latest>>
vars   == <<file, truncate, handle, pc, result, session, had, faults, crashes, before, latest>>

OpenSteps   == {"openCheck", "openDir", "openCleanTemp", "openCleanBackup", "openTemp"}
CommitSteps == {"commitClose", "commitCleanBackup", "commitBackup", "commitPublish",
                "commitRollback", "commitCleanTemp", "commitDropBackup"}
AbortSteps  == {"abort", "abortCleanTemp", "abortCleanBackup"}
Steps       == {"idle", "write", "close"} \cup OpenSteps \cup CommitSteps \cup AbortSteps

Results == {"Ok", "OpenFailed", "WriteFailed", "RunFailed"}

(* A file system call fails. *)
Fault == faults < MaxFaults /\ faults' = faults + 1
Works == faults' = faults

Exists(n) == file[n] # Absent

(* if (exists(n)) remove(n); whether remove worked is not looked at *)
CleanUp(n) ==
  \/ file' = [file EXCEPT ![n] = Absent] /\ Works
  \/ Exists(n) /\ file' = file /\ Fault

Renames(from, to) == Works /\ file' = [file EXCEPT ![to] = file[from], ![from] = Absent]
RenameFails(to)   == file' = file /\ (Fault \/ (Exists(to) /\ Works))

Step(from, to) == pc = from /\ pc' = to

CleanUpStep(from, to, n) == Step(from, to) /\ CleanUp(n) /\ UNCHANGED <<sink, result, ghosts>>

-----------------------------------------------------------------------------
(* Bugs the checks must notice; none of them is part of Next.              *)

OpenTempInPlace ==          \* OpenTemp that writes a new destination in place
  /\ Step("openTemp", "write")
  /\ Works
  /\ file' = [file EXCEPT ![IF Exists("dest") THEN "tmp" ELSE "dest"] =
                            [session |-> session, whole |-> FALSE]]
  /\ handle' = TRUE
  /\ UNCHANGED <<truncate, result, session, had, ghosts>>

CommitPublishKeepsTemp ==   \* CommitPublish whose failure leaves path.tmp and skips the rollback
  \/ /\ Step("commitPublish", "commitDropBackup")
     /\ Renames("tmp", "dest")
     /\ latest' = file["tmp"]
     /\ UNCHANGED <<sink, result, crashes, before>>
  \/ /\ pc = "commitPublish"
     /\ RenameFails("dest")
     /\ pc' = "abort"
     /\ result' = "WriteFailed"
     /\ UNCHANGED <<sink, ghosts>>

CommitBackupByRemoval ==    \* CommitBackup that removes the destination instead of renaming it
  CleanUpStep("commitBackup", "commitPublish", "dest")

AbortCleanTempNever ==      \* AbortCleanTemp that forgets path.tmp
  /\ Step("abortCleanTemp", "abortCleanBackup")
  /\ Works
  /\ UNCHANGED <<file, sink, result, ghosts>>

-----------------------------------------------------------------------------
Init ==
  /\ \E old \in {Absent, [session |-> 0, whole |-> TRUE]} :
       /\ file = [n \in Names |-> IF n = "dest" THEN old ELSE Absent]
       /\ before = old
       /\ latest = old
  /\ truncate = TRUE
  /\ handle = FALSE
  /\ pc = "idle"
  /\ result = "Ok"
  /\ session = 0
  /\ had = FALSE
  /\ faults = 0
  /\ crashes = 0

(* A run takes a sink made with FileSink(fs, path, t). *)
Begin(t) ==
  /\ Step("idle", "openCheck")
  /\ session < MaxSessions
  /\ session' = session + 1
  /\ truncate' = t
  /\ result' = "Ok"
  /\ had' = FALSE
  /\ faults' = 0
  /\ before' = file["dest"]
  /\ UNCHANGED <<file, handle, crashes, latest>>

-----------------------------------------------------------------------------
(* open(): a destination that must not be replaced is refused, ...         *)
OpenCheck ==
  /\ pc = "openCheck"
  /\ IF ~truncate /\ Exists("dest")
       THEN pc' = "close" /\ result' = "OpenFailed"
       ELSE pc' = "openDir" /\ UNCHANGED result
  /\ Works
  /\ UNCHANGED <<file, sink, ghosts>>

(* ... the directory is made, if nothing stands in the way (Storage says   *)
(* when), ...                                                              *)
OpenDir ==
  /\ pc = "openDir"
  /\ \/ pc' = "openCleanTemp" /\ Works /\ UNCHANGED result
     \/ pc' = "close" /\ (Fault \/ Works) /\ result' = "OpenFailed"
  /\ UNCHANGED <<file, sink, ghosts>>

(* ... what an interrupted session left is removed, ... *)
OpenCleanTemp   == CleanUpStep("openCleanTemp", "openCleanBackup", "tmp")
OpenCleanBackup == CleanUpStep("openCleanBackup", "openTemp", "bak")

(* ... and path.tmp is opened for writing. *)
OpenTemp ==
  /\ pc = "openTemp"
  /\ \/ /\ pc' = "write"
        /\ Works
        /\ file' = [file EXCEPT !["tmp"] = [session |-> session, whole |-> FALSE]]
        /\ handle' = TRUE
        /\ UNCHANGED result
     \/ /\ pc' = "close"
        /\ Fault \/ Works
        /\ result' = "OpenFailed"
        /\ UNCHANGED <<file, handle>>
  /\ UNCHANGED <<truncate, session, had, ghosts>>

-----------------------------------------------------------------------------
(* write(): last is the write of the run that completes the output.        *)
Write(last) ==
  /\ pc = "write"
  /\ ~file["tmp"].whole
  /\ \/ /\ file' = [file EXCEPT !["tmp"].whole = last]
        /\ Works
        /\ UNCHANGED <<pc, result>>
     \/ /\ pc' = "abort"
        /\ Fault
        /\ result' = "WriteFailed"
        /\ UNCHANGED file
  /\ UNCHANGED <<sink, ghosts>>

(* The run ends early: a read error, corrupt data, no memory, or cancel,   *)
(* which is looked at once more after the last write.                      *)
RunFails ==
  /\ Step("write", "abort")
  /\ result' = "RunFailed"
  /\ Works
  /\ UNCHANGED <<file, sink, ghosts>>

-----------------------------------------------------------------------------
(* commit(): called when everything is written.                            *)
Commit ==
  /\ Step("write", "commitClose")
  /\ file["tmp"].whole
  /\ Works
  /\ UNCHANGED <<file, sink, result, ghosts>>

CommitClose ==
  /\ pc = "commitClose"
  /\ handle' = FALSE
  /\ had' = Exists("dest")
  /\ pc' = IF Exists("dest") THEN "commitCleanBackup" ELSE "commitPublish"
  /\ Works
  /\ UNCHANGED <<file, truncate, result, session, ghosts>>

CommitCleanBackup == CleanUpStep("commitCleanBackup", "commitBackup", "bak")

CommitBackup ==
  /\ pc = "commitBackup"
  /\ \/ pc' = "commitPublish" /\ Renames("dest", "bak") /\ UNCHANGED result
     \/ pc' = "abort" /\ RenameFails("bak") /\ result' = "WriteFailed"
  /\ UNCHANGED <<sink, ghosts>>

CommitPublish ==
  \/ /\ Step("commitPublish", "commitDropBackup")
     /\ Renames("tmp", "dest")
     /\ latest' = file["tmp"]
     /\ UNCHANGED <<sink, result, crashes, before>>
  \/ /\ pc = "commitPublish"
     /\ RenameFails("dest")
     /\ pc' = IF had THEN "commitRollback" ELSE "commitCleanTemp"
     /\ result' = "WriteFailed"
     /\ UNCHANGED <<sink, ghosts>>

(* The rollback; whether it worked is not looked at. *)
CommitRollback ==
  /\ Step("commitRollback", "commitCleanTemp")
  /\ Renames("bak", "dest") \/ RenameFails("dest")
  /\ UNCHANGED <<sink, result, ghosts>>

CommitCleanTemp == CleanUpStep("commitCleanTemp", "abort", "tmp")

CommitDropBackup == CleanUpStep("commitDropBackup", "close", "bak")

-----------------------------------------------------------------------------
(* abort(), which the session calls when it was opened and not committed.  *)
AbortClose ==
  /\ Step("abort", "abortCleanTemp")
  /\ handle' = FALSE
  /\ Works
  /\ UNCHANGED <<file, truncate, result, session, had, ghosts>>

AbortCleanTemp   == CleanUpStep("abortCleanTemp", "abortCleanBackup", "tmp")
AbortCleanBackup == CleanUpStep("abortCleanBackup", "close", "bak")

(* close(), always. *)
Close ==
  /\ Step("close", "idle")
  /\ handle' = FALSE
  /\ Works
  /\ UNCHANGED <<file, truncate, result, session, had, ghosts>>

-----------------------------------------------------------------------------
(* Power is lost.  Of a file that was open nothing is certain.             *)
Crash ==
  /\ Step(pc, "idle")
  /\ pc # "idle"
  /\ crashes < MaxCrashes
  /\ crashes' = crashes + 1
  /\ file' \in IF handle
                 THEN {[file EXCEPT !["tmp"] = c] :
                         c \in {Absent, file["tmp"], [session |-> session, whole |-> FALSE]}}
                 ELSE {file}
  /\ handle' = FALSE
  /\ Works
  /\ UNCHANGED <<truncate, result, session, had, before, latest>>

(* Every step of a session that does not depend on the directory. *)
Continue ==
  \/ OpenCheck \/ OpenCleanTemp \/ OpenCleanBackup
  \/ \E last \in BOOLEAN : Write(last)
  \/ RunFails
  \/ Commit \/ CommitClose \/ CommitCleanBackup \/ CommitBackup \/ CommitPublish
  \/ CommitRollback \/ CommitCleanTemp \/ CommitDropBackup
  \/ AbortClose \/ AbortCleanTemp \/ AbortCleanBackup \/ Close

Next ==
  \/ \E t \in BOOLEAN : Begin(t)
  \/ OpenDir \/ OpenTemp \/ Continue
  \/ Crash

Spec == Init /\ [][Next]_vars

-----------------------------------------------------------------------------
(* Every variable has its type.                                            *)
TypeOK ==
  /\ file \in [Names -> Content \cup {Absent}]
  /\ truncate \in BOOLEAN
  /\ handle \in BOOLEAN
  /\ pc \in Steps
  /\ result \in Results
  /\ session \in 0 .. MaxSessions
  /\ had \in BOOLEAN
  /\ faults \in 0 .. MaxFaults
  /\ crashes \in 0 .. MaxCrashes
  /\ before \in Content \cup {Absent}
  /\ latest \in Content \cup {Absent}

(* Whoever opens the destination finds a complete output, an older one at  *)
(* worst, whatever fails and wherever power is lost ("failed jobs do not   *)
(* silently publish partial data").                                        *)
DestinationWhole == Exists("dest") => file["dest"].whole

(* The last published output is never given up: while a session replaces   *)
(* it, it is still at the destination or in path.bak, wherever power is    *)
(* lost.  Only a session that finds no destination, because power was lost *)
(* between the two renames of an earlier one, may lose it: open() and      *)
(* abort() remove path.bak, which is then the only copy.                   *)
Kept == latest = Absent \/ \E n \in {"dest", "bak"} : file[n] = latest

OnlyRecoveryLoses == [][Kept /\ ~Kept' => before # latest /\ crashes > 0]_vars

(* A session that ends with an error leaves the destination as it found    *)
(* it, and one that ends with Ok has replaced it by its whole output.      *)
EndsAsReported ==
  [][pc = "close" =>
       pc' = "idle" /\ (crashes' = crashes =>
         file'["dest"] = IF result = "Ok" THEN [session |-> session, whole |-> TRUE] ELSE before)]_vars

(* A session that got past the checks of open() and in which nothing       *)
(* failed leaves neither path.tmp nor path.bak, whatever it found there.   *)
LeavesNothing ==
  pc = "close" /\ result \in {"Ok", "RunFailed"} /\ faults = 0 =>
    ~Exists("tmp") /\ ~Exists("bak")

-----------------------------------------------------------------------------
(* What CHANGELOG.md says of every rename failure, and what does not hold  *)
(* when the rollback rename fails too: abort() then removes path.bak.      *)
RenameFailuresPreserve ==
  [][pc = "close" /\ result = "WriteFailed" => file'["dest"] = before]_vars
=============================================================================
