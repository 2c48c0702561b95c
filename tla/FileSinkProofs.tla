--------------------------- MODULE FileSinkProofs ---------------------------
(***************************************************************************)
(* What TLAPS proves of module FileSink, for every number of sessions and  *)
(* power losses, and of Storage, for every set of tasks and directories.   *)
(***************************************************************************)
EXTENDS Storage, NatLemmas

USE DEF OpenSteps, CommitSteps, AbortSteps, Names, sink, ghosts

(* path.tmp is this session's while it is written, and whole from commit() *)
(* until it is published; only whole files are given the other two names.  *)
Committing == {"commitClose", "commitCleanBackup", "commitBackup", "commitPublish"}

WholeInv ==
  /\ pc = "write" => file["tmp"] \in [session : {session}, whole : BOOLEAN]
  /\ pc \in Committing => file["tmp"] = [session |-> session, whole |-> TRUE]
  /\ \A n \in {"dest", "bak"} : Exists(n) => file[n].whole

TypeInv == TypeOK /\ WholeInv

LEMMA AbsentIsNoFile == Absent \notin Content
BY BoundsAssumption

LEMMA InitTypeInv == Init => TypeInv
<1> SUFFICES ASSUME Init PROVE TypeInv
  OBVIOUS
<1> PICK old \in {Absent, [session |-> 0, whole |-> TRUE]} :
      /\ file = [n \in Names |-> IF n = "dest" THEN old ELSE Absent]
      /\ before = old
      /\ latest = old
  BY DEF Init
<1>1. [session |-> 0, whole |-> TRUE] \in Content
  <2>1. 0 \in 0 .. MaxSessions
    BY BoundsAssumption
  <2> QED
    BY <2>1 DEF Content
<1>2. TypeOK
  <2>1. file \in [Names -> Content \cup {Absent}]
    BY <1>1
  <2>2. before \in Content \cup {Absent} /\ latest \in Content \cup {Absent}
    BY <1>1
  <2>3. session \in 0 .. MaxSessions /\ faults \in 0 .. MaxFaults /\ crashes \in 0 .. MaxCrashes
    BY BoundsAssumption DEF Init
  <2>4. truncate \in BOOLEAN /\ handle \in BOOLEAN /\ had \in BOOLEAN
    BY DEF Init
  <2>5. pc \in Steps /\ result \in Results
    BY DEF Init, Steps, Results
  <2> QED
    BY <2>1, <2>2, <2>3, <2>4, <2>5 DEF TypeOK
<1>3. WholeInv
  BY DEF Init, WholeInv, Committing, Exists
<1> QED
  BY <1>2, <1>3 DEF TypeInv

(* exists(n) and remove(n) leave n as it is, or absent. *)
LEMMA CleanUpLeaves ==
  ASSUME TypeOK, NEW n \in Names, CleanUp(n)
  PROVE  /\ file' \in [Names -> Content \cup {Absent}]
         /\ \A m \in Names : m # n => file'[m] = file[m]
         /\ file'[n] \in {file[n], Absent}
         /\ faults' \in 0 .. MaxFaults
BY BoundsAssumption DEF TypeOK, CleanUp, Fault, Works

LEMMA RenameLeaves ==
  ASSUME TypeOK, NEW from \in Names, NEW to \in Names, from # to, Renames(from, to)
  PROVE  /\ file' \in [Names -> Content \cup {Absent}]
         /\ \A m \in Names : m # from /\ m # to => file'[m] = file[m]
         /\ file'[to] = file[from] /\ file'[from] = Absent
         /\ faults' \in 0 .. MaxFaults
BY DEF TypeOK, Renames, Works

LEMMA NextTypeInv == TypeInv /\ [Next]_vars => TypeInv'
<1> SUFFICES ASSUME TypeInv, [Next]_vars PROVE TypeInv'
  OBVIOUS
<1> USE BoundsAssumption DEF TypeInv, TypeOK, WholeInv, Committing, Steps, Results, Exists, Step,
        Fault, Works
<1>1. ASSUME NEW t \in BOOLEAN, Begin(t) PROVE TypeInv'
  <2>1. session' \in 0 .. MaxSessions /\ faults' \in 0 .. MaxFaults
    BY <1>1 DEF Begin
  <2>2. before' \in Content \cup {Absent}
    BY <1>1 DEF Begin
  <2>3. pc' = "openCheck" /\ had' = FALSE /\ result' = "Ok" /\ truncate' = t
        /\ UNCHANGED <<file, handle, crashes, latest>>
    BY <1>1 DEF Begin
  <2> QED
    BY <2>1, <2>2, <2>3
<1>2. ASSUME OpenCheck \/ OpenDir PROVE TypeInv'
  BY <1>2 DEF OpenCheck, OpenDir
<1>3. ASSUME OpenTemp PROVE TypeInv'
  <2>1. [session |-> session, whole |-> FALSE] \in Content
    BY DEF Content
  <2>2. CASE /\ pc' = "write" /\ Works /\ handle' = TRUE /\ UNCHANGED result
             /\ file' = [file EXCEPT !["tmp"] = [session |-> session, whole |-> FALSE]]
    <3>1. /\ file' \in [Names -> Content \cup {Absent}]
          /\ file'["tmp"] = [session |-> session, whole |-> FALSE]
          /\ \A n \in {"dest", "bak"} : file'[n] = file[n]
      BY <2>1, <2>2
    <3> QED
      BY <1>3, <2>2, <3>1 DEF OpenTemp
  <2>3. CASE pc' = "close" /\ (Fault \/ Works) /\ result' = "OpenFailed" /\ UNCHANGED <<file, handle>>
    BY <1>3, <2>3 DEF OpenTemp
  <2> QED
    BY <1>3, <2>2, <2>3 DEF OpenTemp
<1>4. ASSUME NEW last \in BOOLEAN, Write(last) PROVE TypeInv'
  <2>1. file["tmp"] \in [session : {session}, whole : BOOLEAN]
    BY <1>4 DEF Write
  <2>2. [file["tmp"] EXCEPT !.whole = last] \in Content \cap [session : {session}, whole : BOOLEAN]
    BY <2>1 DEF Content
  <2>3. CASE file' = [file EXCEPT !["tmp"].whole = last] /\ Works /\ UNCHANGED <<pc, result>>
    <3>1. file' = [file EXCEPT !["tmp"] = [file["tmp"] EXCEPT !.whole = last]]
      BY <2>3
    <3> QED
      BY <1>4, <2>2, <2>3, <3>1 DEF Write
  <2> QED
    BY <1>4, <2>3 DEF Write
<1>5. ASSUME RunFails PROVE TypeInv'
  BY <1>5 DEF RunFails
<1>6. ASSUME Commit PROVE TypeInv'
  BY <1>6 DEF Commit
<1>7. ASSUME CommitClose PROVE TypeInv'
  BY <1>7 DEF CommitClose
<1>8. ASSUME NEW n \in Names, CleanUp(n), UNCHANGED <<sink, result, ghosts>>, pc \in Steps,
             pc' \in Steps \ {"write"}, pc' \in Committing => pc \in Committing /\ n # "tmp"
      PROVE  TypeInv'
  <2>1. /\ file' \in [Names -> Content \cup {Absent}]
        /\ \A m \in Names : m # n => file'[m] = file[m]
        /\ file'[n] \in {file[n], Absent}
        /\ faults' \in 0 .. MaxFaults
    BY <1>8, CleanUpLeaves
  <2>2. UNCHANGED <<sink, result, ghosts>>
    BY <1>8
  <2> QED
    BY <1>8, <2>1, <2>2
<1>9. ASSUME OpenCleanTemp \/ OpenCleanBackup \/ CommitCleanBackup \/ CommitCleanTemp
             \/ CommitDropBackup \/ AbortCleanTemp \/ AbortCleanBackup
      PROVE  TypeInv'
  BY <1>8, <1>9
  DEF OpenCleanTemp, OpenCleanBackup, CommitCleanBackup, CommitCleanTemp, CommitDropBackup,
      AbortCleanTemp, AbortCleanBackup, CleanUpStep
<1>10. ASSUME CommitBackup PROVE TypeInv'
  <2>1. CASE pc' = "commitPublish" /\ Renames("dest", "bak") /\ UNCHANGED result
    BY <1>10, <2>1, RenameLeaves DEF CommitBackup
  <2>2. CASE pc' = "abort" /\ RenameFails("bak") /\ result' = "WriteFailed"
    BY <1>10, <2>2 DEF CommitBackup, RenameFails
  <2> QED
    BY <1>10, <2>1, <2>2 DEF CommitBackup
<1>11. ASSUME CommitPublish PROVE TypeInv'
  BY <1>11, RenameLeaves DEF CommitPublish, RenameFails
<1>12. ASSUME CommitRollback PROVE TypeInv'
  BY <1>12, RenameLeaves DEF CommitRollback, RenameFails
<1>13. ASSUME AbortClose \/ Close PROVE TypeInv'
  BY <1>13 DEF AbortClose, Close
<1>14. ASSUME Crash PROVE TypeInv'
  <2>1. [session |-> session, whole |-> FALSE] \in Content
    BY DEF Content
  <2>2. file' \in [Names -> Content \cup {Absent}] /\ \A n \in {"dest", "bak"} : file'[n] = file[n]
    <3>1. CASE handle
      <4>1. PICK c \in {Absent, file["tmp"], [session |-> session, whole |-> FALSE]} :
              file' = [file EXCEPT !["tmp"] = c]
        BY <1>14, <3>1 DEF Crash
      <4>2. c \in Content \cup {Absent}
        BY <2>1
      <4> QED
        BY <4>1, <4>2
    <3>2. CASE ~handle
      BY <1>14, <3>2 DEF Crash
    <3> QED
      BY <3>1, <3>2
  <2>3. UNCHANGED <<truncate, result, session, had, before, latest, faults>>
        /\ pc' = "idle" /\ handle' = FALSE /\ crashes' \in 0 .. MaxCrashes
    BY <1>14 DEF Crash
  <2> QED
    BY <2>2, <2>3
<1>15. CASE UNCHANGED vars
  BY <1>15 DEF vars
<1> QED
  BY <1>1, <1>2, <1>3, <1>4, <1>5, <1>6, <1>7, <1>9, <1>10, <1>11, <1>12, <1>13, <1>14, <1>15
  DEF Next, Continue

(* Every variable keeps its type, and whoever opens the destination finds  *)
(* a complete output, however many calls of the file system fail.          *)
THEOREM DestinationIsWhole == Spec => [](TypeOK /\ DestinationWhole)
<1>1. Spec => []TypeInv
  BY InitTypeInv, NextTypeInv, PTL DEF Spec
<1>2. TypeInv => TypeOK /\ DestinationWhole
  BY DEF TypeInv, WholeInv, DestinationWhole
<1> QED
  BY <1>1, <1>2, PTL

-----------------------------------------------------------------------------
(* Where the old destination is, step by step, when at most one call of    *)
(* the file system fails in a session.  Until commit() moves it, it is     *)
(* where it was.                                                           *)
Intact ==
  OpenSteps \cup AbortSteps \cup
  {"write", "commitClose", "commitCleanBackup", "commitBackup", "commitCleanTemp"}

(* No call but the renames decides, and none has failed so far. *)
Going == OpenSteps \cup {"write", "commitClose", "commitCleanBackup", "commitBackup", "commitPublish"}

Published == file["dest"] = [session |-> session, whole |-> TRUE] /\ latest = file["dest"]

ReplaceInv ==
  /\ pc \in Intact \/ (pc = "close" /\ result # "Ok") => file["dest"] = before
  /\ pc \in {"commitPublish", "commitRollback"} =>
       /\ file["dest"] = Absent
       /\ before = IF had THEN file["bak"] ELSE Absent
  /\ pc \in {"commitCleanBackup", "commitBackup", "commitRollback"} => had
  /\ pc = "commitRollback" => faults >= 1
  /\ pc \in Going \cup {"commitDropBackup"} => result = "Ok"
  /\ pc \in AbortSteps \cup {"commitRollback", "commitCleanTemp"} => result # "Ok"
  /\ pc = "commitDropBackup" \/ (pc = "close" /\ result = "Ok") => Published

(* Without a power loss every session finds what was published last. *)
HistoryInv ==
  crashes = 0 =>
    IF pc = "idle" THEN latest = file["dest"]
    ELSE before = latest \/ (Published /\ pc \in {"commitDropBackup", "close"})

OneFaultInv == ReplaceInv /\ HistoryInv

LEMMA InitOneFaultInv == Init => OneFaultInv
BY DEF Init, OneFaultInv, ReplaceInv, HistoryInv, Intact, Going

LEMMA NextOneFaultInv ==
  ASSUME MaxFaults <= 1, TypeInv, OneFaultInv, [Next]_vars
  PROVE  OneFaultInv'
<1> USE BoundsAssumption DEF TypeInv, TypeOK, WholeInv, Committing, OneFaultInv, ReplaceInv,
        HistoryInv, Intact, Going, Published, Exists, Step, Works
<1>1. ASSUME NEW t \in BOOLEAN, Begin(t) PROVE OneFaultInv'
  BY <1>1 DEF Begin
<1>2. ASSUME OpenCheck PROVE OneFaultInv'
  BY <1>2 DEF OpenCheck
<1>3. ASSUME OpenDir PROVE OneFaultInv'
  BY <1>3 DEF OpenDir
<1>4. ASSUME OpenTemp PROVE OneFaultInv'
  <2>1. file'["dest"] = file["dest"] /\ UNCHANGED <<session, had, before, latest, crashes>>
    BY <1>4 DEF OpenTemp
  <2>2. pc = "openTemp" /\ ((pc' = "write" /\ UNCHANGED result) \/ (pc' = "close" /\ result' = "OpenFailed"))
    BY <1>4 DEF OpenTemp
  <2> QED
    BY <2>1, <2>2
<1>5. ASSUME NEW last \in BOOLEAN, Write(last) PROVE OneFaultInv'
  <2>1. file'["dest"] = file["dest"] /\ UNCHANGED <<session, had, before, latest, crashes>>
    BY <1>5 DEF Write
  <2>2. pc = "write" /\ (UNCHANGED <<pc, result>> \/ (pc' = "abort" /\ result' = "WriteFailed"))
    BY <1>5 DEF Write
  <2> QED
    BY <2>1, <2>2
<1>6. ASSUME RunFails \/ Commit PROVE OneFaultInv'
  BY <1>6 DEF RunFails, Commit
<1>7. ASSUME CommitClose PROVE OneFaultInv'
  BY <1>7 DEF CommitClose
<1>8. ASSUME NEW n \in {"tmp", "bak"}, CleanUp(n), UNCHANGED <<sink, result, ghosts>>,
             \/ pc \in {"openCleanTemp", "openCleanBackup"} /\ pc' \in OpenSteps
             \/ pc = "commitCleanBackup" /\ pc' = "commitBackup"
             \/ pc \in {"commitCleanTemp", "abortCleanTemp"} /\ pc' \in AbortSteps
             \/ pc \in {"commitDropBackup", "abortCleanBackup"} /\ pc' = "close"
      PROVE  OneFaultInv'
  <2>1. file'["dest"] = file["dest"]
    BY <1>8, CleanUpLeaves
  <2> QED
    BY <1>8, <2>1
<1>9. ASSUME OpenCleanTemp \/ OpenCleanBackup \/ CommitCleanBackup \/ CommitCleanTemp
             \/ CommitDropBackup \/ AbortCleanTemp \/ AbortCleanBackup
      PROVE  OneFaultInv'
  BY <1>8, <1>9
  DEF OpenCleanTemp, OpenCleanBackup, CommitCleanBackup, CommitCleanTemp, CommitDropBackup,
      AbortCleanTemp, AbortCleanBackup, CleanUpStep
<1>10. ASSUME CommitBackup PROVE OneFaultInv'
  <2>1. CASE pc' = "commitPublish" /\ Renames("dest", "bak") /\ UNCHANGED result
    BY <1>10, <2>1, RenameLeaves DEF CommitBackup
  <2>2. CASE pc' = "abort" /\ RenameFails("bak") /\ result' = "WriteFailed"
    BY <1>10, <2>2 DEF CommitBackup, RenameFails
  <2> QED
    BY <1>10, <2>1, <2>2 DEF CommitBackup
<1>11. ASSUME CommitPublish PROVE OneFaultInv'
  <2>1. CASE pc' = "commitDropBackup"
    BY <1>11, <2>1, RenameLeaves DEF CommitPublish
  <2>2. CASE pc' # "commitDropBackup"
    <3>1. RenameFails("dest") /\ ~Exists("dest")
      BY <1>11, <2>2 DEF CommitPublish
    <3>2. faults' >= 1
      BY <3>1 DEF RenameFails, Fault
    <3> QED
      BY <1>11, <2>2, <3>1, <3>2 DEF CommitPublish, RenameFails
  <2> QED
    BY <2>1, <2>2
<1>12. ASSUME CommitRollback PROVE OneFaultInv'
  <2>1. ~RenameFails("dest")
    BY <1>12 DEF CommitRollback, RenameFails, Fault
  <2> QED
    BY <1>12, <2>1, RenameLeaves DEF CommitRollback
<1>13. ASSUME AbortClose PROVE OneFaultInv'
  BY <1>13 DEF AbortClose
<1>14. ASSUME Close PROVE OneFaultInv'
  BY <1>14 DEF Close
<1>15. ASSUME Crash PROVE OneFaultInv'
  BY <1>15 DEF Crash
<1>16. CASE UNCHANGED vars
  BY <1>16 DEF vars
<1> QED
  BY <1>1, <1>2, <1>3, <1>4, <1>5, <1>6, <1>7, <1>9, <1>10, <1>11, <1>12, <1>13, <1>14, <1>15, <1>16
  DEF Next, Continue

LEMMA OneFaultInvariant == ASSUME MaxFaults <= 1 PROVE Spec => [](TypeInv /\ OneFaultInv)
BY InitTypeInv, NextTypeInv, InitOneFaultInv, NextOneFaultInv, PTL DEF Spec

(* With one failing call in a session at most, what a run reports is what  *)
(* became of the destination, however many sessions use the path and       *)
(* wherever power was lost in earlier ones.                                *)
THEOREM RunsEndAsReported == MaxFaults <= 1 /\ Spec => EndsAsReported
<1> SUFFICES ASSUME MaxFaults <= 1 PROVE Spec => EndsAsReported
  OBVIOUS
<1> DEFINE Ends == pc = "close" =>
             pc' = "idle" /\ (crashes' = crashes =>
               file'["dest"] = IF result = "Ok" THEN [session |-> session, whole |-> TRUE] ELSE before)
<1>1. TypeInv /\ OneFaultInv /\ [Next]_vars => [Ends]_vars
  <2> SUFFICES ASSUME TypeInv, OneFaultInv, Next, pc = "close" PROVE Ends
    BY DEF vars
  <2>1. Close \/ Crash
    BY DEF Next, Continue, Begin, OpenDir, OpenTemp, OpenCheck, OpenCleanTemp, OpenCleanBackup, Write,
           RunFails, Commit, CommitClose, CommitCleanBackup, CommitBackup, CommitPublish,
           CommitRollback, CommitCleanTemp, CommitDropBackup, AbortClose, AbortCleanTemp,
           AbortCleanBackup, CleanUpStep, Step
  <2>2. CASE Close
    BY <2>2 DEF Close, Step, OneFaultInv, ReplaceInv, Published
  <2>3. CASE Crash
    BY <2>3 DEF Crash, Step, TypeInv, TypeOK
  <2> QED
    BY <2>1, <2>2, <2>3
<1> QED
  BY <1>1, OneFaultInvariant, PTL DEF Spec, EndsAsReported

(* With one failing call in a session at most, the last published output   *)
(* is given up only by a session that did not find it at the destination   *)
(* because power was lost in an earlier one.                               *)
THEOREM OnlyRecovery == MaxFaults <= 1 /\ Spec => OnlyRecoveryLoses
<1> SUFFICES ASSUME MaxFaults <= 1 PROVE Spec => OnlyRecoveryLoses
  OBVIOUS
<1> DEFINE Loses == Kept /\ ~Kept' => before # latest /\ crashes > 0
           Found == before = latest \/ (Published /\ pc \in {"commitDropBackup", "close"})
<1>1. TypeInv' /\ OneFaultInv' /\ pc' # "idle" /\ Found' => Kept'
  BY DEF Kept, TypeInv, TypeOK, Steps, OneFaultInv, ReplaceInv, Intact, Published
<1>2. TypeInv /\ OneFaultInv /\ TypeInv' /\ OneFaultInv' /\ [Next]_vars => [Loses]_vars
  <2> SUFFICES ASSUME TypeInv, OneFaultInv, TypeInv', OneFaultInv', Next, Kept, ~Kept'
               PROVE  before # latest /\ crashes > 0
    BY DEF vars
  <2>1. ~(\E t \in BOOLEAN : Begin(t)) /\ ~Close /\ ~Crash
    BY DEF Begin, Close, Crash, Kept, TypeInv, TypeOK
  <2>2. /\ before' = before /\ crashes' = crashes /\ pc' # "idle"
        /\ latest' = latest \/ pc' = "commitDropBackup"
    BY <2>1
    DEF Next, Continue, OpenDir, OpenTemp, OpenCheck, OpenCleanTemp, OpenCleanBackup, Write, RunFails,
        Commit, CommitClose, CommitCleanBackup, CommitBackup, CommitPublish, CommitRollback,
        CommitCleanTemp, CommitDropBackup, AbortClose, AbortCleanTemp, AbortCleanBackup, CleanUpStep,
        Step
  <2>3. ~Found'
    BY <1>1, <2>2
  <2>4. crashes # 0
    BY <2>2, <2>3 DEF OneFaultInv, HistoryInv
  <2>5. pc' = "commitDropBackup" => Published'
    BY DEF OneFaultInv, ReplaceInv
  <2>6. before # latest
    BY <2>2, <2>3, <2>5
  <2> QED
    BY <2>4, <2>6 DEF TypeInv, TypeOK
<1> QED
  BY <1>2, OneFaultInvariant, PTL DEF Spec, OnlyRecoveryLoses

-----------------------------------------------------------------------------
(* As long as no call has failed, what a session is past removing is gone. *)
CleanInv ==
  faults = 0 =>
    /\ pc \in {"abortCleanBackup", "commitDropBackup"} => ~Exists("tmp")
    /\ pc = "close" /\ result # "OpenFailed" => ~Exists("tmp") /\ ~Exists("bak")

LEMMA NextCleanInv == ASSUME TypeInv, CleanInv, [Next]_vars PROVE CleanInv'
<1> USE BoundsAssumption DEF CleanInv, Exists
<1>1. CASE pc' \notin {"abortCleanBackup", "commitDropBackup", "close"}
  BY <1>1
<1>2. CASE OpenCheck \/ OpenDir \/ OpenTemp
  BY <1>2 DEF OpenCheck, OpenDir, OpenTemp
<1>3. CASE CommitPublish
  <2>1. CASE pc' = "commitDropBackup"
    BY <1>3, <2>1, RenameLeaves DEF CommitPublish, TypeInv, Step
  <2>2. CASE pc' # "commitDropBackup"
    <3>1. pc' \in {"commitRollback", "commitCleanTemp"}
      BY <1>3, <2>2 DEF CommitPublish, Step
    <3> QED
      BY <1>1, <3>1
  <2> QED
    BY <2>1, <2>2
<1>4. ASSUME NEW n \in Names, CleanUp(n), faults' = 0
      PROVE  file'[n] = Absent /\ faults = 0 /\ (\A m \in Names : m # n => file'[m] = file[m])
  <2>1. faults \in Nat /\ faults' = faults
    BY <1>4 DEF CleanUp, Fault, Works, TypeInv, TypeOK
  <2>2. file' = [file EXCEPT ![n] = Absent]
    BY <1>4, <2>1 DEF CleanUp, Fault, TypeInv, TypeOK
  <2> QED
    BY <1>4, <2>1, <2>2 DEF TypeInv, TypeOK
<1>5. CASE AbortCleanTemp
  BY <1>4, <1>5 DEF AbortCleanTemp, CleanUpStep, Step
<1>6. CASE AbortCleanBackup
  BY <1>4, <1>6 DEF AbortCleanBackup, CleanUpStep, Step
<1>7. CASE CommitDropBackup
  BY <1>4, <1>7 DEF CommitDropBackup, CleanUpStep, Step
<1>8. CASE UNCHANGED vars
  BY <1>8 DEF vars
<1>9. ASSUME Next, ~OpenCheck, ~OpenDir, ~OpenTemp, ~CommitPublish, ~AbortCleanTemp,
             ~AbortCleanBackup, ~CommitDropBackup
      PROVE  \/ pc' \notin {"abortCleanBackup", "commitDropBackup", "close"}
             \/ pc = "write" /\ pc' = "write"
  BY <1>9
  DEF Next, Continue, Begin, OpenCleanTemp, OpenCleanBackup, Write, RunFails, Commit, CommitClose,
      CommitCleanBackup, CommitBackup, CommitRollback, CommitCleanTemp, AbortClose, Close, Crash,
      CleanUpStep, Step
<1> QED
  BY <1>1, <1>2, <1>3, <1>5, <1>6, <1>7, <1>8, <1>9

(* A session that was not refused and in which no call of the file system  *)
(* failed leaves neither path.tmp nor path.bak, whatever an earlier one    *)
(* left, and wherever it was interrupted.                                  *)
THEOREM NothingIsLeft == Spec => []LeavesNothing
<1>1. Init => CleanInv
  BY DEF Init, CleanInv
<1>2. CleanInv => LeavesNothing
  BY DEF CleanInv, LeavesNothing
<1> QED
  BY <1>1, <1>2, InitTypeInv, NextTypeInv, NextCleanInv, PTL DEF Spec

-----------------------------------------------------------------------------
LEMMA StorageStepIsFileSinkStep == [StorageNext]_<<vars, directories>> => [Next]_vars
<1>1. ASSUME NEW t \in BOOLEAN, BeginSession(t) PROVE Next
  BY <1>1 DEF BeginSession, Next
<1> QED
  BY <1>1
  DEF StorageNext, EnsureDirectory, OpenInDirectory, OpenTempInDirectory, Others, Next

(* What other tasks do to the directories, and what the sink's own call of *)
(* espCompressorEnsureDir does, is not seen; its answer is OpenDir's.      *)
THEOREM StorageIsFileSink == StorageSpec => Spec
<1>1. StorageInit => Init
  BY DEF StorageInit
<1> QED
  BY <1>1, StorageStepIsFileSinkStep, PTL DEF StorageSpec, Spec

(* So the destination is whole there too, and nothing is left behind,      *)
(* whatever becomes of the directories.                                    *)
THEOREM StorageDestinationIsWhole == StorageSpec => [](DestinationWhole /\ LeavesNothing)
BY StorageIsFileSink, DestinationIsWhole, NothingIsLeft, PTL

-----------------------------------------------------------------------------
(* Paths.  The file system drops the names that are empty, from the front  *)
(* to the back.                                                            *)
Resolve(p) == Directory!Resolve(p)
Above(p)   == Directory!Above(p)

NamesStep(p, f, i) ==
  IF i = 0 THEN <<>> ELSE IF p[i] # "" THEN Append(f[i - 1], p[i]) ELSE f[i - 1]

IsNames(p, f) == f = [i \in 0 .. Len(p) |-> NamesStep(p, f, i)]

LEMMA NamesExist == ASSUME NEW p, Len(p) \in Nat PROVE \E f : IsNames(p, f)
<1> DEFINE UpTo(k) == {i \in 0 .. Len(p) : i <= k}
           Fits(k) == \E f : f = [i \in UpTo(k) |-> NamesStep(p, f, i)]
           Covered == {k \in Nat : Fits(k)}
<1>1. 0 \in Covered
  <2> DEFINE f == [i \in UpTo(0) |-> <<>>]
  <2>1. ASSUME NEW i \in UpTo(0) PROVE NamesStep(p, f, i) = <<>>
    <3>1. i = 0
      OBVIOUS
    <3> QED
      BY <3>1 DEF NamesStep
  <2>2. f = [i \in UpTo(0) |-> NamesStep(p, f, i)]
    <3> HIDE DEF UpTo
    <3> QED
      BY <2>1
  <2> QED
    BY <2>2
<1>2. ASSUME NEW k \in Nat, k \in Covered PROVE k + 1 \in Covered
  <2>1. PICK f : f = [i \in UpTo(k) |-> NamesStep(p, f, i)]
    BY <1>2
  <2> DEFINE g == [i \in UpTo(k + 1) |-> NamesStep(p, f, i)]
  <2>2. UpTo(k) \subseteq UpTo(k + 1) /\ \A i \in UpTo(k + 1) : i # 0 => i - 1 \in UpTo(k)
    OBVIOUS
  <2>3. \A i \in UpTo(k) : f[i] = g[i]
    BY <2>1, <2>2
  <2>4. ASSUME NEW i \in UpTo(k + 1) PROVE NamesStep(p, f, i) = NamesStep(p, g, i)
    BY <2>2, <2>3 DEF NamesStep
  <2>5. g = [i \in UpTo(k + 1) |-> NamesStep(p, g, i)]
    <3> HIDE DEF UpTo
    <3> QED
      BY <2>4
  <2>6. Fits(k + 1)
    <3> HIDE DEF UpTo, g
    <3> QED
      BY <2>5
  <2> HIDE DEF Fits
  <2> QED
    BY <2>6
<1>3. Fits(Len(p))
  <2> HIDE DEF Fits
  <2>1. Nat \subseteq Covered
    BY <1>1, <1>2, Induction
  <2> QED
    BY <2>1
<1>4. UpTo(Len(p)) = 0 .. Len(p)
  OBVIOUS
<1> QED
  BY <1>3, <1>4 DEF IsNames

LEMMA ResolveIs == ASSUME NEW p, Len(p) \in Nat PROVE \E f : IsNames(p, f) /\ Resolve(p) = f[Len(p)]
<1> DEFINE g == CHOOSE f : IsNames(p, f)
<1>1. IsNames(p, g)
  BY NamesExist
<1>2. Resolve(p) = g[Len(p)]
  BY Zenon DEF Resolve, Directory!Resolve, IsNames, NamesStep
<1> QED
  BY <1>1, <1>2

Upto(p, n) == SubSeq(p, 1, n)

LEMMA NamesStart == ASSUME NEW p \in Seq(STRING), NEW f, IsNames(p, f) PROVE f[0] = <<>>
<1>1. 0 \in 0 .. Len(p)
  OBVIOUS
<1>2. f[0] = NamesStep(p, f, 0)
  BY <1>1 DEF IsNames
<1> QED
  BY <1>2 DEF NamesStep

(* The names of a prefix of a path are those of the path up to there. *)
LEMMA PrefixNames ==
  ASSUME NEW p \in Seq(STRING), NEW f, IsNames(p, f), NEW n \in 0 .. Len(p)
  PROVE  Resolve(Upto(p, n)) = f[n]
<1> DEFINE q == Upto(p, n)
<1>1. q \in Seq(STRING) /\ Len(q) = n /\ \A i \in 1 .. n : q[i] = p[i]
  BY DEF Upto
<1>2. PICK g : IsNames(q, g) /\ Resolve(q) = g[n]
  BY <1>1, ResolveIs
<1> HIDE DEF q
<1> DEFINE Agree == {k \in Nat : k <= n => g[k] = f[k]}
<1>3. 0 \in Agree
  BY <1>1, <1>2, NamesStart
<1>4. ASSUME NEW k \in Nat, k \in Agree PROVE k + 1 \in Agree
  <2> SUFFICES ASSUME k + 1 <= n PROVE g[k + 1] = f[k + 1]
    OBVIOUS
  <2>1. k + 1 \in 0 .. Len(p) /\ k + 1 \in 0 .. Len(q) /\ k + 1 # 0 /\ (k + 1) - 1 = k
        /\ k + 1 \in 1 .. n /\ k <= n
    BY <1>1
  <2>2. g[k] = f[k] /\ q[k + 1] = p[k + 1]
    BY <1>1, <1>4, <2>1
  <2>3. g[k + 1] = NamesStep(q, g, k + 1) /\ f[k + 1] = NamesStep(p, f, k + 1)
    BY <1>2, <2>1 DEF IsNames
  <2> QED
    BY <2>1, <2>2, <2>3 DEF NamesStep
<1>5. n \in Agree
  <2> HIDE DEF Agree
  <2>1. Nat \subseteq Agree
    BY <1>3, <1>4, Induction
  <2> QED
    BY <2>1
<1> QED
  BY <1>2, <1>5 DEF q

LEMMA NoNames == ASSUME NEW p \in Seq(STRING) PROVE Resolve(Upto(p, 0)) = <<>>
<1>1. PICK f : IsNames(p, f)
  BY NamesExist
<1>2. Resolve(Upto(p, 0)) = f[0]
  BY <1>1, PrefixNames
<1> QED
  BY <1>1, <1>2, NamesStart

LEMMA NextName ==
  ASSUME NEW p \in Seq(STRING), NEW n \in 1 .. Len(p)
  PROVE  Resolve(Upto(p, n)) =
           IF p[n] # "" THEN Append(Resolve(Upto(p, n - 1)), p[n]) ELSE Resolve(Upto(p, n - 1))
<1>1. PICK f : IsNames(p, f)
  BY NamesExist
<1>2. n \in 0 .. Len(p) /\ n - 1 \in 0 .. Len(p) /\ n # 0
  OBVIOUS
<1>3. Resolve(Upto(p, n)) = f[n] /\ Resolve(Upto(p, n - 1)) = f[n - 1]
  BY <1>1, <1>2, PrefixNames
<1>4. f[n] = NamesStep(p, f, n)
  BY <1>1, <1>2 DEF IsNames
<1> QED
  BY <1>2, <1>3, <1>4 DEF NamesStep

LEMMA NamesType ==
  ASSUME NEW p \in Seq(STRING), NEW n \in 0 .. Len(p)
  PROVE  Resolve(Upto(p, n)) \in Seq(STRING)
<1> DEFINE Typed == {k \in Nat : k <= Len(p) => Resolve(Upto(p, k)) \in Seq(STRING)}
<1>1. 0 \in Typed
  <2>1. <<>> \in Seq(STRING)
    OBVIOUS
  <2> QED
    BY <2>1, NoNames
<1>2. ASSUME NEW k \in Nat, k \in Typed PROVE k + 1 \in Typed
  <2> SUFFICES ASSUME k + 1 <= Len(p) PROVE Resolve(Upto(p, k + 1)) \in Seq(STRING)
    OBVIOUS
  <2>1. k + 1 \in 1 .. Len(p) /\ (k + 1) - 1 = k /\ p[k + 1] \in STRING
    OBVIOUS
  <2>2. Resolve(Upto(p, k)) \in Seq(STRING)
    BY <1>2
  <2>3. Resolve(Upto(p, k + 1)) =
          IF p[k + 1] # "" THEN Append(Resolve(Upto(p, k)), p[k + 1]) ELSE Resolve(Upto(p, k))
    BY <2>1, NextName
  <2>4. Append(Resolve(Upto(p, k)), p[k + 1]) \in Seq(STRING)
    BY <2>1, <2>2, AppendProperties
  <2> QED
    BY <2>2, <2>3, <2>4
<1> HIDE DEF Typed
<1>3. Nat \subseteq Typed
  BY <1>1, <1>2, Induction
<1> QED
  BY <1>3 DEF Typed

(* The whole path is a prefix of itself. *)
LEMMA WholePath == ASSUME NEW p \in Seq(STRING) PROVE Upto(p, Len(p)) = p
BY DEF Upto

LEMMA AboveItself ==
  ASSUME NEW s \in Seq(STRING) PROVE s \in Above(s) /\ <<>> \in Above(s) /\ Above(s) \subseteq Seq(STRING)
BY DEF Above, Directory!Above

LEMMA AboveAbove ==
  ASSUME NEW s \in Seq(STRING), NEW r \in Above(s) PROVE Above(r) \subseteq Above(s)
<1>1. PICK n \in 0 .. Len(s) : r = SubSeq(s, 1, n)
  BY DEF Above, Directory!Above
<1>2. ASSUME NEW k \in 0 .. Len(r) PROVE SubSeq(r, 1, k) = SubSeq(s, 1, k) /\ k \in 0 .. Len(s)
  BY <1>1
<1> QED
  BY <1>2 DEF Above, Directory!Above

Parents(s) == Above(Directory!Front(s))

LEMMA FrontIs ==
  ASSUME NEW s \in Seq(STRING), s # <<>>
  PROVE  /\ Directory!Front(s) \in Seq(STRING)
         /\ Len(Directory!Front(s)) = Len(s) - 1
         /\ \A k \in 0 .. Len(s) - 1 : SubSeq(Directory!Front(s), 1, k) = SubSeq(s, 1, k)
<1> DEFINE n == Len(s) - 1
           r == SubSeq(s, 1, n)
<1>1. n \in Nat /\ n <= Len(s) /\ Directory!Front(s) = r
  BY DEF Directory!Front
<1>2. r \in Seq(STRING) /\ Len(r) = n /\ \A i \in 1 .. n : r[i] = s[i]
  <2> HIDE DEF n
  <2>1. \A i \in 1 .. n : s[i] \in STRING
    BY <1>1
  <2>2. 1 \in Int /\ n \in Int /\ n - 1 + 1 = n /\ (1 <= n \/ n = 0)
    BY <1>1
  <2>3. /\ r \in Seq(STRING) /\ Len(r) = IF 1 <= n THEN n - 1 + 1 ELSE 0
        /\ \A i \in 1 .. n - 1 + 1 : r[i] = s[1 + i - 1]
    BY <2>1, <2>2, SubSeqProperties
  <2>4. \A i \in 1 .. n : 1 + i - 1 = i
    BY <1>1
  <2> QED
    BY <2>2, <2>3, <2>4
<1>3. ASSUME NEW k \in 0 .. n PROVE SubSeq(r, 1, k) = SubSeq(s, 1, k)
  <2> HIDE DEF n, r
  <2> QED
    BY <1>1, <1>2, <1>3
<1> QED
  BY <1>1, <1>2, <1>3

LEMMA ParentsAbove ==
  ASSUME NEW s \in Seq(STRING)
  PROVE  /\ Parents(s) \subseteq Above(s)
         /\ Above(s) = Parents(s) \cup {s}
<1>1. CASE s = <<>>
  <2>1. Len(s) = 0 /\ SubSeq(s, 1, 0 - 1) = <<>>
    BY <1>1, SubSeqEmpty
  <2>2. Directory!Front(s) = s
    BY <1>1, <2>1 DEF Directory!Front
  <2> QED
    BY <2>2, AboveItself DEF Parents
<1>2. CASE s # <<>>
  <2> DEFINE r == Directory!Front(s)
  <2>1. r \in Seq(STRING) /\ Len(r) = Len(s) - 1 /\ Len(s) # 0
        /\ \A k \in 0 .. Len(r) : SubSeq(r, 1, k) = SubSeq(s, 1, k)
    BY <1>2, FrontIs
  <2>2. 0 .. Len(s) = (0 .. Len(r)) \cup {Len(s)}
    BY <2>1
  <2>3. SubSeq(s, 1, Len(s)) = s
    OBVIOUS
  <2> QED
    BY <2>1, <2>2, <2>3 DEF Parents, Above, Directory!Above
<1> QED
  BY <1>1, <1>2

LEMMA FrontOfAppend ==
  ASSUME NEW s \in Seq(STRING), NEW x \in STRING
  PROVE  Directory!Front(Append(s, x)) = s
<1>1. Len(Append(s, x)) - 1 = Len(s) /\ SubSeq(Append(s, x), 1, Len(s)) = s
  OBVIOUS
<1> QED
  BY <1>1 DEF Directory!Front

(* The names of a prefix are above the names of a longer one. *)
LEMMA PrefixAbove ==
  ASSUME NEW p \in Seq(STRING), NEW m \in 0 .. Len(p), NEW n \in m .. Len(p)
  PROVE  Resolve(Upto(p, m)) \in Above(Resolve(Upto(p, n)))
<1> DEFINE R(k) == Resolve(Upto(p, k))
           Higher == {k \in Nat : m <= k /\ k <= Len(p) => R(m) \in Above(R(k))}
<1>1. 0 \in Higher
  BY NamesType, AboveItself
<1>2. ASSUME NEW k \in Nat, k \in Higher PROVE k + 1 \in Higher
  <2> SUFFICES ASSUME m <= k + 1, k + 1 <= Len(p) PROVE R(m) \in Above(R(k + 1))
    OBVIOUS
  <2>1. R(k) \in Seq(STRING) /\ R(k + 1) \in Seq(STRING)
    BY NamesType
  <2>2. CASE m = k + 1
    BY <2>1, <2>2, AboveItself
  <2>3. CASE m # k + 1
    <3>1. R(m) \in Above(R(k))
      BY <1>2, <2>3
    <3>2. k + 1 \in 1 .. Len(p) /\ (k + 1) - 1 = k /\ p[k + 1] \in STRING
      OBVIOUS
    <3>3. R(k + 1) = IF p[k + 1] # "" THEN Append(R(k), p[k + 1]) ELSE R(k)
      BY <3>2, NextName
    <3> HIDE DEF R
    <3>4. CASE p[k + 1] # ""
      <4>1. Directory!Front(R(k + 1)) = R(k)
        BY <2>1, <3>2, <3>3, <3>4, FrontOfAppend
      <4> QED
        BY <2>1, <3>1, <4>1, ParentsAbove DEF Parents
    <3> QED
      BY <3>1, <3>3, <3>4
  <2> QED
    BY <2>2, <2>3
<1> HIDE DEF Higher
<1>3. Nat \subseteq Higher
  BY <1>1, <1>2, Induction
<1> QED
  BY <1>3 DEF Higher

(* Without a slash too many each prefix has a spelling of its own. *)
LEMMA SpeltOnce ==
  ASSUME NEW p \in Seq(STRING), ~Directory!Doubled(p), NEW n \in 0 .. Len(p)
  PROVE  Len(Resolve(Upto(p, n))) = n
<1> DEFINE Counted == {k \in Nat : k <= Len(p) => Len(Resolve(Upto(p, k))) = k}
<1>1. 0 \in Counted
  BY NoNames
<1>2. ASSUME NEW k \in Nat, k \in Counted PROVE k + 1 \in Counted
  <2> SUFFICES ASSUME k + 1 <= Len(p) PROVE Len(Resolve(Upto(p, k + 1))) = k + 1
    OBVIOUS
  <2>1. k + 1 \in 1 .. Len(p) /\ (k + 1) - 1 = k /\ k \in 0 .. Len(p) /\ p[k + 1] \in STRING
    OBVIOUS
  <2>2. Resolve(Upto(p, k)) \in Seq(STRING) /\ Len(Resolve(Upto(p, k))) = k
    BY <1>2, <2>1, NamesType
  <2>3. p[k + 1] # ""
    BY <2>1 DEF Directory!Doubled
  <2>4. Resolve(Upto(p, k + 1)) = Append(Resolve(Upto(p, k)), p[k + 1])
    BY <2>1, <2>3, NextName
  <2> QED
    BY <2>1, <2>2, <2>4, AppendProperties
<1> HIDE DEF Counted
<1>3. Nat \subseteq Counted
  BY <1>1, <1>2, Induction
<1> QED
  BY <1>3 DEF Counted

-----------------------------------------------------------------------------
(* The directories are a tree that the files stand in, and a call that is  *)
(* at a prefix of its path has found, or made, what is above it.  What it  *)
(* has missed is still not there, unless it met somebody (MissedInv).      *)
DirType ==
  /\ dirs \subseteq Seq(STRING)
  /\ path \in [Tasks -> Paths]
  /\ depth \in [Tasks -> Nat] /\ \A t \in Tasks : depth[t] <= Len(path[t])
  /\ look \in [Tasks -> {"look", "make", "done"}]
  /\ answer \in [Tasks -> BOOLEAN]

TreeInv ==
  /\ <<>> \in dirs
  /\ \A d \in dirs : Above(d) \subseteq dirs
  /\ \A f \in Files : Parents(f) \subseteq dirs

Found(t, n) == Resolve(Upto(path[t], n)) \in dirs \cup Files

CallInv ==
  \A t \in Tasks :
    /\ look[t] = "make" => depth[t] # 0 /\ Found(t, depth[t] - 1)
    /\ answer[t] => Found(t, Len(path[t]))

MissedInv ==
  \A t \in Tasks : ~Directory!MeetsPresent(t) =>
    \A n \in 1 .. Len(path[t]) : Directory!InVain(t, n) => ~Found(t, n)

Trouble(t) ==
  look[t] = "done" /\ ~answer[t] =>
    \/ t \in mkdirFaults
    \/ Parents(Resolve(path[t])) \cap Files # {}
    \/ Directory!MeetsPresent(t)

DirInv == DirType /\ TreeInv /\ CallInv /\ MissedInv /\ \A t \in Tasks : Trouble(t)

LEMMA PathIs ==
  ASSUME DirType, NEW t \in Tasks
  PROVE  /\ path[t] \in Seq(STRING)
         /\ depth[t] \in 0 .. Len(path[t])
         /\ Directory!At(t) = Upto(path[t], depth[t])
         /\ Directory!At(t) \in Seq(STRING)
         /\ Len(Directory!At(t)) = depth[t]
         /\ Upto(path[t], Len(path[t])) = path[t]
<1>1. path[t] \in Seq(STRING)
  BY PathsAssumption DEF DirType
<1>2. depth[t] \in 0 .. Len(path[t])
  BY <1>1 DEF DirType
<1> QED
  BY <1>1, <1>2, WholePath DEF Directory!At, Upto

LEMMA CallReturns ==
  ASSUME DirType, NEW t \in Tasks, NEW ok \in BOOLEAN, Directory!Return(t, ok), path' = path,
         dirs' \subseteq Seq(STRING)
  PROVE  /\ DirType'
         /\ \A u \in Tasks \ {t} : look'[u] = look[u] /\ depth'[u] = depth[u] /\ answer'[u] = answer[u]
         /\ \/ /\ look'[t] = "done" /\ answer'[t] = ok /\ depth'[t] = depth[t]
               /\ ~ok \/ depth[t] = Len(path[t])
            \/ look'[t] = "make" /\ answer'[t] = answer[t] /\ depth'[t] = depth[t] + 1 /\ ok
<1>1. path[t] \in Seq(STRING) /\ depth[t] \in 0 .. Len(path[t])
  BY PathIs
<1>2. CASE ~ok \/ depth[t] = Len(path[t])
  BY <1>2 DEF Directory!Return, DirType
<1>3. CASE ok /\ depth[t] # Len(path[t])
  <2>1. look' = [look EXCEPT ![t] = "make"] /\ depth' = [depth EXCEPT ![t] = @ + 1] /\ answer' = answer
    BY <1>3 DEF Directory!Return
  <2>2. depth[t] + 1 <= Len(path[t]) /\ depth[t] \in Nat
    BY <1>1, <1>3
  <2> QED
    BY <1>3, <2>1, <2>2 DEF DirType
<1> QED
  BY <1>2, <1>3

(* Who returns has missed no more than before, but for the innermost frame. *)
LEMMA ReturnMisses ==
  ASSUME DirType, NEW t \in Tasks, NEW ok \in BOOLEAN, Directory!Return(t, ok),
         look[t] \in {"look", "make"}
  PROVE  /\ \A n \in 1 .. Len(path[t]) :
              Directory!InVain(t, n)' => Directory!InVain(t, n) /\ n > depth[t]
         /\ \A u \in Tasks \ {t} : \A n : Directory!InVain(u, n)' = Directory!InVain(u, n)
<1>1. depth[t] \in 0 .. Len(path[t])
  BY PathIs
<1>2. CASE ~ok \/ depth[t] = Len(path[t])
  <2>1. look' = [look EXCEPT ![t] = "done"] /\ depth' = depth
    BY <1>2 DEF Directory!Return
  <2> QED
    BY <2>1 DEF DirType, Directory!InVain
<1>3. CASE ok /\ depth[t] # Len(path[t])
  <2>1. look' = [look EXCEPT ![t] = "make"] /\ depth' = [depth EXCEPT ![t] = @ + 1]
    BY <1>3 DEF Directory!Return
  <2> QED
    BY <1>1, <2>1 DEF DirType, Directory!InVain
<1> QED
  BY <1>2, <1>3

LEMMA RootIsFound ==
  ASSUME DirInv, NEW t \in Tasks, Directory!IsRoot(Directory!At(t))
  PROVE  Found(t, depth[t])
<1>1. /\ path[t] \in Seq(STRING) /\ depth[t] \in 0 .. Len(path[t])
      /\ Directory!At(t) = Upto(path[t], depth[t]) /\ Len(Directory!At(t)) = depth[t]
  BY PathIs DEF DirInv
<1>2. CASE Directory!At(t) = <<>>
  <2>1. depth[t] = 0
    BY <1>1, <1>2
  <2> QED
    BY <1>1, <2>1, NoNames DEF Found, DirInv, TreeInv
<1>3. CASE Directory!At(t) = <<"">>
  <2>1. depth[t] = 1 /\ 1 \in 1 .. Len(path[t]) /\ 1 - 1 = 0
    <3>1. Len(<<"">>) = 1
      OBVIOUS
    <3>2. depth[t] = 1
      BY <1>1, <1>3, <3>1
    <3> QED
      BY <1>1, <3>2
  <2>2. path[t][1] = ""
    <3>1. Upto(path[t], 1)[1] = path[t][1]
      BY <1>1, <2>1 DEF Upto
    <3>2. <<"">>[1] = ""
      OBVIOUS
    <3> QED
      BY <1>1, <1>3, <2>1, <3>1, <3>2
  <2>3. Resolve(Upto(path[t], 1)) = Resolve(Upto(path[t], 0))
    BY <1>1, <2>1, <2>2, NextName
  <2> QED
    BY <1>1, <2>1, <2>3, NoNames DEF Found, DirInv, TreeInv
<1> QED
  BY <1>2, <1>3 DEF Directory!IsRoot

LEMMA LookKeeps == ASSUME DirInv, NEW t \in Tasks, Directory!Look(t) PROVE DirInv'
<1>1. /\ path[t] \in Seq(STRING) /\ depth[t] \in 0 .. Len(path[t])
      /\ Directory!At(t) = Upto(path[t], depth[t]) /\ Len(Directory!At(t)) = depth[t]
  BY PathIs DEF DirInv
<1>2. UNCHANGED <<dirs, path, mkdirFaults, overtaken>> /\ look[t] = "look"
  BY DEF Directory!Look
<1>3. TreeInv'
  BY <1>2 DEF DirInv, TreeInv
<1>4. /\ \A u \in Tasks, n \in Nat : Found(u, n)' = Found(u, n)
      /\ \A u \in Tasks : Directory!MeetsPresent(u)' = Directory!MeetsPresent(u)
  BY <1>2 DEF Found, Directory!MeetsPresent
<1>5. CASE Directory!IsRoot(Directory!At(t)) \/ Directory!Exists(Directory!At(t))
  <2>1. Found(t, depth[t])
    BY <1>1, <1>5, RootIsFound DEF Found, Directory!Exists, Resolve
  <2>2. Directory!Return(t, TRUE) /\ DirType /\ dirs' \subseteq Seq(STRING)
    BY <1>2, <1>5 DEF Directory!Look, DirInv, DirType
  <2>3. /\ DirType'
        /\ \A u \in Tasks \ {t} : look'[u] = look[u] /\ depth'[u] = depth[u] /\ answer'[u] = answer[u]
        /\ \/ look'[t] = "done" /\ answer'[t] = TRUE /\ depth[t] = Len(path[t])
           \/ look'[t] = "make" /\ answer'[t] = answer[t] /\ depth'[t] = depth[t] + 1
    BY <1>2, <2>2, CallReturns
  <2>4. ASSUME NEW u \in Tasks
        PROVE  /\ look'[u] = "make" => depth'[u] # 0 /\ Found(u, depth'[u] - 1)
               /\ answer'[u] => Found(u, Len(path[u]))
               /\ Trouble(u)'
    <3>1. CASE u = t
      <4>1. depth[t] + 1 # 0 /\ (depth[t] + 1) - 1 = depth[t]
        BY <1>1
      <4>2. answer[t] => Found(t, Len(path[t]))
        BY DEF DirInv, CallInv
      <4> QED
        BY <2>1, <2>3, <3>1, <4>1, <4>2 DEF Trouble
    <3>2. CASE u # t
      BY <1>2, <1>4, <2>3, <3>2 DEF DirInv, CallInv, Trouble
    <3> QED
      BY <3>1, <3>2
  <2>5. CallInv'
    BY <1>2, <2>4 DEF CallInv, Found
  <2>6. MissedInv'
    <3> SUFFICES ASSUME NEW u \in Tasks, ~Directory!MeetsPresent(u),
                        NEW n \in 1 .. Len(path[u]), Directory!InVain(u, n)'
                 PROVE  ~Found(u, n)
      BY <1>2, <1>4 DEF MissedInv, Found
    <3>1. Directory!InVain(u, n)
      BY <1>2, <2>2, ReturnMisses
    <3> QED
      BY <3>1 DEF DirInv, MissedInv
  <2> QED
    BY <1>3, <2>3, <2>4, <2>5, <2>6 DEF DirInv
<1>6. CASE ~Directory!IsRoot(Directory!At(t)) /\ ~Directory!Exists(Directory!At(t))
  <2>1. /\ depth' = [depth EXCEPT ![t] = Len(Directory!Dirname(Directory!At(t)))]
        /\ look' = look /\ answer' = answer
    BY <1>6 DEF Directory!Look
  <2>2. Directory!At(t) \in Seq(STRING) /\ Directory!At(t) # <<>>
    BY <1>6, PathIs DEF Directory!IsRoot, DirInv
  <2>3. Len(Directory!Dirname(Directory!At(t))) = depth[t] - 1 /\ depth[t] - 1 \in Nat
    <3>1. Len(Directory!Front(Directory!At(t))) = depth[t] - 1
      BY <1>1, <2>2, FrontIs
    <3>2. depth[t] # 0
      BY <1>1, <2>2
    <3> QED
      BY <1>1, <3>1, <3>2 DEF Directory!Dirname
  <2>4. DirType'
    BY <1>1, <1>2, <2>1, <2>3 DEF DirInv, DirType
  <2>5. CallInv'
    BY <1>2, <2>1 DEF DirInv, DirType, CallInv, Found
  <2>6. ASSUME NEW u \in Tasks PROVE Trouble(u)'
    BY <1>2, <1>4, <2>1 DEF DirInv, Trouble
  <2>7. MissedInv'
    <3> SUFFICES ASSUME NEW u \in Tasks, ~Directory!MeetsPresent(u),
                        NEW n \in 1 .. Len(path[u]), Directory!InVain(u, n)'
                 PROVE  ~Found(u, n)
      BY <1>2, <1>4 DEF MissedInv, Found
    <3>1. CASE u = t /\ n = depth[t]
      BY <1>1, <1>6, <3>1 DEF Found, Directory!Exists, Resolve
    <3>2. CASE u # t \/ n # depth[t]
      <4>1. Directory!InVain(u, n)
        BY <1>1, <1>2, <2>1, <2>3, <3>2 DEF DirInv, DirType, Directory!InVain
      <4> QED
        BY <4>1 DEF DirInv, MissedInv
    <3> QED
      BY <3>1, <3>2
  <2> QED
    BY <1>3, <2>4, <2>5, <2>6, <2>7 DEF DirInv
<1> QED
  BY <1>5, <1>6

LEMMA MakeKeeps ==
  ASSUME DirInv, NEW t \in Tasks, Directory!Make(t) \/ Directory!MakePresent(t) \/ Directory!MakeFails(t)
  PROVE  DirInv' /\ dirs \subseteq dirs'
<1> DEFINE q == Resolve(Directory!At(t))
           n == depth[t]
           parent == Resolve(Upto(path[t], n - 1))
<1>1. /\ path[t] \in Seq(STRING) /\ n \in 1 .. Len(path[t]) /\ n \in 0 .. Len(path[t])
      /\ n - 1 \in 0 .. Len(path[t]) /\ Directory!At(t) = Upto(path[t], n)
      /\ Upto(path[t], Len(path[t])) = path[t]
      /\ look[t] = "make" /\ parent \in dirs \cup Files
  <2>1. look[t] = "make"
    BY DEF Directory!Make, Directory!MakePresent, Directory!MakeFails
  <2>2. depth[t] # 0 /\ Found(t, depth[t] - 1)
    BY <2>1 DEF DirInv, CallInv
  <2> QED
    BY <2>1, <2>2, PathIs DEF DirInv, Found
<1>2. q \in Seq(STRING) /\ parent \in Seq(STRING) /\ q = Resolve(Upto(path[t], n))
  BY <1>1, NamesType
<1> DEFINE exists == q \in dirs \cup Files
           possible == Directory!Front(q) \in dirs
<1>3. Directory!Exists(Directory!At(t)) = exists /\ Directory!CanMake(Directory!At(t)) = possible
  BY DEF Directory!Exists, Directory!CanMake, Resolve
<1>4. ~exists => q # <<>> /\ q = Append(parent, path[t][n]) /\ Directory!Front(q) = parent
  <2> SUFFICES ASSUME ~exists PROVE q # <<>> /\ q = Append(parent, path[t][n]) /\ Directory!Front(q) = parent
    OBVIOUS
  <2>1. q # <<>>
    BY DEF DirInv, TreeInv
  <2>2. path[t][n] \in STRING
    BY <1>1
  <2>3. q = IF path[t][n] # "" THEN Append(parent, path[t][n]) ELSE parent
    BY <1>1, <1>2, NextName
  <2>4. q = Append(parent, path[t][n])
    BY <1>1, <2>3
  <2> HIDE DEF q, parent
  <2> QED
    BY <1>2, <2>1, <2>2, <2>4, FrontOfAppend
<1>5. \/ dirs' = dirs
      \/ dirs' = dirs \cup {q} /\ ~exists /\ Directory!Front(q) \in dirs
  BY <1>3 DEF Directory!Make, Directory!MakePresent, Directory!MakeFails, Directory!Create, Resolve
<1> HIDE DEF q, n, parent
<1>6. TreeInv' /\ dirs \subseteq dirs' /\ dirs' \subseteq Seq(STRING)
  <2>1. ASSUME Directory!Front(q) \in dirs PROVE Above(q) \subseteq dirs \cup {q}
    BY <1>2, <2>1, ParentsAbove DEF DirInv, TreeInv, Parents
  <2> QED
    BY <1>2, <1>5, <2>1 DEF DirInv, DirType, TreeInv
<1> DEFINE FoundThen(u, k) == Resolve(Upto(path[u], k)) \in dirs' \cup Files
<1>7. \A u \in Tasks, k \in Nat : Found(u, k) => FoundThen(u, k)
  BY <1>6 DEF Found
<1>8. /\ path' = path /\ mkdirFaults \subseteq mkdirFaults' /\ overtaken \subseteq overtaken'
       /\ \A u \in Tasks : Directory!MeetsPresent(u) => Directory!MeetsPresent(u)'
  <2>1. path' = path /\ mkdirFaults \subseteq mkdirFaults' /\ overtaken \subseteq overtaken'
    BY DEF Directory!Make, Directory!MakePresent, Directory!MakeFails, Directory!Create
  <2> QED
    BY <2>1 DEF Directory!MeetsPresent
<1>9. ASSUME NEW u \in Tasks \ {t}, NEW k \in 1 .. Len(path[u]), Directory!InVain(u, k), FoundThen(u, k),
              ~Found(u, k)
       PROVE  u \in overtaken'
  <2>1. dirs' # dirs
    BY <1>9 DEF Found
  <2>2. Directory!Create(t)
    BY <2>1 DEF Directory!Make, Directory!MakePresent, Directory!MakeFails
  <2>3. Resolve(Upto(path[u], k)) = q
    BY <1>5, <1>9 DEF Found
  <2>4. q \in Directory!Missed(u)
    BY <1>9, <2>3 DEF Directory!Missed, Resolve, Upto
  <2> QED
    BY <2>2, <2>4 DEF Directory!Create, Resolve, q
<1>10. ASSUME NEW ok \in BOOLEAN, Directory!Return(t, ok),
             ok => FoundThen(t, n),
             ~ok => \/ t \in mkdirFaults'
                    \/ Parents(Resolve(path[t])) \cap Files # {}
                    \/ Directory!MeetsPresent(t)
      PROVE  DirInv'
  <2>1. path' = path /\ mkdirFaults \subseteq mkdirFaults'
    BY <1>8
  <2>2. /\ DirType'
        /\ \A u \in Tasks \ {t} : look'[u] = look[u] /\ depth'[u] = depth[u] /\ answer'[u] = answer[u]
        /\ \/ /\ look'[t] = "done" /\ answer'[t] = ok /\ depth'[t] = depth[t]
              /\ ~ok \/ depth[t] = Len(path[t])
           \/ look'[t] = "make" /\ answer'[t] = answer[t] /\ depth'[t] = depth[t] + 1 /\ ok
    BY <1>6, <1>10, <2>1, CallReturns DEF DirInv
  <2>3. ASSUME NEW u \in Tasks
        PROVE  /\ look'[u] = "make" => depth'[u] # 0 /\ FoundThen(u, depth'[u] - 1)
               /\ answer'[u] => FoundThen(u, Len(path[u]))
               /\ Trouble(u)'
    <3>1. CASE u = t
      <4>1. depth[t] + 1 # 0 /\ (depth[t] + 1) - 1 = n
        BY <1>1 DEF n
      <4>2. answer[t] => FoundThen(t, Len(path[t]))
        BY <1>1, <1>7 DEF DirInv, CallInv
      <4> QED
        BY <1>10, <1>8, <2>1, <2>2, <3>1, <4>1, <4>2 DEF Trouble, n
    <3>2. CASE u # t
      <4>1. path[u] \in Seq(STRING) /\ depth[u] \in Nat
        BY PathIs DEF DirInv
      <4>2. depth[u] # 0 => depth[u] - 1 \in Nat
        BY <4>1
      <4> QED
        BY <1>7, <1>8, <2>1, <2>2, <3>2, <4>1, <4>2 DEF DirInv, CallInv, Trouble
    <3> QED
      BY <3>1, <3>2
  <2>4. CallInv'
    BY <2>1, <2>3 DEF CallInv, Found
  <2>5. MissedInv'
    <3> SUFFICES ASSUME NEW u \in Tasks, ~Directory!MeetsPresent(u)',
                        NEW k \in 1 .. Len(path[u]), Directory!InVain(u, k)', FoundThen(u, k)
                 PROVE  FALSE
      BY <2>1 DEF MissedInv, Found
    <3>1. ~Directory!MeetsPresent(u) /\ u \notin overtaken'
      BY <1>8 DEF Directory!MeetsPresent
    <3>2. DirType /\ look[t] \in {"look", "make"}
      BY <1>1 DEF DirInv
    <3>3. Directory!InVain(u, k) /\ (u = t => k > depth[t])
      BY <1>10, <3>2, ReturnMisses
    <3>4. ~Found(u, k)
      BY <3>1, <3>3 DEF DirInv, MissedInv
    <3>5. CASE u # t
      BY <1>9, <3>1, <3>3, <3>4, <3>5
    <3>6. CASE u = t
      <4>1. ~Directory!Doubled(path[t]) /\ k \in 0 .. Len(path[t])
        BY <3>1, <3>6 DEF Directory!MeetsPresent
      <4>2. Len(Resolve(Upto(path[t], k))) = k /\ Len(q) = n
        BY <1>1, <1>2, <4>1, SpeltOnce
      <4>3. Resolve(Upto(path[t], k)) = q
        BY <1>5, <3>4, <3>6 DEF Found
      <4> QED
        BY <3>3, <3>6, <4>2, <4>3 DEF n
    <3> QED
      BY <3>5, <3>6
  <2> QED
    BY <1>6, <2>2, <2>3, <2>4, <2>5 DEF DirInv
<1>11. CASE Directory!MakeFails(t)
  BY <1>6, <1>10, <1>11 DEF Directory!MakeFails
<1>12. CASE Directory!Make(t) /\ possible
  <2>1. q \in dirs' \cup Files
    BY <1>3, <1>12 DEF Directory!Make, Directory!Create, Resolve, q
  <2>2. FoundThen(t, n)
    BY <1>2, <2>1
  <2> QED
    BY <1>3, <1>6, <1>10, <1>12, <2>2 DEF Directory!Make
<1>13. CASE Directory!Make(t) /\ ~possible
  <2>1. parent \in Files
    BY <1>1, <1>3, <1>4, <1>13 DEF Directory!Make, parent
  <2>2. parent \in Parents(Resolve(path[t]))
    <3> DEFINE whole == Resolve(path[t])
    <3>1. whole \in Seq(STRING) /\ q \in Above(whole)
      <4>1. Len(path[t]) \in 0 .. Len(path[t]) /\ Len(path[t]) \in n .. Len(path[t])
        BY <1>1
      <4> QED
        BY <1>1, <1>2, <4>1, NamesType, PrefixAbove
    <3>2. parent \in Parents(q)
      BY <1>2, <1>3, <1>4, <1>13, AboveItself DEF Directory!Make, Parents
    <3>3. q # <<>>
      BY <1>3, <1>4, <1>13 DEF Directory!Make
    <3> HIDE DEF whole
    <3>4. CASE q = whole
      BY <3>2, <3>4 DEF whole
    <3>5. CASE q # whole
      <4>1. q \in Parents(whole) /\ Parents(whole) \subseteq Above(whole)
        BY <3>1, <3>5, ParentsAbove
      <4>2. CASE whole = <<>>
        BY <1>2, <3>1, <3>3, <4>2 DEF Above, Directory!Above
      <4>3. CASE whole # <<>>
        <5>1. Directory!Front(whole) \in Seq(STRING)
          BY <3>1, <4>3, FrontIs
        <5>2. Above(q) \subseteq Parents(whole)
          BY <4>1, <5>1, AboveAbove DEF Parents
        <5> QED
          BY <1>2, <3>2, <5>2, ParentsAbove DEF whole
      <4> QED
        BY <4>2, <4>3
    <3> QED
      BY <3>4, <3>5
  <2>3. Directory!Return(t, FALSE)
    <3>1. Directory!CanMake(Directory!At(t)) = FALSE
      BY <1>3, <1>13 DEF Directory!CanMake
    <3> QED
      BY <1>13, <3>1 DEF Directory!Make
  <2>4. Parents(Resolve(path[t])) \cap Files # {}
    BY <2>1, <2>2
  <2>5. DirInv'
    BY <1>10, <2>3, <2>4
  <2> QED
    BY <1>6, <2>5
<1>14. CASE Directory!MakePresent(t)
  <2>1. q \in dirs' \cup Files /\ exists
    BY <1>3, <1>14 DEF Directory!MakePresent, Resolve, q
  <2>2. FoundThen(t, n) /\ Found(t, n)
    BY <1>2, <2>1 DEF Found
  <2>3. n \in 1 .. Len(path[t]) /\ Directory!InVain(t, n)
    BY <1>1 DEF Directory!InVain, n
  <2>4. Directory!MeetsPresent(t)
    BY <2>2, <2>3 DEF DirInv, MissedInv
  <2>5. PICK ok \in BOOLEAN : Directory!Return(t, ok)
    BY <1>14 DEF Directory!MakePresent
  <2> QED
    BY <1>6, <1>10, <2>2, <2>4, <2>5
<1> QED
  BY <1>6, <1>11, <1>12, <1>13, <1>14

LEMMA RecallKeeps ==
  ASSUME DirInv, NEW tasks, Recall(tasks) PROVE DirInv' /\ dirs' = dirs /\ path' = path
<1>1. /\ depth' = [t \in Tasks |-> IF t \in tasks THEN Len(path[t]) ELSE depth[t]]
      /\ look' = [t \in Tasks |-> IF t \in tasks THEN "look" ELSE look[t]]
      /\ \A t \in Tasks : answer'[t] = (answer[t] /\ t \notin tasks)
      /\ mkdirFaults' = mkdirFaults \ tasks /\ overtaken' = overtaken \ tasks
      /\ dirs' = dirs /\ path' = path
  BY DEF Recall
<1>2. DirType'
  <2>1. \A t \in Tasks : Len(path[t]) \in Nat /\ depth[t] \in Nat /\ depth[t] <= Len(path[t])
    BY PathIs DEF DirInv, DirType
  <2>2. answer' \in [Tasks -> BOOLEAN]
    BY DEF Recall
  <2>3. depth' \in [Tasks -> Nat] /\ \A t \in Tasks : depth'[t] <= Len(path'[t])
    BY <1>1, <2>1
  <2> QED
    BY <1>1, <2>2, <2>3 DEF DirInv, DirType
<1>3. TreeInv'
  BY <1>1 DEF DirInv, TreeInv
<1>4. CallInv'
  <2> SUFFICES ASSUME NEW t \in Tasks
               PROVE  /\ look'[t] = "make" => depth'[t] # 0 /\ Found(t, depth'[t] - 1)
                      /\ answer'[t] => Found(t, Len(path[t]))
    BY <1>1 DEF CallInv, Found
  <2> QED
    BY <1>1 DEF DirInv, CallInv
<1>5. ASSUME NEW t \in Tasks PROVE Trouble(t)'
  BY <1>1 DEF DirInv, Trouble, Directory!MeetsPresent
<1>6. MissedInv'
  <2> SUFFICES ASSUME NEW t \in Tasks, ~Directory!MeetsPresent(t)',
                      NEW n \in 1 .. Len(path[t]), Directory!InVain(t, n)'
               PROVE  ~Found(t, n)
    BY <1>1 DEF MissedInv, Found
  <2>1. Len(path[t]) \in Nat
    BY PathIs DEF DirInv
  <2>2. t \notin tasks
    BY <1>1, <2>1 DEF Directory!InVain
  <2>3. ~Directory!MeetsPresent(t) /\ Directory!InVain(t, n)
    BY <1>1, <2>2 DEF Directory!InVain, Directory!MeetsPresent
  <2> QED
    BY <2>3 DEF DirInv, MissedInv
<1> QED
  BY <1>1, <1>2, <1>3, <1>4, <1>5, <1>6 DEF DirInv

LEMMA InitTree == Directory!Init => TreeInv /\ dirs \subseteq Seq(STRING)
<1> SUFFICES ASSUME Directory!Init PROVE TreeInv /\ dirs \subseteq Seq(STRING)
  OBVIOUS
<1>1. PICK p \in Paths : dirs = Above(Resolve(p)) \cup UNION {Parents(f) : f \in Files}
  BY DEF Directory!Init, Resolve, Above, Parents
<1>2. Resolve(p) \in Seq(STRING)
  <2>1. p \in Seq(STRING)
    BY PathsAssumption
  <2>2. Len(p) \in 0 .. Len(p)
    BY <2>1
  <2> QED
    BY <2>1, <2>2, NamesType, WholePath
<1>3. ASSUME NEW f \in Files PROVE Directory!Front(f) \in Seq(STRING)
  BY PathsAssumption, FrontIs
<1>4. ASSUME NEW d \in dirs PROVE d \in Seq(STRING) /\ Above(d) \subseteq dirs
  <2>1. CASE d \in Above(Resolve(p))
    BY <1>1, <1>2, <2>1, AboveAbove, AboveItself
  <2>2. ASSUME NEW f \in Files, d \in Parents(f) PROVE d \in Seq(STRING) /\ Above(d) \subseteq Parents(f)
    BY <1>3, <2>2, AboveAbove, AboveItself DEF Parents
  <2> QED
    BY <1>1, <2>1, <2>2
<1>5. <<>> \in dirs
  BY <1>1, <1>2, AboveItself
<1>6. \A f \in Files : Parents(f) \subseteq dirs
  BY <1>1
<1> QED
  BY <1>4, <1>5, <1>6 DEF TreeInv

LEMMA InitDirInv == Directory!Init => DirInv
<1> SUFFICES ASSUME Directory!Init PROVE DirInv
  OBVIOUS
<1>1. /\ path \in [Tasks -> Paths]
      /\ depth = [t \in Tasks |-> Len(path[t])]
      /\ look = [t \in Tasks |-> "look"]
      /\ answer = [t \in Tasks |-> FALSE]
  BY DEF Directory!Init
<1>2. \A t \in Tasks : Len(path[t]) \in Nat
  <2>1. \A t \in Tasks : path[t] \in Seq(STRING)
    BY <1>1, PathsAssumption
  <2> QED
    BY <2>1
<1>3. DirType
  BY <1>1, <1>2, InitTree DEF DirType
<1>4. CallInv /\ \A t \in Tasks : Trouble(t)
  BY <1>1 DEF CallInv, Trouble
<1>5. MissedInv
  BY <1>1, <1>2 DEF MissedInv, Directory!InVain
<1> QED
  BY <1>3, <1>4, <1>5, InitTree DEF DirInv

LEMMA NextDirInv ==
  ASSUME DirInv, [StorageNext]_<<vars, directories>>
  PROVE  DirInv' /\ dirs \subseteq dirs' /\ path' = path
<1>1. CASE UNCHANGED directories
  BY <1>1 DEF directories, DirInv, DirType, TreeInv, CallInv, MissedInv, Found, Trouble,
              Directory!InVain, Directory!MeetsPresent
<1>2. ASSUME NEW t \in Tasks, Directory!Step(t) PROVE DirInv' /\ dirs \subseteq dirs' /\ path' = path
  <2>1. CASE Directory!Look(t)
    BY <2>1, LookKeeps DEF Directory!Look
  <2>2. CASE Directory!Make(t) \/ Directory!MakePresent(t) \/ Directory!MakeFails(t)
    BY <2>2, MakeKeeps DEF Directory!Make, Directory!MakePresent, Directory!MakeFails
  <2> QED
    BY <1>2, <2>1, <2>2 DEF Directory!Step
<1>3. ASSUME NEW tasks, Recall(tasks) PROVE DirInv' /\ dirs \subseteq dirs' /\ path' = path
  BY <1>3, RecallKeeps
<1> QED
  BY <1>1, <1>2, <1>3, SinkAssumption
  DEF StorageNext, BeginSession, EnsureDirectory, OpenInDirectory, OpenTempInDirectory, Others

-----------------------------------------------------------------------------
(* What the sink knows of its directory while it opens, and why open()     *)
(* gave up when it did.                                                    *)
Reason ==
  \/ faults > 0
  \/ ~truncate /\ before # Absent
  \/ InTheWay(Parent)
  \/ ~answer[Sink] /\ Directory!MeetsPresent(Sink)

OpenInv ==
  /\ handle => IsThere
  /\ pc \in {"openCleanTemp", "openCleanBackup", "openTemp"} => answer[Sink]
  /\ pc \in OpenSteps => file["dest"] = before
  /\ result = "OpenFailed" => pc \in {"close", "idle"}
  /\ pc = "close" /\ result = "OpenFailed" => Reason

LEMMA SinkPath ==
  ASSUME DirInv
  PROVE  /\ Parent \in Seq(STRING)
         /\ answer[Sink] => Parent \in dirs \cup Files
         /\ Parents(Parent) \cap Files # {} => InTheWay(Parent)
         /\ Parent \in Files => InTheWay(Parent)
<1>1. path[Sink] \in Seq(STRING) /\ Upto(path[Sink], Len(path[Sink])) = path[Sink]
  BY SinkAssumption, PathIs DEF DirInv
<1>2. Len(path[Sink]) \in 0 .. Len(path[Sink])
  BY <1>1
<1>3. Parent = Resolve(path[Sink]) /\ Parent \in Seq(STRING)
  BY <1>1, <1>2, NamesType DEF Parent, Resolve
<1>4. answer[Sink] => Parent \in dirs \cup Files
  BY <1>1, <1>3, SinkAssumption DEF DirInv, CallInv, Found
<1>5. Parents(Parent) \subseteq Above(Parent) /\ Parent \in Above(Parent)
  BY <1>3, ParentsAbove, AboveItself
<1> QED
  BY <1>3, <1>4, <1>5 DEF InTheWay, Above

LEMMA NextOpenInv ==
  ASSUME TypeInv, DirInv, OpenInv, [StorageNext]_<<vars, directories>>
  PROVE  OpenInv'
<1> USE DEF OpenInv
<1>1. dirs \subseteq dirs' /\ path' = path /\ Parent' = Parent /\ (IsThere => IsThere')
  BY NextDirInv DEF Parent, IsThere, Resolve
<1>2. InTheWay(Parent)' = InTheWay(Parent)
  BY <1>1 DEF InTheWay
<1>3. faults \in Nat
  BY BoundsAssumption DEF TypeInv, TypeOK
<1>4. ASSUME UNCHANGED vars,
             (answer'[Sink] = answer[Sink] /\ overtaken \subseteq overtaken') \/ pc = "openDir"
      PROVE  OpenInv'
  BY <1>1, <1>2, <1>4 DEF vars, Reason, Directory!MeetsPresent
<1>5. ASSUME NEW b \in BOOLEAN, BeginSession(b) PROVE OpenInv'
  BY <1>1, <1>5 DEF BeginSession, Begin, Step
<1>6. CASE EnsureDirectory
  BY <1>4, <1>6 DEF EnsureDirectory
<1>7. CASE OpenInDirectory
  <2>1. CASE pc' = "openCleanTemp"
    BY <1>1, <1>7, <2>1 DEF OpenInDirectory, OpenDir, directories, sink, ghosts
  <2>2. CASE pc' = "close"
    <3>1. faults' > faults \/ InTheWay(Parent) \/ (~answer[Sink] /\ Directory!MeetsPresent(Sink))
      BY <1>7, <2>2, SinkAssumption, SinkPath
      DEF OpenInDirectory, OpenDir, DirInv, Trouble, Parent, Resolve
    <3>2. UNCHANGED <<path, answer, overtaken>>
      BY <1>7 DEF OpenInDirectory, directories
    <3>3. Reason'
      BY <1>2, <1>3, <1>7, <2>2, <3>1, <3>2
      DEF OpenInDirectory, OpenDir, Fault, Works, Reason, Directory!MeetsPresent
    <3> QED
      BY <1>1, <1>7, <2>2, <3>3 DEF OpenInDirectory, OpenDir
  <2> QED
    BY <1>7, <2>1, <2>2 DEF OpenInDirectory, OpenDir
<1>8. CASE OpenTempInDirectory
  <2>1. answer[Sink] /\ UNCHANGED directories
    BY <1>8 DEF OpenTempInDirectory, OpenTemp
  <2>2. CASE pc' = "write"
    BY <1>1, <1>8, <2>2 DEF OpenTempInDirectory, OpenTemp
  <2>3. CASE pc' = "close"
    <3>1. faults' > 0 \/ InTheWay(Parent)
      BY <1>3, <1>8, <2>1, <2>3, SinkPath
      DEF OpenTempInDirectory, OpenTemp, Fault, Works, IsThere
    <3> QED
      BY <1>1, <1>2, <1>8, <2>3, <3>1 DEF OpenTempInDirectory, OpenTemp, Reason
  <2> QED
    BY <1>8, <2>2, <2>3 DEF OpenTempInDirectory, OpenTemp
<1>9. CASE Continue /\ UNCHANGED directories
  <2> USE DEF directories
  <2>1. CASE OpenCheck
    BY <1>1, <1>9, <2>1 DEF OpenCheck, Reason, Exists, TypeInv, TypeOK
  <2>2. CASE OpenCleanTemp \/ OpenCleanBackup
    BY <1>1, <1>9, <2>2, CleanUpLeaves DEF OpenCleanTemp, OpenCleanBackup, CleanUpStep, Step, TypeInv
  <2>3. CASE Close
    BY <1>1, <1>9, <2>3 DEF Close, Step
  <2>4. CASE Continue /\ ~OpenCheck /\ ~OpenCleanTemp /\ ~OpenCleanBackup /\ ~Close
    <3>1. /\ handle' => handle
          /\ pc' \notin OpenSteps
          /\ result' # "OpenFailed"
      BY <2>4
      DEF Continue, Write, RunFails, Commit, CommitClose, CommitCleanBackup, CommitBackup,
          CommitPublish, CommitRollback, CommitCleanTemp, CommitDropBackup, AbortClose,
          AbortCleanTemp, AbortCleanBackup, CleanUpStep, Step
    <3> QED
      BY <1>1, <3>1
  <2> QED
    BY <1>9, <2>1, <2>2, <2>3, <2>4
<1>10. CASE Crash
  BY <1>1, <1>10 DEF Crash, Step
<1>11. CASE Others
  <2>1. ASSUME NEW t \in Tasks \ {Sink}, Directory!Step(t)
        PROVE  answer'[Sink] = answer[Sink] /\ overtaken \subseteq overtaken'
    <3>1. overtaken \subseteq overtaken'
      BY <2>1
      DEF Directory!Step, Directory!Look, Directory!Make, Directory!MakePresent, Directory!MakeFails,
          Directory!Create
    <3>2. answer' = answer \/ \E ok : answer' = [answer EXCEPT ![t] = ok]
      BY <2>1
      DEF Directory!Step, Directory!Look, Directory!Make, Directory!MakePresent, Directory!MakeFails,
          Directory!Return
    <3> QED
      BY <2>1, <3>1, <3>2, SinkAssumption DEF DirInv, DirType
  <2> QED
    BY <1>4, <1>11, <2>1 DEF Others
<1>12. CASE UNCHANGED <<vars, directories>>
  BY <1>4, <1>12 DEF directories
<1> QED
  BY <1>5, <1>6, <1>7, <1>8, <1>9, <1>10, <1>11, <1>12 DEF StorageNext

LEMMA StorageInvariant == StorageSpec => [](DirInv /\ OpenInv)
<1>1. StorageInit => TypeInv /\ DirInv /\ OpenInv
  BY InitTypeInv, InitDirInv DEF StorageInit, Init, OpenInv
<1>2. [StorageNext]_<<vars, directories>> => [Next]_vars
  BY StorageStepIsFileSinkStep
<1> QED
  BY <1>1, <1>2, NextTypeInv, NextDirInv, NextOpenInv, PTL DEF StorageSpec

(* Whoever espCompressorEnsureDir told true has a path that exists with    *)
(* all that is above it, and path.tmp is open only where its directory is, *)
(* whatever the other tasks make or fail to make in the meantime.          *)
THEOREM OpenedInItsDirectory == StorageSpec => []OpenedWhereItExists
<1>1. ASSUME DirInv, OpenInv PROVE OpenedWhereItExists
  <2> SUFFICES ASSUME NEW t \in Tasks, answer[t]
               PROVE  /\ Above(Resolve(path[t])) \subseteq dirs \cup Files
                      /\ Resolve(path[t]) \notin Files => Above(Resolve(path[t])) \subseteq dirs
    BY <1>1 DEF OpenedWhereItExists, Directory!TrueMeansThere, OpenInv, Above, Resolve
  <2> DEFINE p == Resolve(path[t])
  <2>1. path[t] \in Seq(STRING) /\ Upto(path[t], Len(path[t])) = path[t]
    BY <1>1, PathIs DEF DirInv
  <2>2. Len(path[t]) \in 0 .. Len(path[t])
    BY <2>1
  <2>3. p \in Seq(STRING) /\ p \in dirs \cup Files
    BY <1>1, <2>1, <2>2, NamesType DEF DirInv, CallInv, Found
  <2> HIDE DEF p
  <2>4. p \in dirs => Above(p) \subseteq dirs
    BY <1>1 DEF DirInv, TreeInv
  <2>5. p \in Files => Above(p) \subseteq dirs \cup Files
    BY <1>1, <2>3, ParentsAbove DEF DirInv, TreeInv
  <2> QED
    BY <2>3, <2>4, <2>5 DEF p
<1> QED
  BY <1>1, StorageInvariant, PTL

(* open() fails for a reason.  What other tasks do is one only if they     *)
(* made a directory that this call had looked for in vain, and was about   *)
(* to make; how slashes are written, only if the call makes the same       *)
(* directory twice; and for both only if mkdir then said false.            *)
THEOREM OpenFailsForAReason == StorageSpec => []RefusedForAReason
<1>1. DirInv /\ OpenInv => RefusedForAReason
  BY DEF DirInv, OpenInv, RefusedForAReason, Reason, Directory!FalseMeansTrouble, Trouble, Parents,
         Above, Resolve
<1> QED
  BY <1>1, StorageInvariant, PTL
=============================================================================
