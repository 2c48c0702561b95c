------------------------------ MODULE Storage -------------------------------
(***************************************************************************)
(* A FileSink on a file system with directories: FileSink's OpenDir is the *)
(* call of espCompressorEnsureDir that EnsureDir has step by step, while   *)
(* other tasks make directories for files of their own.  A power loss      *)
(* interrupts everybody; what was made stays.                              *)
(***************************************************************************)
EXTENDS FileSink, Sequences

CONSTANTS
  Tasks,
  Sink,    \* the task that uses the FileSink
  Paths,
  Files

ASSUME SinkAssumption == Sink \in Tasks

VARIABLES dirs, path, depth, look, answer, mkdirFaults, overtaken   \* see EnsureDir

Directory == INSTANCE EnsureDir WITH pc <- look, faults <- mkdirFaults

(* A path is made of names, and the root is no file. *)
ASSUME PathsAssumption == Paths \cup Files \subseteq Seq(STRING) /\ <<>> \notin Files

directories == <<dirs, path, depth, look, answer, mkdirFaults, overtaken>>

Parent      == Directory!Resolve(path[Sink])
IsThere     == Parent \in dirs
InTheWay(p) == Directory!Above(p) \cap Files # {}

(* The calls of these tasks begin. *)
Recall(tasks) ==
  /\ depth' = [t \in Tasks |-> IF t \in tasks THEN Len(path[t]) ELSE depth[t]]
  /\ look' = [t \in Tasks |-> IF t \in tasks THEN "look" ELSE look[t]]
  /\ answer' = [t \in Tasks |-> answer[t] /\ t \notin tasks]
  /\ mkdirFaults' = mkdirFaults \ tasks
  /\ overtaken' = overtaken \ tasks
  /\ UNCHANGED <<dirs, path>>

StorageInit ==
  /\ Init
  /\ Directory!Init
  /\ Exists("dest") => IsThere

BeginSession(t) == Begin(t) /\ Recall({Sink})

(* The sink's call of espCompressorEnsureDir, ... *)
EnsureDirectory ==
  /\ pc = "openDir"
  /\ Directory!Step(Sink)
  /\ Sink \in mkdirFaults' => faults < MaxFaults
  /\ UNCHANGED vars

(* ... what open() makes of its answer, ... *)
OpenInDirectory ==
  /\ look[Sink] = "done"
  /\ OpenDir
  /\ pc' = "openCleanTemp" <=> answer[Sink]
  /\ faults' > faults <=> Sink \in mkdirFaults
  /\ UNCHANGED directories

(* ... and path.tmp, which can be made in a directory only. *)
OpenTempInDirectory ==
  /\ OpenTemp
  /\ pc' = "write" => IsThere
  /\ pc' = "close" /\ faults' = faults => ~IsThere
  /\ UNCHANGED directories

Others == (\E t \in Tasks \ {Sink} : Directory!Step(t)) /\ UNCHANGED vars

StorageNext ==
  \/ \E t \in BOOLEAN : BeginSession(t)
  \/ EnsureDirectory \/ OpenInDirectory \/ OpenTempInDirectory
  \/ Continue /\ UNCHANGED directories
  \/ Crash /\ Recall(Tasks)
  \/ Others

StorageSpec == StorageInit /\ [][StorageNext]_<<vars, directories>>

-----------------------------------------------------------------------------
(* Whoever was told true has a path that exists with all that is above it, *)
(* and no sink is open where there is no directory.                        *)
OpenedWhereItExists == Directory!TrueMeansThere /\ (handle => IsThere)

(* open() fails for a reason: a call of the file system failed, the        *)
(* destination must not be replaced, a file stands where a directory       *)
(* should be, or espCompressorEnsureDir, which does not look again, was    *)
(* told false of a directory that is there.                                *)
RefusedForAReason ==
  /\ Directory!FalseMeansTrouble
  /\ pc = "close" /\ result = "OpenFailed" =>
       \/ faults > 0
       \/ ~truncate /\ before # Absent
       \/ InTheWay(Parent)
       \/ ~answer[Sink] /\ Directory!MeetsPresent(Sink)
=============================================================================
