-------------------------- MODULE CompressorProofs --------------------------
(***************************************************************************)
(* What TLAPS proves of module Compressor, for every number of threads and *)
(* jobs and every set of configurations and errors, and, at the end, of    *)
(* Application, for every number of callbacks too.                         *)
(***************************************************************************)
EXTENDS Application, TLAPS

(* Where the local variable that names a job is in use.                    *)
NeedsJob == JobSteps \cup {"rejectCallback", "finishCallback", "returnHandle",
                           "deinitCancel", "deinitAwaitJob"}

HasJob == \A a \in Agents : pc[a] \in NeedsJob => callJob[a] \in Jobs

(* Type correctness alone is not inductive: a step that reads the record   *)
(* of its job needs a job.                                                 *)
TypeInv == TypeOK /\ HasJob

USE DEF Home, RestSteps, PostSteps, DeinitSteps, SlotSteps, JobSteps, FinishSteps,
        WorkerSteps, SetupSteps, SyncSteps

LEMMA InitTypeInv == Init => TypeInv
<1> SUFFICES ASSUME Init PROVE TypeInv
  OBVIOUS
<1>1. TypeOK
  <2>1. config \in Configs /\ nextJobId \in 1 .. MaxJobs + 1
    BY ConstantsAssumption DEF Init
  <2>2. pc \in [Agents -> Steps]
    BY DEF Init, Steps
  <2>3. jobState \in [Jobs -> States] /\ jobResult \in [Jobs -> Errors]
    BY DEF Init, States, Errors
  <2>4. completions \in [Jobs -> Nat] /\ cancelRequested \in [Jobs -> BOOLEAN]
    BY DEF Init
  <2>5. callError \in [Agents -> Errors] /\ callJob \in [Agents -> Jobs \cup {None}]
    BY DEF Init, Errors
  <2>6. lastResult \in [job : Jobs \cup {None}, error : Errors]
    BY DEF Init, Errors
  <2> QED
    BY <2>1, <2>2, <2>3, <2>4, <2>5, <2>6 DEF Init, TypeOK
<1>2. HasJob
  BY DEF Init, HasJob, NeedsJob
<1> QED
  BY <1>1, <1>2 DEF TypeInv

LEMMA NextTypeInv == TypeInv /\ [Next]_vars => TypeInv'
<1> SUFFICES ASSUME TypeInv, [Next]_vars PROVE TypeInv'
  OBVIOUS
<1> USE DEF TypeInv, TypeOK, HasJob, NeedsJob, Goto, Leave, owner, control, client, locals
<1>1. ASSUME NEW a \in Agents, NEW c \in Configs, InitCall(a, c) PROVE TypeInv'
  BY <1>1 DEF InitCall
<1>2. ASSUME NEW a \in Agents, DeinitCall(a) PROVE TypeInv'
  BY <1>2 DEF DeinitCall, Steps
<1>3. ASSUME NEW a \in Agents, SyncCall(a) PROVE TypeInv'
  BY <1>3 DEF SyncCall, Steps
<1>4. ASSUME NEW a \in Agents, NEW hasIo \in BOOLEAN, SubmitCall(a, hasIo) PROVE TypeInv'
  <2> DEFINE j == nextJobId
             e == RejectReason(hasIo)
  <2>1. j \in Jobs /\ e \in Errors /\ j + 1 \in 1 .. MaxJobs + 1
    BY <1>4, ConstantsAssumption DEF SubmitCall, RejectReason, Errors, RejectErrors, Jobs
  <2> HIDE DEF j, e
  <2>2. /\ nextJobId' \in 1 .. MaxJobs + 1
        /\ callJob' = [callJob EXCEPT ![a] = j]
        /\ UNCHANGED <<initialized, config, cancelRequested, client, callError>>
    BY <1>4, <2>1 DEF SubmitCall, j
  <2>3. CASE e = "Ok"
    <3>1. /\ jobState' = [jobState EXCEPT ![j] = "Running"]
          /\ busy' = TRUE
          /\ activeJob' = j
          /\ pc' = [pc EXCEPT ![a] = "spawn"]
          /\ UNCHANGED <<lastResult, jobResult>>
      BY <1>4, <2>3 DEF SubmitCall, j, e
    <3> QED
      BY <2>1, <2>2, <3>1 DEF Steps, States
  <2>4. CASE e # "Ok"
    <3>1. /\ jobState' = [jobState EXCEPT ![j] = "Rejected"]
          /\ jobResult' = [jobResult EXCEPT ![j] = e]
          /\ lastResult' = [job |-> j, error |-> e]
          /\ pc' = [pc EXCEPT ![a] = "rejectCallback"]
          /\ UNCHANGED <<busy, activeJob>>
      BY <1>4, <2>4 DEF SubmitCall, j, e
    <3> QED
      BY <2>1, <2>2, <3>1 DEF Steps, States
  <2> QED
    BY <2>3, <2>4
<1>5. ASSUME NEW a \in Agents, DeinitCancel(a) PROVE TypeInv'
  BY <1>5 DEF DeinitCancel, Steps
<1>6. ASSUME NEW a \in Agents, DeinitAwaitJob(a) PROVE TypeInv'
  BY <1>6 DEF DeinitAwaitJob, Steps
<1>7. ASSUME NEW a \in Agents, DeinitAwaitSlot(a) PROVE TypeInv'
  BY <1>7 DEF DeinitAwaitSlot, Steps, Errors
<1>8. ASSUME NEW a \in Agents, NEW e \in Errors, SyncRun(a, e) PROVE TypeInv'
  BY <1>8 DEF SyncRun, Steps
<1>9. ASSUME NEW a \in Agents, NEW e \in Errors, SpawnFail(a, e) PROVE TypeInv'
  BY <1>9 DEF SpawnFail, Steps
<1>10. ASSUME NEW a \in Agents, NEW e \in Errors, WorkerRun(a, e) PROVE TypeInv'
  BY <1>10 DEF WorkerRun, Steps
<1>11. ASSUME NEW a \in Agents, SyncRelease(a) PROVE TypeInv'
  BY <1>11 DEF SyncRelease, Steps
<1>12. ASSUME NEW a \in Agents, SyncPublish(a) PROVE TypeInv'
  BY <1>12 DEF SyncPublish, Steps, Errors
<1>13. ASSUME NEW a \in Agents, RejectCallback(a) PROVE TypeInv'
  BY <1>13 DEF RejectCallback, Steps
<1>14. ASSUME NEW a \in Agents, Spawn(a) PROVE TypeInv'
  BY <1>14 DEF Spawn, Steps, Agents
<1>15. ASSUME NEW a \in Agents, FailStore(a) PROVE TypeInv'
  BY <1>15 DEF FailStore, Steps, States
<1>16. ASSUME NEW a \in Agents, FailResult(a) PROVE TypeInv'
  BY <1>16 DEF FailResult, Steps
<1>17. ASSUME NEW a \in Agents, ReturnHandle(a) PROVE TypeInv'
  BY <1>17 DEF ReturnHandle, Steps, Errors
<1>18. ASSUME NEW a \in Agents, WorkerStoreResult(a) PROVE TypeInv'
  BY <1>18 DEF WorkerStoreResult, Steps
<1>19. ASSUME NEW a \in Agents, WorkerStoreState(a) PROVE TypeInv'
  BY <1>19 DEF WorkerStoreState, Steps, OutcomeState, States
<1>20. ASSUME NEW a \in Agents, FinishRead(a) PROVE TypeInv'
  BY <1>20 DEF FinishRead, Steps
<1>21. ASSUME NEW a \in Agents, FinishRelease(a) PROVE TypeInv'
  BY <1>21 DEF FinishRelease, Steps
<1>22. ASSUME NEW a \in Agents, FinishCallback(a) PROVE TypeInv'
  BY <1>22 DEF FinishCallback, Steps, Errors
<1>23. ASSUME NEW a \in Agents, WorkerExit(a) PROVE TypeInv'
  BY <1>23 DEF WorkerExit, Steps
<1>24. ASSUME NEW j \in Jobs, Cancel(j) PROVE TypeInv'
  BY <1>24 DEF Cancel
<1>25. CASE UNCHANGED vars
  BY <1>25 DEF vars
<1> QED
  BY <1>1, <1>2, <1>3, <1>4, <1>5, <1>6, <1>7, <1>8, <1>9, <1>10, <1>11, <1>12, <1>13, <1>14,
     <1>15, <1>16, <1>17, <1>18, <1>19, <1>20, <1>21, <1>22, <1>23, <1>24, <1>25
  DEF Next, Call, Continue

(* Every variable keeps its type.                                          *)
THEOREM TypeCorrect == Spec => []TypeOK
<1>1. Spec => []TypeInv
  BY InitTypeInv, NextTypeInv, PTL DEF Spec
<1>2. TypeInv => TypeOK
  BY DEF TypeInv
<1> QED
  BY <1>1, <1>2, PTL
-----------------------------------------------------------------------------
(* The slot.  Exclusion needs to know that _busy is exact, and _busy is    *)
(* exact because only the one run in the slot clears it.                   *)
SlotInv == SlotExclusive /\ BusyExact /\ ActiveJobExact

(* A step that leaves _busy and _activeJob alone and lets nobody in or out *)
SlotKept ==
  /\ busy' = busy
  /\ activeJob' = activeJob
  /\ \A a \in Agents : InSlot(a)' <=> InSlot(a)
  /\ \A a \in Agents, j \in Jobs : RunsJob(a, j)' <=> RunsJob(a, j)

LEMMA KeptSlotInv == SlotInv /\ SlotKept => SlotInv'
  BY DEF SlotInv, SlotKept, SlotExclusive, BusyExact, ActiveJobExact

LEMMA InitSlotInv == Init => SlotInv
  BY ConstantsAssumption
  DEF Init, SlotInv, SlotExclusive, BusyExact, ActiveJobExact, InSlot, RunsJob, Agents

LEMMA NextSlotInv == TypeInv /\ SlotInv /\ [Next]_vars => SlotInv'
<1> SUFFICES ASSUME TypeInv, SlotInv, [Next]_vars PROVE SlotInv'
  OBVIOUS
<1> USE DEF TypeInv, TypeOK, HasJob, NeedsJob, Goto, Leave, owner, control, client, locals,
            InSlot, RunsJob
<1>1. ASSUME NEW a \in Agents, NEW c \in Configs, InitCall(a, c) PROVE SlotInv'
  BY <1>1, KeptSlotInv DEF InitCall, SlotKept
<1>2. ASSUME NEW a \in Agents, DeinitCall(a) PROVE SlotInv'
  BY <1>2, KeptSlotInv DEF DeinitCall, SlotKept, MayCall
<1>3. ASSUME NEW a \in Agents, SyncCall(a) PROVE SlotInv'
  BY <1>3 DEF SyncCall, MayCall, SlotInv, SlotExclusive, BusyExact, ActiveJobExact
<1>4. ASSUME NEW a \in Agents, NEW hasIo \in BOOLEAN, SubmitCall(a, hasIo) PROVE SlotInv'
  <2> DEFINE j == nextJobId
             e == RejectReason(hasIo)
  <2>1. j \in Jobs /\ pc[a] = Home(a) /\ callJob' = [callJob EXCEPT ![a] = j]
    BY <1>4 DEF SubmitCall, MayCall
  <2>2. CASE e = "Ok"
    <3>1. ~busy /\ busy' /\ activeJob' = j /\ pc' = [pc EXCEPT ![a] = "spawn"]
      BY <1>4, <2>2 DEF SubmitCall, RejectReason
    <3> HIDE DEF j, e
    <3> QED
      BY <2>1, <3>1 DEF SlotInv, SlotExclusive, BusyExact, ActiveJobExact
  <2>3. CASE e # "Ok"
    <3>1. busy' = busy /\ activeJob' = activeJob /\ pc' = [pc EXCEPT ![a] = "rejectCallback"]
      BY <1>4, <2>3 DEF SubmitCall
    <3> HIDE DEF j, e
    <3> QED
      BY <2>1, <3>1, KeptSlotInv DEF SlotKept
  <2> QED
    BY <2>2, <2>3
<1>5. ASSUME NEW a \in Agents, DeinitAwaitSlot(a) PROVE SlotInv'
  BY <1>5, ConstantsAssumption
  DEF DeinitAwaitSlot, SlotInv, SlotExclusive, BusyExact, ActiveJobExact, Agents
<1>6. ASSUME NEW a \in Agents, NEW e \in Errors, SyncRun(a, e) PROVE SlotInv'
  BY <1>6, KeptSlotInv DEF SyncRun, SlotKept
<1>7. ASSUME NEW a \in Agents, NEW e \in Errors, SpawnFail(a, e) PROVE SlotInv'
  BY <1>7, KeptSlotInv DEF SpawnFail, SlotKept
<1>8. ASSUME NEW a \in Agents, NEW e \in Errors, WorkerRun(a, e) PROVE SlotInv'
  BY <1>8, KeptSlotInv DEF WorkerRun, SlotKept
<1>9. ASSUME NEW a \in Agents, SyncRelease(a) PROVE SlotInv'
  BY <1>9 DEF SyncRelease, SlotInv, SlotExclusive, BusyExact, ActiveJobExact
<1>10. ASSUME NEW a \in Agents, Spawn(a) PROVE SlotInv'
  <2>1. callJob[a] \in Jobs /\ callJob[a] \in Agents /\ InSlot(a)
    BY <1>10 DEF Spawn, Agents
  <2> QED
    BY <1>10, <2>1 DEF Spawn, SlotInv, SlotExclusive, BusyExact, ActiveJobExact
<1>11. ASSUME NEW a \in Agents, FinishRelease(a) PROVE SlotInv'
  BY <1>11, ConstantsAssumption
  DEF FinishRelease, SlotInv, SlotExclusive, BusyExact, ActiveJobExact, Agents
<1>12. ASSUME NEW a \in Agents, DeinitCancel(a) PROVE SlotInv'
  BY <1>12, KeptSlotInv DEF DeinitCancel, SlotKept
<1>13. ASSUME NEW a \in Agents, DeinitAwaitJob(a) PROVE SlotInv'
  BY <1>13, KeptSlotInv DEF DeinitAwaitJob, SlotKept
<1>14. ASSUME NEW a \in Agents, RejectCallback(a) PROVE SlotInv'
  BY <1>14, KeptSlotInv DEF RejectCallback, SlotKept
<1>15. ASSUME NEW a \in Agents, FailStore(a) PROVE SlotInv'
  BY <1>15, KeptSlotInv DEF FailStore, SlotKept
<1>16. ASSUME NEW a \in Agents, FailResult(a) PROVE SlotInv'
  BY <1>16, KeptSlotInv DEF FailResult, SlotKept
<1>17. ASSUME NEW a \in Agents, ReturnHandle(a) PROVE SlotInv'
  BY <1>17, KeptSlotInv DEF ReturnHandle, SlotKept
<1>18. ASSUME NEW a \in Agents, WorkerStoreResult(a) PROVE SlotInv'
  BY <1>18, KeptSlotInv DEF WorkerStoreResult, SlotKept
<1>19. ASSUME NEW a \in Agents, WorkerStoreState(a) PROVE SlotInv'
  BY <1>19, KeptSlotInv DEF WorkerStoreState, SlotKept
<1>20. ASSUME NEW a \in Agents, FinishRead(a) PROVE SlotInv'
  BY <1>20, KeptSlotInv DEF FinishRead, SlotKept
<1>21. ASSUME NEW a \in Agents, FinishCallback(a) PROVE SlotInv'
  BY <1>21, KeptSlotInv DEF FinishCallback, SlotKept
<1>22. ASSUME NEW a \in Agents, WorkerExit(a) PROVE SlotInv'
  BY <1>22, KeptSlotInv DEF WorkerExit, SlotKept
<1>23. ASSUME NEW a \in Agents, SyncPublish(a) PROVE SlotInv'
  BY <1>23, KeptSlotInv DEF SyncPublish, SlotKept
<1>24. ASSUME NEW j \in Jobs, Cancel(j) PROVE SlotInv'
  BY <1>24, KeptSlotInv DEF Cancel, SlotKept
<1>25. CASE UNCHANGED vars
  BY <1>25, KeptSlotInv DEF vars, SlotKept
<1> QED
  BY <1>1, <1>2, <1>3, <1>4, <1>5, <1>6, <1>7, <1>8, <1>9, <1>10, <1>11, <1>12, <1>13,
     <1>14, <1>15, <1>16, <1>17, <1>18, <1>19, <1>20, <1>21, <1>22, <1>23, <1>24, <1>25
  DEF Next, Call, Continue

LEMMA SlotInvariant == Spec => [](TypeInv /\ SlotInv)
BY InitTypeInv, NextTypeInv, InitSlotInv, NextSlotInv, PTL DEF Spec

(* At most one run is in progress on an instance, whether it came by the   *)
(* synchronous calls or by submit.                                         *)
THEOREM SlotIsExclusive == Spec => []SlotExclusive
BY SlotInvariant, PTL DEF SlotInv

(* _busy says exactly whether a run is in progress, and _activeJob which   *)
(* job it is: every way out of a call or a worker gives the slot back.     *)
THEOREM SlotIsAccounted == Spec => []SlotAccounted
<1>1. SlotInv => SlotAccounted
  BY DEF SlotInv, SlotAccounted
<1> QED
  BY <1>1, SlotInvariant, PTL

(* The configuration a run reads without the lock does not change under    *)
(* it: init() is the only writer, and refuses while _busy is set.          *)
THEOREM ConfigIsStable == Spec => ConfigStable
<1> DEFINE Stable == (\E a \in Agents : InSlot(a)) => config' = config
<1>1. SlotInv /\ [Next]_vars => [Stable]_vars
  <2> SUFFICES ASSUME SlotInv, Next, NEW b \in Agents, InSlot(b) PROVE config' = config
    BY DEF vars
  <2>1. busy
    BY DEF SlotInv, BusyExact
  <2>2. ASSUME NEW a \in Agents, Call(a) PROVE config' = config
    BY <2>1, <2>2 DEF Call, InitCall, DeinitCall, SyncCall, SubmitCall
  <2>3. ASSUME NEW a \in Agents, Continue(a) PROVE config' = config
    BY <2>3
    DEF Continue, owner, DeinitCancel, DeinitAwaitJob, DeinitAwaitSlot, SyncRun, SyncRelease,
        SyncPublish, RejectCallback, Spawn, SpawnFail, FailStore, FailResult, ReturnHandle,
        WorkerRun, WorkerStoreResult, WorkerStoreState, FinishRead, FinishRelease,
        FinishCallback, WorkerExit
  <2>4. ASSUME NEW j \in Jobs, Cancel(j) PROVE config' = config
    BY <2>4 DEF Cancel, owner
  <2> QED
    BY <2>2, <2>3, <2>4 DEF Next
<1>2. Spec => []SlotInv
  BY InitTypeInv, NextTypeInv, InitSlotInv, NextSlotInv, PTL DEF Spec
<1> QED
  BY <1>1, <1>2, PTL DEF Spec, ConfigStable

-----------------------------------------------------------------------------
(* The life of a job.  Until onComplete was invoked, one agent owns it.    *)
OwnerSteps == JobSteps \cup {"rejectCallback", "finishCallback"}
Owns(a, j) == pc[a] \in OwnerSteps /\ callJob[a] = j

(* Nobody knows a job that was not submitted. *)
Fresh ==
  \A j \in Jobs : j >= nextJobId =>
    /\ jobState[j] = "Idle"
    /\ completions[j] = 0
    /\ j \notin handles
    /\ pc[j] = "absent"
    /\ lastResult.job # j
    /\ \A a \in Agents : callJob[a] # j

(* One owner; the worker's does not exist before it is created, and the    *)
(* handle is not returned while the job is being set up.                   *)
OneOwner ==
  /\ \A a, b \in Agents, j \in Jobs : Owns(a, j) /\ Owns(b, j) => a = b
  /\ \A a, b \in Agents :
       pc[a] \in SetupSteps /\ pc[b] = "returnHandle" => callJob[a] # callJob[b]
  /\ \A a \in Agents : pc[a] = "spawn" => pc[callJob[a]] = "absent"
  /\ \A a \in Agents : pc[a] \in SetupSteps => callJob[a] \notin handles

(* State and result of a job agree. *)
Agree(j) ==
  IF jobState[j] = "Rejected"
    THEN jobResult[j] \in RejectErrors
    ELSE jobState[j] = OutcomeState(jobResult[j])

(* What the owner has done so far. *)
Steady ==
  \A a \in Agents :
    /\ pc[a] \in {"spawn", "failStore", "run", "storeResult", "storeState"} =>
         jobState[callJob[a]] = "Running"
    /\ pc[a] \in {"failStore", "failResult"} => callError[a] \in SetupErrors
    /\ pc[a] = "failResult" => jobState[callJob[a]] = "Rejected"
    /\ pc[a] = "storeState" => jobResult[callJob[a]] = callError[a]
    /\ pc[a] \in {"finishRead", "finishRelease", "finishCallback", "rejectCallback"} =>
         Done(callJob[a]) /\ Agree(callJob[a])
    /\ pc[a] = "finishRelease" => callError[a] = jobResult[callJob[a]]

(* The only window in which they do not. *)
Consistent ==
  \A j \in Jobs : Done(j) =>
    Agree(j) \/ \E a \in Agents : pc[a] = "failResult" /\ callJob[a] = j

Published ==
  \A j \in Jobs : lastResult.job = j =>
    Done(j) /\ jobResult[j] = lastResult.error /\ \A a \in Agents : ~RunsJob(a, j)

Reported ==
  \A j \in Jobs :
    /\ completions[j] \in {0, 1}
    /\ completions[j] = 1 => Done(j) /\ \A a \in Agents : ~Owns(a, j)

Waited ==
  \A a \in Agents : pc[a] = "deinitAwaitSlot" /\ callJob[a] \in Jobs => Done(callJob[a])

JobInv == Fresh /\ OneOwner /\ Steady /\ Consistent /\ Published /\ Reported /\ Waited

LEMMA JobsAreAgents == Jobs \subseteq Agents
  BY DEF Agents

LEMMA NoneIsNoJob == None \notin Jobs
  BY ConstantsAssumption DEF Agents

LEMMA OutcomeIsFinal ==
  ASSUME NEW e PROVE OutcomeState(e) \in {"Completed", "Cancelled", "Failed"}
  BY DEF OutcomeState

LEMMA InitJobInv == Init => JobInv
<1> SUFFICES ASSUME Init PROVE JobInv
  OBVIOUS
<1> USE DEF Owns, OwnerSteps, RunsJob
<1>1. Fresh
  BY ConstantsAssumption DEF Init, Fresh, Jobs, Agents
<1>2. OneOwner /\ Steady /\ Waited
  BY DEF Init, OneOwner, Steady, Waited
<1>3. Consistent /\ Reported
  BY DEF Init, Consistent, Reported, Done, FinalStates
<1>4. Published
  BY ConstantsAssumption DEF Init, Published, Agents
<1> QED
  BY <1>1, <1>2, <1>3, <1>4 DEF JobInv

LEMMA NextJobInv == TypeInv /\ SlotInv /\ JobInv /\ [Next]_vars => JobInv'
<1> SUFFICES ASSUME TypeInv, SlotInv, JobInv, [Next]_vars PROVE JobInv'
  OBVIOUS
<1> USE DEF TypeInv, TypeOK, HasJob, NeedsJob, Goto, Leave, MayCall, owner, control, client, locals,
            InSlot, RunsJob, SlotInv, SlotExclusive, Owns, OwnerSteps, Done, FinalStates
<1>1. ASSUME NEW a \in Agents, NEW c \in Configs, InitCall(a, c) PROVE JobInv'
  BY <1>1, ConstantsAssumption
  DEF InitCall, JobInv, Fresh, OneOwner, Steady, Consistent, Published, Reported, Waited, Agree
<1>2. ASSUME NEW a \in Agents, NEW hasIo \in BOOLEAN, SubmitCall(a, hasIo) PROVE JobInv'
  <2> DEFINE j == nextJobId
             e == RejectReason(hasIo)
  <2>1. /\ j \in Jobs /\ nextJobId' = j + 1
        /\ callJob' = [callJob EXCEPT ![a] = j]
        /\ pc[a] = Home(a)
        /\ UNCHANGED <<handles, completions, callError>>
    BY <1>2 DEF SubmitCall
  <2>2. /\ jobState[j] = "Idle" /\ completions[j] = 0 /\ j \notin handles
        /\ pc[j] = "absent" /\ lastResult.job # j
        /\ \A b \in Agents : callJob[b] # j
    BY <2>1 DEF JobInv, Fresh, Jobs
  <2>3. \A k \in Jobs : k >= j + 1 =>
          /\ k >= j /\ k # j /\ k # a /\ k \in Agents
          /\ jobState[k] = "Idle" /\ completions[k] = 0 /\ k \notin handles
          /\ pc[k] = "absent" /\ lastResult.job # k
          /\ \A b \in Agents : callJob[b] # k
    <3>1. \A k \in Jobs : k >= j + 1 => k >= j /\ k # j
      BY <2>1 DEF Jobs
    <3>2. \A k \in Jobs : k >= j => pc[k] = "absent"
      BY DEF JobInv, Fresh
    <3> QED
      BY <2>1, <3>1, <3>2, JobsAreAgents DEF JobInv, Fresh, Home
  <2>4. /\ pc[a] \in {"idle", "callback"} /\ a # j
        /\ j \in Agents
    BY <2>1, <2>2 DEF Home, Agents
  <2>5. CASE e = "Ok"
    <3>1. /\ jobState' = [jobState EXCEPT ![j] = "Running"]
          /\ pc' = [pc EXCEPT ![a] = "spawn"]
          /\ UNCHANGED <<lastResult, jobResult>>
      BY <1>2, <2>5 DEF SubmitCall
    <3> HIDE DEF j, e
    <3>2. Fresh'
      BY <2>1, <2>2, <2>3, <2>4, <3>1 DEF Fresh
    <3>3. OneOwner'
      BY <2>1, <2>2, <2>3, <2>4, <3>1 DEF JobInv, OneOwner
    <3>4. Steady'
      BY <2>1, <2>2, <2>3, <2>4, <3>1 DEF JobInv, Steady, Agree
    <3>5. Consistent'
      BY <2>1, <2>2, <2>3, <2>4, <3>1 DEF JobInv, Consistent, Agree
    <3>6. Published'
      BY <2>1, <2>2, <2>3, <2>4, <3>1 DEF JobInv, Published
    <3>7. Reported'
      BY <2>1, <2>2, <2>3, <2>4, <3>1 DEF JobInv, Reported
    <3>8. Waited'
      BY <2>1, <2>2, <2>3, <2>4, <3>1 DEF JobInv, Waited
    <3> QED
      BY <3>2, <3>3, <3>4, <3>5, <3>6, <3>7, <3>8 DEF JobInv
  <2>6. CASE e # "Ok"
    <3>1. /\ jobState' = [jobState EXCEPT ![j] = "Rejected"]
          /\ jobResult' = [jobResult EXCEPT ![j] = e]
          /\ e \in RejectErrors
          /\ lastResult' = [job |-> j, error |-> e]
          /\ pc' = [pc EXCEPT ![a] = "rejectCallback"]
      BY <1>2, <2>6 DEF SubmitCall, RejectReason, RejectErrors
    <3> HIDE DEF j, e
    <3>2. Fresh'
      BY <2>1, <2>2, <2>3, <2>4, <3>1 DEF Fresh
    <3>3. OneOwner'
      BY <2>1, <2>2, <2>3, <2>4, <3>1 DEF JobInv, OneOwner
    <3>4. Steady'
      BY <2>1, <2>2, <2>3, <2>4, <3>1 DEF JobInv, Steady, Agree
    <3>5. Consistent'
      BY <2>1, <2>2, <2>3, <2>4, <3>1 DEF JobInv, Consistent, Agree
    <3>6. Published'
      BY <2>1, <2>2, <2>3, <2>4, <3>1 DEF JobInv, Published
    <3>7. Reported'
      BY <2>1, <2>2, <2>3, <2>4, <3>1 DEF JobInv, Reported
    <3>8. Waited'
      BY <2>1, <2>2, <2>3, <2>4, <3>1 DEF JobInv, Waited
    <3> QED
      BY <3>2, <3>3, <3>4, <3>5, <3>6, <3>7, <3>8 DEF JobInv
  <2> QED
    BY <2>5, <2>6
<1>3. ASSUME NEW a \in Agents, NEW e \in Errors, SyncRun(a, e) PROVE JobInv'
  BY <1>3, ConstantsAssumption
  DEF SyncRun, JobInv, Fresh, OneOwner, Steady, Consistent, Published, Reported, Waited, Agree
<1>4. ASSUME NEW a \in Agents, NEW e \in Errors, SpawnFail(a, e) PROVE JobInv'
  BY <1>4, ConstantsAssumption
  DEF SpawnFail, JobInv, Fresh, OneOwner, Steady, Consistent, Published, Reported, Waited, Agree
<1>5. ASSUME NEW a \in Agents, NEW e \in Errors, WorkerRun(a, e) PROVE JobInv'
  BY <1>5, ConstantsAssumption
  DEF WorkerRun, JobInv, Fresh, OneOwner, Steady, Consistent, Published, Reported, Waited, Agree
<1>6. ASSUME NEW a \in Agents, DeinitCall(a) PROVE JobInv'
  <2>1. Fresh'
    BY <1>6, NoneIsNoJob DEF DeinitCall, JobInv, Fresh, ActiveJobExact
  <2>2. OneOwner'
    BY <1>6 DEF DeinitCall, JobInv, OneOwner
  <2>3. Steady'
    BY <1>6, NoneIsNoJob DEF DeinitCall, JobInv, Steady, Agree
  <2>4. Consistent'
    BY <1>6, NoneIsNoJob DEF DeinitCall, JobInv, Consistent, Agree
  <2>5. Published'
    BY <1>6 DEF DeinitCall, JobInv, Published
  <2>6. Reported'
    BY <1>6 DEF DeinitCall, JobInv, Reported
  <2>7. Waited'
    BY <1>6, NoneIsNoJob DEF DeinitCall, JobInv, Waited
  <2> QED
    BY <2>1, <2>2, <2>3, <2>4, <2>5, <2>6, <2>7 DEF JobInv
<1>7. ASSUME NEW a \in Agents, SyncCall(a) PROVE JobInv'
  BY <1>7, ConstantsAssumption
  DEF SyncCall, JobInv, Fresh, OneOwner, Steady, Consistent, Published, Reported, Waited, Agree
<1>8. ASSUME NEW a \in Agents, DeinitCancel(a) PROVE JobInv'
  BY <1>8, ConstantsAssumption
  DEF DeinitCancel, JobInv, Fresh, OneOwner, Steady, Consistent, Published, Reported, Waited, Agree
<1>9. ASSUME NEW a \in Agents, DeinitAwaitJob(a) PROVE JobInv'
  BY <1>9, ConstantsAssumption
  DEF DeinitAwaitJob, JobInv, Fresh, OneOwner, Steady, Consistent, Published, Reported, Waited, Agree
<1>10. ASSUME NEW a \in Agents, DeinitAwaitSlot(a) PROVE JobInv'
  <2>1. Fresh'
    BY <1>10, NoneIsNoJob DEF DeinitAwaitSlot, JobInv, Fresh
  <2>2. OneOwner'
    BY <1>10 DEF DeinitAwaitSlot, JobInv, OneOwner
  <2>3. Steady'
    BY <1>10, NoneIsNoJob DEF DeinitAwaitSlot, JobInv, Steady, Agree
  <2>4. Consistent'
    BY <1>10, NoneIsNoJob DEF DeinitAwaitSlot, JobInv, Consistent, Agree
  <2>5. Published'
    BY <1>10 DEF DeinitAwaitSlot, JobInv, Published
  <2>6. Reported'
    BY <1>10 DEF DeinitAwaitSlot, JobInv, Reported
  <2>7. Waited'
    BY <1>10 DEF DeinitAwaitSlot, JobInv, Waited
  <2> QED
    BY <2>1, <2>2, <2>3, <2>4, <2>5, <2>6, <2>7 DEF JobInv
<1>11. ASSUME NEW a \in Agents, SyncRelease(a) PROVE JobInv'
  BY <1>11, ConstantsAssumption
  DEF SyncRelease, JobInv, Fresh, OneOwner, Steady, Consistent, Published, Reported, Waited, Agree
<1>12. ASSUME NEW a \in Agents, SyncPublish(a) PROVE JobInv'
  <2>1. Fresh'
    BY <1>12, NoneIsNoJob DEF SyncPublish, JobInv, Fresh
  <2>2. OneOwner'
    BY <1>12 DEF SyncPublish, JobInv, OneOwner
  <2>3. Steady'
    BY <1>12, NoneIsNoJob DEF SyncPublish, JobInv, Steady, Agree
  <2>4. Consistent'
    BY <1>12, NoneIsNoJob DEF SyncPublish, JobInv, Consistent, Agree
  <2>5. Published'
    BY <1>12, NoneIsNoJob DEF SyncPublish, JobInv, Published
  <2>6. Reported'
    BY <1>12 DEF SyncPublish, JobInv, Reported
  <2>7. Waited'
    BY <1>12 DEF SyncPublish, JobInv, Waited
  <2> QED
    BY <2>1, <2>2, <2>3, <2>4, <2>5, <2>6, <2>7 DEF JobInv
<1>13. ASSUME NEW a \in Agents, RejectCallback(a) PROVE JobInv'
  BY <1>13, ConstantsAssumption
  DEF RejectCallback, JobInv, Fresh, OneOwner, Steady, Consistent, Published, Reported, Waited, Agree
<1>14. ASSUME NEW a \in Agents, Spawn(a) PROVE JobInv'
  <2>1. Fresh'
    <3>1. ASSUME NEW k \in Jobs, k >= nextJobId PROVE k # a /\ callJob[a] # k /\ k \in Agents
      BY <1>14, <3>1, JobsAreAgents DEF Spawn, JobInv, Fresh
    <3> QED
      BY <1>14, <3>1, JobsAreAgents DEF Spawn, JobInv, Fresh
  <2>2. OneOwner'
    BY <1>14 DEF Spawn, JobInv, OneOwner
  <2>3. Steady'
    BY <1>14, NoneIsNoJob DEF Spawn, JobInv, Steady, Agree
  <2>4. Consistent'
    BY <1>14, NoneIsNoJob DEF Spawn, JobInv, Consistent, Agree
  <2>5. Published'
    BY <1>14 DEF Spawn, JobInv, Published
  <2>6. Reported'
    BY <1>14 DEF Spawn, JobInv, Reported
  <2>7. Waited'
    BY <1>14 DEF Spawn, JobInv, Waited
  <2> QED
    BY <2>1, <2>2, <2>3, <2>4, <2>5, <2>6, <2>7 DEF JobInv
<1>15. ASSUME NEW a \in Agents, FailStore(a) PROVE JobInv'
  BY <1>15, ConstantsAssumption
  DEF FailStore, JobInv, Fresh, OneOwner, Steady, Consistent, Published, Reported, Waited, Agree
<1>16. ASSUME NEW a \in Agents, FailResult(a) PROVE JobInv'
  <2>1. Fresh'
    BY <1>16, NoneIsNoJob DEF FailResult, JobInv, Fresh
  <2>2. OneOwner'
    BY <1>16 DEF FailResult, JobInv, OneOwner
  <2>3. Steady'
    <3> DEFINE k == callJob[a]
    <3>1. /\ k \in Jobs
          /\ \A b \in Agents : b # a /\ pc[b] \in OwnerSteps => callJob[b] # k
      BY <1>16 DEF FailResult, JobInv, OneOwner
    <3>2. /\ jobState' = jobState /\ jobState[k] = "Rejected"
          /\ jobResult' = [jobResult EXCEPT ![k] = callError[a]]
          /\ callError[a] \in RejectErrors
          /\ pc' = [pc EXCEPT ![a] = "finishRead"]
          /\ UNCHANGED <<callJob, callError>>
      BY <1>16 DEF FailResult, JobInv, Steady, RejectErrors
    <3> HIDE DEF k
    <3>3. ASSUME NEW b \in Agents, b # a, pc[b] \in OwnerSteps
          PROVE  callJob[b] \in Jobs /\ jobResult'[callJob[b]] = jobResult[callJob[b]]
      BY <3>1, <3>2, <3>3
    <3>4. callJob[a] = k
      BY DEF k
    <3> QED
      BY <3>1, <3>2, <3>3, <3>4 DEF JobInv, Steady, Agree
  <2>4. Consistent'
    BY <1>16 DEF FailResult, JobInv, Steady, Consistent, Agree, RejectErrors
  <2>5. Published'
    BY <1>16 DEF FailResult, JobInv, Published
  <2>6. Reported'
    BY <1>16 DEF FailResult, JobInv, Reported
  <2>7. Waited'
    BY <1>16 DEF FailResult, JobInv, Waited
  <2> QED
    BY <2>1, <2>2, <2>3, <2>4, <2>5, <2>6, <2>7 DEF JobInv
<1>17. ASSUME NEW a \in Agents, ReturnHandle(a) PROVE JobInv'
  <2>1. Fresh'
    BY <1>17, NoneIsNoJob DEF ReturnHandle, JobInv, Fresh
  <2>2. OneOwner'
    BY <1>17 DEF ReturnHandle, JobInv, OneOwner
  <2>3. Steady'
    BY <1>17, NoneIsNoJob DEF ReturnHandle, JobInv, Steady, Agree
  <2>4. Consistent'
    BY <1>17, NoneIsNoJob DEF ReturnHandle, JobInv, Consistent, Agree
  <2>5. Published'
    BY <1>17 DEF ReturnHandle, JobInv, Published
  <2>6. Reported'
    BY <1>17 DEF ReturnHandle, JobInv, Reported
  <2>7. Waited'
    BY <1>17 DEF ReturnHandle, JobInv, Waited
  <2> QED
    BY <2>1, <2>2, <2>3, <2>4, <2>5, <2>6, <2>7 DEF JobInv
<1>18. ASSUME NEW a \in Agents, WorkerStoreResult(a) PROVE JobInv'
  BY <1>18, ConstantsAssumption
  DEF WorkerStoreResult, JobInv, Fresh, OneOwner, Steady, Consistent, Published, Reported, Waited, Agree
<1>19. ASSUME NEW a \in Agents, WorkerStoreState(a) PROVE JobInv'
  <2>1. Fresh'
    BY <1>19, NoneIsNoJob DEF WorkerStoreState, JobInv, Fresh
  <2>2. OneOwner'
    BY <1>19 DEF WorkerStoreState, JobInv, OneOwner
  <2>3. Steady'
    <3> PICK k \in Jobs : callJob[a] = k
      BY <1>19 DEF WorkerStoreState
    <3>1. /\ k \in Jobs
          /\ \A b \in Agents : b # a /\ pc[b] \in OwnerSteps => callJob[b] # k
      BY <1>19 DEF WorkerStoreState, JobInv, OneOwner
    <3>2. /\ jobState' = [jobState EXCEPT ![k] = OutcomeState(callError[a])]
          /\ jobResult' = jobResult /\ jobResult[k] = callError[a]
          /\ pc' = [pc EXCEPT ![a] = "finishRead"]
          /\ UNCHANGED <<callJob, callError>>
      BY <1>19 DEF WorkerStoreState, JobInv, Steady
    <3>3. ASSUME NEW b \in Agents, b # a, pc[b] \in OwnerSteps
          PROVE  callJob[b] \in Jobs /\ jobState'[callJob[b]] = jobState[callJob[b]]
      BY <3>1, <3>2, <3>3
    <3>5. OutcomeState(callError[a]) \in {"Completed", "Cancelled", "Failed"}
      BY OutcomeIsFinal
    <3>6. /\ jobState'[k] = OutcomeState(callError[a])
          /\ jobResult'[k] = callError[a]
      BY <3>1, <3>2
    <3>7. Done(k)' /\ Agree(k)'
      BY <3>5, <3>6 DEF Agree
    <3> QED
      BY <3>1, <3>2, <3>3, <3>7 DEF JobInv, Steady, Agree
  <2>4. Consistent'
    <3>1. Agree(callJob[a])'
      BY <1>19, OutcomeIsFinal DEF WorkerStoreState, JobInv, Steady, Agree
    <3> QED
      BY <1>19, <3>1 DEF WorkerStoreState, JobInv, Consistent, Agree
  <2>5. Published'
    BY <1>19 DEF WorkerStoreState, JobInv, Published
  <2>6. Reported'
    BY <1>19 DEF WorkerStoreState, JobInv, Reported
  <2>7. Waited'
    BY <1>19 DEF WorkerStoreState, JobInv, Waited, OutcomeState
  <2> QED
    BY <2>1, <2>2, <2>3, <2>4, <2>5, <2>6, <2>7 DEF JobInv
<1>20. ASSUME NEW a \in Agents, FinishRead(a) PROVE JobInv'
  BY <1>20, ConstantsAssumption
  DEF FinishRead, JobInv, Fresh, OneOwner, Steady, Consistent, Published, Reported, Waited, Agree
<1>21. ASSUME NEW a \in Agents, FinishRelease(a) PROVE JobInv'
  BY <1>21, ConstantsAssumption
  DEF FinishRelease, JobInv, Fresh, OneOwner, Steady, Consistent, Published, Reported, Waited, Agree
<1>22. ASSUME NEW a \in Agents, FinishCallback(a) PROVE JobInv'
  <2>1. Fresh'
    <3>1. pc[a] = "finishCallback" /\ callJob[a] \in Jobs
      BY <1>22 DEF FinishCallback
    <3>2. ASSUME NEW j \in Jobs, j >= nextJobId PROVE a # j /\ callJob[a] # j /\ j \in Agents
      BY <3>1, <3>2, JobsAreAgents DEF JobInv, Fresh
    <3>3. CASE callJob[a] = a
      BY <1>22, <3>1, <3>2, <3>3, NoneIsNoJob DEF FinishCallback, JobInv, Fresh
    <3>4. CASE callJob[a] # a
      BY <1>22, <3>1, <3>2, <3>4 DEF FinishCallback, JobInv, Fresh
    <3> QED
      BY <3>3, <3>4
  <2>2. OneOwner'
    <3>1. /\ pc[a] = "finishCallback" /\ callJob[a] \in Jobs
          /\ handles' = handles
      BY <1>22 DEF FinishCallback
    <3>2. \A b \in Agents : b # a /\ pc[b] \in OwnerSteps => callJob[b] # callJob[a]
      BY <3>1 DEF JobInv, OneOwner
    <3>3. \A b \in Agents : pc[b] = "spawn" => callJob[b] # a
      BY <3>1 DEF JobInv, OneOwner
    <3>4. CASE callJob[a] = a
      <4>1. /\ pc' = [pc EXCEPT ![a] = Home(a)]
            /\ callJob' = [callJob EXCEPT ![a] = None]
            /\ Home(a) \in {"idle", "callback"}
        BY <1>22, <3>4 DEF FinishCallback, Home
      <4> QED
        BY <4>1, <3>1, <3>2, <3>3 DEF JobInv, OneOwner
    <3>5. CASE callJob[a] # a
      <4>1. pc' = [pc EXCEPT ![a] = "returnHandle"] /\ callJob' = callJob
        BY <1>22, <3>5 DEF FinishCallback
      <4> QED
        BY <4>1, <3>1, <3>2, <3>3 DEF JobInv, OneOwner
    <3> QED
      BY <3>4, <3>5
  <2>3. Steady'
    BY <1>22, NoneIsNoJob DEF FinishCallback, JobInv, Steady, Agree
  <2>4. Consistent'
    BY <1>22, NoneIsNoJob DEF FinishCallback, JobInv, Consistent, Agree
  <2>5. Published'
    BY <1>22 DEF FinishCallback, JobInv, Published
  <2>6. Reported'
    BY <1>22, NoneIsNoJob DEF FinishCallback, Home, JobInv, Steady, OneOwner, Reported
  <2>7. Waited'
    BY <1>22 DEF FinishCallback, JobInv, Waited
  <2> QED
    BY <2>1, <2>2, <2>3, <2>4, <2>5, <2>6, <2>7 DEF JobInv
<1>23. ASSUME NEW a \in Agents, WorkerExit(a) PROVE JobInv'
  BY <1>23, ConstantsAssumption
  DEF WorkerExit, JobInv, Fresh, OneOwner, Steady, Consistent, Published, Reported, Waited, Agree
<1>24. ASSUME NEW j \in Jobs, Cancel(j) PROVE JobInv'
  BY <1>24, ConstantsAssumption
  DEF Cancel, JobInv, Fresh, OneOwner, Steady, Consistent, Published, Reported, Waited, Agree
<1>25. CASE UNCHANGED vars
  BY <1>25, ConstantsAssumption
  DEF vars, JobInv, Fresh, OneOwner, Steady, Consistent, Published, Reported, Waited, Agree
<1> QED
  BY <1>1, <1>2, <1>3, <1>4, <1>5, <1>6, <1>7, <1>8, <1>9, <1>10, <1>11, <1>12, <1>13,
     <1>14, <1>15, <1>16, <1>17, <1>18, <1>19, <1>20, <1>21, <1>22, <1>23, <1>24, <1>25
  DEF Next, Call, Continue

-----------------------------------------------------------------------------
(* What follows for the clients.                                           *)

LEMMA Invariants == Spec => [](TypeInv /\ SlotInv /\ JobInv)
  BY InitTypeInv, NextTypeInv, InitSlotInv, NextSlotInv, InitJobInv, NextJobInv, PTL DEF Spec

(* A handle never shows a final state and a result that contradict each    *)
(* other, though they are two stores, in either order: while the order is  *)
(* the wrong one (failResult), the handle was not returned yet.            *)
THEOREM HandlesAreTruthful == Spec => []HandleTruthful
<1>1. TypeInv /\ JobInv => HandleTruthful
  BY DEF JobInv, Consistent, OneOwner, SetupSteps, Agree, HandleTruthful, TypeInv, TypeOK
<1> QED
  BY <1>1, Invariants, PTL

(* lastResult() speaks only of jobs that are final, and says what their    *)
(* handle says: finishAsyncJob() publishes a copy of a result that nobody  *)
(* writes any more.                                                        *)
THEOREM LastResultIsFinal == Spec => []LastResultAgrees
<1>1. JobInv => LastResultAgrees
  BY DEF JobInv, Published, LastResultAgrees
<1> QED
  BY <1>1, Invariants, PTL

(* onComplete is invoked at most once, after the job left the slot.        *)
THEOREM CompletionsAreLast == Spec => []CompletionIsLast
<1>1. JobInv => CompletionIsLast
  BY DEF JobInv, Reported, CompletionIsLast, Owns, OwnerSteps, RunsJob
<1> QED
  BY <1>1, Invariants, PTL

(* A finished handle shows the same state and result for ever.             *)
THEOREM HandlesAreFinal == Spec => HandleFinal
<1> DEFINE Kept == \A j \in handles : Done(j) => jobState'[j] = jobState[j] /\ jobResult'[j] = jobResult[j]
<1>1. TypeInv /\ JobInv /\ [Next]_vars => [Kept]_vars
  <2> SUFFICES ASSUME TypeInv, JobInv, Next, NEW j \in handles, Done(j)
               PROVE  jobState'[j] = jobState[j] /\ jobResult'[j] = jobResult[j]
    BY DEF vars
  <2> USE DEF TypeInv, TypeOK, HasJob, NeedsJob, control, Done, FinalStates
  <2>1. j \in Jobs
    OBVIOUS
  <2>2. ASSUME NEW a \in Agents, Call(a) PROVE UNCHANGED <<jobState[j], jobResult[j]>>
    <3>1. ASSUME NEW hasIo \in BOOLEAN, SubmitCall(a, hasIo) PROVE UNCHANGED <<jobState[j], jobResult[j]>>
      <4>1. j # nextJobId
        BY <2>1, <3>1 DEF SubmitCall, JobInv, Fresh, Jobs
      <4> QED
        BY <2>1, <3>1, <4>1 DEF SubmitCall
    <3> QED
      BY <2>2, <3>1 DEF Call, InitCall, DeinitCall, SyncCall
  <2>3. ASSUME NEW a \in Agents, FailStore(a) \/ FailResult(a) PROVE UNCHANGED <<jobState[j], jobResult[j]>>
    <3>1. callJob[a] # j
      BY <2>3 DEF FailStore, FailResult, JobInv, OneOwner, SetupSteps
    <3> QED
      BY <2>1, <2>3, <3>1 DEF FailStore, FailResult
  <2>4. ASSUME NEW a \in Agents, WorkerStoreResult(a) \/ WorkerStoreState(a)
        PROVE  UNCHANGED <<jobState[j], jobResult[j]>>
    <3>1. callJob[a] # j
      BY <2>4 DEF WorkerStoreResult, WorkerStoreState, JobInv, Steady
    <3> QED
      BY <2>1, <2>4, <3>1 DEF WorkerStoreResult, WorkerStoreState
  <2>5. ASSUME NEW a \in Agents, Continue(a) PROVE UNCHANGED <<jobState[j], jobResult[j]>>
    BY <2>3, <2>4, <2>5
    DEF Continue, DeinitCancel, DeinitAwaitJob, DeinitAwaitSlot, SyncRun, SyncRelease,
        SyncPublish, RejectCallback, Spawn, SpawnFail, ReturnHandle, WorkerRun,
        FinishRead, FinishRelease, FinishCallback, WorkerExit
  <2>6. ASSUME NEW k \in Jobs, Cancel(k) PROVE UNCHANGED <<jobState[j], jobResult[j]>>
    BY <2>6 DEF Cancel
  <2> QED
    BY <2>2, <2>5, <2>6 DEF Next
<1> QED
  BY <1>1, Invariants, PTL DEF Spec, HandleFinal

(* When deinit() returns nobody uses the instance's slot any more, and the *)
(* job it found active is final.                                           *)
THEOREM DeinitIsQuiet == Spec => DeinitQuiesces
<1> DEFINE Quiet ==
      \A a \in Agents :
        pc[a] \in DeinitSteps /\ pc'[a] \notin DeinitSteps =>
          /\ \A b \in Agents : ~InSlot(b)
          /\ callJob[a] \in Jobs => Done(callJob[a])
<1>1. TypeInv /\ SlotInv /\ JobInv /\ [Next]_vars => [Quiet]_vars
  <2> SUFFICES ASSUME TypeInv, SlotInv, JobInv, Next, NEW a \in Agents,
                      pc[a] \in DeinitSteps, pc'[a] \notin DeinitSteps
               PROVE  /\ \A b \in Agents : ~InSlot(b)
                      /\ callJob[a] \in Jobs => Done(callJob[a])
    BY DEF vars
  <2> USE DEF TypeInv, TypeOK, HasJob, NeedsJob, Goto, Leave, locals, DeinitSteps
  <2>1. ASSUME NEW b \in Agents, Call(b) PROVE FALSE
    <3>1. pc[b] = Home(b) /\ \A x \in Agents : x # b => pc'[x] = pc[x]
      BY <2>1 DEF Call, MayCall, InitCall, DeinitCall, SyncCall, SubmitCall
    <3> QED
      BY <2>1, <3>1 DEF Home
  <2>2. ASSUME NEW b \in Agents, Spawn(b) PROVE FALSE
    BY <2>2 DEF Spawn, JobInv, OneOwner
  <2>3. ASSUME NEW b \in Agents, DeinitAwaitSlot(b)
        PROVE  /\ \A x \in Agents : ~InSlot(x)
               /\ callJob[a] \in Jobs => Done(callJob[a])
    BY <2>3 DEF DeinitAwaitSlot, SlotInv, BusyExact, JobInv, Waited
  <2>4. ASSUME NEW b \in Agents, Continue(b), ~Spawn(b), ~DeinitAwaitSlot(b) PROVE FALSE
    BY <2>4
    DEF Continue, DeinitCancel, DeinitAwaitJob, SyncRun, SyncRelease, SyncPublish,
        RejectCallback, SpawnFail, FailStore, FailResult, ReturnHandle, WorkerRun,
        WorkerStoreResult, WorkerStoreState, FinishRead, FinishRelease, FinishCallback,
        WorkerExit
  <2>5. ASSUME NEW j \in Jobs, Cancel(j) PROVE FALSE
    BY <2>5 DEF Cancel
  <2> QED
    BY <2>1, <2>2, <2>3, <2>4, <2>5 DEF Next
<1> QED
  BY <1>1, Invariants, PTL DEF Spec, DeinitQuiesces

-----------------------------------------------------------------------------
(* The job manager implements the safety part of its promise, JobSlot.     *)
(* (Its fairness is checked by TLC.)                                       *)
Phases == [j \in Jobs |-> JobPhase(j)]

(* Who is in the slot, from where everybody is. *)
HeldBy(p, c) ==
  {<<"sync", a>> : a \in {x \in Agents : p[x] \in SyncSteps}} \cup
  {<<"job", c[a]>> : a \in {x \in Agents : p[x] \in JobSteps}}

Occupied(p, j, c) == \E a \in Agents : p[a] \in JobSteps /\ c[a] = j

PhaseOf(j, n, k, p, c) ==
  IF j >= n THEN "new"
  ELSE IF k[j] > 0 THEN "delivered"
  ELSE IF Occupied(p, j, c) THEN "accepted" ELSE "settled"

LEMMA HoldersAre ==
  /\ SlotHolders = HeldBy(pc, callJob)
  /\ SlotHolders' = HeldBy(pc', callJob')
BY DEF SlotHolders, HeldBy

LEMMA PhasesAre ==
  /\ Phases = [j \in Jobs |-> PhaseOf(j, nextJobId, completions, pc, callJob)]
  /\ Phases' = [j \in Jobs |-> PhaseOf(j, nextJobId', completions', pc', callJob')]
BY DEF Phases, JobPhase, PhaseOf, Occupied, RunsJob

(* There is one run in the slot at most, so the slot is known from it.     *)
LEMMA OneHolder ==
  ASSUME NEW p, NEW c, NEW a \in Agents,
         \A x \in Agents : x # a => p[x] \notin SlotSteps
  PROVE  /\ p[a] \in SyncSteps => HeldBy(p, c) = {<<"sync", a>>}
         /\ p[a] \in JobSteps => HeldBy(p, c) = {<<"job", c[a]>>}
         /\ p[a] \notin SlotSteps => HeldBy(p, c) = {}
<1>1. CASE p[a] \in SyncSteps
  <2>1. {x \in Agents : p[x] \in SyncSteps} = {a} /\ {x \in Agents : p[x] \in JobSteps} = {}
    BY <1>1
  <2> QED
    BY <1>1, <2>1, Zenon DEF HeldBy
<1>2. CASE p[a] \in JobSteps
  <2>1. {x \in Agents : p[x] \in SyncSteps} = {} /\ {x \in Agents : p[x] \in JobSteps} = {a}
    BY <1>2
  <2> QED
    BY <1>2, <2>1, Zenon DEF HeldBy
<1>3. CASE p[a] \notin SlotSteps
  <2>1. {x \in Agents : p[x] \in SyncSteps} = {} /\ {x \in Agents : p[x] \in JobSteps} = {}
    BY <1>3
  <2> QED
    BY <1>3, <2>1, Zenon DEF HeldBy
<1> QED
  BY <1>1, <1>2, <1>3

LEMMA OneHolderAfter ==
  ASSUME NEW a \in Agents, \A x \in Agents : x # a => pc'[x] \notin SlotSteps
  PROVE  /\ pc'[a] \in SyncSteps => SlotHolders' = {<<"sync", a>>}
         /\ pc'[a] \in JobSteps => SlotHolders' = {<<"job", callJob'[a]>>}
         /\ pc'[a] \notin SlotSteps => SlotHolders' = {}
BY OneHolder, HoldersAre

(* One job moves on. *)
LEMMA PhaseMoves ==
  ASSUME NEW j \in Jobs, NEW q,
         PhaseOf(j, nextJobId', completions', pc', callJob') = q,
         \A k \in Jobs : k # j =>
           PhaseOf(k, nextJobId', completions', pc', callJob') =
           PhaseOf(k, nextJobId, completions, pc, callJob)
  PROVE  Phases' = [Phases EXCEPT ![j] = q]
BY PhasesAre

(* A step that lets nobody in or out, and reports nothing, is not seen. *)
LEMMA Unseen ==
  ASSUME nextJobId' = nextJobId, completions' = completions,
         \A x \in Agents : pc'[x] \in SyncSteps <=> pc[x] \in SyncSteps,
         \A x \in Agents : pc'[x] \in JobSteps <=> pc[x] \in JobSteps,
         \A x \in Agents : pc[x] \in JobSteps => callJob'[x] = callJob[x]
  PROVE  SlotHolders' = SlotHolders /\ Phases' = Phases
<1>1. {x \in Agents : pc'[x] \in SyncSteps} = {x \in Agents : pc[x] \in SyncSteps}
  OBVIOUS
<1>2. {x \in Agents : pc'[x] \in JobSteps} = {x \in Agents : pc[x] \in JobSteps}
  OBVIOUS
<1>3. {<<"job", callJob'[x]>> : x \in {y \in Agents : pc[y] \in JobSteps}} =
      {<<"job", callJob[x]>> : x \in {y \in Agents : pc[y] \in JobSteps}}
  OBVIOUS
<1>4. SlotHolders' = SlotHolders
  BY <1>1, <1>2, <1>3, Zenon DEF SlotHolders
<1>5. \A j \in Jobs : Occupied(pc', j, callJob') <=> Occupied(pc, j, callJob)
  BY DEF Occupied
<1>6. Phases' = Phases
  BY <1>5, PhasesAre DEF PhaseOf
<1> QED
  BY <1>4, <1>6

(* The step of the promise that a step of the manager is. *)
LEMMA PromiseSteps ==
  /\ UNCHANGED <<initialized, SlotHolders, Phases>> => UNCHANGED Promise!vars
  /\ SlotHolders = {} /\ initialized' = TRUE /\ UNCHANGED <<SlotHolders, Phases>> => Promise!Open
  /\ initialized' = FALSE /\ UNCHANGED <<SlotHolders, Phases>> => Promise!Close
  /\ \A a \in Agents :
       /\ initialized /\ SlotHolders = {} /\ SlotHolders' = {<<"sync", a>>}
          /\ UNCHANGED <<initialized, Phases>> => Promise!SyncBegin(a)
       /\ SlotHolders = {<<"sync", a>>} /\ SlotHolders' = {}
          /\ UNCHANGED <<initialized, Phases>> => Promise!SyncEnd(a)
  /\ \A j \in Jobs :
       /\ initialized /\ SlotHolders = {} /\ SlotHolders' = {<<"job", j>>} /\ UNCHANGED initialized
          /\ Phases[j] = "new" /\ Phases' = [Phases EXCEPT ![j] = "accepted"] => Promise!Accept(j)
       /\ SlotHolders = {<<"job", j>>} /\ SlotHolders' = {} /\ UNCHANGED initialized
          /\ Phases[j] = "accepted" /\ Phases' = [Phases EXCEPT ![j] = "settled"] => Promise!Settle(j)
       /\ UNCHANGED <<initialized, SlotHolders>>
          /\ Phases[j] = "new" /\ Phases' = [Phases EXCEPT ![j] = "settled"] => Promise!Refuse(j)
       /\ UNCHANGED <<initialized, SlotHolders>>
          /\ Phases[j] = "settled" /\ Phases' = [Phases EXCEPT ![j] = "delivered"]
            => Promise!Deliver(j)
BY DEF Phases, Promise!vars, Promise!Open, Promise!Close, Promise!SyncBegin, Promise!SyncEnd,
       Promise!Accept, Promise!Settle, Promise!Refuse, Promise!Deliver, Promise!Begin, Promise!End,
       Promise!Move

LEMMA InitImplements == Init => Promise!Init
<1> SUFFICES ASSUME Init PROVE Promise!Init
  OBVIOUS
<1>1. SlotHolders = {}
  BY DEF Init, SlotHolders
<1>2. \A j \in Jobs : JobPhase(j) = "new"
  BY ConstantsAssumption DEF Init, JobPhase, Jobs
<1> QED
  BY <1>1, <1>2 DEF Init, Promise!Init

(* Nobody is in the slot when _busy is not set, and only the one who is    *)
(* otherwise.                                                              *)
LEMMA Empty == SlotInv /\ ~busy => SlotHolders = {}
BY DEF SlotInv, BusyExact, InSlot, SlotHolders

LEMMA Alone ==
  ASSUME SlotInv, NEW a \in Agents, pc[a] \in SlotSteps
  PROVE  /\ \A x \in Agents : x # a => pc[x] \notin SlotSteps
         /\ pc[a] \in SyncSteps => SlotHolders = {<<"sync", a>>}
         /\ pc[a] \in JobSteps => SlotHolders = {<<"job", callJob[a]>>}
<1>1. \A x \in Agents : x # a => pc[x] \notin SlotSteps
  BY DEF SlotInv, SlotExclusive, InSlot
<1> QED
  BY <1>1, OneHolder, HoldersAre

LEMMA StepImplements ==
  ASSUME TypeInv, SlotInv, JobInv, [Next]_vars
  PROVE  [Promise!Next]_(Promise!vars)
<1> DEFINE Seen == [Promise!Next]_(Promise!vars)
<1> USE DEF TypeInv, TypeOK, HasJob, NeedsJob, Goto, Leave, MayCall, owner, control, client, locals
<1>1. ASSUME NEW a \in Agents, NEW c \in Configs, InitCall(a, c) PROVE Seen
  <2>1. UNCHANGED <<SlotHolders, Phases>>
    BY <1>1, Unseen DEF InitCall
  <2> QED
    BY <1>1, <2>1, Empty, PromiseSteps DEF InitCall, Promise!Next
<1>2. ASSUME NEW a \in Agents, DeinitCall(a) PROVE Seen
  <2>1. UNCHANGED <<SlotHolders, Phases>>
    BY <1>2, Unseen DEF DeinitCall
  <2> QED
    BY <1>2, <2>1, PromiseSteps DEF DeinitCall, Promise!Next
<1>3. ASSUME NEW a \in Agents, SyncCall(a) PROVE Seen
  <2>1. \A x \in Agents : pc[x] \notin SlotSteps
    BY <1>3 DEF SyncCall, SlotInv, BusyExact, InSlot
  <2>2. SlotHolders' = {<<"sync", a>>}
    BY <1>3, <2>1, OneHolderAfter DEF SyncCall
  <2>3. Phases' = Phases
    BY <1>3, PhasesAre DEF SyncCall, PhaseOf, Occupied
  <2> QED
    BY <1>3, <2>2, <2>3, Empty, PromiseSteps DEF SyncCall, Promise!Next
<1>4. ASSUME NEW a \in Agents, SyncRelease(a) PROVE Seen
  <2>1. \A x \in Agents : x # a => pc[x] \notin SlotSteps
    BY <1>4, Alone DEF SyncRelease
  <2>2. SlotHolders = {<<"sync", a>>} /\ SlotHolders' = {}
    BY <1>4, <2>1, Alone, OneHolderAfter DEF SyncRelease
  <2>3. Phases' = Phases
    BY <1>4, PhasesAre DEF SyncRelease, PhaseOf, Occupied
  <2> QED
    BY <1>4, <2>2, <2>3, PromiseSteps DEF SyncRelease, Promise!Next
<1>5. ASSUME NEW a \in Agents, NEW hasIo \in BOOLEAN, SubmitCall(a, hasIo) PROVE Seen
  <2> DEFINE j == nextJobId
  <2>1. /\ j \in Jobs /\ nextJobId' = j + 1 /\ callJob' = [callJob EXCEPT ![a] = j]
        /\ UNCHANGED <<initialized, completions>>
        /\ pc[a] \notin SlotSteps
    BY <1>5 DEF SubmitCall
  <2>2. completions[j] = 0 /\ \A x \in Agents : callJob[x] # j
    BY <2>1 DEF JobInv, Fresh, Jobs
  <2>3. Phases[j] = "new"
    BY <2>1, PhasesAre DEF PhaseOf, Jobs
  <2>4. \A k \in Jobs : k # j => (k >= j + 1 <=> k >= j)
    BY <2>1 DEF Jobs
  <2>5. ~(j >= j + 1)
    BY <2>1 DEF Jobs
  <2>6. CASE RejectReason(hasIo) = "Ok"
    <3>1. pc' = [pc EXCEPT ![a] = "spawn"] /\ initialized /\ ~busy
      BY <1>5, <2>6 DEF SubmitCall, RejectReason
    <3>2. \A x \in Agents : pc[x] \notin SlotSteps
      BY <3>1 DEF SlotInv, BusyExact, InSlot
    <3>3. \A x \in Agents : x # a => pc'[x] \notin SlotSteps
      BY <3>1, <3>2
    <3>4. pc'[a] = "spawn" /\ callJob'[a] = j
      BY <2>1, <3>1
    <3>5. SlotHolders' = {<<"job", j>>}
      BY <3>3, <3>4, OneHolder, HoldersAre
    <3>6. Occupied(pc', j, callJob') /\ \A k \in Jobs : k # j => ~Occupied(pc', k, callJob')
      BY <3>3, <3>4 DEF Occupied
    <3>7. \A k \in Jobs : ~Occupied(pc, k, callJob)
      BY <3>2 DEF Occupied
    <3>8. Phases' = [Phases EXCEPT ![j] = "accepted"]
      <4>0. nextJobId = j
        OBVIOUS
      <4> HIDE DEF j
      <4>1. PhaseOf(j, nextJobId', completions', pc', callJob') = "accepted"
        BY <2>1, <2>2, <2>5, <3>6 DEF PhaseOf
      <4>2. ASSUME NEW k \in Jobs, k # j
           PROVE  PhaseOf(k, nextJobId', completions', pc', callJob') =
                  PhaseOf(k, nextJobId, completions, pc, callJob)
        BY <4>0, <4>2, <2>1, <2>4, <3>6, <3>7 DEF PhaseOf
      <4> QED
        BY <2>1, <4>1, <4>2, PhaseMoves
    <3> QED
      BY <2>1, <2>3, <3>1, <3>5, <3>8, Empty, PromiseSteps DEF Promise!Next
  <2>7. CASE RejectReason(hasIo) # "Ok"
    <3>1. pc' = [pc EXCEPT ![a] = "rejectCallback"]
      BY <1>5, <2>7 DEF SubmitCall
    <3>2. \A x \in Agents : pc'[x] \in SlotSteps <=> pc[x] \in SlotSteps
      BY <2>1, <3>1
    <3>3. SlotHolders' = SlotHolders
      <4>1. {x \in Agents : pc'[x] \in SyncSteps} = {x \in Agents : pc[x] \in SyncSteps}
        BY <2>1, <3>1
      <4>2. {x \in Agents : pc'[x] \in JobSteps} = {x \in Agents : pc[x] \in JobSteps}
        BY <2>1, <3>1
      <4>3. {<<"job", callJob'[x]>> : x \in {y \in Agents : pc[y] \in JobSteps}} =
            {<<"job", callJob[x]>> : x \in {y \in Agents : pc[y] \in JobSteps}}
        BY <2>1
      <4> QED
        BY <4>1, <4>2, <4>3, Zenon DEF SlotHolders
    <3>4. ~Occupied(pc', j, callJob')
      BY <2>1, <2>2, <3>1 DEF Occupied
    <3>5. \A k \in Jobs : k # j => (Occupied(pc', k, callJob') <=> Occupied(pc, k, callJob))
      BY <2>1, <3>1 DEF Occupied
    <3>6. Phases' = [Phases EXCEPT ![j] = "settled"]
      <4>0. nextJobId = j
        OBVIOUS
      <4> HIDE DEF j
      <4>1. PhaseOf(j, nextJobId', completions', pc', callJob') = "settled"
        BY <2>1, <2>2, <2>5, <3>4 DEF PhaseOf
      <4>2. ASSUME NEW k \in Jobs, k # j
           PROVE  PhaseOf(k, nextJobId', completions', pc', callJob') =
                  PhaseOf(k, nextJobId, completions, pc, callJob)
        BY <4>0, <4>2, <2>1, <2>4, <3>5 DEF PhaseOf
      <4> QED
        BY <2>1, <4>1, <4>2, PhaseMoves
    <3> QED
      BY <2>1, <2>3, <3>3, <3>6, PromiseSteps DEF Promise!Next
  <2> QED
    BY <2>6, <2>7
<1>6. ASSUME NEW a \in Agents, FinishRelease(a) PROVE Seen
  <2> DEFINE j == callJob[a]
  <2>1. /\ j \in Jobs /\ pc[a] = "finishRelease" /\ pc' = [pc EXCEPT ![a] = "finishCallback"]
        /\ UNCHANGED <<initialized, callJob, nextJobId, completions>>
    BY <1>6 DEF FinishRelease
  <2>2. \A x \in Agents : x # a => pc[x] \notin SlotSteps
    BY <2>1, Alone
  <2>3. SlotHolders = {<<"job", j>>} /\ SlotHolders' = {}
    BY <2>1, <2>2, Alone, OneHolderAfter
  <2>4. completions[j] = 0 /\ ~(j >= nextJobId)
    BY <2>1 DEF JobInv, Reported, Fresh, Owns, OwnerSteps
  <2>5. Occupied(pc, j, callJob) /\ \A k \in Jobs : ~Occupied(pc', k, callJob')
    BY <2>1, <2>2 DEF Occupied
  <2>6. \A k \in Jobs : k # j => ~Occupied(pc, k, callJob)
    BY <2>1, <2>2 DEF Occupied
  <2>7. Phases[j] = "accepted" /\ Phases' = [Phases EXCEPT ![j] = "settled"]
    <3> HIDE DEF j
    <3>1. Phases[j] = "accepted"
      BY <2>1, <2>4, <2>5, PhasesAre DEF PhaseOf
    <3>2. PhaseOf(j, nextJobId', completions', pc', callJob') = "settled"
      <4>1. ~Occupied(pc', j, callJob')
        BY <2>1, <2>5
      <4>2. ~(j >= nextJobId') /\ ~(completions'[j] > 0)
        BY <2>1, <2>4
      <4> QED
        BY <4>1, <4>2, Zenon DEF PhaseOf
    <3>3. ASSUME NEW k \in Jobs, k # j
         PROVE  PhaseOf(k, nextJobId', completions', pc', callJob') =
                PhaseOf(k, nextJobId, completions, pc, callJob)
      BY <3>3, <2>1, <2>5, <2>6 DEF PhaseOf
    <3> QED
      BY <2>1, <3>1, <3>2, <3>3, PhaseMoves
  <2> QED
    BY <2>1, <2>3, <2>7, PromiseSteps DEF Promise!Next
<1>7. ASSUME NEW a \in Agents, RejectCallback(a) \/ FinishCallback(a) PROVE Seen
  <2> DEFINE j == callJob[a]
  <2>1. /\ j \in Jobs /\ pc[a] \in {"rejectCallback", "finishCallback"}
        /\ completions' = [completions EXCEPT ![j] = @ + 1]
        /\ UNCHANGED <<initialized, nextJobId>>
        /\ \A x \in Agents : x # a => pc'[x] = pc[x] /\ callJob'[x] = callJob[x]
        /\ pc'[a] \notin SlotSteps
    BY <1>7 DEF RejectCallback, FinishCallback
  <2>2. completions[j] = 0 /\ ~(j >= nextJobId) /\ \A x \in Agents : x # a => ~Owns(x, j)
    BY <2>1 DEF JobInv, Reported, Fresh, OneOwner, Owns, OwnerSteps
  <2>3. \A k \in Jobs : Occupied(pc', k, callJob') <=> Occupied(pc, k, callJob)
    BY <2>1 DEF Occupied
  <2>4. ~Occupied(pc, j, callJob)
    BY <2>1, <2>2 DEF Occupied, Owns, OwnerSteps
  <2>5. Phases[j] = "settled" /\ Phases' = [Phases EXCEPT ![j] = "delivered"]
    <3>1. completions'[j] > 0 /\ \A k \in Jobs : k # j => completions'[k] = completions[k]
      BY <2>1, <2>2
    <3> HIDE DEF j
    <3> QED
      BY <2>1, <2>2, <2>3, <2>4, <3>1, PhasesAre DEF PhaseOf
  <2>6. SlotHolders' = SlotHolders
    <3>1. {x \in Agents : pc'[x] \in SyncSteps} = {x \in Agents : pc[x] \in SyncSteps}
      BY <2>1
    <3>2. {x \in Agents : pc'[x] \in JobSteps} = {x \in Agents : pc[x] \in JobSteps}
      BY <2>1
    <3>3. {<<"job", callJob'[x]>> : x \in {y \in Agents : pc[y] \in JobSteps}} =
          {<<"job", callJob[x]>> : x \in {y \in Agents : pc[y] \in JobSteps}}
      BY <2>1
    <3> QED
      BY <3>1, <3>2, <3>3, Zenon DEF SlotHolders
  <2> QED
    BY <2>1, <2>5, <2>6, PromiseSteps DEF Promise!Next
<1>8. ASSUME NEW a \in Agents, Spawn(a) PROVE Seen
  <2> DEFINE j == callJob[a]
  <2>1. /\ j \in Jobs /\ j \in Agents /\ pc[a] = "spawn" /\ pc[j] = "absent" /\ a # j
        /\ pc' = [pc EXCEPT ![a] = "returnHandle", ![j] = "run"]
        /\ callJob' = [callJob EXCEPT ![j] = j]
        /\ UNCHANGED <<initialized, nextJobId, completions>>
    BY <1>8, JobsAreAgents DEF Spawn, JobInv, OneOwner
  <2> HIDE DEF j
  <2>2. \A x \in Agents : x # a => pc[x] \notin SlotSteps
    BY <2>1, Alone
  <2>3. \A x \in Agents : x # j => pc'[x] \notin SlotSteps
    BY <2>1, <2>2
  <2>4. SlotHolders = {<<"job", j>>}
    BY <2>1, Alone DEF j
  <2>5. pc'[j] = "run" /\ callJob'[j] = j
    BY <2>1
  <2>6. SlotHolders' = {<<"job", j>>}
    BY <2>1, <2>3, <2>5, OneHolderAfter
  <2>7. \A k \in Jobs : Occupied(pc, k, callJob) <=> k = j
    BY <2>1, <2>2 DEF Occupied, j
  <2>8. \A k \in Jobs : Occupied(pc', k, callJob') <=> k = j
    BY <2>1, <2>3, <2>5 DEF Occupied
  <2>9. Phases' = Phases
    BY <2>1, <2>7, <2>8, PhasesAre DEF PhaseOf
  <2> QED
    BY <2>1, <2>4, <2>6, <2>9, PromiseSteps
<1>9. ASSUME NEW a \in Agents, NEW e \in Errors, SyncRun(a, e) \/ SpawnFail(a, e) \/ WorkerRun(a, e)
      PROVE  Seen
  BY <1>9, Unseen, PromiseSteps DEF SyncRun, SpawnFail, WorkerRun
<1>10. ASSUME NEW a \in Agents, DeinitCancel(a) \/ DeinitAwaitJob(a) PROVE Seen
  BY <1>10, Unseen, PromiseSteps DEF DeinitCancel, DeinitAwaitJob
<1>11. ASSUME NEW a \in Agents, DeinitAwaitSlot(a) PROVE Seen
  BY <1>11, Unseen, PromiseSteps DEF DeinitAwaitSlot
<1>12. ASSUME NEW a \in Agents, SyncPublish(a) \/ ReturnHandle(a) PROVE Seen
  BY <1>12, Unseen, PromiseSteps DEF SyncPublish, ReturnHandle
<1>13. ASSUME NEW a \in Agents, FailStore(a) \/ FailResult(a) PROVE Seen
  BY <1>13, Unseen, PromiseSteps DEF FailStore, FailResult
<1>14. ASSUME NEW a \in Agents, WorkerStoreResult(a) \/ WorkerStoreState(a) PROVE Seen
  BY <1>14, Unseen, PromiseSteps DEF WorkerStoreResult, WorkerStoreState
<1>15. ASSUME NEW a \in Agents, FinishRead(a) \/ WorkerExit(a) PROVE Seen
  BY <1>15, Unseen, PromiseSteps DEF FinishRead, WorkerExit
<1>16. ASSUME NEW j \in Jobs, Cancel(j) PROVE Seen
  BY <1>16, Unseen, PromiseSteps DEF Cancel
<1>17. CASE UNCHANGED vars
  BY <1>17, Unseen, PromiseSteps DEF vars
<1> QED
  BY <1>1, <1>2, <1>3, <1>4, <1>5, <1>6, <1>7, <1>8, <1>9, <1>10, <1>11, <1>12, <1>13,
     <1>14, <1>15, <1>16, <1>17
  DEF Next, Call, Continue

(* The manager implements what JobSlot promises of safety: one slot, taken *)
(* only when open, and each job settled, out of the slot and reported, in  *)
(* this order and once.                                                    *)
THEOREM ImplementsPromise == Spec => Promise!SafeSpec
<1>1. TypeInv /\ SlotInv /\ JobInv /\ [Next]_vars => [Promise!Next]_(Promise!vars)
  BY StepImplements
<1> QED
  BY <1>1, InitImplements, Invariants, PTL DEF Spec, Promise!SafeSpec

-----------------------------------------------------------------------------
(* What the application does to the job manager are steps of Compressor,   *)
(* so that its theorems hold of it here too.                               *)
LEMMA ApplicationSteps == [ApplicationNext]_avars => [Next]_vars
<1> SUFFICES ASSUME ApplicationNext PROVE [Next]_vars
  BY DEF avars
<1>1. ASSUME NEW a \in Agents, Begins(a) \/ Proceeds(a) PROVE [Next]_vars
  BY <1>1 DEF Begins, Proceeds, Goes, GiveJob, LetGo, Next, Continue
<1>2. ASSUME NEW f \in Frames, CallbackReturn(f) PROVE [Next]_vars
  BY <1>2 DEF CallbackReturn
<1>3. ASSUME NEW f \in Frames, NEW a \in Agents, Invoke(f, a) PROVE [Next]_vars
  BY <1>3 DEF Invoke
<1>4. ASSUME NEW t \in Threads \ Frames, Destroy(t) PROVE [Next]_vars
  BY <1>4 DEF Destroy, Next, Call, Agents
<1>5. ASSUME NEW j \in Jobs, DropHandle(j) PROVE [Next]_vars
  BY <1>5 DEF DropHandle
<1>6. ASSUME NEW j \in Jobs \ dropped, Cancel(j) PROVE [Next]_vars
  BY <1>6 DEF Next
<1> QED
  BY <1>1, <1>2, <1>3, <1>4, <1>5, <1>6 DEF ApplicationNext

THEOREM ApplicationIsClient == ApplicationSpec => Spec
<1>1. ApplicationInit => Init
  BY DEF ApplicationInit
<1> QED
  BY <1>1, ApplicationSteps, PTL DEF ApplicationSpec, Spec

-----------------------------------------------------------------------------
(* An agent that waits in deinit() leaves it only when the slot is free.   *)
LEMMA DeinitLeaves ==
  ASSUME TypeInv, JobInv, Next, NEW a \in Threads,
         pc[a] \in DeinitSteps, pc'[a] \notin DeinitSteps
  PROVE  DeinitAwaitSlot(a)
<1> USE DEF TypeInv, TypeOK, HasJob, NeedsJob, Goto, Leave, locals, Agents
<1>1. ASSUME NEW b \in Agents, Call(b) PROVE FALSE
  <2>1. pc[b] = Home(b) /\ \A x \in Agents : x # b => pc'[x] = pc[x]
    BY <1>1 DEF Call, MayCall, InitCall, DeinitCall, SyncCall, SubmitCall
  <2> QED
    BY <1>1, <2>1
<1>2. ASSUME NEW b \in Agents, Spawn(b) PROVE FALSE
  BY <1>2 DEF Spawn, JobInv, OneOwner
<1>3. ASSUME NEW b \in Agents, DeinitAwaitSlot(b) PROVE a = b
  BY <1>3 DEF DeinitAwaitSlot
<1>4. ASSUME NEW b \in Agents, Continue(b), ~Spawn(b), ~DeinitAwaitSlot(b) PROVE FALSE
  BY <1>4
  DEF Continue, DeinitCancel, DeinitAwaitJob, SyncRun, SyncRelease, SyncPublish,
      RejectCallback, SpawnFail, FailStore, FailResult, ReturnHandle, WorkerRun,
      WorkerStoreResult, WorkerStoreState, FinishRead, FinishRelease, FinishCallback,
      WorkerExit
<1>5. ASSUME NEW j \in Jobs, Cancel(j) PROVE FALSE
  BY <1>5 DEF Cancel
<1> QED
  BY <1>1, <1>2, <1>3, <1>4, <1>5 DEF Next

(* deinit() from onProgress does not return: _busy is set by the run that  *)
(* waits for the callback.                                                 *)
THEOREM DeinitFromProgressHangs == ApplicationSpec => DeinitInsideRunHangs
<1> DEFINE Hangs == \A f \in Frames : OnProgress(f) /\ pc[f] \in DeinitSteps => pc'[f] \in DeinitSteps
           RunnersAreAgents == \A f \in Frames : runner[f] \in Agents \cup {None}
<1>1. TypeInv /\ SlotInv /\ JobInv /\ RunnersAreAgents /\ [ApplicationNext]_avars => [Hangs]_avars
  <2> SUFFICES ASSUME TypeInv, SlotInv, JobInv, RunnersAreAgents, [Next]_vars, NEW f \in Frames,
                      OnProgress(f), pc[f] \in DeinitSteps, pc'[f] \notin DeinitSteps
               PROVE  FALSE
    BY ApplicationSteps
  <2>1. busy
    BY DEF OnProgress, InRun, SlotInv, BusyExact, InSlot
  <2>2. f \in Threads
    BY ApplicationAssumption
  <2>3. Next
    BY DEF vars, locals
  <2>4. DeinitAwaitSlot(f)
    BY <2>2, <2>3, DeinitLeaves
  <2> QED
    BY <2>1, <2>4 DEF DeinitAwaitSlot
<1>2. ApplicationSpec => []RunnersAreAgents
  <2>1. ApplicationInit => RunnersAreAgents
    BY DEF ApplicationInit
  <2>2. RunnersAreAgents /\ [ApplicationNext]_avars => RunnersAreAgents'
    <3>1. [ApplicationNext]_avars =>
            \/ UNCHANGED runner
            \/ \E f \in Frames : \E a \in Agents \cup {None} : runner' = [runner EXCEPT ![f] = a]
      BY DEF ApplicationNext, avars, lifetimes, Begins, Proceeds, CallbackReturn, Invoke, Destroy,
             DropHandle
    <3>2. ASSUME RunnersAreAgents, NEW f \in Frames, NEW a \in Agents \cup {None},
                 runner' = [runner EXCEPT ![f] = a], NEW g \in Frames
          PROVE  runner'[g] \in Agents \cup {None}
      BY <3>2
    <3> QED
      BY <3>1, <3>2
  <2> QED
    BY <2>1, <2>2, PTL DEF ApplicationSpec
<1> QED
  BY <1>1, <1>2, ApplicationIsClient, Invariants, PTL DEF ApplicationSpec, DeinitInsideRunHangs

-----------------------------------------------------------------------------
(* The destructor.  A worker stays on its own path, ...                    *)
WorkerPath == WorkerSteps \cup FinishSteps \cup {"finishCallback", "callback", "absent", "exited"}

WorkersWork ==
  \A j \in Jobs :
    /\ pc[j] \in WorkerPath
    /\ pc[j] \in WorkerSteps \cup FinishSteps \cup {"finishCallback"} => callJob[j] = j

(* ... and once the destructor was entered one thread at most is in a call *)
(* of the instance: the destructor's own.                                  *)
OneDestroyer ==
  instance # "alive" =>
    /\ \A u \in Threads : pc[u] \in {"idle"} \cup DeinitSteps
    /\ \A u, v \in Threads : pc[u] \in DeinitSteps /\ pc[v] \in DeinitSteps => u = v

DestroyInv == WorkersWork /\ OneDestroyer /\ NoUseAfterDestroy

LEMMA InitDestroyInv == ApplicationInit => DestroyInv
BY ConstantsAssumption
DEF ApplicationInit, Init, DestroyInv, WorkersWork, WorkerPath, OneDestroyer, NoUseAfterDestroy, Agents

LEMMA WorkersStay ==
  ASSUME TypeInv, JobInv, WorkersWork, [Next]_vars
  PROVE  WorkersWork'
<1> USE DEF TypeInv, TypeOK, HasJob, NeedsJob, Goto, Leave, locals, WorkersWork, WorkerPath
<1>1. \A j \in Jobs : j \in Agents /\ j \notin Threads
  BY ConstantsAssumption, JobsAreAgents
<1>2. ASSUME NEW a \in Agents, Call(a) PROVE WorkersWork'
  <2>1. a \in Threads
    BY <1>2, ApplicationAssumption DEF Call, MayCall, InitCall, DeinitCall, SyncCall, SubmitCall
  <2> QED
    BY <1>1, <1>2, <2>1 DEF Call, InitCall, DeinitCall, SyncCall, SubmitCall
<1>3. ASSUME NEW a \in Agents, Spawn(a) PROVE WorkersWork'
  BY <1>1, <1>3 DEF Spawn
<1>4. ASSUME NEW a \in Agents, NEW e \in Errors, SyncRun(a, e) \/ SpawnFail(a, e) \/ WorkerRun(a, e)
      PROVE  WorkersWork'
  BY <1>1, <1>4 DEF SyncRun, SpawnFail, WorkerRun
<1>5. ASSUME NEW a \in Agents, DeinitCancel(a) \/ DeinitAwaitJob(a) \/ DeinitAwaitSlot(a)
      PROVE  WorkersWork'
  BY <1>1, <1>5 DEF DeinitCancel, DeinitAwaitJob, DeinitAwaitSlot
<1>6. ASSUME NEW a \in Agents, SyncRelease(a) \/ SyncPublish(a) \/ RejectCallback(a) \/ ReturnHandle(a)
      PROVE  WorkersWork'
  BY <1>1, <1>6 DEF SyncRelease, SyncPublish, RejectCallback, ReturnHandle
<1>7. ASSUME NEW a \in Agents, FailStore(a) \/ FailResult(a) PROVE WorkersWork'
  BY <1>1, <1>7 DEF FailStore, FailResult
<1>8. ASSUME NEW a \in Agents,
             WorkerStoreResult(a) \/ WorkerStoreState(a) \/ FinishRead(a) \/ WorkerExit(a)
      PROVE  WorkersWork'
  BY <1>1, <1>8 DEF WorkerStoreResult, WorkerStoreState, FinishRead, WorkerExit
<1>9. ASSUME NEW a \in Agents, FinishRelease(a) \/ FinishCallback(a) PROVE WorkersWork'
  BY <1>1, <1>9 DEF FinishRelease, FinishCallback
<1>10. ASSUME NEW j \in Jobs, Cancel(j) PROVE WorkersWork'
  BY <1>10 DEF Cancel
<1>11. CASE UNCHANGED vars
  BY <1>11 DEF vars
<1> QED
  BY <1>2, <1>3, <1>4, <1>5, <1>6, <1>7, <1>8, <1>9, <1>10, <1>11 DEF Next, Continue

(* An agent's own step moves nobody else, and cannot go back into the slot *)
(* from onComplete.                                                        *)
LEMMA OwnStep ==
  ASSUME TypeInv, NEW a \in Agents, Continue(a), ~Spawn(a)
  PROVE  /\ pc[a] # "idle"
         /\ \A x \in Agents : x # a => pc'[x] = pc[x]
         /\ pc[a] \in {"finishCallback", "callback"} =>
              pc'[a] \in {"idle", "callback", "returnHandle", "exited"}
         /\ pc[a] \in DeinitSteps =>
              DeinitCancel(a) \/ DeinitAwaitJob(a) \/ DeinitAwaitSlot(a)
         /\ pc[a] \notin DeinitSteps => ~DeinitAwaitSlot(a)
<1> DEFINE Own == \A x \in Agents : x # a => pc'[x] = pc[x]
<1> USE DEF TypeInv, TypeOK, Goto, Leave, locals
<1>1. ASSUME NEW e \in Errors, SyncRun(a, e) \/ SpawnFail(a, e) \/ WorkerRun(a, e)
      PROVE  Own /\ pc[a] \in {"syncRun", "spawn", "run"}
  BY <1>1 DEF SyncRun, SpawnFail, WorkerRun
<1>2. ASSUME DeinitCancel(a) \/ DeinitAwaitJob(a) \/ DeinitAwaitSlot(a)
      PROVE  Own /\ pc[a] \in DeinitSteps
  BY <1>2 DEF DeinitCancel, DeinitAwaitJob, DeinitAwaitSlot
<1>3. ASSUME SyncRelease(a) \/ SyncPublish(a) \/ RejectCallback(a) \/ ReturnHandle(a)
      PROVE  Own /\ pc[a] \in {"syncRelease", "syncPublish", "rejectCallback", "returnHandle"}
  BY <1>3 DEF SyncRelease, SyncPublish, RejectCallback, ReturnHandle
<1>4. ASSUME FailStore(a) \/ FailResult(a) \/ WorkerStoreResult(a) \/ WorkerStoreState(a)
             \/ FinishRead(a) \/ FinishRelease(a)
      PROVE  Own /\ pc[a] \in SlotSteps
  BY <1>4 DEF FailStore, FailResult, WorkerStoreResult, WorkerStoreState, FinishRead, FinishRelease
<1>5. ASSUME FinishCallback(a) \/ WorkerExit(a)
      PROVE  /\ Own /\ pc[a] \in {"finishCallback", "callback"}
             /\ pc'[a] \in {"idle", "callback", "returnHandle", "exited"}
  BY <1>5 DEF FinishCallback, WorkerExit
<1>6. DeinitAwaitSlot(a) => pc[a] \in DeinitSteps
  BY DEF DeinitAwaitSlot
<1> QED
  BY <1>1, <1>2, <1>3, <1>4, <1>5, <1>6 DEF Continue

LEMMA NextDestroyInv ==
  ASSUME TypeInv, SlotInv, JobInv, DestroyInv, [ApplicationNext]_avars
  PROVE  DestroyInv'
<1>1. WorkersWork'
  <2>1. WorkersWork
    BY DEF DestroyInv
  <2>2. [Next]_vars
    BY ApplicationSteps
  <2> QED
    BY <2>1, <2>2, WorkersStay
<1>2. ASSUME instance' = "alive" PROVE DestroyInv'
  BY <1>1, <1>2 DEF DestroyInv, OneDestroyer, NoUseAfterDestroy
<1>3. ASSUME pc' = pc, instance' = instance PROVE DestroyInv'
  BY <1>1, <1>3 DEF DestroyInv, OneDestroyer, NoUseAfterDestroy
<1>4. ASSUME NEW t \in Threads \ Frames, Destroy(t) PROVE DestroyInv'
  <2>1. OneDestroyer'
    BY <1>4 DEF Destroy, DeinitCall, Goto, TypeInv, TypeOK, OneDestroyer, Agents
  <2> QED
    BY <1>1, <1>4, <2>1 DEF Destroy, DestroyInv, NoUseAfterDestroy
<1>5. ASSUME NEW a \in Agents, Proceeds(a), instance # "alive" PROVE DestroyInv'
  <2>1. Continue(a) /\ ~Spawn(a)
    <3>1. ~Spawn(a)
      BY <1>5, ConstantsAssumption DEF Spawn, DestroyInv, WorkersWork, WorkerPath, OneDestroyer, Agents
    <3> QED
      BY <1>5, <3>1 DEF Proceeds, Goes, GiveJob, LetGo, Continue
  <2>2. CASE a \in Threads
    <3>1. pc[a] \in DeinitSteps /\ instance # "gone"
      BY <1>5, <2>1, <2>2, OwnStep DEF DestroyInv, OneDestroyer, NoUseAfterDestroy
    <3>2. \A u \in Threads : u # a => pc[u] = "idle"
      BY <1>5, <2>2, <3>1 DEF DestroyInv, OneDestroyer
    <3>3. \A x \in Agents : x # a => pc'[x] = pc[x]
      BY <2>1, OwnStep
    <3>4. CASE DeinitAwaitSlot(a)
      <4>1. \A x \in Agents : pc[x] \notin SlotSteps
        BY <3>4 DEF DeinitAwaitSlot, SlotInv, BusyExact, InSlot
      <4>2. pc'[a] = "idle"
        BY <2>2, <3>4 DEF DeinitAwaitSlot, Leave, Goto, TypeInv, TypeOK
      <4>3. \A u \in Threads : pc'[u] = "idle"
        BY <3>2, <3>3, <4>2 DEF Agents
      <4>4. \A j \in Jobs : pc'[j] = pc[j] /\ j \in Agents
        BY <2>2, <3>3, ConstantsAssumption DEF Agents
      <4>5. NoUseAfterDestroy'
        BY <1>1, <4>1, <4>3, <4>4 DEF NoUseAfterDestroy, WorkersWork, WorkerPath, Agents
      <4> QED
        BY <1>1, <4>3, <4>5 DEF DestroyInv, OneDestroyer
    <3>5. CASE ~DeinitAwaitSlot(a)
      <4>1. instance' = instance
        BY <1>5, <3>5 DEF Proceeds, Goes, GiveJob, LetGo
      <4>2. pc'[a] \in DeinitSteps
        BY <2>1, <3>1, <3>5, OwnStep DEF DeinitCancel, DeinitAwaitJob, Goto, TypeInv, TypeOK
      <4>3. OneDestroyer'
        BY <3>2, <3>3, <4>2 DEF OneDestroyer, Agents
      <4> QED
        BY <1>1, <3>1, <4>1, <4>3 DEF DestroyInv, NoUseAfterDestroy
    <3> QED
      BY <3>4, <3>5
  <2>3. CASE a \in Jobs
    <3>1. pc[a] \in WorkerPath /\ pc'[a] \in WorkerPath
      BY <1>1, <2>3 DEF DestroyInv, WorkersWork
    <3>2. \A x \in Agents : x # a => pc'[x] = pc[x]
      BY <2>1, OwnStep
    <3>3. instance' = instance
      BY <1>5, <2>1, <3>1, OwnStep DEF WorkerPath, Proceeds, Goes, GiveJob, LetGo
    <3>4. OneDestroyer'
      BY <1>5, <2>3, <3>2, <3>3, ConstantsAssumption DEF DestroyInv, OneDestroyer, Agents
    <3>5. ASSUME instance = "gone" PROVE NoUseAfterDestroy'
      <4>1. pc[a] \in {"finishCallback", "callback"}
        BY <2>1, <2>3, <3>1, <3>5, OwnStep
        DEF WorkerPath, DestroyInv, NoUseAfterDestroy, Continue, DeinitCancel, DeinitAwaitJob,
            DeinitAwaitSlot, SyncRun, SyncRelease, SyncPublish, RejectCallback, SpawnFail, FailStore,
            FailResult, ReturnHandle, WorkerRun, WorkerStoreResult, WorkerStoreState, FinishRead,
            FinishRelease, FinishCallback, WorkerExit
      <4>2. pc'[a] \in {"idle", "callback", "returnHandle", "exited"}
        BY <2>1, <4>1, OwnStep
      <4> QED
        BY <3>2, <3>5, <4>2 DEF DestroyInv, NoUseAfterDestroy
    <3> QED
      BY <1>1, <3>3, <3>4, <3>5 DEF DestroyInv, NoUseAfterDestroy
  <2> QED
    BY <2>2, <2>3 DEF Agents
<1>6. ASSUME NEW a \in Agents, Proceeds(a), instance = "alive" PROVE instance' = "alive"
  BY <1>6 DEF Proceeds, Goes, GiveJob, LetGo
<1>7. ASSUME NEW a \in Agents, Begins(a) PROVE instance' = "alive"
  BY <1>7 DEF Begins, lifetimes
<1>8. ASSUME NEW f \in Frames, CallbackReturn(f) \/ \E a \in Agents : Invoke(f, a)
      PROVE  pc' = pc /\ instance' = instance
  BY <1>8 DEF CallbackReturn, Invoke, vars, locals, lifetimes
<1>9. ASSUME NEW j \in Jobs, DropHandle(j) PROVE pc' = pc /\ instance' = instance
  BY <1>9 DEF DropHandle, vars, locals
<1>10. ASSUME NEW j \in Jobs, Cancel(j), UNCHANGED lifetimes PROVE pc' = pc /\ instance' = instance
  BY <1>10 DEF Cancel, locals, lifetimes
<1>11. CASE UNCHANGED avars
  BY <1>3, <1>11 DEF avars, vars, locals, lifetimes
<1> QED
  BY <1>2, <1>3, <1>4, <1>5, <1>6, <1>7, <1>8, <1>9, <1>10, <1>11 DEF ApplicationNext

(* When the destructor has returned no worker uses the instance any more:  *)
(* the slot is the last that a worker takes of it.                         *)
THEOREM DestroyedIsUnused == ApplicationSpec => []NoUseAfterDestroy
<1>1. DestroyInv => NoUseAfterDestroy
  BY DEF DestroyInv
<1> QED
  BY <1>1, InitDestroyInv, NextDestroyInv, ApplicationIsClient, Invariants, PTL DEF ApplicationSpec
=============================================================================
