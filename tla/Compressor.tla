----------------------------- MODULE Compressor -----------------------------
(***************************************************************************)
(* The job manager of ESPCompressor: src/esp_compressor/async/compressor.* *)
(* (everything from CompressionJobControl on).  Application threads call   *)
(* init, deinit, compress/decompress, compressAsync/decompressAsync and    *)
(* cancel on one ESPCompressor; every accepted asynchronous job gets a     *)
(* worker (a FreeRTOS task, or a std::thread on the host) of its own.      *)
(*                                                                         *)
(* Atomicity.  A block under lock_guard(_mutex), one atomic load or store, *)
(* and one block under job->mutex are each one action; between two of them *)
(* any other agent may run.  The body of runSyncJob, which touches none of *)
(* this state but cancelRequested, is the single pc value "run" (worker)   *)
(* or "syncRun" (caller); its result is chosen when it ends.               *)
(*                                                                         *)
(* A job is named by its id, so the record CompressionJobControl is the    *)
(* functions jobState, cancelRequested, jobResult over Jobs.  The agent    *)
(* that runs job j is called j too: agents are Threads \cup Jobs.  While   *)
(* its onComplete runs ("callback") a worker may call the public API just  *)
(* as a thread does.  Compress and decompress differ in nothing here.      *)
(***************************************************************************)
EXTENDS Naturals

CONSTANTS
  Threads,        \* application threads
  MaxJobs,        \* bound: CompressionJobControl objects ever created
  Configs,        \* ESPCompressorConfig values that callers pass to init()
  DefaultConfig,  \* ESPCompressorConfig{}
  MaxBlockSize,   \* UINT32_MAX
  MaxWindowSize,  \* 0xFFFF
  RunErrors,      \* errors a run ends with, besides Ok and Cancelled; a refusal may have the same
  SetupErrors,    \* NoMemory and InternalError with FreeRTOS, none on the host
  Reentrant,      \* jobs whose onComplete calls the public API
  None            \* the null job

Jobs   == 1 .. MaxJobs
Agents == Threads \cup Jobs

RejectErrors == {"NotInitialized", "InvalidArgument", "Busy"} \cup SetupErrors
Errors       == {"Ok", "Cancelled"} \cup RunErrors \cup RejectErrors

ASSUME ConstantsAssumption ==
  /\ MaxJobs \in Nat
  /\ Threads \cap Jobs = {}
  /\ None \notin Agents
  /\ Reentrant \subseteq Jobs
  /\ DefaultConfig \in Configs
  /\ SetupErrors \cap {"Ok", "Cancelled"} = {}

VARIABLES
  initialized,      \* _initialized
  busy,             \* _busy
  activeJob,        \* _activeJob
  config,           \* _config
  lastResult,       \* _lastResult, with the job it belongs to (None: a synchronous run)
  nextJobId,        \* _nextJobId
  jobState,         \* CompressionJobControl::state
  cancelRequested,  \* CompressionJobControl::cancelRequested
  jobResult,        \* CompressionJobControl::result.error
  handles,          \* jobs whose CompressionJobHandle a caller holds
  completions,      \* how often onComplete of each job was invoked
  pc,               \* where each agent is
  callJob,          \* the local job (worker, submitAsync) or active (deinit)
  callError         \* the local result (or setup error) of each agent

owner   == <<initialized, busy, activeJob, config, lastResult, nextJobId>>
control == <<jobState, cancelRequested, jobResult>>
client  == <<handles, completions>>
locals  == <<pc, callJob, callError>>
vars    == <<owner, control, client, locals>>

-----------------------------------------------------------------------------
(* Where an agent can be.                                                  *)

SyncSteps   == {"syncRun", "syncRelease"}
SetupSteps  == {"spawn", "failStore", "failResult"}
WorkerSteps == {"run", "storeResult", "storeState"}
FinishSteps == {"finishRead", "finishRelease"}
JobSteps    == SetupSteps \cup WorkerSteps \cup FinishSteps
SlotSteps   == SyncSteps \cup JobSteps
DeinitSteps == {"deinitCancel", "deinitAwaitJob", "deinitAwaitSlot"}
PostSteps   == {"syncPublish", "rejectCallback", "finishCallback", "returnHandle"}
RestSteps   == {"idle", "callback", "absent", "exited"}
Steps       == SlotSteps \cup DeinitSteps \cup PostSteps \cup RestSteps

(* Outside of every call: a thread in its own code, a worker in onComplete. *)
Home(a) == IF a \in Threads THEN "idle" ELSE "callback"
MayCall(a) == pc[a] = Home(a) /\ a \in Threads \cup Reentrant

Goto(a, l) == pc' = [pc EXCEPT ![a] = l]

(* Leaving a call (or the worker's part of one) ends its local variables.  *)
Leave(a) ==
  /\ Goto(a, Home(a))
  /\ callJob' = [callJob EXCEPT ![a] = None]
  /\ callError' = [callError EXCEPT ![a] = "Ok"]

States      == {"Idle", "Running", "Completed", "Failed", "Cancelled", "Rejected"}
FinalStates == {"Completed", "Failed", "Cancelled", "Rejected"}

(* CompressionJobHandle::done() *)
Done(j) == jobState[j] \in FinalStates

(* The state a worker stores for the error its run returned. *)
OutcomeState(e) ==
  IF e = "Ok" THEN "Completed" ELSE IF e = "Cancelled" THEN "Cancelled" ELSE "Failed"

(* The argument check of init(). *)
ValidConfig(c) ==
  /\ c.blockSize \in 1 .. MaxBlockSize
  /\ c.windowSize \in 1 .. MaxWindowSize
  /\ c.taskStackSize # 0

-----------------------------------------------------------------------------
(* Bugs the checks must notice: each stands for the definition it names,   *)
(* is no part of Next, and is what the properties are tried against.       *)

InitCallWhileBusy(a, c) ==         \* InitCall without the _busy test
  /\ MayCall(a)
  /\ ValidConfig(c)
  /\ config' = c
  /\ initialized' = TRUE
  /\ UNCHANGED <<busy, activeJob, lastResult, nextJobId, control, client, locals>>

DeinitAwaitSlotNoPoll(a) ==        \* DeinitAwaitSlot without the poll of _busy
  /\ pc[a] = "deinitAwaitSlot"
  /\ activeJob' = None
  /\ Leave(a)
  /\ UNCHANGED <<initialized, busy, config, lastResult, nextJobId, control, client>>

SyncCallUninitialized(a) ==        \* SyncCall without the _initialized test
  /\ MayCall(a)
  /\ ~busy
  /\ busy' = TRUE
  /\ Goto(a, "syncRun")
  /\ UNCHANGED <<initialized, activeJob, config, lastResult, nextJobId,
                 control, client, callJob, callError>>

SyncReleaseUnlessFailed(a) ==      \* SyncRelease that leaks the slot of a failed run
  /\ pc[a] = "syncRelease"
  /\ busy' = (callError[a] # "Ok")
  /\ Goto(a, "syncPublish")
  /\ UNCHANGED <<initialized, activeJob, config, lastResult, nextJobId,
                 control, client, callJob, callError>>

RejectReasonNoBusy(hasIo) ==       \* RejectReason without the _busy test
  IF ~initialized THEN "NotInitialized" ELSE IF ~hasIo THEN "InvalidArgument" ELSE "Ok"

FailResultNotifies(a) ==           \* FailResult that reports, as finishAsyncJob will again
  /\ pc[a] = "failResult"
  /\ jobResult' = [jobResult EXCEPT ![callJob[a]] = callError[a]]
  /\ completions' = [completions EXCEPT ![callJob[a]] = @ + 1]
  /\ Goto(a, "finishRead")
  /\ UNCHANGED <<owner, jobState, cancelRequested, handles, callJob, callError>>

WorkerRunStateFirst(a, e) ==       \* WorkerRun that makes done() true before the result is stored
  /\ pc[a] = "run"
  /\ e \in {"Ok"} \cup RunErrors \cup (IF cancelRequested[callJob[a]] THEN {"Cancelled"} ELSE {})
  /\ callError' = [callError EXCEPT ![a] = e]
  /\ jobState' = [jobState EXCEPT ![callJob[a]] = OutcomeState(e)]
  /\ Goto(a, "storeResult")
  /\ UNCHANGED <<owner, cancelRequested, jobResult, client, callJob>>

FinishReadState(a) ==              \* FinishRead that takes the state for the result
  /\ pc[a] = "finishRead"
  /\ callError' = [callError EXCEPT ![a] = jobState[callJob[a]]]
  /\ Goto(a, "finishRelease")
  /\ UNCHANGED <<owner, control, client, callJob>>

FinishReadNothing(a) ==            \* FinishRead that leaves the default result
  /\ pc[a] = "finishRead"
  /\ callError' = [callError EXCEPT ![a] = "Ok"]
  /\ Goto(a, "finishRelease")
  /\ UNCHANGED <<owner, control, client, callJob>>

FinishReleaseKeepsBusy(a) ==       \* FinishRelease without _busy = false
  /\ pc[a] = "finishRelease"
  /\ lastResult' = [job |-> callJob[a], error |-> callError[a]]
  /\ activeJob' = IF activeJob = callJob[a] THEN None ELSE activeJob
  /\ Goto(a, "finishCallback")
  /\ UNCHANGED <<initialized, busy, config, nextJobId, control, client, callJob, callError>>

FinishReleaseKeepsJob(a) ==        \* FinishRelease without _activeJob.reset()
  /\ pc[a] = "finishRelease"
  /\ lastResult' = [job |-> callJob[a], error |-> callError[a]]
  /\ busy' = FALSE
  /\ Goto(a, "finishCallback")
  /\ UNCHANGED <<initialized, activeJob, config, nextJobId, control, client, callJob, callError>>

FinishReleaseSilent(a) ==          \* FinishRelease after which a cancelled job is not reported
  /\ pc[a] = "finishRelease"
  /\ lastResult' = [job |-> callJob[a], error |-> callError[a]]
  /\ activeJob' = IF activeJob = callJob[a] THEN None ELSE activeJob
  /\ busy' = FALSE
  /\ Goto(a, IF callError[a] = "Cancelled" THEN "exited" ELSE "finishCallback")
  /\ UNCHANGED <<initialized, config, nextJobId, control, client, callJob, callError>>

CancelAtOnce(j) ==                 \* Cancel that declares the job cancelled itself
  /\ j \in handles
  /\ cancelRequested' = [cancelRequested EXCEPT ![j] = TRUE]
  /\ jobState' = [jobState EXCEPT ![j] = "Cancelled"]
  /\ UNCHANGED <<owner, jobResult, client, locals>>

-----------------------------------------------------------------------------
Init ==
  /\ initialized = FALSE
  /\ busy = FALSE
  /\ activeJob = None
  /\ config = DefaultConfig
  /\ lastResult = [job |-> None, error |-> "Ok"]
  /\ nextJobId = 1
  /\ jobState = [j \in Jobs |-> "Idle"]
  /\ cancelRequested = [j \in Jobs |-> FALSE]
  /\ jobResult = [j \in Jobs |-> "Ok"]
  /\ handles = {}
  /\ completions = [j \in Jobs |-> 0]
  /\ pc = [a \in Agents |-> IF a \in Threads THEN "idle" ELSE "absent"]
  /\ callJob = [a \in Agents |-> None]
  /\ callError = [a \in Agents |-> "Ok"]

-----------------------------------------------------------------------------
(* init(): refused, changing nothing, with a bad configuration or when     *)
(* busy.  It does not look at initialized.                                 *)
InitCall(a, c) ==
  /\ MayCall(a)
  /\ ValidConfig(c)
  /\ ~busy
  /\ config' = c
  /\ initialized' = TRUE
  /\ UNCHANGED <<busy, activeJob, lastResult, nextJobId, control, client, locals>>

(* deinit(): copy _activeJob and close the door, ... *)
DeinitCall(a) ==
  /\ MayCall(a)
  /\ initialized' = FALSE
  /\ callJob' = [callJob EXCEPT ![a] = activeJob]
  /\ Goto(a, IF activeJob = None THEN "deinitAwaitSlot" ELSE "deinitCancel")
  /\ UNCHANGED <<busy, activeJob, config, lastResult, nextJobId,
                 control, client, callError>>

(* ... ask the active job to stop, ... *)
DeinitCancel(a) ==
  /\ pc[a] = "deinitCancel"
  /\ cancelRequested' = [cancelRequested EXCEPT ![callJob[a]] = TRUE]
  /\ Goto(a, "deinitAwaitJob")
  /\ UNCHANGED <<owner, jobState, jobResult, client, callJob, callError>>

(* ... poll its state until it is final, ... *)
DeinitAwaitJob(a) ==
  /\ pc[a] = "deinitAwaitJob"
  /\ Done(callJob[a])
  /\ Goto(a, "deinitAwaitSlot")
  /\ UNCHANGED <<owner, control, client, callJob, callError>>

(* ... and poll _busy until the slot is free. *)
DeinitAwaitSlot(a) ==
  /\ pc[a] = "deinitAwaitSlot"
  /\ ~busy
  /\ activeJob' = None
  /\ Leave(a)
  /\ UNCHANGED <<initialized, busy, config, lastResult, nextJobId, control, client>>

-----------------------------------------------------------------------------
(* compress() and decompress(): take the slot, or return NotInitialized or *)
(* Busy (which change nothing), ...                                        *)
SyncCall(a) ==
  /\ MayCall(a)
  /\ initialized
  /\ ~busy
  /\ busy' = TRUE
  /\ Goto(a, "syncRun")
  /\ UNCHANGED <<initialized, activeJob, config, lastResult, nextJobId,
                 control, client, callJob, callError>>

(* ... run (a synchronous run has no cancel flag), ... *)
SyncRun(a, e) ==
  /\ pc[a] = "syncRun"
  /\ e \in {"Ok"} \cup RunErrors
  /\ callError' = [callError EXCEPT ![a] = e]
  /\ Goto(a, "syncRelease")
  /\ UNCHANGED <<owner, control, client, callJob>>

(* ... give the slot back (ScopedSyncRunSlot::release), ... *)
SyncRelease(a) ==
  /\ pc[a] = "syncRelease"
  /\ busy' = FALSE
  /\ Goto(a, "syncPublish")
  /\ UNCHANGED <<initialized, activeJob, config, lastResult, nextJobId,
                 control, client, callJob, callError>>

(* ... and, in a second critical section, publish the result. *)
SyncPublish(a) ==
  /\ pc[a] = "syncPublish"
  /\ lastResult' = [job |-> None, error |-> callError[a]]
  /\ Leave(a)
  /\ UNCHANGED <<initialized, busy, activeJob, config, nextJobId, control, client>>

-----------------------------------------------------------------------------
(* submitAsync(), the critical section.  hasIo: source and sink are not    *)
(* null.                                                                   *)
RejectReason(hasIo) ==
  IF ~initialized THEN "NotInitialized"
  ELSE IF ~hasIo THEN "InvalidArgument"
  ELSE IF busy THEN "Busy" ELSE "Ok"

SubmitCall(a, hasIo) ==
  LET j == nextJobId
      e == RejectReason(hasIo)
  IN /\ MayCall(a)
     /\ j \in Jobs
     /\ nextJobId' = j + 1
     /\ callJob' = [callJob EXCEPT ![a] = j]
     /\ IF e = "Ok"
          THEN /\ jobState' = [jobState EXCEPT ![j] = "Running"]
               /\ busy' = TRUE
               /\ activeJob' = j
               /\ Goto(a, "spawn")
               /\ UNCHANGED <<lastResult, jobResult>>
          ELSE /\ jobState' = [jobState EXCEPT ![j] = "Rejected"]
               /\ jobResult' = [jobResult EXCEPT ![j] = e]
               /\ lastResult' = [job |-> j, error |-> e]
               /\ Goto(a, "rejectCallback")
               /\ UNCHANGED <<busy, activeJob>>
     /\ UNCHANGED <<initialized, config, cancelRequested, client, callError>>

(* A rejected submission reports to onComplete before it returns. *)
RejectCallback(a) ==
  /\ pc[a] = "rejectCallback"
  /\ completions' = [completions EXCEPT ![callJob[a]] = @ + 1]
  /\ Goto(a, "returnHandle")
  /\ UNCHANGED <<owner, control, handles, callJob, callError>>

(* The worker is created, ... *)
Spawn(a) ==
  LET j == callJob[a]
  IN /\ pc[a] = "spawn"
     /\ pc' = [pc EXCEPT ![a] = "returnHandle", ![j] = "run"]
     /\ callJob' = [callJob EXCEPT ![j] = j]
     /\ UNCHANGED <<owner, control, client, callError>>

(* ... or it cannot be: rejectAcceptedAsyncSetupJob(job, e) *)
SpawnFail(a, e) ==
  /\ pc[a] = "spawn"
  /\ e \in SetupErrors
  /\ callError' = [callError EXCEPT ![a] = e]
  /\ Goto(a, "failStore")
  /\ UNCHANGED <<owner, control, client, callJob>>

FailStore(a) ==
  /\ pc[a] = "failStore"
  /\ jobState' = [jobState EXCEPT ![callJob[a]] = "Rejected"]
  /\ Goto(a, "failResult")
  /\ UNCHANGED <<owner, cancelRequested, jobResult, client, callJob, callError>>

FailResult(a) ==
  /\ pc[a] = "failResult"
  /\ jobResult' = [jobResult EXCEPT ![callJob[a]] = callError[a]]
  /\ Goto(a, "finishRead")
  /\ UNCHANGED <<owner, jobState, cancelRequested, client, callJob, callError>>

ReturnHandle(a) ==
  /\ pc[a] = "returnHandle"
  /\ handles' = handles \cup {callJob[a]}
  /\ Leave(a)
  /\ UNCHANGED <<owner, control, completions>>

-----------------------------------------------------------------------------
(* The worker: run the job, ... *)
WorkerRun(a, e) ==
  /\ pc[a] = "run"
  /\ e \in {"Ok"} \cup RunErrors \cup (IF cancelRequested[callJob[a]] THEN {"Cancelled"} ELSE {})
  /\ callError' = [callError EXCEPT ![a] = e]
  /\ Goto(a, "storeResult")
  /\ UNCHANGED <<owner, control, client, callJob>>

(* ... store the result under job->mutex, ... *)
WorkerStoreResult(a) ==
  /\ pc[a] = "storeResult"
  /\ jobResult' = [jobResult EXCEPT ![callJob[a]] = callError[a]]
  /\ Goto(a, "storeState")
  /\ UNCHANGED <<owner, jobState, cancelRequested, client, callJob, callError>>

(* ... then the state that makes done() true. *)
WorkerStoreState(a) ==
  /\ pc[a] = "storeState"
  /\ jobState' = [jobState EXCEPT ![callJob[a]] = OutcomeState(callError[a])]
  /\ Goto(a, "finishRead")
  /\ UNCHANGED <<owner, cancelRequested, jobResult, client, callJob, callError>>

(* finishAsyncJob(): read the result under job->mutex, ... *)
FinishRead(a) ==
  /\ pc[a] = "finishRead"
  /\ callError' = [callError EXCEPT ![a] = jobResult[callJob[a]]]
  /\ Goto(a, "finishRelease")
  /\ UNCHANGED <<owner, control, client, callJob>>

(* ... publish it and give the slot back under _mutex, ... *)
FinishRelease(a) ==
  /\ pc[a] = "finishRelease"
  /\ lastResult' = [job |-> callJob[a], error |-> callError[a]]
  /\ activeJob' = IF activeJob = callJob[a] THEN None ELSE activeJob
  /\ busy' = FALSE
  /\ Goto(a, "finishCallback")
  /\ UNCHANGED <<initialized, config, nextJobId, control, client, callJob, callError>>

(* ... and invoke onComplete with no lock held. *)
FinishCallback(a) ==
  /\ pc[a] = "finishCallback"
  /\ completions' = [completions EXCEPT ![callJob[a]] = @ + 1]
  /\ IF callJob[a] = a
       THEN Leave(a)
       ELSE Goto(a, "returnHandle") /\ UNCHANGED <<callJob, callError>>
  /\ UNCHANGED <<owner, control, handles>>

WorkerExit(a) ==
  /\ a \in Jobs
  /\ pc[a] = "callback"
  /\ Goto(a, "exited")
  /\ UNCHANGED <<owner, control, client, callJob, callError>>

-----------------------------------------------------------------------------
(* CompressionJobHandle::cancel() and ESPCompressor::cancel(): one store,  *)
(* by whoever holds a handle, at any time.                                 *)
Cancel(j) ==
  /\ j \in handles
  /\ cancelRequested' = [cancelRequested EXCEPT ![j] = TRUE]
  /\ UNCHANGED <<owner, jobState, jobResult, client, locals>>

(* What an agent begins because its application says so. *)
Call(a) ==
  \/ \E c \in Configs : InitCall(a, c)
  \/ DeinitCall(a)
  \/ SyncCall(a)
  \/ \E hasIo \in BOOLEAN : SubmitCall(a, hasIo)

(* What an agent does inside a call or as a worker. *)
Continue(a) ==
  \/ DeinitCancel(a) \/ DeinitAwaitJob(a) \/ DeinitAwaitSlot(a)
  \/ \E e \in Errors : SyncRun(a, e) \/ SpawnFail(a, e) \/ WorkerRun(a, e)
  \/ SyncRelease(a) \/ SyncPublish(a)
  \/ RejectCallback(a) \/ Spawn(a) \/ FailStore(a) \/ FailResult(a) \/ ReturnHandle(a)
  \/ WorkerStoreResult(a) \/ WorkerStoreState(a)
  \/ FinishRead(a) \/ FinishRelease(a) \/ FinishCallback(a) \/ WorkerExit(a)

Next ==
  \/ \E a \in Agents : Call(a) \/ Continue(a)
  \/ \E j \in Jobs : Cancel(j)

Spec == Init /\ [][Next]_vars

(* Every agent inside a call keeps running: the scheduler is preemptive,   *)
(* the deinit loops sleep between two polls, and every run ends because    *)
(* sources are finite and sinks return.  Nobody has to begin a call.       *)
FairSpec == Spec /\ \A a \in Agents : WF_vars(Continue(a))

-----------------------------------------------------------------------------
TypeOK ==
  /\ initialized \in BOOLEAN
  /\ busy \in BOOLEAN
  /\ activeJob \in Jobs \cup {None}
  /\ config \in Configs
  /\ lastResult \in [job : Jobs \cup {None}, error : Errors]
  /\ nextJobId \in 1 .. MaxJobs + 1
  /\ jobState \in [Jobs -> States]
  /\ cancelRequested \in [Jobs -> BOOLEAN]
  /\ jobResult \in [Jobs -> Errors]
  /\ handles \in SUBSET Jobs
  /\ completions \in [Jobs -> Nat]
  /\ pc \in [Agents -> Steps]
  /\ callJob \in [Agents -> Jobs \cup {None}]
  /\ callError \in [Agents -> Errors]

InSlot(a)     == pc[a] \in SlotSteps
RunsJob(a, j) == pc[a] \in JobSteps /\ callJob[a] = j

(* At most one run is in progress on an instance: _busy is tested and set  *)
(* in one critical section, and only the run that set it clears it.        *)
SlotExclusive == \A a, b \in Agents : InSlot(a) /\ InSlot(b) => a = b

(* _busy is neither leaked nor dropped early: it is set exactly while      *)
(* somebody is bound to clear it, on every path including a setup failure. *)
BusyExact == busy <=> \E a \in Agents : InSlot(a)

(* _activeJob, the job deinit() cancels and waits for, is the job that     *)
(* occupies the slot, from acceptance to release.                          *)
ActiveJobExact ==
  \A j \in Jobs : activeJob = j <=> \E a \in Agents : RunsJob(a, j)

(* So every path out of a call or a worker gives the slot back, whole.     *)
SlotAccounted == BusyExact /\ ActiveJobExact

(* A handle that is done() tells one story: its state and its result, set  *)
(* by two separate stores, agree.  It takes both to tell it: a job that    *)
(* ran may have failed with an error that others were refused with.        *)
HandleTruthful ==
  \A j \in handles : Done(j) =>
    IF jobState[j] = "Rejected"
      THEN jobResult[j] \in RejectErrors
      ELSE jobState[j] = OutcomeState(jobResult[j])

(* lastResult(), when it is the result of an asynchronous job, never       *)
(* speaks of one that its own handle shows unfinished or finished          *)
(* otherwise.  (Which of two runs published last is another matter:        *)
(* compress() publishes after it has given the slot back.)                 *)
LastResultAgrees ==
  \A j \in Jobs : lastResult.job = j => Done(j) /\ jobResult[j] = lastResult.error

(* onComplete of a job is invoked at most once, and only when the job is   *)
(* final and out of the slot, so that it may submit the next job.          *)
CompletionIsLast ==
  \A j \in Jobs :
    /\ completions[j] <= 1
    /\ completions[j] = 1 => Done(j) /\ ~\E a \in Agents : RunsJob(a, j)

(* What a finished handle shows never changes again, whatever cancel(),    *)
(* deinit() or another job does.                                           *)
HandleFinal ==
  [][\A j \in handles : Done(j) => jobState'[j] = jobState[j] /\ jobResult'[j] = jobResult[j]]_vars

(* A run reads _config through a pointer and without the lock; init() from *)
(* another thread never changes it under the run.                          *)
ConfigStable == [][(\E a \in Agents : InSlot(a)) => config' = config]_vars

(* When deinit() returns, no run of the instance is in progress any more   *)
(* and the job it found active is final.                                   *)
DeinitQuiesces ==
  [][\A a \in Agents :
       pc[a] \in DeinitSteps /\ pc'[a] \notin DeinitSteps =>
         /\ \A b \in Agents : ~InSlot(b)
         /\ callJob[a] \in Jobs => Done(callJob[a])]_vars

(* Every submitted job, accepted or not, is eventually reported to its     *)
(* onComplete and its handle is returned.                                  *)
JobsComplete ==
  \A j \in Jobs : nextJobId > j ~> completions[j] = 1 /\ j \in handles

(* deinit() returns, unless others keep taking the slot for new runs again *)
(* and again (somebody called init() meanwhile): it polls _busy.           *)
DeinitReturns ==
  \A a \in Agents :
    \/ pc[a] \in DeinitSteps ~> pc[a] \notin DeinitSteps
    \/ []<><<~busy /\ busy'>>_vars

(* The manager implements the promise of JobSlot.                          *)
SlotHolders ==
  {<<"sync", a>> : a \in {x \in Agents : pc[x] \in SyncSteps}} \cup
  {<<"job", callJob[a]>> : a \in {x \in Agents : pc[x] \in JobSteps}}

JobPhase(j) ==
  IF j >= nextJobId THEN "new"
  ELSE IF completions[j] > 0 THEN "delivered"
  ELSE IF \E a \in Agents : RunsJob(a, j) THEN "accepted" ELSE "settled"

Promise == INSTANCE JobSlot WITH
  Callers <- Agents, open <- initialized, holders <- SlotHolders,
  phase <- [j \in Jobs |-> JobPhase(j)]

ImplementsJobSlot == Promise!Spec

-----------------------------------------------------------------------------
(* What the tests and the README say, and the code does not do: each is    *)
(* refuted by a run.                                                       *)

(* A client that sees done() may count on onComplete having been invoked   *)
(* (testAsyncProgressBusyAndCompletion), and finds the slot free of that   *)
(* job (testAsyncCancellationAndDeinit).  It cannot count on either: what  *)
(* the run refutes is that one of the two holds.                           *)
DoneMeansSomething ==
  \A j \in handles : Done(j) => completions[j] = 1 \/ activeJob # j

(* Callbacks execute on the worker (README, Notes).                        *)
CallbackOnWorker ==
  [][\A j \in Jobs : completions'[j] # completions[j] => pc[j] = "finishCallback"]_vars
=============================================================================
