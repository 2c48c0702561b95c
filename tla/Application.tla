----------------------------- MODULE Application -----------------------------
(***************************************************************************)
(* The job manager with an application that does to it what Compressor     *)
(* leaves out.                                                             *)
(*                                                                         *)
(* It calls the API from callbacks in the middle of things: onProgress,    *)
(* which emitProgress invokes during a run, and onComplete of a refused    *)
(* submission, which runs inside compressAsync.  Neither holds a lock; the *)
(* agent that invoked it waits until it returns.  A frame is such an       *)
(* invocation: a thread that exists only while runner[f] waits for it.     *)
(*                                                                         *)
(* It drops handles and destroys the instance while a worker may still     *)
(* run.  A job (CompressionJobControl, with its source and sink) lives as  *)
(* long as a shared_ptr refers to it: _activeJob, the local variables of   *)
(* calls, the handle, and what the worker was given.                       *)
(***************************************************************************)
EXTENDS Compressor

CONSTANTS
  Frames,
  HasFreeRTOS   \* ESPCOMPRESSOR_HAS_FREERTOS

(* Without FreeRTOS the creation of a worker has no error; and nobody here *)
(* makes calls from the onComplete of a worker (Compressor has that).      *)
ASSUME ApplicationAssumption ==
  /\ Frames \subseteq Threads
  /\ HasFreeRTOS \in BOOLEAN
  /\ ~HasFreeRTOS => SetupErrors = {}
  /\ Reentrant = {}

VARIABLES
  runner,    \* runner[f]: the agent that waits for f, or None
  instance,  \* "alive", "dying" (in ~ESPCompressor), "gone"
  dropped,   \* jobs whose handle the application has destroyed
  given      \* jobs that what was given to a worker refers to

lifetimes == <<instance, dropped, given>>
avars     == <<vars, runner, lifetimes>>

InRun(a)   == pc[a] \in {"run", "syncRun"}
Refused(a) == pc[a] = "returnHandle" /\ jobState[callJob[a]] = "Rejected"
Invokes(a) == InRun(a) \/ Refused(a)
Waiting(a) == \E f \in Frames : runner[f] = a
Present(a) == a \in Frames => runner[a] # None

(* Somebody refers to j, which is not freed as long as that is so. *)
Owned(j) ==
  \/ activeJob = j
  \/ \E a \in Agents : callJob[a] = j
  \/ j \in handles \ dropped
  \/ j \in given

-----------------------------------------------------------------------------
ApplicationInit ==
  Init /\ runner = [f \in Frames |-> None] /\ instance = "alive" /\ dropped = {} /\ given = {}

(* Who is not a callback, or one that runs, begins a call. *)
Begins(a) == instance = "alive" /\ Present(a) /\ Call(a) /\ UNCHANGED <<runner, lifetimes>>

(* A callback is invoked, and returns. *)
Invoke(f, a) ==
  /\ Invokes(a)
  /\ ~Waiting(a)
  /\ runner[f] = None /\ f # a
  /\ runner' = [runner EXCEPT ![f] = a]
  /\ UNCHANGED <<vars, lifetimes>>

CallbackReturn(f) ==
  /\ runner[f] # None
  /\ pc[f] = "idle"
  /\ runner' = [runner EXCEPT ![f] = None]
  /\ UNCHANGED <<vars, lifetimes>>

(* The worker is given the job when it is created, ... *)
GiveJob(a) ==
  /\ Spawn(a)
  /\ given' = given \cup {callJob[a]}
  /\ UNCHANGED <<instance, dropped>>

(* ... and lets go of it when its thread returns.  A FreeRTOS task does    *)
(* not return: vTaskDelete ends it where it is, and no destructor of its   *)
(* local variables runs.                                                   *)
LetGo(a) ==
  /\ WorkerExit(a)
  /\ given' = IF HasFreeRTOS THEN given ELSE given \ {a}
  /\ UNCHANGED <<instance, dropped>>

DropHandle(j) ==
  /\ j \in handles \ dropped
  /\ dropped' = dropped \cup {j}
  /\ UNCHANGED <<vars, runner, instance, given>>

(* ~ESPCompressor() calls deinit(), when nobody is in a call any more, ... *)
Destroy(t) ==
  /\ instance = "alive"
  /\ \A u \in Threads : pc[u] = "idle"
  /\ DeinitCall(t)
  /\ instance' = "dying"
  /\ UNCHANGED <<runner, dropped, given>>

(* ... and when that returns _mutex, _config and the rest are no more. *)
Goes(a) ==
  /\ Continue(a) /\ ~Spawn(a) /\ ~WorkerExit(a)
  /\ instance' = IF instance = "dying" /\ DeinitAwaitSlot(a) THEN "gone" ELSE instance
  /\ UNCHANGED <<dropped, given>>

(* A bug the checks must notice: callbacks are invoked under _mutex. *)
ProceedsLocked(a) ==
  /\ ~\E b \in Agents : Waiting(b)
  /\ Goes(a) \/ GiveJob(a) \/ LetGo(a)
  /\ UNCHANGED runner

(* Everybody goes on but who waits for a callback. *)
Proceeds(a) ==
  /\ ~Waiting(a)
  /\ Goes(a) \/ GiveJob(a) \/ LetGo(a)
  /\ UNCHANGED runner

ApplicationNext ==
  \/ \E a \in Agents : Begins(a) \/ Proceeds(a)
  \/ \E f \in Frames : CallbackReturn(f) \/ \E a \in Agents : Invoke(f, a)
  \/ \E t \in Threads \ Frames : Destroy(t)
  \/ \E j \in Jobs : DropHandle(j)
  \/ \E j \in Jobs \ dropped : Cancel(j) /\ UNCHANGED <<runner, lifetimes>>

ApplicationSpec == ApplicationInit /\ [][ApplicationNext]_avars

(* Agents keep running, as in FairSpec.  A callback makes finitely many    *)
(* calls, and is invoked finitely often: onProgress once for a block and   *)
(* once at the end, onComplete once.                                       *)
ApplicationFairSpec ==
  /\ ApplicationSpec
  /\ \A a \in Agents : WF_avars(Proceeds(a)) /\ SF_avars(Invokes(a) /\ Proceeds(a))
  /\ \A f \in Frames : SF_avars(CallbackReturn(f))

-----------------------------------------------------------------------------
(* f is onProgress, or what onProgress called. *)
OnProgress(f) == runner[f] # None /\ InRun(runner[f])

(* deinit() from onProgress waits for the run it was called from.          *)
WaitsForItself == \E f \in Frames : OnProgress(f) /\ pc[f] \in DeinitSteps

(* Such a deinit() never returns: it polls the state or _busy, and both    *)
(* are for the run to change that waits for the callback.                  *)
DeinitInsideRunHangs ==
  [][\A f \in Frames : OnProgress(f) /\ pc[f] \in DeinitSteps => pc'[f] \in DeinitSteps]_avars

(* Every other call from a callback returns: no lock and no slot is held   *)
(* that it waits for.                                                      *)
CallsReturn ==
  \A f \in Frames :
    pc[f] \notin DeinitSteps \cup {"idle"} ~> pc[f] = "idle" \/ WaitsForItself

(* Whatever else callbacks do, and though the instance may be destroyed    *)
(* meanwhile, every submitted job is reported and its handle returned.     *)
ReportedAllTheSame ==
  \A j \in Jobs : nextJobId > j ~> (completions[j] = 1 /\ j \in handles) \/ WaitsForItself

(* When the destructor has returned no worker needs the instance again,    *)
(* not for its configuration, its slot or its lock: finishAsyncJob copied  *)
(* onComplete before it gave the slot back.                                *)
NoUseAfterDestroy ==
  instance = "gone" => \A a \in Agents : pc[a] \notin SlotSteps \cup DeinitSteps \cup {"syncPublish"}

(* The destructor returns, whatever the worker was doing: nobody can take  *)
(* the slot any more.                                                      *)
DestructorReturns == instance = "dying" ~> instance = "gone"

(* A job whose handle is dropped is freed, with its source and its sink:   *)
(* the library does not keep what the application let go of.  (But as long *)
(* as a deinit() is held up by others that take the slot again and again.) *)
JobsAreFreed ==
  \A j \in Jobs :
    \/ j \in dropped ~> ~Owned(j) \/ WaitsForItself
    \/ []<><<~busy /\ busy'>>_avars
=============================================================================
