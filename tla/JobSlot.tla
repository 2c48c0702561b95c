------------------------------ MODULE JobSlot -------------------------------
(***************************************************************************)
(* What ESPCompressor promises its callers, with no lock, worker or poll   *)
(* in sight: one slot, taken by one run at a time and only while the       *)
(* instance is open, and for every submitted job exactly one delivery of   *)
(* onComplete, after the job is settled and has left the slot.             *)
(***************************************************************************)
CONSTANTS
  Jobs,     \* asynchronous jobs
  Callers   \* who may run synchronously

VARIABLES
  open,     \* between init() and deinit()
  holders,  \* the runs in the slot
  phase     \* of each job: new -> [accepted ->] settled -> delivered

vars == <<open, holders, phase>>

Init ==
  /\ open = FALSE
  /\ holders = {}
  /\ phase = [j \in Jobs |-> "new"]

(* A reconfiguration waits for the slot; closing does not.                 *)
Open  == holders = {} /\ open' = TRUE /\ UNCHANGED <<holders, phase>>
Close == open' = FALSE /\ UNCHANGED <<holders, phase>>

Begin(r) == open /\ holders = {} /\ holders' = {r} /\ UNCHANGED open
End(r)   == holders = {r} /\ holders' = {} /\ UNCHANGED open

Move(j, from, to) == phase[j] = from /\ phase' = [phase EXCEPT ![j] = to]

SyncBegin(c) == Begin(<<"sync", c>>) /\ UNCHANGED phase
SyncEnd(c)   == End(<<"sync", c>>) /\ UNCHANGED phase

Accept(j)  == Begin(<<"job", j>>) /\ Move(j, "new", "accepted")
Settle(j)  == End(<<"job", j>>) /\ Move(j, "accepted", "settled")
Refuse(j)  == Move(j, "new", "settled") /\ UNCHANGED <<open, holders>>
Deliver(j) == Move(j, "settled", "delivered") /\ UNCHANGED <<open, holders>>

Next ==
  \/ Open \/ Close
  \/ \E c \in Callers : SyncBegin(c) \/ SyncEnd(c)
  \/ \E j \in Jobs : Accept(j) \/ Settle(j) \/ Refuse(j) \/ Deliver(j)

(* Every run ends and every settled job is reported.                       *)
Fairness ==
  /\ \A c \in Callers : WF_vars(SyncEnd(c))
  /\ \A j \in Jobs : WF_vars(Settle(j)) /\ WF_vars(Deliver(j))

SafeSpec == Init /\ [][Next]_vars
Spec     == SafeSpec /\ Fairness
=============================================================================
