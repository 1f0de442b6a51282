--------------------------- MODULE CaptureContract ---------------------------
(***************************************************************************)
(* What a VideoCapture promises its user, whatever the backend: the        *)
(* documented life cycle of src/capture.rs (new, start, stop, drop) and    *)
(* when the frame callback may run.                                        *)
(*                                                                         *)
(* One user thread owns the value (start and stop take &mut self), so a    *)
(* phase says which call, if any, that thread is inside.  The callback     *)
(* runs on a thread of the backend.  The backends are shown to implement   *)
(* this module by a refinement mapping.                                    *)
(***************************************************************************)

VARIABLES
  phase,       \* where the owner of the VideoCapture is
  inCallback,  \* a frame callback is running
  faulted      \* a callback panicked and the callback is lost for good

contractVars == <<phase, inCallback, faulted>>

(***************************************************************************)
(* absent    no VideoCapture exists (not built yet, or dropped)            *)
(* creating  inside new                                                    *)
(* stopped   built, no call in progress, capture not running               *)
(* starting  inside start                                                  *)
(* started   start has returned Ok, no call in progress                    *)
(* stopping  inside stop                                                   *)
(* dropping  inside drop, the implied stop is in progress                  *)
(* releasing inside drop, the resources of the capture are being freed     *)
(***************************************************************************)
Phases == {"absent", "creating", "stopped", "starting", "started",
           "stopping", "dropping", "releasing"}

(* The phases in which a backend may be delivering frames.                 *)
Delivering == {"starting", "started", "stopping", "dropping"}

ContractTypeOK ==
  /\ phase \in Phases
  /\ inCallback \in BOOLEAN
  /\ faulted \in BOOLEAN

ContractInit ==
  /\ phase = "absent"
  /\ inCallback = FALSE
  /\ faulted = FALSE

Go(from, to) ==
  /\ phase = from
  /\ phase' = to

(* The calls of the user and their returns. *)
New       == Go("absent", "creating") /\ UNCHANGED <<inCallback, faulted>>
NewFails  == Go("creating", "absent") /\ UNCHANGED <<inCallback, faulted>>
NewReturns == Go("creating", "stopped") /\ UNCHANGED <<inCallback, faulted>>

(* After a panic start is refused with CaptureFaulted, which changes       *)
(* nothing; only a new VideoCapture captures again.                        *)
Start ==
  /\ Go("stopped", "starting")
  /\ ~faulted
  /\ UNCHANGED <<inCallback, faulted>>

StartReturns == Go("starting", "started") /\ UNCHANGED <<inCallback, faulted>>

(* A start that reports an error leaves nothing running behind.            *)
StartFails ==
  /\ Go("starting", "stopped")
  /\ ~inCallback
  /\ UNCHANGED <<inCallback, faulted>>

Stop == Go("started", "stopping") /\ UNCHANGED <<inCallback, faulted>>

(* stop is blocking: it waits for the callback in progress, and none runs  *)
(* afterwards.                                                             *)
StopReturns ==
  /\ Go("stopping", "stopped")
  /\ ~inCallback
  /\ UNCHANGED <<inCallback, faulted>>

Drop ==
  /\ Go("started", "dropping") \/ Go("stopped", "releasing")
  /\ UNCHANGED <<inCallback, faulted>>

DropStops ==
  /\ Go("dropping", "releasing")
  /\ ~inCallback
  /\ UNCHANGED <<inCallback, faulted>>

DropReturns ==
  /\ Go("releasing", "absent")
  /\ faulted' = FALSE
  /\ UNCHANGED inCallback

(* The backend delivers a frame. *)
CallbackBegins ==
  /\ phase \in Delivering
  /\ ~inCallback
  /\ ~faulted
  /\ inCallback' = TRUE
  /\ UNCHANGED <<phase, faulted>>

CallbackReturns ==
  /\ inCallback
  /\ inCallback' = FALSE
  /\ UNCHANGED <<phase, faulted>>

CallbackPanics ==
  /\ inCallback
  /\ inCallback' = FALSE
  /\ faulted' = TRUE
  /\ UNCHANGED phase

ContractNext ==
  \/ New \/ NewFails \/ NewReturns
  \/ Start \/ StartReturns \/ StartFails
  \/ Stop \/ StopReturns
  \/ Drop \/ DropStops \/ DropReturns
  \/ CallbackBegins \/ CallbackReturns \/ CallbackPanics

ContractSafety == ContractInit /\ [][ContractNext]_contractVars

(* The calls of the user return once the callback in progress does: every  *)
(* call is left infinitely often possible to finish, so it finishes.       *)
ContractFairness ==
  /\ WF_contractVars(NewFails \/ NewReturns)
  /\ SF_contractVars(StartReturns \/ StartFails)
  /\ SF_contractVars(StopReturns)
  /\ SF_contractVars(DropStops)
  /\ WF_contractVars(DropReturns)
  /\ WF_contractVars(CallbackReturns \/ CallbackPanics)

ContractSpec == ContractSafety /\ ContractFairness
=============================================================================
