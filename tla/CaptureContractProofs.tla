------------------------ MODULE CaptureContractProofs ------------------------
(***************************************************************************)
(* What follows from CaptureContract alone, and so of every backend that   *)
(* implements it: the two sentences of the documentation of stop that a    *)
(* user relies on, and what becomes of a capture whose callback panicked.  *)
(***************************************************************************)
EXTENDS CaptureContract, TLAPS

(* A callback runs only between the beginning of a start and the return of *)
(* the stop, or of the implied stop of a drop: never before, never after,  *)
(* and never while the capture is being freed (src/capture.rs, stop).      *)
OnlyWhileDelivering == inCallback => phase \in Delivering

(* A callback that has panicked does not run again.                        *)
NotAfterPanic == inCallback => ~faulted

(* No capture that does not exist is faulted: the next new starts afresh.  *)
NewIsFresh == phase \in {"absent", "creating"} => ~faulted

ContractInv ==
  ContractTypeOK /\ OnlyWhileDelivering /\ NotAfterPanic /\ NewIsFresh

(* The promises of the life cycle are kept by every step that it allows.   *)
THEOREM PromisesKept == ContractSafety => []ContractInv
<1> USE DEF ContractInv, ContractTypeOK, OnlyWhileDelivering, NotAfterPanic,
            NewIsFresh, Delivering, Phases
<1>1. ContractInit => ContractInv
  BY DEF ContractInit
<1>2. ContractInv /\ [ContractNext]_contractVars => ContractInv'
  <2> SUFFICES ASSUME ContractInv, [ContractNext]_contractVars
               PROVE  ContractInv'
    OBVIOUS
  <2> USE DEF Go
  <2>1. CASE New \/ NewFails \/ NewReturns
    BY <2>1 DEF New, NewFails, NewReturns
  <2>2. CASE Start \/ StartReturns \/ StartFails
    BY <2>2 DEF Start, StartReturns, StartFails
  <2>3. CASE Stop \/ StopReturns
    BY <2>3 DEF Stop, StopReturns
  <2>4. CASE Drop \/ DropStops
    BY <2>4 DEF Drop, DropStops
  <2>5. CASE DropReturns
    BY <2>5 DEF DropReturns
  <2>6. CASE CallbackBegins
    BY <2>6 DEF CallbackBegins
  <2>7. CASE CallbackReturns \/ CallbackPanics
    BY <2>7 DEF CallbackReturns, CallbackPanics
  <2>8. CASE UNCHANGED contractVars
    BY <2>8 DEF contractVars
  <2> QED
    BY <2>1, <2>2, <2>3, <2>4, <2>5, <2>6, <2>7, <2>8 DEF ContractNext
<1> QED
  BY <1>1, <1>2, PTL DEF ContractSafety

(* A panic is remembered until the capture is gone, and until then the     *)
(* capture is not started again and its callback does not run.             *)
FaultIsFinal ==
  faulted => /\ faulted' \/ phase' = "absent"
             /\ phase' = "starting" => phase = "starting"
             /\ ~inCallback'

(* After a panic only a new VideoCapture captures again (src/capture.rs,   *)
(* start).                                                                 *)
THEOREM FaultStays == ContractSafety => [][FaultIsFinal]_contractVars
<1>1. ContractInv /\ [ContractNext]_contractVars => [FaultIsFinal]_contractVars
  <2> SUFFICES ASSUME ContractInv, ContractNext
               PROVE  FaultIsFinal
    OBVIOUS
  <2> USE DEF ContractInv, NotAfterPanic, FaultIsFinal, Go
  <2>1. CASE New \/ NewFails \/ NewReturns
    BY <2>1 DEF New, NewFails, NewReturns
  <2>2. CASE Start \/ StartReturns \/ StartFails
    BY <2>2 DEF Start, StartReturns, StartFails
  <2>3. CASE Stop \/ StopReturns
    BY <2>3 DEF Stop, StopReturns
  <2>4. CASE Drop \/ DropStops \/ DropReturns
    BY <2>4 DEF Drop, DropStops, DropReturns
  <2>5. CASE CallbackBegins \/ CallbackReturns \/ CallbackPanics
    BY <2>5 DEF CallbackBegins, CallbackReturns, CallbackPanics
  <2> QED
    BY <2>1, <2>2, <2>3, <2>4, <2>5 DEF ContractNext
<1> QED
  BY <1>1, PromisesKept, PTL DEF ContractSafety
=============================================================================
