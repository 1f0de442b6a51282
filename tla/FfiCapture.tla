----------------------------- MODULE FfiCapture -----------------------------
(***************************************************************************)
(* The Rust side shared by the AVFoundation, V4L2 and PipeWire backends:   *)
(* FfiCaptureImpl of src/capture_ffi.rs.  It owns an opaque C session and  *)
(* the boxed CaptureContext that the C side calls back into, and drives    *)
(* the session through the CaptureOps function table.                      *)
(*                                                                         *)
(* The actions below are the Rust half of each operation.  A backend       *)
(* module conjoins each of them with what the C function does: entering    *)
(* the function (New, Start, Stop, Drop) and returning from it.            *)
(***************************************************************************)

VARIABLES
  api,        \* the FfiCaptureImpl call in progress
  rsRunning,  \* FfiCaptureImpl.running
  context     \* the boxed CaptureContext is allocated

rustVars == <<api, rsRunning, context>>

(***************************************************************************)
(* absent        no FfiCaptureImpl                                         *)
(* creating      new is inside ops.session_create                          *)
(* idle          no call in progress                                       *)
(* starting      start is inside ops.session_start                         *)
(* stopping      stop is inside ops.session_stop                           *)
(* dropStopping  Drop has called stop, which is inside ops.session_stop    *)
(* destroying    Drop is inside ops.session_destroy                        *)
(***************************************************************************)
ApiStates == {"absent", "creating", "idle", "starting", "stopping",
              "dropStopping", "destroying"}

RustTypeOK ==
  /\ api \in ApiStates
  /\ rsRunning \in BOOLEAN
  /\ context \in BOOLEAN

RustInit ==
  /\ api = "absent"
  /\ rsRunning = FALSE
  /\ context = FALSE

(* new: the arguments that Rust itself rejects (an unknown pixel format, a *)
(* NUL in the device name) return before any C call and change nothing.    *)
RsNew ==
  /\ api = "absent"
  /\ api' = "creating"
  /\ UNCHANGED <<rsRunning, context>>

(* session_create returned: NULL is SessionCreateFailed, and the callback  *)
(* is boxed only after it returned a session.                              *)
RsNewReturns(ok) ==
  /\ api = "creating"
  /\ api' = IF ok THEN "idle" ELSE "absent"
  /\ context' = ok
  /\ rsRunning' = FALSE

(* start: an Ok without a call of session_start if already running, which  *)
(* changes nothing.                                                        *)
RsStart ==
  /\ api = "idle"
  /\ ~rsRunning
  /\ api' = "starting"
  /\ UNCHANGED <<rsRunning, context>>

RsStartReturns(ok) ==
  /\ api = "starting"
  /\ api' = "idle"
  /\ rsRunning' = ok
  /\ UNCHANGED context

(* stop: a no-op unless running. *)
RsStop ==
  /\ api = "idle"
  /\ rsRunning
  /\ api' = "stopping"
  /\ UNCHANGED <<rsRunning, context>>

(* Drop calls stop first, which calls session_stop only if running; then   *)
(* session_destroy.                                                        *)
RsDrop ==
  /\ api = "idle"
  /\ api' = IF rsRunning THEN "dropStopping" ELSE "destroying"
  /\ UNCHANGED <<rsRunning, context>>

(* session_stop returned, to stop or to the stop that Drop made. *)
RsStopReturns ==
  /\ api \in {"stopping", "dropStopping"}
  /\ api' = IF api = "stopping" THEN "idle" ELSE "destroying"
  /\ rsRunning' = FALSE
  /\ UNCHANGED context

(* session_destroy returned; the fields are dropped, the context with      *)
(* them.                                                                   *)
RsDropReturns ==
  /\ api = "destroying"
  /\ api' = "absent"
  /\ context' = FALSE
  /\ UNCHANGED rsRunning

(* The refinement mapping to the phases of CaptureContract. *)
ContractPhase ==
  CASE api = "idle"         -> IF rsRunning THEN "started" ELSE "stopped"
    [] api = "dropStopping" -> "dropping"
    [] api = "destroying"   -> "releasing"
    [] OTHER                -> api
=============================================================================
