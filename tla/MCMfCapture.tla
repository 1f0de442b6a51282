----------------------------- MODULE MCMfCapture -----------------------------
(***************************************************************************)
(* Model checking of MfCapture.  The captures are interchangeable, so that *)
(* one of them implements the documented life cycle shows it for all; TLC  *)
(* cannot check the quantified formula.                                    *)
(***************************************************************************)
EXTENDS MfCapture

First == CHOOSE c \in Captures : TRUE

Contract ==
  INSTANCE CaptureContract
    WITH phase <- PhaseOf(First),
         inCallback <- (cap[First].thread = "callback"),
         faulted <- (cap[First].callback = "panicked")

(* The first capture implements the life cycle that capture.rs documents,  *)
(* whatever the other captures and the enumeration of devices do.          *)
FirstImplementsContract == Contract!ContractSpec
=============================================================================
