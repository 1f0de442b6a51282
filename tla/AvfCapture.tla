----------------------------- MODULE AvfCapture -----------------------------
(***************************************************************************)
(* A VideoCapture on the AVFoundation backend: FfiCaptureImpl (module      *)
(* FfiCapture) over the C session of src/video_avf.m.                      *)
(*                                                                         *)
(* AVFoundation enqueues one block per sample on the serial queue of the   *)
(* session as long as it runs and a delegate is attached; the block runs   *)
(* captureOutput, which calls frame_callback.  dispatch_sync waits for the *)
(* blocks that are ahead of it.  The capture session may stop by itself    *)
(* (camera unplugged, taken by another application) when Interruptible.    *)
(*                                                                         *)
(* The frame carries a retained CVPixelBuffer, of which the user may keep  *)
(* copies (VideoFrame::to_owned, PixelBuffer::clone) beyond the callback   *)
(* and beyond the life of the VideoCapture.                                *)
(***************************************************************************)
EXTENDS Integers, FfiCapture

CONSTANTS
  Interruptible,  \* the capture session may stop by itself
  MaxPending,     \* the most samples waiting on the queue
  MaxKept         \* the most pixel buffers the user keeps

ASSUME AvfAssumption ==
  /\ Interruptible \in BOOLEAN
  /\ MaxPending \in Nat \ {0}
  /\ MaxKept \in Nat

VARIABLES
  cpc,       \* where the caller is inside the C session functions
  session,   \* the VideoSession is allocated
  auth,      \* the camera permission of the process
  attached,  \* the delegate is attached to the output
  userData,  \* the delegate holds the callback and the CaptureContext
  running,   \* AVCaptureSession.running
  interrupted,  \* history: the session has stopped, or did not run, by itself
  pending,   \* the blocks waiting on the queue
  ahead,     \* the blocks the waiting dispatch_sync is behind
  qpc,       \* where the queue's thread is inside captureOutput
  locked,    \* the pixel buffer's base address is locked
  uvBuffer,  \* the temporary U and V buffer of an I420 frame is allocated
  retains,   \* the CFRetains of pixel buffers not yet released
  kept       \* the pixel buffers the user keeps

avf    == <<auth, running, interrupted>>
caller == <<cpc, session, attached, userData>>
queue  == <<pending, ahead, qpc, locked, uvBuffer>>
vars == <<rustVars, caller, avf, queue, retains, kept>>

CreatePcs  == {"authorize", "prompt", "device", "configure"}
StartPcs   == {"attach", "startRunning", "startTest"}
StopPcs    == {"detach", "sync", "drain", "stopRunning"}
DestroyPcs == {"destroyTest", "free"}
QueuePcs   == {"idle", "entry", "convert", "retain", "callback", "returned",
               "unlock"}

TypeOK ==
  /\ RustTypeOK
  /\ cpc \in {"none"} \cup CreatePcs \cup StartPcs \cup StopPcs \cup DestroyPcs
  /\ auth \in {"undetermined", "authorized", "denied"}
  /\ session \in BOOLEAN /\ attached \in BOOLEAN /\ userData \in BOOLEAN
  /\ running \in BOOLEAN /\ interrupted \in BOOLEAN
  /\ pending \in 0 .. MaxPending /\ ahead \in 0 .. MaxPending + 1
  /\ qpc \in QueuePcs
  /\ locked \in BOOLEAN /\ uvBuffer \in BOOLEAN
  /\ retains \in 0 .. MaxKept + 1 /\ kept \in 0 .. MaxKept

Init ==
  /\ RustInit
  /\ cpc = "none" /\ session = FALSE
  /\ auth \in {"undetermined", "authorized", "denied"}
  /\ attached = FALSE /\ userData = FALSE /\ running = FALSE
  /\ interrupted = FALSE
  /\ pending = 0 /\ ahead = 0 /\ qpc = "idle"
  /\ locked = FALSE /\ uvBuffer = FALSE
  /\ retains = 0 /\ kept = 0

-----------------------------------------------------------------------------
(***************************************************************************)
(* video_avf_session_create.                                               *)
(***************************************************************************)
CreateFails == cpc' = "none" /\ RsNewReturns(FALSE)

(* The queue of an earlier VideoCapture is empty by now. *)
EnterCreate ==
  /\ pending = 0 /\ qpc = "idle"
  /\ RsNew
  /\ cpc' = "authorize"
  /\ interrupted' = FALSE
  /\ UNCHANGED <<session, attached, userData, auth, running, queue, retains,
                 kept>>

(* Without permission there would be no frames, so create fails; a         *)
(* permission not yet decided is asked for, and create waits on a          *)
(* semaphore for the answer, for ever.                                     *)
Authorize ==
  /\ cpc = "authorize"
  /\ \/ auth = "denied" /\ CreateFails
     \/ auth = "undetermined" /\ cpc' = "prompt" /\ UNCHANGED rustVars
     \/ auth = "authorized" /\ cpc' = "device" /\ UNCHANGED rustVars
  /\ UNCHANGED <<session, attached, userData, avf, queue, retains, kept>>

Answered ==
  /\ cpc = "prompt"
  /\ auth # "undetermined"
  /\ IF auth = "authorized"
       THEN cpc' = "device" /\ UNCHANGED rustVars
       ELSE CreateFails
  /\ UNCHANGED <<session, attached, userData, avf, queue, retains, kept>>

(* The device is looked up and the VideoSession allocated. *)
FindDevice ==
  /\ cpc = "device"
  /\ \/ session' = TRUE /\ cpc' = "configure" /\ UNCHANGED rustVars
     \/ CreateFails /\ UNCHANGED session
  /\ UNCHANGED <<attached, userData, avf, queue, retains, kept>>

(* The input, the output or its pixel format is refused.  What is not the  *)
(* VideoSession is released by ARC.                                        *)
ConfigureFails ==
  /\ cpc = "configure"
  /\ session' = FALSE
  /\ CreateFails
  /\ UNCHANGED <<attached, userData, avf, queue, retains, kept>>

(* The resolution, the frame rate, a delegate without callback, the queue. *)
Configure ==
  /\ cpc = "configure"
  /\ userData' = FALSE
  /\ cpc' = "none" /\ RsNewReturns(TRUE)
  /\ UNCHANGED <<session, attached, avf, queue, retains, kept>>

-----------------------------------------------------------------------------
(***************************************************************************)
(* video_avf_session_start.                                                *)
(***************************************************************************)
EnterStart ==
  /\ RsStart
  /\ cpc' = "attach"
  /\ UNCHANGED <<session, attached, userData, avf, queue, retains, kept>>

(* The callback first, then setSampleBufferDelegate. *)
Attach ==
  /\ cpc = "attach"
  /\ userData' = TRUE
  /\ attached' = TRUE
  /\ cpc' = "startRunning"
  /\ UNCHANGED <<rustVars, session, avf, queue, retains, kept>>

StartRunning ==
  /\ cpc = "startRunning"
  /\ \/ running' = TRUE /\ UNCHANGED interrupted
     \/ Interruptible /\ interrupted' = TRUE /\ UNCHANGED running
  /\ cpc' = "startTest"
  /\ UNCHANGED <<rustVars, session, attached, userData, auth, queue, retains,
                 kept>>

(* A session that is not running by now is reported as -2.  The delegate   *)
(* stays attached, the blocks already enqueued will run.                   *)
StartTest ==
  /\ cpc = "startTest"
  /\ cpc' = "none"
  /\ RsStartReturns(running)
  /\ UNCHANGED <<session, attached, userData, avf, queue, retains, kept>>

-----------------------------------------------------------------------------
(***************************************************************************)
(* video_avf_session_stop.                                                 *)
(***************************************************************************)
EnterStop ==
  /\ RsStop
  /\ cpc' = "detach"
  /\ UNCHANGED <<session, attached, userData, avf, queue, retains, kept>>

BadDetach ==
  /\ cpc = "detach"
  /\ cpc' = "sync"
  /\ UNCHANGED <<rustVars, session, attached, userData, avf, queue, retains,
                 kept>>

Detach ==
  /\ cpc = "detach"
  /\ attached' = FALSE
  /\ cpc' = "sync"
  /\ UNCHANGED <<rustVars, session, userData, avf, queue, retains, kept>>

BadDispatchSync ==
  /\ cpc = "sync"
  /\ ahead' = 0
  /\ cpc' = "drain"
  /\ UNCHANGED <<rustVars, session, attached, userData, avf, pending, qpc,
                 locked, uvBuffer, retains, kept>>

(* The empty block goes behind the blocks that wait and the one that runs. *)
DispatchSync ==
  /\ cpc = "sync"
  /\ ahead' = pending + (IF qpc = "idle" THEN 0 ELSE 1)
  /\ cpc' = "drain"
  /\ UNCHANGED <<rustVars, session, attached, userData, avf, pending, qpc,
                 locked, uvBuffer, retains, kept>>

Drained ==
  /\ cpc = "drain"
  /\ ahead = 0
  /\ cpc' = "stopRunning"
  /\ UNCHANGED <<rustVars, session, attached, userData, avf, queue, retains,
                 kept>>

StopRunning ==
  /\ cpc = "stopRunning"
  /\ running' = FALSE
  /\ cpc' = IF api = "stopping" THEN "none" ELSE "destroyTest"
  /\ RsStopReturns
  /\ UNCHANGED <<session, attached, userData, auth, interrupted, queue,
                 retains, kept>>

-----------------------------------------------------------------------------
(***************************************************************************)
(* Drop and video_avf_session_destroy, which neither detaches the delegate *)
(* nor waits for the queue: a stop before it has done so.                  *)
(***************************************************************************)
EnterDrop ==
  /\ RsDrop
  /\ cpc' = IF rsRunning THEN "detach" ELSE "destroyTest"
  /\ UNCHANGED <<session, attached, userData, avf, queue, retains, kept>>

DestroyTest ==
  /\ cpc = "destroyTest"
  /\ running' = FALSE
  /\ cpc' = "free"
  /\ UNCHANGED <<rustVars, session, attached, userData, auth, interrupted,
                 queue, retains, kept>>

(* The output is removed from the session and ARC releases the objects.    *)
(* Rust frees the context after session_destroy has returned.              *)
Free ==
  /\ cpc = "free"
  /\ attached' = FALSE
  /\ session' = FALSE
  /\ cpc' = "none" /\ RsDropReturns
  /\ UNCHANGED <<userData, avf, queue, retains, kept>>

-----------------------------------------------------------------------------
(***************************************************************************)
(* AVFoundation, the queue and captureOutput.                              *)
(***************************************************************************)
SampleArrives ==
  /\ running /\ attached
  /\ pending < MaxPending
  /\ pending' = pending + 1
  /\ UNCHANGED <<rustVars, caller, avf, ahead, qpc, locked, uvBuffer,
                 retains, kept>>

(* The session stops by itself. *)
Interrupted ==
  /\ Interruptible /\ running
  /\ running' = FALSE
  /\ interrupted' = TRUE
  /\ UNCHANGED <<rustVars, caller, auth, queue, retains, kept>>

UserAnswers ==
  /\ cpc = "prompt" /\ auth = "undetermined"
  /\ auth' \in {"authorized", "denied"}
  /\ UNCHANGED <<rustVars, caller, running, interrupted, queue, retains, kept>>

QueueGoes(from, to) ==
  /\ qpc = from
  /\ qpc' = to
  /\ UNCHANGED <<rustVars, caller, avf, kept>>

(* The empty block of a dispatch_sync runs when it is next. *)
BlockBegins ==
  /\ pending > 0
  /\ ~(cpc = "drain" /\ ahead = 0)
  /\ QueueGoes("idle", "entry")
  /\ pending' = pending - 1
  /\ UNCHANGED <<ahead, locked, uvBuffer, retains>>

Behind == IF ahead = 0 THEN 0 ELSE ahead - 1

(* No callback on the delegate, or no image in the sample. *)
BlockIgnored ==
  /\ QueueGoes("entry", "idle")
  /\ ahead' = Behind
  /\ UNCHANGED <<pending, locked, uvBuffer, retains>>

LockBaseAddress ==
  /\ userData
  /\ QueueGoes("entry", "convert")
  /\ locked' = TRUE
  /\ UNCHANGED <<pending, ahead, uvBuffer, retains>>

(* NV12 and YUY2 are passed as they are; the U and V planes of I420 are    *)
(* copied into a calloc'ed buffer.                                         *)
Convert ==
  /\ QueueGoes("convert", "retain")
  /\ uvBuffer' \in BOOLEAN
  /\ UNCHANGED <<pending, ahead, locked, retains>>

BadConvertFails ==
  /\ QueueGoes("convert", "idle")
  /\ ahead' = Behind
  /\ UNCHANGED <<pending, locked, uvBuffer, retains>>

(* An unknown pixel format, or calloc failed. *)
ConvertFails ==
  /\ QueueGoes("convert", "unlock")
  /\ UNCHANGED <<pending, ahead, locked, uvBuffer, retains>>

BadRetain ==
  /\ QueueGoes("retain", "callback")
  /\ UNCHANGED <<pending, ahead, locked, uvBuffer, retains>>

Retain ==
  /\ QueueGoes("retain", "callback")
  /\ retains' = retains + 1
  /\ UNCHANGED <<pending, ahead, locked, uvBuffer>>

(* The user copies the frame, or only its PixelBuffer. *)
KeepFrame ==
  /\ qpc = "callback"
  /\ kept < MaxKept
  /\ kept' = kept + 1
  /\ retains' = retains + 1
  /\ UNCHANGED <<rustVars, caller, avf, queue>>

(* The user drops a copy, from any thread. *)
DropFrame ==
  /\ kept > 0
  /\ kept' = kept - 1
  /\ retains' = retains - 1
  /\ UNCHANGED <<rustVars, caller, avf, queue>>

BadCallbackReturns ==
  /\ QueueGoes("callback", "returned")
  /\ UNCHANGED <<pending, ahead, locked, uvBuffer, retains>>

(* frame_callback owns the reference it was given, whether it calls the    *)
(* user or ignores the frame, and releases it on return.                   *)
CallbackReturns ==
  /\ QueueGoes("callback", "returned")
  /\ retains' = retains - 1
  /\ UNCHANGED <<pending, ahead, locked, uvBuffer>>

FreeUvBuffer ==
  /\ QueueGoes("returned", "unlock")
  /\ uvBuffer' = FALSE
  /\ UNCHANGED <<pending, ahead, locked, retains>>

UnlockBaseAddress ==
  /\ QueueGoes("unlock", "idle")
  /\ locked' = FALSE
  /\ ahead' = Behind
  /\ UNCHANGED <<pending, uvBuffer, retains>>

-----------------------------------------------------------------------------
UserCalls == EnterCreate \/ EnterStart \/ EnterStop \/ EnterDrop

CallSteps ==
  \/ Authorize \/ Answered \/ FindDevice \/ ConfigureFails \/ Configure
  \/ Attach \/ StartRunning \/ StartTest
  \/ Detach \/ DispatchSync \/ Drained \/ StopRunning
  \/ DestroyTest \/ Free

QueueSteps ==
  \/ BlockBegins \/ BlockIgnored \/ LockBaseAddress \/ Convert \/ ConvertFails
  \/ Retain \/ CallbackReturns \/ FreeUvBuffer \/ UnlockBaseAddress

Environment ==
  SampleArrives \/ Interrupted \/ UserAnswers \/ KeepFrame \/ DropFrame

Next == UserCalls \/ CallSteps \/ QueueSteps \/ Environment

Spec == Init /\ [][Next]_vars

(* Threads that can run do, user callbacks return, and so do the calls of  *)
(* AVFoundation.  Samples need not arrive, the user need not answer.       *)
FairSpec == Spec /\ WF_vars(CallSteps) /\ WF_vars(QueueSteps)

(* The user does answer the permission prompt. *)
AnsweringSpec == FairSpec /\ WF_vars(UserAnswers)

-----------------------------------------------------------------------------
(***************************************************************************)
(* Safety.                                                                 *)
(***************************************************************************)

(* The user's callback reads planes whose base address is locked, of a     *)
(* pixel buffer retained for it.  Every CFRetain is released: through      *)
(* every early return the references are the copies the user keeps and the *)
(* one of the frame in the callback, and none outlives its owner.          *)
FrameMemoryIsHeld ==
  /\ qpc = "callback" => locked
  /\ retains = kept + (IF qpc = "callback" THEN 1 ELSE 0)

(* stop returns only when the queue is drained, and nothing can be put on  *)
(* it any more: no callback runs after stop, also when the session had     *)
(* stopped by itself in between.                                           *)
StopDrains ==
  [][api' # api /\ api \in {"stopping", "dropStopping"}
       => pending = 0 /\ qpc = "idle" /\ ~attached]_vars

(* A frame leaves nothing locked or allocated behind, a failed new and a   *)
(* drop no session, context or running camera.                             *)
NothingLeaks ==
  /\ qpc \in {"idle", "entry"} => ~locked /\ ~uvBuffer
  /\ api = "absent" => ~session /\ ~context /\ ~running

(* The CaptureContext that the delegate points to lives as long as blocks  *)
(* are on the queue that will call frame_callback with it (frame_callback  *)
(* relies on it: "valid during the lifetime of FfiCaptureImpl").           *)
UserDataIsAlive == qpc = "callback" => context

-----------------------------------------------------------------------------
(***************************************************************************)
(* The documented life cycle.                                              *)
(***************************************************************************)
Contract == INSTANCE CaptureContract
              WITH phase <- ContractPhase,
                   inCallback <- (qpc = "callback"),
                   faulted <- FALSE

(* As long as the capture session of a VideoCapture has not stopped by     *)
(* itself, every step of the backend is a step the documented life cycle   *)
(* allows and every call returns as promised.                              *)
UninterruptedContract ==
  /\ Contract!ContractInit
  /\ [][interrupted' \/ Contract!ContractNext]_(Contract!contractVars)
  /\ []<>interrupted \/ Contract!ContractFairness

(* An interrupted session ends as promised too: stop and drop return,      *)
(* although samples may keep arriving meanwhile.                           *)
StopReturns ==
  api \in {"stopping", "dropStopping", "destroying"} ~> api \in {"idle", "absent"}

(* Both: the life cycle as far as an interruption leaves it intact.        *)
ImplementsContract == UninterruptedContract /\ StopReturns
=============================================================================
