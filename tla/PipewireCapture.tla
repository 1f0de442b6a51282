--------------------------- MODULE PipewireCapture ---------------------------
(***************************************************************************)
(* A VideoCapture on the PipeWire backend: FfiCaptureImpl (module          *)
(* FfiCapture) over the C session of src/video_pipewire.c and the PipeWire *)
(* thread loop, which runs every event handler of the session under the    *)
(* loop's lock.                                                            *)
(*                                                                         *)
(* The stream is connected without PW_STREAM_FLAG_RT_PROCESS, so PipeWire  *)
(* calls on_process from the thread loop as well.  The caller takes the    *)
(* same lock; pw_thread_loop_wait releases it until a handler signals.     *)
(*                                                                         *)
(* Every start makes a new core and a new stream; the n-th of a session    *)
(* are called n, and 0 is NULL.                                            *)
(***************************************************************************)
EXTENDS Integers, FfiCapture

CONSTANT MaxStarts  \* bound: calls of start per session

ASSUME MaxStartsAssumption == MaxStarts \in Nat \ {0}

VARIABLES
  cpc,     \* where the caller is inside the C session functions
  lock,    \* who holds the lock of the thread loop
  loop,    \* where the thread of the loop is
  woken,   \* the caller in pw_thread_loop_wait has been signalled
  ses,     \* the VideoSession
  pw,      \* PipeWire's objects
  starts,  \* calls of start so far, numbers the cores and streams
  cause    \* something has gone wrong in the start in progress (history)

vars == <<rustVars, cpc, lock, loop, woken, ses, pw, starts, cause>>

CreatePcs  == {"alloc", "newLoop", "newContext"}
StartPcs   == {"startTest", "loopStart", "startLock", "connectCore", "newStream",
               "connectStream", "check", "wait", "startUnlock", "loopStop"}
StopPcs    == {"stopTest", "stopLock", "disconnect", "loopStop"}
DestroyPcs == {"destroyTest", "freeStream", "freeCore", "freeContext"}

(***************************************************************************)
(* off      the thread of the loop has not been started, or was joined     *)
(* poll     it waits for events                                            *)
(* process  in on_process, before its tests                                *)
(* frame    in on_process with a dequeued buffer                           *)
(* callback in the user callback                                           *)
(* requeue  about to queue the buffer again                                *)
(***************************************************************************)
LoopPcs == {"off", "poll", "process", "frame", "callback", "requeue"}

(***************************************************************************)
(* The formats a stream may get: the one asked for, another one of the     *)
(* offer (YUY2 and I420 are always in it), or one that on_param_changed    *)
(* cannot convert and records as 0.                                        *)
(***************************************************************************)
Parsed == {"asked", "other", "unknown"}

Session ==
  [inited      : BOOLEAN,          \* pw_init without pw_deinit
   threadLoop  : BOOLEAN,
   pwContext   : BOOLEAN,
   running     : BOOLEAN,
   format      : {"none"} \cup Parsed,   \* negotiated_*; format_ready unless none
   streamError : BOOLEAN,
   core        : 0 .. MaxStarts,
   stream      : 0 .. MaxStarts]

Pipewire ==
  [cores   : SUBSET (1 .. MaxStarts),   \* connected cores
   streams : SUBSET (1 .. MaxStarts),   \* streams not destroyed
   state   : {"none", "connecting", "paused", "streaming", "error", "unconnected"},
   format  : {"none", "notRaw"} \cup Parsed,  \* of the current stream
   held    : 0 .. 1]                    \* buffers dequeued and not queued again

NoSession ==
  [inited |-> FALSE, threadLoop |-> FALSE, pwContext |-> FALSE, running |-> FALSE,
   format |-> "none", streamError |-> FALSE, core |-> 0, stream |-> 0]

TypeOK ==
  /\ RustTypeOK
  /\ cpc \in {"none"} \cup CreatePcs \cup StartPcs \cup StopPcs \cup DestroyPcs
  /\ lock \in {"free", "caller", "loop"}
  /\ loop \in LoopPcs
  /\ woken \in BOOLEAN
  /\ ses \in Session /\ pw \in Pipewire
  /\ starts \in 0 .. MaxStarts
  /\ cause \in BOOLEAN

Init ==
  /\ RustInit
  /\ cpc = "none" /\ lock = "free" /\ loop = "off" /\ woken = FALSE
  /\ ses = NoSession
  /\ pw = [cores |-> {}, streams |-> {}, state |-> "none", format |-> "none",
           held |-> 0]
  /\ starts = 0 /\ cause = FALSE

Goes(from, to) == cpc = from /\ cpc' = to

-----------------------------------------------------------------------------
(***************************************************************************)
(* video_pipewire_session_create.                                          *)
(***************************************************************************)
EnterCreate ==
  /\ RsNew
  /\ Goes("none", "alloc")
  /\ UNCHANGED <<lock, loop, woken, ses, pw, starts, cause>>

CreateFails(from) ==
  /\ Goes(from, "none")
  /\ ses' = NoSession
  /\ RsNewReturns(FALSE)

(* pw_init, and the format: an unknown one is refused. *)
Alloc ==
  /\ \/ Goes("alloc", "newLoop") /\ ses' = [NoSession EXCEPT !.inited = TRUE]
        /\ UNCHANGED rustVars
     \/ CreateFails("alloc")
  /\ starts' = 0
  /\ UNCHANGED <<lock, loop, woken, pw, cause>>

NewLoop ==
  /\ \/ Goes("newLoop", "newContext") /\ ses' = [ses EXCEPT !.threadLoop = TRUE]
        /\ UNCHANGED rustVars
     \/ CreateFails("newLoop")
  /\ UNCHANGED <<lock, loop, woken, pw, starts, cause>>

NewContext ==
  /\ \/ Goes("newContext", "none") /\ ses' = [ses EXCEPT !.pwContext = TRUE]
        /\ RsNewReturns(TRUE)
     \/ CreateFails("newContext")
  /\ UNCHANGED <<lock, loop, woken, pw, starts, cause>>

-----------------------------------------------------------------------------
(***************************************************************************)
(* video_pipewire_session_start.                                           *)
(***************************************************************************)
EnterStart ==
  /\ starts < MaxStarts
  /\ RsStart
  /\ Goes("none", "startTest")
  /\ starts' = starts + 1
  /\ cause' = FALSE
  /\ UNCHANGED <<lock, loop, woken, ses, pw>>

StartTest ==
  /\ cpc = "startTest"
  /\ IF ses.running
       THEN cpc' = "none" /\ RsStartReturns(TRUE)
       ELSE cpc' = "loopStart" /\ UNCHANGED rustVars
  /\ UNCHANGED <<lock, loop, woken, ses, pw, starts, cause>>

(* pw_thread_loop_start, or its failure. *)
LoopStart ==
  /\ \/ Goes("loopStart", "startLock") /\ loop' = "poll" /\ UNCHANGED rustVars
     \/ Goes("loopStart", "none") /\ RsStartReturns(FALSE) /\ UNCHANGED loop
  /\ UNCHANGED <<lock, woken, ses, pw, starts, cause>>

StartLock ==
  /\ Goes("startLock", "connectCore")
  /\ lock = "free" /\ lock' = "caller"
  /\ UNCHANGED <<rustVars, loop, woken, ses, pw, starts, cause>>

(* The core of an earlier start is overwritten, never disconnected. *)
ConnectCore ==
  /\ \/ /\ Goes("connectCore", "newStream")
        /\ ses' = [ses EXCEPT !.core = starts]
        /\ pw' = [pw EXCEPT !.cores = @ \cup {starts}]
        /\ UNCHANGED cause
     \/ /\ Goes("connectCore", "startUnlock")
        /\ ses' = [ses EXCEPT !.core = 0]
        /\ cause' = TRUE
        /\ UNCHANGED pw
  /\ UNCHANGED <<rustVars, lock, loop, woken, starts>>

(* Disconnecting a core destroys the streams made on it. *)
Disconnect(c) == [pw EXCEPT !.cores = @ \ {c}, !.streams = @ \ {c}]

(* pw_properties_new and pw_stream_new; when the first fails the old       *)
(* stream pointer stays.                                                   *)
NewStream ==
  /\ \/ /\ Goes("newStream", "connectStream")
        /\ ses' = [ses EXCEPT !.stream = starts]
        /\ pw' = [pw EXCEPT !.streams = @ \cup {starts},
                          !.state = "unconnected", !.format = "none"]
        /\ UNCHANGED cause
     \/ /\ Goes("newStream", "startUnlock")
        /\ \/ ses' = [ses EXCEPT !.core = 0]
           \/ ses' = [ses EXCEPT !.core = 0, !.stream = 0]
        /\ pw' = Disconnect(ses.core)
        /\ cause' = TRUE
  /\ UNCHANGED <<rustVars, lock, loop, woken, starts>>

BadStartUndo ==
  /\ ses' = [ses EXCEPT !.core = 0]
  /\ pw' = Disconnect(ses.core)

StartUndo ==
  /\ ses' = [ses EXCEPT !.core = 0, !.stream = 0]
  /\ pw' = Disconnect(ses.core)

ConnectStream ==
  /\ \/ /\ Goes("connectStream", "check")
        /\ pw' = [pw EXCEPT !.state = "connecting"]
        /\ UNCHANGED <<ses, cause>>
     \/ /\ Goes("connectStream", "startUnlock")
        /\ StartUndo
        /\ cause' = TRUE
  /\ UNCHANGED <<rustVars, lock, loop, woken, starts>>

(* The loop that waits for the stream, one test of its state. *)
Check ==
  /\ cpc = "check"
  /\ \/ /\ pw.state = "streaming"
        /\ cpc' = "startUnlock"
        /\ ses' = [ses EXCEPT !.running = TRUE]
        /\ UNCHANGED <<pw, lock>>
     \/ /\ pw.state # "streaming"
        /\ pw.state \in {"error", "unconnected"} \/ ses.streamError
        /\ cpc' = "startUnlock"
        /\ StartUndo
        /\ UNCHANGED lock
     \/ /\ pw.state \in {"connecting", "paused"} /\ ~ses.streamError
        /\ cpc' = "wait"
        /\ lock' = "free"
        /\ UNCHANGED <<ses, pw>>
  /\ woken' = FALSE
  /\ UNCHANGED <<rustVars, loop, starts, cause>>

(* pw_thread_loop_wait returns with the lock taken again. *)
Wakes ==
  /\ Goes("wait", "check")
  /\ woken /\ lock = "free" /\ lock' = "caller"
  /\ UNCHANGED <<rustVars, loop, woken, ses, pw, starts, cause>>

StartUnlock ==
  /\ cpc = "startUnlock"
  /\ lock' = "free"
  /\ IF ses.running
       THEN cpc' = "none" /\ RsStartReturns(TRUE)
       ELSE cpc' = "loopStop" /\ UNCHANGED rustVars
  /\ UNCHANGED <<loop, woken, ses, pw, starts, cause>>

-----------------------------------------------------------------------------
(***************************************************************************)
(* video_pipewire_session_stop, called by stop, by Drop, or by             *)
(* video_pipewire_session_destroy; and pw_thread_loop_stop, which ends     *)
(* a failed start too.                                                     *)
(***************************************************************************)
LoopStopLeaves ==
  \/ api = "starting" /\ cpc' = "none" /\ RsStartReturns(FALSE)
  \/ api = "stopping" /\ cpc' = "none" /\ RsStopReturns
  \/ api = "dropStopping" /\ cpc' = "destroyTest" /\ RsStopReturns
  \/ api = "destroying" /\ cpc' = "freeStream" /\ UNCHANGED rustVars

EnterStop ==
  /\ RsStop
  /\ Goes("none", "stopTest")
  /\ UNCHANGED <<lock, loop, woken, ses, pw, starts, cause>>

BadStopTest ==
  /\ cpc = "stopTest"
  /\ IF ses.running
       THEN cpc' = "stopLock" /\ UNCHANGED rustVars
       ELSE LoopStopLeaves
  /\ UNCHANGED <<lock, loop, woken, ses, pw, starts, cause>>

FlagOnlyStop ==
  /\ cpc = "stopTest"
  /\ ses' = [ses EXCEPT !.running = FALSE]
  /\ LoopStopLeaves
  /\ UNCHANGED <<lock, loop, woken, pw, starts, cause>>

StopTest ==
  /\ cpc = "stopTest"
  /\ IF ses.running
       THEN cpc' = "stopLock" /\ UNCHANGED rustVars
       ELSE LoopStopLeaves
  /\ ses' = [ses EXCEPT !.running = FALSE]
  /\ UNCHANGED <<lock, loop, woken, pw, starts, cause>>

BadStopLock ==
  /\ Goes("stopLock", "disconnect")
  /\ lock' = "caller"
  /\ UNCHANGED <<rustVars, loop, woken, ses, pw, starts, cause>>

StopWhenIdle ==
  /\ Goes("stopLock", "disconnect")
  /\ pw.state # "streaming"
  /\ lock = "free" /\ lock' = "caller"
  /\ UNCHANGED <<rustVars, loop, woken, ses, pw, starts, cause>>

StopLock ==
  /\ Goes("stopLock", "disconnect")
  /\ lock = "free" /\ lock' = "caller"
  /\ UNCHANGED <<rustVars, loop, woken, ses, pw, starts, cause>>

(* The stream is disconnected but kept, and so is the core; stream_error    *)
(* and format_ready keep their values.                                      *)
StopDisconnect ==
  /\ Goes("disconnect", "loopStop")
  /\ pw' = [pw EXCEPT !.state = "unconnected"]
  /\ lock' = "free"
  /\ UNCHANGED <<rustVars, loop, woken, ses, starts, cause>>

(* The thread of the loop ends between two events, for which it needs its  *)
(* lock: stopping the loop with the lock taken would never return.         *)
LoopStop ==
  /\ cpc = "loopStop"
  /\ loop = "poll" /\ lock = "free"
  /\ loop' = "off"
  /\ LoopStopLeaves
  /\ UNCHANGED <<lock, woken, ses, pw, starts, cause>>

-----------------------------------------------------------------------------
(***************************************************************************)
(* Drop and video_pipewire_session_destroy.                                *)
(***************************************************************************)
EnterDrop ==
  /\ RsDrop
  /\ Goes("none", IF rsRunning THEN "stopTest" ELSE "destroyTest")
  /\ UNCHANGED <<lock, loop, woken, ses, pw, starts, cause>>

DestroyTest ==
  /\ Goes("destroyTest", IF ses.running THEN "stopTest" ELSE "freeStream")
  /\ UNCHANGED <<rustVars, lock, loop, woken, ses, pw, starts, cause>>

FreeStream ==
  /\ Goes("freeStream", "freeCore")
  /\ ses' = [ses EXCEPT !.stream = 0]
  /\ pw' = [pw EXCEPT !.streams = @ \ {ses.stream}]
  /\ UNCHANGED <<rustVars, lock, loop, woken, starts, cause>>

FreeCore ==
  /\ Goes("freeCore", "freeContext")
  /\ ses' = [ses EXCEPT !.core = 0]
  /\ pw' = Disconnect(ses.core)
  /\ UNCHANGED <<rustVars, lock, loop, woken, starts, cause>>

BadFreeContext ==
  /\ Goes("freeContext", "none")
  /\ ses' = NoSession
  /\ RsDropReturns
  /\ UNCHANGED <<lock, loop, woken, pw, starts, cause>>

(* pw_context_destroy disconnects whatever cores are left on the context;   *)
(* then the loop, pw_deinit, the session, and Rust's callback context.      *)
FreeContext ==
  /\ Goes("freeContext", "none")
  /\ ses' = NoSession
  /\ pw' = [pw EXCEPT !.cores = {}, !.streams = {}, !.state = "none"]
  /\ RsDropReturns
  /\ UNCHANGED <<lock, loop, woken, starts, cause>>

-----------------------------------------------------------------------------
(***************************************************************************)
(* Event handlers on the thread of the loop.  A handler other than         *)
(* on_process is short and modelled as one step that finds the lock free.  *)
(***************************************************************************)
CanDispatch == loop = "poll" /\ lock = "free"

Event(state) ==
  /\ CanDispatch
  /\ ses.stream # 0
  /\ pw' = [pw EXCEPT !.state = state]
  /\ UNCHANGED <<rustVars, cpc, lock, loop, starts>>

BadFormatIs(state, f) ==
  /\ CanDispatch
  /\ ses.stream # 0
  /\ pw' = [pw EXCEPT !.state = state, !.format = f]
  /\ ses' = IF f = "notRaw" \/ ses.format # "none" THEN ses
              ELSE [ses EXCEPT !.format = f]
  /\ UNCHANGED <<rustVars, cpc, lock, loop, woken, starts, cause>>

(* on_param_changed: a format that it cannot parse, or that is not raw     *)
(* video, is ignored, and the session keeps the one of an earlier stream.  *)
FormatIs(state, f) ==
  /\ CanDispatch
  /\ ses.stream # 0
  /\ pw' = [pw EXCEPT !.state = state, !.format = f]
  /\ ses' = IF f = "notRaw" THEN ses ELSE [ses EXCEPT !.format = f]
  /\ UNCHANGED <<rustVars, cpc, lock, loop, woken, starts, cause>>

FormatNegotiated ==
  /\ pw.state = "connecting"
  /\ \E f \in Parsed \cup {"notRaw"} : FormatIs("paused", f)

(* The daemon changes the format of a stream that has one. *)
Renegotiated ==
  /\ pw.state \in {"paused", "streaming"}
  /\ \E f \in Parsed \cup {"notRaw"} : FormatIs(pw.state, f)

(* on_stream_state_changed: streaming, error and unconnected are signalled, *)
(* an error is also recorded.                                               *)
StreamStarts ==
  /\ pw.state = "paused"
  /\ Event("streaming")
  /\ woken' = (cpc = "wait")
  /\ UNCHANGED <<ses, cause>>

StreamFails ==
  /\ pw.state \in {"connecting", "paused", "streaming"}
  /\ \/ Event("error") /\ ses' = [ses EXCEPT !.streamError = TRUE]
     \/ Event("unconnected") /\ UNCHANGED ses
  /\ woken' = (cpc = "wait")
  /\ cause' = TRUE

(* session_core_done and session_core_error only signal. *)
CoreEvent ==
  /\ CanDispatch
  /\ ses.core # 0
  /\ cpc = "wait" /\ woken' = TRUE
  /\ UNCHANGED <<rustVars, cpc, lock, loop, ses, pw, starts, cause>>

(***************************************************************************)
(* on_process, under the lock from its call to its return.                 *)
(***************************************************************************)
ProcessBegins ==
  /\ CanDispatch
  /\ pw.state = "streaming"
  /\ loop' = "process" /\ lock' = "loop"
  /\ UNCHANGED <<rustVars, cpc, woken, ses, pw, starts, cause>>

LoopGoes(from, to) ==
  /\ loop = from
  /\ loop' = to
  /\ UNCHANGED <<rustVars, cpc, woken, ses, starts, cause>>

(* Not running, no format yet, or no buffer: nothing is dequeued. *)
ProcessReturnsEarly ==
  /\ LoopGoes("process", "poll")
  /\ lock' = "free"
  /\ UNCHANGED pw

Dequeue ==
  /\ ses.running /\ ses.format # "none"
  /\ LoopGoes("process", "frame")
  /\ pw' = [pw EXCEPT !.held = @ + 1]
  /\ UNCHANGED lock

BadSkipFrame ==
  /\ LoopGoes("frame", "poll")
  /\ lock' = "free"
  /\ UNCHANGED pw

(* A frame without data, of an unknown format, or that does not fit its    *)
(* chunk, is queued again without being delivered.                         *)
SkipFrame == LoopGoes("frame", "requeue") /\ UNCHANGED <<pw, lock>>

DeliverFrame ==
  /\ ses.format \in {"asked", "other"}
  /\ LoopGoes("frame", "callback")
  /\ UNCHANGED <<pw, lock>>

CallbackReturns == LoopGoes("callback", "requeue") /\ UNCHANGED <<pw, lock>>

Requeue ==
  /\ LoopGoes("requeue", "poll")
  /\ pw' = [pw EXCEPT !.held = @ - 1]
  /\ lock' = "free"

-----------------------------------------------------------------------------
UserCalls == EnterCreate \/ EnterStart \/ EnterStop \/ EnterDrop

CallSteps ==
  \/ Alloc \/ NewLoop \/ NewContext
  \/ StartTest \/ LoopStart \/ StartLock \/ ConnectCore \/ NewStream
  \/ ConnectStream \/ Check \/ Wakes \/ StartUnlock
  \/ StopTest \/ StopLock \/ StopDisconnect \/ LoopStop
  \/ DestroyTest \/ FreeStream \/ FreeCore \/ FreeContext

HandlerSteps ==
  \/ ProcessReturnsEarly \/ Dequeue \/ SkipFrame \/ DeliverFrame
  \/ CallbackReturns \/ Requeue

Daemon ==
  \/ FormatNegotiated \/ Renegotiated \/ StreamStarts \/ StreamFails
  \/ CoreEvent \/ ProcessBegins

Next == UserCalls \/ CallSteps \/ HandlerSteps \/ Daemon

Spec == Init /\ [][Next]_vars

(***************************************************************************)
(* Threads run, user callbacks return, and a thread that waits for the     *)
(* lock of the loop gets it in the end (the loop gives it up before every  *)
(* poll).  Nothing is assumed of the daemon.                               *)
(***************************************************************************)
FairSpec ==
  /\ Spec
  /\ SF_vars(CallSteps)
  /\ WF_vars(HandlerSteps)

(* What start needs besides: the daemon negotiates and starts a connected  *)
(* stream or reports that it cannot.                                       *)
DaemonAnswers ==
  SF_vars(/\ pw.state \in {"connecting", "paused"}
          /\ FormatNegotiated \/ StreamStarts \/ StreamFails)

-----------------------------------------------------------------------------
(***************************************************************************)
(* Safety.                                                                 *)
(***************************************************************************)

(* The pointers the session keeps are to objects that still exist: a       *)
(* stream is not destroyed twice, nor used after its core has gone.        *)
PointersAreLive ==
  /\ ses.core # 0 => ses.core \in pw.cores
  /\ ses.stream # 0 => ses.stream \in pw.streams

(* While the user callback runs, its stream, its buffer and the callback   *)
(* context exist.  The caller creates and destroys PipeWire objects only   *)
(* while the loop's thread cannot be in a handler.                         *)
CallbackIsSafe ==
  /\ loop = "callback" =>
       /\ ses.stream \in pw.streams /\ pw.held = 1 /\ pw.state # "none"
       /\ context /\ lock = "loop"
  /\ cpc \in {"connectCore", "newStream", "connectStream", "check", "disconnect",
              "freeStream", "freeCore", "freeContext"} =>
       loop \in {"off", "poll"} /\ lock # "loop"

(* A frame is described to the user with the format its stream has now,    *)
(* although format_ready survives a stop and the daemon may renegotiate.   *)
(* The exception is a stream whose format the session did not understand:  *)
(* on_param_changed leaves the format of an earlier stream in place.       *)
FramesMatchFormat ==
  loop = "callback" =>
    /\ ses.format \in {"asked", "other"}
    /\ pw.format # "notRaw" => ses.format = pw.format

(* Between calls the two running flags agree, and they tell whether the    *)
(* thread of the loop exists: after stop, a failed start or drop it is     *)
(* gone, between a start and a stop it runs.                               *)
FlagsTellTheTruth ==
  /\ api = "idle" => rsRunning = ses.running /\ (rsRunning <=> loop # "off")
  /\ api = "absent" => loop = "off" /\ lock = "free"

(* on_process gives every buffer back on every path, and a failed new and  *)
(* a drop leave no PipeWire object and no pw_init behind.                  *)
NothingLeaks ==
  /\ loop \in {"off", "poll"} => pw.held = 0
  /\ api = "absent" =>
       ses = NoSession /\ pw.cores = {} /\ pw.streams = {} /\ ~context

(***************************************************************************)
(* Liveness.                                                               *)
(***************************************************************************)

(* stop and drop return whatever the daemon does, however many frames keep *)
(* coming.                                                                 *)
StopReturns ==
  api \in {"stopping", "dropStopping", "destroying"} ~> api \in {"idle", "absent"}

(* start returns when the daemon answers: the signal that the stream is    *)
(* streaming or has failed is never lost between the test and the wait.    *)
StartReturns == DaemonAnswers => (api = "starting" ~> api = "idle")

(* Both: no call is left hanging, start for a daemon that answers, which   *)
(* it waits for without a timeout, and the others whatever it does.        *)
CallsReturn == StopReturns /\ StartReturns

(***************************************************************************)
(* The PipeWire backend implements the documented life cycle.              *)
(***************************************************************************)
Contract == INSTANCE CaptureContract
              WITH phase <- ContractPhase,
                   inCallback <- (loop = "callback"),
                   faulted <- FALSE

(* Every step of the backend is one the documented life cycle allows: no   *)
(* callback runs outside start and stop, and stop waits for the last one.  *)
ImplementsContract == Contract!ContractSafety

(***************************************************************************)
(* A statement of the documentation that the code does not meet.           *)
(***************************************************************************)

(* capture.rs: a start after a stop is allowed.  So once the stream is     *)
(* connected a start gives up only if something has gone wrong since it    *)
(* was called, not because an earlier stream once had an error.            *)
StartFailsForACause ==
  cpc = "loopStop" /\ api = "starting" => cause
=============================================================================
