----------------------------- MODULE V4l2Capture -----------------------------
(***************************************************************************)
(* A VideoCapture on the V4L2 backend: FfiCaptureImpl (module FfiCapture)  *)
(* over the C session of src/video_v4l2.c, its capture thread, and the     *)
(* kernel driver's ring of memory-mapped buffers.                          *)
(*                                                                         *)
(* Four actors interleave: the thread that owns the VideoCapture and is    *)
(* inside at most one call (caller), the capture thread, the driver that   *)
(* fills queued buffers, and the device, which may start to fail at any    *)
(* moment (unplugged, I/O errors) and may recover.  While it fails any     *)
(* ioctl may fail; otherwise an ioctl fails only when V4L2 forbids it.     *)
(*                                                                         *)
(* Which frames are large enough to be delivered is the subject of module  *)
(* FramePlanes; here the check of a frame has two outcomes.                *)
(***************************************************************************)
EXTENDS Integers, FfiCapture

CONSTANT MaxBuffers  \* the most buffers VIDIOC_REQBUFS may grant

ASSUME MaxBuffersAssumption == MaxBuffers \in Nat /\ MaxBuffers >= 2

VARIABLES
  cpc,        \* where the caller is inside the C session functions
  fd,         \* the device node is open
  session,    \* the VideoSession is allocated
  count,      \* session->buffer_count
  mapped,     \* the buffers that are memory-mapped
  running,    \* session->running
  next,       \* the loop index of init_mmap and of session_start
  tpc,        \* where the capture thread is
  cur,        \* the buffer the capture thread has dequeued
  bufs,       \* the driver's view of every buffer
  streaming,  \* VIDIOC_STREAMON is in effect
  format,     \* the format and size the session keeps from VIDIOC_S_FMT
  driverFormat,  \* the format and size the driver captures in
  meddled,    \* another process has set driverFormat since (history)
  dev,        \* the health of the device
  failed      \* an ioctl or select of this session has failed (history)

caller == <<cpc, fd, session, count, mapped, running, next>>
thread == <<tpc, cur>>
driver == <<bufs, streaming>>
negotiated == <<format, driverFormat, meddled>>
vars == <<rustVars, caller, thread, driver, negotiated, dev, failed>>

Buffers == 0 .. MaxBuffers - 1
NoBuffer == MaxBuffers

(* Pixel formats, and frame sizes: the one new asked for or another one    *)
(* that the driver has put in its place.                                   *)
Formats == [pix : {"NV12", "YUYV"}, size : {"asked", "other"}]

FormatPcs  == {"setWanted", "setNv12", "setYuyv"}
CreatePcs  == {"open", "querycap", "alloc", "reqbufs", "map"} \cup FormatPcs
StartPcs   == {"startTest", "qbuf", "streamon", "spawn"}
StopPcs    == {"stopTest", "join", "streamoff"}
DestroyPcs == {"destroyTest", "unmap", "close"}
ThreadPcs  == {"none", "top", "select", "dqbuf", "check", "callback",
               "requeue", "exited"}

(* The capture thread exists and has not left its loop. *)
ThreadAlive == tpc \notin {"none", "exited"}

AllDequeued == [b \in Buffers |-> "dequeued"]

TypeOK ==
  /\ RustTypeOK
  /\ cpc \in {"none"} \cup CreatePcs \cup StartPcs \cup StopPcs \cup DestroyPcs
  /\ fd \in BOOLEAN /\ session \in BOOLEAN
  /\ count \in 0 .. MaxBuffers /\ next \in 0 .. MaxBuffers
  /\ mapped \in SUBSET Buffers
  /\ running \in BOOLEAN
  /\ tpc \in ThreadPcs
  /\ cur \in Buffers \cup {NoBuffer}
  /\ bufs \in [Buffers -> {"dequeued", "queued", "done"}]
  /\ streaming \in BOOLEAN
  /\ format \in Formats /\ driverFormat \in Formats
  /\ meddled \in BOOLEAN
  /\ dev \in {"ok", "failing"}
  /\ failed \in BOOLEAN

Init ==
  /\ RustInit
  /\ cpc = "none" /\ fd = FALSE /\ session = FALSE
  /\ count = 0 /\ mapped = {} /\ running = FALSE /\ next = 0
  /\ tpc = "none" /\ cur = NoBuffer
  /\ bufs = AllDequeued /\ streaming = FALSE
  /\ driverFormat \in Formats /\ format = driverFormat /\ meddled = FALSE
  /\ dev = "ok" /\ failed = FALSE

CanFail == dev = "failing"

-----------------------------------------------------------------------------
(***************************************************************************)
(* video_v4l2_session_create.  Every failure path undoes what it did.      *)
(***************************************************************************)
CreateFails == cpc' = "none" /\ RsNewReturns(FALSE)

EnterCreate ==
  /\ RsNew
  /\ cpc' = "open"
  /\ UNCHANGED <<fd, session, count, mapped, running, next, thread, driver,
                 negotiated, dev, failed>>

Open ==
  /\ cpc = "open"
  /\ fd' = TRUE
  /\ failed' = FALSE
  /\ cpc' = "querycap"
  /\ UNCHANGED <<rustVars, session, count, mapped, running, next, thread,
                 driver, negotiated, dev>>

OpenFails ==
  /\ cpc = "open"
  /\ CreateFails
  /\ UNCHANGED <<fd, session, count, mapped, running, next, thread, driver,
                 negotiated, dev, failed>>

(* A capture device that can stream: VIDIOC_S_FMT comes next, with the     *)
(* format the caller wants or, by default, with NV12 first.                *)
QueryCapabilities ==
  /\ cpc = "querycap"
  /\ cpc' \in {"setWanted", "setNv12"}
  /\ UNCHANGED <<rustVars, fd, session, count, mapped, running, next, thread,
                 driver, negotiated, dev, failed>>

(* The pixel formats that the pending VIDIOC_S_FMT may ask for. *)
Sought ==
  CASE cpc = "setNv12" -> {"NV12"}
    [] cpc = "setYuyv" -> {"YUYV"}
    [] OTHER           -> {f.pix : f \in Formats}

BadSetFormat ==
  /\ cpc \in FormatPcs
  /\ driverFormat' \in {f \in Formats : f.pix \in Sought}
  /\ format' = [driverFormat' EXCEPT !.size = "asked"]
  /\ meddled' = FALSE
  /\ cpc' = "alloc"
  /\ UNCHANGED <<rustVars, fd, session, count, mapped, running, next, thread,
                 driver, dev, failed>>

(* The driver takes the pixel format, with a size of its own choice; the   *)
(* session keeps what the driver has answered.                             *)
SetFormat ==
  /\ cpc \in FormatPcs
  /\ driverFormat' \in {f \in Formats : f.pix \in Sought}
  /\ format' = driverFormat'
  /\ meddled' = FALSE
  /\ cpc' = "alloc"
  /\ UNCHANGED <<rustVars, fd, session, count, mapped, running, next, thread,
                 driver, dev, failed>>

(* VIDIOC_S_FMT failed, or the driver has put another pixel format in its  *)
(* place.  By default YUYV is tried after NV12.                            *)
FormatRefused ==
  /\ cpc \in FormatPcs
  /\ \/ UNCHANGED driverFormat
     \/ driverFormat' \in {f \in Formats : Sought # {f.pix}}
  /\ IF cpc = "setNv12"
       THEN cpc' = "setYuyv" /\ UNCHANGED <<rustVars, fd>>
       ELSE fd' = FALSE /\ CreateFails
  /\ UNCHANGED <<session, count, mapped, running, next, thread, driver, format,
                 meddled, dev, failed>>

(* The frame rate, whose refusal is ignored, and the VideoSession itself. *)
Allocate ==
  /\ cpc = "alloc"
  /\ session' = TRUE
  /\ cpc' = "reqbufs"
  /\ UNCHANGED <<rustVars, fd, count, mapped, running, next, thread, driver,
                 negotiated, dev, failed>>

(* The device cannot capture or stream, or there is no memory. *)
ConfigureFails ==
  /\ cpc \in {"querycap", "alloc"}
  /\ fd' = FALSE
  /\ CreateFails
  /\ UNCHANGED <<session, count, mapped, running, next, thread, driver,
                 negotiated, dev, failed>>

(* init_mmap: the driver grants any number of buffers; fewer than two, or  *)
(* a failed VIDIOC_REQBUFS, fail the creation.                             *)
RequestBuffers ==
  /\ cpc = "reqbufs"
  /\ count' \in 2 .. MaxBuffers
  /\ next' = 0
  /\ bufs' = AllDequeued
  /\ cpc' = "map"
  /\ UNCHANGED <<rustVars, fd, session, mapped, running, thread, streaming,
                 negotiated, dev, failed>>

RequestBuffersFails ==
  /\ cpc = "reqbufs"
  /\ fd' = FALSE /\ session' = FALSE
  /\ CreateFails
  /\ UNCHANGED <<count, mapped, running, next, thread, driver, negotiated,
                 dev, failed>>

BadMapBuffer ==
  /\ cpc = "map"
  /\ mapped' = mapped \cup {next}
  /\ next' = next + 1
  /\ IF next' > count
       THEN cpc' = "none" /\ RsNewReturns(TRUE)
       ELSE cpc' = "map" /\ UNCHANGED rustVars
  /\ UNCHANGED <<fd, session, count, running, thread, driver, negotiated,
                 dev, failed>>

MapBuffer ==
  /\ cpc = "map"
  /\ mapped' = mapped \cup {next}
  /\ next' = next + 1
  /\ IF next' = count
       THEN cpc' = "none" /\ RsNewReturns(TRUE)
       ELSE cpc' = "map" /\ UNCHANGED rustVars
  /\ UNCHANGED <<fd, session, count, running, thread, driver, negotiated,
                 dev, failed>>

BadMapBufferFails ==
  /\ cpc = "map"
  /\ count' = 0
  /\ fd' = FALSE /\ session' = FALSE
  /\ CreateFails
  /\ UNCHANGED <<mapped, running, next, thread, driver, negotiated, dev,
                 failed>>

(* VIDIOC_QUERYBUF or mmap failed: cleanup_mmap, close, free. *)
MapBufferFails ==
  /\ cpc = "map"
  /\ mapped' = {} /\ count' = 0
  /\ fd' = FALSE /\ session' = FALSE
  /\ CreateFails
  /\ UNCHANGED <<running, next, thread, driver, negotiated, dev, failed>>

-----------------------------------------------------------------------------
(***************************************************************************)
(* video_v4l2_session_start.                                               *)
(***************************************************************************)
EnterStart ==
  /\ RsStart
  /\ cpc' = "startTest"
  /\ UNCHANGED <<fd, session, count, mapped, running, next, thread, driver,
                 negotiated, dev, failed>>

StartTest ==
  /\ cpc = "startTest"
  /\ IF running
       THEN cpc' = "none" /\ RsStartReturns(TRUE)
       ELSE cpc' = "qbuf" /\ UNCHANGED rustVars
  /\ next' = 0
  /\ UNCHANGED <<fd, session, count, mapped, running, thread, driver,
                 negotiated, dev, failed>>

BadQueueBuffer ==
  /\ cpc = "qbuf"
  /\ bufs[next] = "dequeued"
  /\ bufs' = [bufs EXCEPT ![next] = "queued"]
  /\ next' = next + 1
  /\ cpc' = IF next' = count - 1 THEN "streamon" ELSE "qbuf"
  /\ UNCHANGED <<rustVars, fd, session, count, mapped, running, thread,
                 streaming, negotiated, dev, failed>>

QueueBuffer ==
  /\ cpc = "qbuf"
  /\ bufs[next] = "dequeued"
  /\ bufs' = [bufs EXCEPT ![next] = "queued"]
  /\ next' = next + 1
  /\ cpc' = IF next' = count THEN "streamon" ELSE "qbuf"
  /\ UNCHANGED <<rustVars, fd, session, count, mapped, running, thread,
                 streaming, negotiated, dev, failed>>

(* VIDIOC_QBUF refuses a buffer that is already queued.  The buffers queued *)
(* so far stay queued.                                                      *)
QueueBufferFails ==
  /\ cpc = "qbuf"
  /\ CanFail \/ bufs[next] # "dequeued"
  /\ failed' = TRUE
  /\ cpc' = "none" /\ RsStartReturns(FALSE)
  /\ UNCHANGED <<fd, session, count, mapped, running, next, thread, driver,
                 negotiated, dev>>

StreamOn ==
  /\ cpc = "streamon"
  /\ streaming' = TRUE
  /\ cpc' = "spawn"
  /\ UNCHANGED <<rustVars, fd, session, count, mapped, running, next, thread,
                 bufs, negotiated, dev, failed>>

StreamOnFails ==
  /\ cpc = "streamon"
  /\ CanFail
  /\ failed' = TRUE
  /\ cpc' = "none" /\ RsStartReturns(FALSE)
  /\ UNCHANGED <<fd, session, count, mapped, running, next, thread, driver,
                 negotiated, dev>>

Spawn ==
  /\ cpc = "spawn"
  /\ running' = TRUE
  /\ tpc' = "top"
  /\ cpc' = "none" /\ RsStartReturns(TRUE)
  /\ UNCHANGED <<fd, session, count, mapped, next, cur, driver, negotiated,
                 dev, failed>>

(* VIDIOC_STREAMOFF takes every buffer back from the driver.  The code      *)
(* ignores its result.                                                      *)
StreamOff ==
  \/ /\ streaming' = FALSE
     /\ bufs' = AllDequeued
     /\ UNCHANGED failed
  \/ /\ CanFail
     /\ failed' = TRUE
     /\ UNCHANGED driver

(* pthread_create failed: running goes back to 0 and the stream is turned   *)
(* off.                                                                     *)
SpawnFails ==
  /\ cpc = "spawn"
  /\ StreamOff
  /\ cpc' = "none" /\ RsStartReturns(FALSE)
  /\ UNCHANGED <<fd, session, count, mapped, running, next, thread,
                 negotiated, dev>>

-----------------------------------------------------------------------------
(***************************************************************************)
(* video_v4l2_session_stop, called by stop, by Drop, or by                 *)
(* video_v4l2_session_destroy.                                             *)
(***************************************************************************)
StopLeaves ==
  /\ cpc' = CASE api = "stopping"     -> "none"
              [] api = "dropStopping" -> "destroyTest"
              [] OTHER                -> "unmap"
  /\ IF api = "destroying" THEN UNCHANGED rustVars ELSE RsStopReturns

EnterStop ==
  /\ RsStop
  /\ cpc' = "stopTest"
  /\ UNCHANGED <<fd, session, count, mapped, running, next, thread, driver,
                 negotiated, dev, failed>>

BadStopTest ==
  /\ cpc = "stopTest"
  /\ IF running
       THEN running' = FALSE /\ cpc' = "streamoff" /\ UNCHANGED rustVars
       ELSE StopLeaves /\ UNCHANGED running
  /\ UNCHANGED <<fd, session, count, mapped, next, thread, driver,
                 negotiated, dev, failed>>

StopTest ==
  /\ cpc = "stopTest"
  /\ IF running
       THEN running' = FALSE /\ cpc' = "join" /\ UNCHANGED rustVars
       ELSE StopLeaves /\ UNCHANGED running
  /\ UNCHANGED <<fd, session, count, mapped, next, thread, driver,
                 negotiated, dev, failed>>

(* pthread_join returns once the thread has. *)
BadJoin ==
  /\ cpc = "join"
  /\ cpc' = "streamoff"
  /\ UNCHANGED <<rustVars, fd, session, count, mapped, running, next, thread,
                 driver, negotiated, dev, failed>>

Join ==
  /\ cpc = "join"
  /\ tpc = "exited"
  /\ tpc' = "none"
  /\ cpc' = "streamoff"
  /\ UNCHANGED <<rustVars, fd, session, count, mapped, running, next, cur,
                 driver, negotiated, dev, failed>>

StopStreamOff ==
  /\ cpc = "streamoff"
  /\ StreamOff
  /\ StopLeaves
  /\ UNCHANGED <<fd, session, count, mapped, running, next, thread,
                 negotiated, dev>>

-----------------------------------------------------------------------------
(***************************************************************************)
(* Drop and video_v4l2_session_destroy.                                    *)
(***************************************************************************)
BadEnterDrop ==
  /\ api = "idle"
  /\ api' = "destroying"
  /\ cpc' = "unmap"
  /\ UNCHANGED <<rsRunning, context, fd, session, count, mapped, running,
                 next, thread, driver, negotiated, dev, failed>>

EnterDrop ==
  /\ RsDrop
  /\ cpc' = IF rsRunning THEN "stopTest" ELSE "destroyTest"
  /\ UNCHANGED <<fd, session, count, mapped, running, next, thread, driver,
                 negotiated, dev, failed>>

DestroyTest ==
  /\ cpc = "destroyTest"
  /\ cpc' = IF running THEN "stopTest" ELSE "unmap"
  /\ UNCHANGED <<rustVars, fd, session, count, mapped, running, next, thread,
                 driver, negotiated, dev, failed>>

(* cleanup_mmap *)
Unmap ==
  /\ cpc = "unmap"
  /\ mapped' = {} /\ count' = 0
  /\ cpc' = "close"
  /\ UNCHANGED <<rustVars, fd, session, running, next, thread, driver,
                 negotiated, dev, failed>>

(* Closing the node ends the stream; the session is freed, and Rust frees  *)
(* the callback context after session_destroy has returned.                *)
Close ==
  /\ cpc = "close"
  /\ fd' = FALSE /\ session' = FALSE
  /\ streaming' = FALSE /\ bufs' = AllDequeued
  /\ cpc' = "none" /\ RsDropReturns
  /\ UNCHANGED <<count, mapped, running, next, thread, negotiated, dev,
                 failed>>

-----------------------------------------------------------------------------
(***************************************************************************)
(* capture_thread.                                                         *)
(***************************************************************************)
ThreadGoes(from, to) ==
  /\ tpc = from
  /\ tpc' = to
  /\ UNCHANGED <<rustVars, caller, negotiated, dev>>

Quiet == UNCHANGED <<cur, driver, failed>>

FrameReady == \E b \in Buffers : bufs[b] = "done"

LoopTest ==
  /\ ThreadGoes("top", IF running THEN "select" ELSE "exited")
  /\ Quiet

(* select gives up after one second without a frame. *)
BadSelectTimeout == FALSE /\ ThreadGoes("select", "top") /\ Quiet

SelectTimeout ==
  /\ ~FrameReady
  /\ ThreadGoes("select", "top")
  /\ Quiet

(* A signal. *)
SelectInterrupted == ThreadGoes("select", "top") /\ Quiet

SelectReady ==
  /\ FrameReady \/ CanFail
  /\ ThreadGoes("select", "dqbuf")
  /\ Quiet

(* select or VIDIOC_DQBUF failed: the loop is left, running keeps its value. *)
WaitFails ==
  /\ CanFail
  /\ ThreadGoes("select", "exited") \/ ThreadGoes("dqbuf", "exited")
  /\ failed' = TRUE
  /\ UNCHANGED <<cur, driver>>

DequeueAgain ==
  /\ ~FrameReady
  /\ ThreadGoes("dqbuf", "top")
  /\ Quiet

Dequeue(b) ==
  /\ ThreadGoes("dqbuf", "check")
  /\ bufs[b] = "done"
  /\ bufs' = [bufs EXCEPT ![b] = "dequeued"]
  /\ cur' = b
  /\ UNCHANGED <<streaming, failed>>

(* The driver reports an index outside the ring: the loop is left, and the *)
(* buffer stays dequeued.                                                  *)
DequeueBadIndex(b) ==
  /\ CanFail
  /\ ThreadGoes("dqbuf", "exited")
  /\ bufs[b] = "done"
  /\ bufs' = [bufs EXCEPT ![b] = "dequeued"]
  /\ failed' = TRUE
  /\ UNCHANGED <<cur, streaming>>

(* An empty frame, or one shorter than its format needs, is not delivered. *)
BadSkipFrame == ThreadGoes("check", "top") /\ Quiet

SkipFrame == ThreadGoes("check", "requeue") /\ Quiet

DeliverFrame == ThreadGoes("check", "callback") /\ Quiet

CallbackReturns == ThreadGoes("callback", "requeue") /\ Quiet

Requeue ==
  /\ ThreadGoes("requeue", "top")
  /\ bufs' = [bufs EXCEPT ![cur] = "queued"]
  /\ cur' = NoBuffer
  /\ UNCHANGED <<streaming, failed>>

RequeueFails ==
  /\ CanFail
  /\ ThreadGoes("requeue", "exited")
  /\ cur' = NoBuffer
  /\ failed' = TRUE
  /\ UNCHANGED driver

-----------------------------------------------------------------------------
(***************************************************************************)
(* The driver and the device.                                              *)
(***************************************************************************)
Fill(b) ==
  /\ streaming
  /\ bufs[b] = "queued"
  /\ bufs' = [bufs EXCEPT ![b] = "done"]
  /\ UNCHANGED <<rustVars, caller, thread, streaming, negotiated, dev,
                 failed>>

DeviceFails ==
  /\ dev = "ok"
  /\ dev' = "failing"
  /\ UNCHANGED <<rustVars, caller, thread, driver, negotiated, failed>>

DeviceRecovers ==
  /\ dev = "failing"
  /\ dev' = "ok"
  /\ UNCHANGED <<rustVars, caller, thread, driver, negotiated, failed>>

(* VIDIOC_S_FMT by another process that has the node open.  The driver     *)
(* takes it until the session has requested its buffers.                   *)
Meddle ==
  /\ cpc \in {"alloc", "reqbufs"}
  /\ driverFormat' \in Formats
  /\ meddled' = TRUE
  /\ UNCHANGED <<rustVars, caller, thread, driver, format, dev, failed>>

-----------------------------------------------------------------------------
(* The calls the user makes, and the steps of the call in progress. *)
UserCalls == EnterCreate \/ EnterStart \/ EnterStop \/ EnterDrop

CallSteps ==
  \/ Open \/ OpenFails \/ QueryCapabilities \/ SetFormat \/ FormatRefused
  \/ Allocate \/ ConfigureFails
  \/ RequestBuffers \/ RequestBuffersFails \/ MapBuffer \/ MapBufferFails
  \/ StartTest \/ QueueBuffer \/ QueueBufferFails
  \/ StreamOn \/ StreamOnFails \/ Spawn \/ SpawnFails
  \/ StopTest \/ Join \/ StopStreamOff
  \/ DestroyTest \/ Unmap \/ Close

ThreadSteps ==
  \/ LoopTest \/ SelectTimeout \/ SelectReady \/ WaitFails
  \/ DequeueAgain \/ (\E b \in Buffers : Dequeue(b) \/ DequeueBadIndex(b))
  \/ SkipFrame \/ DeliverFrame \/ CallbackReturns
  \/ Requeue \/ RequeueFails

Environment ==
  \/ \E b \in Buffers : Fill(b)
  \/ SelectInterrupted \/ DeviceFails \/ DeviceRecovers \/ Meddle

Next == UserCalls \/ CallSteps \/ ThreadSteps \/ Environment

Spec == Init /\ [][Next]_vars

(***************************************************************************)
(* A thread that can run does run, and user callbacks return (they may not *)
(* block for ever nor call stop, src/lib.rs).  Neither the user nor the    *)
(* camera has to do anything.                                              *)
(***************************************************************************)
FairSpec == Spec /\ WF_vars(CallSteps) /\ WF_vars(ThreadSteps)

(* What frames take besides: the camera keeps filling the buffers it has,  *)
(* select does not lose to signals for ever, not every frame is too short. *)
CameraStreams ==
  /\ \A b \in Buffers : WF_vars(Fill(b))
  /\ SF_vars(SelectReady)
  /\ SF_vars(DeliverFrame)

-----------------------------------------------------------------------------
(***************************************************************************)
(* Safety.                                                                 *)
(***************************************************************************)

(* While the user callback runs, the memory it reads belongs to it: the    *)
(* driver does not have the buffer, it is still mapped, and neither the    *)
(* session nor the callback context has been freed.                        *)
CallbackMemoryIsSafe ==
  tpc = "callback" => /\ cur \in mapped
                      /\ bufs[cur] = "dequeued"
                      /\ session /\ fd /\ context

(* Between calls Rust's running flag and the session's running flag agree, *)
(* so neither side's early return hides a needed call from the other.      *)
RunningFlagsAgree == api = "idle" => rsRunning = running

(* Once stop or a failed start has returned, and after drop, there is no   *)
(* capture thread, not even one waiting to be joined.                      *)
StoppedMeansNoThread ==
  api = "absent" \/ (api = "idle" /\ ~rsRunning) => tpc = "none"

(* A failed new and a drop leave nothing behind: no open node, session,    *)
(* mapping, context or stream.                                             *)
NothingLeaks ==
  api = "absent" => ~fd /\ ~session /\ mapped = {} /\ ~context /\ ~streaming

(* The ring loses no buffer: while the capture thread is in its loop, the  *)
(* driver holds every buffer except the one the thread is working on.      *)
RingIsComplete ==
  ThreadAlive =>
    \A b \in Buffers : b < count /\ bufs[b] = "dequeued" => b = cur

(* Unless something has failed, a stopped session can be started again:    *)
(* the driver has given every buffer back.                                 *)
StoppedIsRestartable ==
  api = "idle" /\ ~rsRunning /\ ~failed => ~streaming /\ bufs = AllDequeued

(* The buffers are all accounted for, in a started and in a stopped session. *)
BuffersAreKept == RingIsComplete /\ StoppedIsRestartable

(* The callback is told the format and size that the driver captures in,   *)
(* not those that new asked for, unless another process has set the        *)
(* driver's in the window before the session requested its buffers.        *)
FramesMatchFormat == tpc = "callback" /\ ~meddled => format = driverFormat

(* Unless something has failed, a started session has a capture thread in  *)
(* its loop and a running stream.                                          *)
StartedIsCapturing ==
  api = "idle" /\ rsRunning /\ ~failed => ThreadAlive /\ streaming

(* Between calls the flags tell the truth: they agree, a stopped capture   *)
(* has no thread, and a started one is capturing unless something failed.  *)
FlagsTellTheTruth ==
  RunningFlagsAgree /\ StoppedMeansNoThread /\ StartedIsCapturing

(* lib.rs promises that once start has been called a thread is up and the  *)
(* callback is called for every frame.                                     *)
StartedHasThread == api = "idle" /\ rsRunning => ThreadAlive

(***************************************************************************)
(* Liveness.                                                               *)
(***************************************************************************)

(* A capture that stays started on a healthy, streaming device keeps       *)
(* delivering: the ring never runs dry.                                    *)
FramesKeepComing ==
  CameraStreams /\ <>[](api = "idle" /\ rsRunning /\ dev = "ok" /\ ThreadAlive)
    => []<>(tpc = "callback")

(***************************************************************************)
(* The V4L2 backend implements the documented life cycle.                  *)
(***************************************************************************)
Contract == INSTANCE CaptureContract
              WITH phase <- ContractPhase,
                   inCallback <- (tpc = "callback"),
                   faulted <- FALSE

(* Every step of the backend is one the documented life cycle allows: no   *)
(* callback runs outside start and stop, and stop waits for the last one.  *)
ImplementsContract == Contract!ContractSafety

(* Every call returns: in particular stop and drop do although nothing     *)
(* wakes the capture thread up, even if the camera never delivers a frame. *)
CallsReturn == Contract!ContractFairness
=============================================================================
