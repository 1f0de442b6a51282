------------------------------ MODULE MfCapture ------------------------------
(***************************************************************************)
(* VideoCaptures on the Windows Media Foundation backend: MfCaptureImpl of *)
(* src/capture_mf.rs and its capture thread, next to the enumeration of    *)
(* devices of src/device_mf.rs.                                            *)
(*                                                                         *)
(* The user callback is owned by the MfCaptureImpl while stopped and moves *)
(* into the capture thread while running; joining the thread gives it      *)
(* back, unless the callback panicked.                                     *)
(*                                                                         *)
(* MFStartup and MFShutdown count references for the whole process, so the *)
(* captures and the enumeration depend on each other's balance.  COM is    *)
(* initialised per thread: a capture has one guard on the thread that owns *)
(* it (here each capture and the enumeration have a thread of their own)   *)
(* and one on its capture thread.                                          *)
(***************************************************************************)
EXTENDS Integers, FiniteSets

CONSTANT Captures  \* the MfCaptureImpl values a process may have at a time

ASSUME CapturesAssumption == IsFiniteSet(Captures)

VARIABLES
  cap,     \* every capture, see Capture below
  mfRefs,  \* the process-wide reference count of MFStartup
  listing  \* MfDeviceListImpl's enumeration, see Listing below

vars == <<cap, mfRefs, listing>>

(***************************************************************************)
(* api       the call the owner is inside and its next step:               *)
(*             createCom .. createUndo  new                                *)
(*             idle                     no call                            *)
(*             starting                 start, a thread has been spawned   *)
(*             returning                start, nothing has been done       *)
(*             stopping                 stop waits for the capture thread  *)
(*             dropStopping .. dropCom  Drop and then the fields' drops    *)
(* com       the owner's CoInitGuard is alive                              *)
(* source    the IMFMediaSource                                            *)
(* format    the source reader's media type                                *)
(* running   the flag shared with the capture thread                       *)
(* callback  who has the user callback                                     *)
(* handle    capture_thread is Some                                        *)
(* ret       what the latest start returned                                *)
(* thread    where the capture thread is                                   *)
(* tcom      the capture thread's CoInitGuard is alive                     *)
(* locked    the capture thread holds the lock of a media buffer           *)
(***************************************************************************)
CreateSteps == {"createCom", "createMf", "createSource", "createReader",
                "createFormat", "createCheck", "createUndo"}
DropSteps   == {"dropStopping", "dropSource", "dropMf", "dropCom"}
ThreadSteps == {"none", "init", "loop", "read", "retry", "sample", "callback",
                "leaving", "returned", "panicked"}

(* Whether guid_to_pixel_format knows a media type. *)
MediaTypes == {"supported", "unsupported"}

Capture ==
  [api      : {"absent", "idle", "starting", "returning", "stopping"}
                \cup CreateSteps \cup DropSteps,
   com      : BOOLEAN,
   source   : {"none", "active", "shutdown"},
   format   : {"none"} \cup MediaTypes,
   running  : BOOLEAN,
   callback : {"none", "self", "thread", "panicked", "dropped"},
   handle   : BOOLEAN,
   ret      : {"none", "Ok", "CaptureFaulted", "unwound"},
   thread   : ThreadSteps,
   tcom     : BOOLEAN,
   locked   : BOOLEAN]

NoCapture ==
  [api |-> "absent", com |-> FALSE, source |-> "none", format |-> "none",
   running |-> FALSE, callback |-> "none", handle |-> FALSE, ret |-> "none",
   thread |-> "none", tcom |-> FALSE, locked |-> FALSE]

(***************************************************************************)
(* at      the next step of the enumeration                                *)
(* array   the array of IMFActivate that MFEnumDeviceSources returned      *)
(* source  the media source of the device being asked for its formats      *)
(***************************************************************************)
Listing ==
  [at     : {"none", "com", "startup", "enum", "each", "reader", "types",
             "stopSource", "shutdown"},
   array  : BOOLEAN,
   source : BOOLEAN]

TypeOK ==
  /\ cap \in [Captures -> Capture]
  /\ mfRefs \in 0 .. Cardinality(Captures) + 1
  /\ listing \in Listing

Init ==
  /\ cap = [c \in Captures |-> NoCapture]
  /\ mfRefs = 0
  /\ listing = [at |-> "none", array |-> FALSE, source |-> FALSE]

(* A step of capture c whose owner is at from. *)
At(c, from) == cap[c].api = from

(* Only capture c changes. *)
Alone == UNCHANGED <<mfRefs, listing>>

(* A capture thread that is still executing capture_thread_func. *)
ThreadAlive(c) == cap[c].thread \notin {"none", "returned", "panicked"}

-----------------------------------------------------------------------------
(***************************************************************************)
(* new.  A size or frame rate that is not positive is refused before       *)
(* anything is acquired.                                                   *)
(***************************************************************************)
EnterNew(c) ==
  /\ At(c, "absent")
  /\ cap' = [cap EXCEPT ![c].api = "createCom"]
  /\ Alone

CreateCom(c) ==
  /\ At(c, "createCom")
  /\ \/ cap' = [cap EXCEPT ![c].api = "createMf", ![c].com = TRUE]
     \/ cap' = [cap EXCEPT ![c].api = "absent"]
  /\ Alone

BadCreateMf(c) ==
  /\ At(c, "createMf")
  /\ \/ /\ cap' = [cap EXCEPT ![c].api = "createSource"]
        /\ mfRefs' = mfRefs + 1
     \/ /\ cap' = [cap EXCEPT ![c].api = "absent", ![c].com = FALSE]
        /\ mfRefs' = IF mfRefs > 0 THEN mfRefs - 1 ELSE 0
  /\ UNCHANGED listing

(* A failed MFStartup has taken no reference, and none is given back. *)
CreateMf(c) ==
  /\ At(c, "createMf")
  /\ \/ /\ cap' = [cap EXCEPT ![c].api = "createSource"]
        /\ mfRefs' = mfRefs + 1
     \/ /\ cap' = [cap EXCEPT ![c].api = "absent", ![c].com = FALSE]
        /\ UNCHANGED mfRefs
  /\ UNCHANGED listing

(* An error in the building closure drops what it has made so far, and the *)
(* COM guard, which it has captured by move: COM ends before the           *)
(* MFShutdown that follows.                                                *)
Unbuilt(c) ==
  cap' = [cap EXCEPT ![c].api = "createUndo", ![c].com = FALSE,
                     ![c].source = "none", ![c].format = "none"]

CreateSource(c) ==
  /\ At(c, "createSource")
  /\ \/ cap' = [cap EXCEPT ![c].api = "createReader", ![c].source = "active"]
     \/ Unbuilt(c)
  /\ Alone

(* A new source reader has the native media type of the device. *)
CreateReader(c) ==
  /\ At(c, "createReader")
  /\ \/ \E native \in MediaTypes :
          cap' = [cap EXCEPT ![c].api = "createFormat", ![c].format = native]
     \/ Unbuilt(c)
  /\ Alone

(* create_source_reader: the requested media type or, by default, the first *)
(* of NV12, YUY2 and I420 that the reader takes.  A refused request is an   *)
(* error; by default the native type stays when all three are refused.      *)
CreateFormat(c) ==
  /\ At(c, "createFormat")
  /\ \/ cap' = [cap EXCEPT ![c].api = "createCheck", ![c].format = "supported"]
     \/ cap' = [cap EXCEPT ![c].api = "createCheck"]
     \/ Unbuilt(c)
  /\ Alone

(* get_configured_format: the media type the reader has now must be one     *)
(* that process_sample knows.                                               *)
CreateCheck(c) ==
  /\ At(c, "createCheck")
  /\ \/ /\ cap[c].format = "supported"
        /\ cap' = [cap EXCEPT ![c].api = "idle", ![c].callback = "self"]
     \/ Unbuilt(c)
  /\ Alone

CreateUndo(c) ==
  /\ At(c, "createUndo")
  /\ cap' = [cap EXCEPT ![c].api = "absent"]
  /\ mfRefs' = mfRefs - 1
  /\ UNCHANGED listing

-----------------------------------------------------------------------------
(***************************************************************************)
(* start.  The running flag is tested first, then the callback is taken.   *)
(***************************************************************************)
StartAlreadyRunning(c) ==
  /\ At(c, "idle") /\ cap[c].running
  /\ cap' = [cap EXCEPT ![c].api = "returning", ![c].ret = "Ok"]
  /\ Alone

StartFaulted(c) ==
  /\ At(c, "idle") /\ ~cap[c].running /\ cap[c].callback # "self"
  /\ cap' = [cap EXCEPT ![c].api = "returning", ![c].ret = "CaptureFaulted"]
  /\ Alone

StartSpawns(c) ==
  /\ At(c, "idle") /\ ~cap[c].running /\ cap[c].callback = "self"
  /\ cap' = [cap EXCEPT ![c].api = "starting", ![c].ret = "Ok",
                        ![c].running = TRUE, ![c].callback = "thread",
                        ![c].handle = TRUE, ![c].thread = "init"]
  /\ Alone

(* std::thread::spawn panics when the system has no thread to give: start  *)
(* unwinds with running set and the callback dropped.                      *)
StartSpawnPanics(c) ==
  /\ At(c, "idle") /\ ~cap[c].running /\ cap[c].callback = "self"
  /\ cap' = [cap EXCEPT ![c].api = "starting", ![c].ret = "unwound",
                        ![c].running = TRUE, ![c].callback = "dropped"]
  /\ Alone

StartReturns(c) ==
  /\ At(c, "starting") \/ At(c, "returning")
  /\ cap' = [cap EXCEPT ![c].api = "idle"]
  /\ Alone

-----------------------------------------------------------------------------
(***************************************************************************)
(* stop, also called by Drop; a no-op unless running.                      *)
(***************************************************************************)
EnterStop(c) ==
  /\ At(c, "idle") /\ cap[c].running
  /\ cap' = [cap EXCEPT ![c].api = "stopping", ![c].running = FALSE]
  /\ Alone

StopLeaves(c) == IF At(c, "stopping") THEN "idle" ELSE "dropSource"

BadJoin(c) ==
  /\ At(c, "stopping") \/ At(c, "dropStopping")
  /\ cap[c].handle /\ cap[c].thread \in {"returned", "panicked"}
  /\ cap' = [cap EXCEPT
               ![c].api = StopLeaves(c), ![c].handle = FALSE, ![c].thread = "none",
               ![c].callback = IF cap[c].thread = "returned" THEN "none" ELSE @]
  /\ Alone

(* join returns the callback of a thread that returned, and nothing when   *)
(* the thread panicked.                                                    *)
Join(c) ==
  /\ At(c, "stopping") \/ At(c, "dropStopping")
  /\ cap[c].handle /\ cap[c].thread \in {"returned", "panicked"}
  /\ cap' = [cap EXCEPT
               ![c].api = StopLeaves(c), ![c].handle = FALSE, ![c].thread = "none",
               ![c].callback = IF cap[c].thread = "returned" THEN "self" ELSE @]
  /\ Alone

NothingToJoin(c) ==
  /\ At(c, "stopping") \/ At(c, "dropStopping")
  /\ ~cap[c].handle
  /\ cap' = [cap EXCEPT ![c].api = StopLeaves(c)]
  /\ Alone

-----------------------------------------------------------------------------
(***************************************************************************)
(* Drop: stop, shut the source down, MFShutdown; then the fields are       *)
(* dropped, the COM guard last.                                            *)
(***************************************************************************)
BadEnterDrop(c) ==
  /\ At(c, "idle")
  /\ cap' = [cap EXCEPT ![c].api = "dropSource", ![c].running = FALSE]
  /\ Alone

EnterDrop(c) ==
  /\ At(c, "idle")
  /\ cap' = [cap EXCEPT
               ![c].api = IF cap[c].running THEN "dropStopping" ELSE "dropSource",
               ![c].running = FALSE]
  /\ Alone

(* Shutdown, and the release of the reader and the source. *)
DropSource(c) ==
  /\ At(c, "dropSource")
  /\ cap' = [cap EXCEPT ![c].api = "dropMf", ![c].source = "shutdown"]
  /\ Alone

BadDropMf(c) ==
  /\ At(c, "dropMf")
  /\ cap' = [cap EXCEPT ![c].api = "dropCom", ![c].source = "none"]
  /\ UNCHANGED <<mfRefs, listing>>

DropMf(c) ==
  /\ At(c, "dropMf")
  /\ cap' = [cap EXCEPT ![c].api = "dropCom", ![c].source = "none"]
  /\ mfRefs' = mfRefs - 1
  /\ UNCHANGED listing

DropCom(c) ==
  /\ At(c, "dropCom")
  /\ cap' = [cap EXCEPT
               ![c] = [NoCapture EXCEPT !.thread = cap[c].thread,
                                        !.tcom = cap[c].tcom,
                                        !.locked = cap[c].locked]]
  /\ Alone

-----------------------------------------------------------------------------
(***************************************************************************)
(* capture_thread_func.                                                    *)
(***************************************************************************)
ThreadGoes(c, from, to) ==
  /\ cap[c].thread = from
  /\ cap' = [cap EXCEPT ![c].thread = to]
  /\ Alone

(* When COM cannot be initialised the callback is handed back at once, and *)
(* running keeps its value.                                                *)
ThreadInit(c) ==
  \/ /\ cap[c].thread = "init"
     /\ cap' = [cap EXCEPT ![c].thread = "loop", ![c].tcom = TRUE]
     /\ Alone
  \/ ThreadGoes(c, "init", "returned")

LoopTest(c) == ThreadGoes(c, "loop", IF cap[c].running THEN "read" ELSE "leaving")

(* ReadSample blocks until the device has a sample, or a stream event      *)
(* without one, or an error.                                               *)
ReadSample(c) ==
  \/ ThreadGoes(c, "read", "sample")
  \/ ThreadGoes(c, "read", "loop")
  \/ ThreadGoes(c, "read", "retry")

BadRetry(c) == ThreadGoes(c, "retry", "read")

(* One millisecond of sleep after an error, then the flag is tested again. *)
Retry(c) == ThreadGoes(c, "retry", "loop")

(* process_sample: a sample that cannot be locked, or is too short for its *)
(* format, is not delivered; the lock does not outlive process_sample.     *)
SkipSample(c) == ThreadGoes(c, "sample", "loop")

DeliverSample(c) ==
  /\ cap[c].thread = "sample"
  /\ cap' = [cap EXCEPT ![c].thread = "callback", ![c].locked = TRUE]
  /\ Alone

CallbackReturns(c) ==
  /\ cap[c].thread = "callback"
  /\ cap' = [cap EXCEPT ![c].thread = "loop", ![c].locked = FALSE]
  /\ Alone

BadCallbackPanics(c) ==
  /\ cap[c].thread = "callback"
  /\ cap' = [cap EXCEPT ![c].thread = "panicked", ![c].callback = "panicked",
                        ![c].tcom = FALSE]
  /\ Alone

(* Unwinding runs the guards: unlock, then CoUninitialize. *)
CallbackPanics(c) ==
  /\ cap[c].thread = "callback"
  /\ cap' = [cap EXCEPT ![c].thread = "panicked", ![c].callback = "panicked",
                        ![c].locked = FALSE, ![c].tcom = FALSE]
  /\ Alone

ThreadReturns(c) ==
  /\ cap[c].thread = "leaving"
  /\ cap' = [cap EXCEPT ![c].thread = "returned", ![c].tcom = FALSE]
  /\ Alone

-----------------------------------------------------------------------------
(***************************************************************************)
(* enumerate_devices_internal of src/device_mf.rs: COM, MFStartup, the     *)
(* list, MFShutdown whatever the list gave.                                *)
(***************************************************************************)
ListingGoes(from, to) ==
  /\ listing.at = from
  /\ listing' = [listing EXCEPT !.at = to]
  /\ UNCHANGED cap

ListDevices ==
  \/ ListingGoes("none", "com") /\ UNCHANGED mfRefs
  \/ ListingGoes("com", "startup") /\ UNCHANGED mfRefs
  \/ ListingGoes("com", "none") /\ UNCHANGED mfRefs
  \/ ListingGoes("startup", "enum") /\ mfRefs' = mfRefs + 1
  \/ ListingGoes("startup", "none") /\ UNCHANGED mfRefs
  \/ ListingGoes("shutdown", "none") /\ mfRefs' = mfRefs - 1

(* enumerate_devices_impl: an array of devices, or an error or no device. *)
ListSources ==
  /\ listing.at = "enum"
  /\ \E found \in BOOLEAN :
       listing' = [listing EXCEPT !.at = IF found THEN "each" ELSE "shutdown",
                                  !.array = found]
  /\ UNCHANGED <<cap, mfRefs>>

(* get_device_formats, of the next device that can be activated: a source  *)
(* reader, its media types, then the source is shut down, also when there  *)
(* is no reader.  A device that cannot is listed without formats.          *)
ListFormats ==
  /\ \/ /\ listing.at = "each"
        /\ listing' = [listing EXCEPT !.at = "reader", !.source = TRUE]
     \/ /\ listing.at = "reader"
        /\ \E at \in {"types", "stopSource"} : listing' = [listing EXCEPT !.at = at]
     \/ /\ listing.at = "types"
        /\ listing' = [listing EXCEPT !.at = "stopSource"]
     \/ /\ listing.at = "stopSource"
        /\ listing' = [listing EXCEPT !.at = "each", !.source = FALSE]
  /\ UNCHANGED <<cap, mfRefs>>

(* The guard releases the devices and frees the array. *)
ListEnds ==
  /\ listing.at = "each"
  /\ listing' = [listing EXCEPT !.at = "shutdown", !.array = FALSE]
  /\ UNCHANGED <<cap, mfRefs>>

-----------------------------------------------------------------------------
UserCalls(c) ==
  \/ EnterNew(c)
  \/ StartAlreadyRunning(c) \/ StartFaulted(c) \/ StartSpawns(c) \/ StartSpawnPanics(c)
  \/ EnterStop(c) \/ EnterDrop(c)

CallSteps(c) ==
  \/ CreateCom(c) \/ CreateMf(c) \/ CreateSource(c) \/ CreateReader(c)
  \/ CreateFormat(c) \/ CreateCheck(c) \/ CreateUndo(c)
  \/ StartReturns(c)
  \/ Join(c) \/ NothingToJoin(c)
  \/ DropSource(c) \/ DropMf(c) \/ DropCom(c)

CaptureThread(c) ==
  \/ ThreadInit(c) \/ LoopTest(c) \/ ReadSample(c) \/ Retry(c)
  \/ SkipSample(c) \/ DeliverSample(c) \/ CallbackReturns(c) \/ CallbackPanics(c)
  \/ ThreadReturns(c)

Next ==
  \/ \E c \in Captures : UserCalls(c) \/ CallSteps(c) \/ CaptureThread(c)
  \/ ListDevices \/ ListSources \/ ListFormats \/ ListEnds

Spec == Init /\ [][Next]_vars

(***************************************************************************)
(* A thread that can run does, user callbacks return or panic, and         *)
(* ReadSample returns: there is no timeout or cancellation in the code, so *)
(* stop waits for the device to deliver something or to fail.              *)
(***************************************************************************)
FairSpec ==
  /\ Spec
  /\ \A c \in Captures : WF_vars(CallSteps(c)) /\ WF_vars(CaptureThread(c))

-----------------------------------------------------------------------------
(***************************************************************************)
(* Properties.                                                             *)
(***************************************************************************)

(* The references that Media Foundation counts are exactly those of the    *)
(* captures and the enumeration that took one and still use it: no failure *)
(* path gives back a reference it does not have, which would shut Media    *)
(* Foundation down under another capture.                                  *)
HoldsMf(c) ==
  cap[c].api \notin {"absent", "createCom", "createMf", "dropCom"}

MfIsBalanced ==
  mfRefs = Cardinality({c \in Captures : HoldsMf(c)})
             + IF listing.at \in {"none", "com", "startup"} THEN 0 ELSE 1

(* While a capture thread uses its source reader, the source has not been  *)
(* shut down, COM (in that thread) and Media Foundation are up, and its    *)
(* media type is one that process_sample knows; nor does the enumeration   *)
(* use a reader without its source and Media Foundation.                   *)
ReaderIsUsable ==
  /\ listing.at = "types" => listing.source /\ mfRefs > 0
  /\ \A c \in Captures :
       cap[c].thread \in {"read", "sample", "callback"} =>
         /\ cap[c].source = "active" /\ mfRefs > 0 /\ cap[c].tcom
         /\ cap[c].format = "supported"

(* The callback is never lost without a panic: it is with the thread until *)
(* the join, and a stopped capture has it back and can be started again.   *)
CallbackIsRecovered ==
  \A c \in Captures :
    /\ cap[c].callback = "thread" <=> ThreadAlive(c) \/ cap[c].thread = "returned"
    /\ At(c, "idle") /\ ~cap[c].running =>
         cap[c].callback \in {"self", "panicked", "dropped"}

(* Once a capture is gone nothing of it is left, neither thread nor COM    *)
(* guard; a capture thread that ended, be it by a panic of the callback,   *)
(* has unlocked its media buffer and uninitialised COM.  The enumeration   *)
(* has neither sources nor its array of devices left before MFShutdown.    *)
NothingLeaks ==
  /\ listing.at \in {"shutdown", "none"} => ~listing.array /\ ~listing.source
  /\ \A c \in Captures :
       /\ At(c, "absent") => cap[c].thread = "none" /\ ~cap[c].com
       /\ ~ThreadAlive(c) => ~cap[c].locked /\ ~cap[c].tcom

-----------------------------------------------------------------------------
(* The refinement mapping to the phases of CaptureContract. *)
PhaseOf(c) ==
  CASE cap[c].api \in CreateSteps -> "creating"
    [] cap[c].api \in {"idle", "returning"} ->
         IF cap[c].running THEN "started" ELSE "stopped"
    [] At(c, "dropStopping") -> "dropping"
    [] cap[c].api \in {"dropSource", "dropMf", "dropCom"} -> "releasing"
    [] OTHER -> cap[c].api

-----------------------------------------------------------------------------
(***************************************************************************)
(* A statement of the documentation that the code does not meet.           *)
(***************************************************************************)

(* capture.rs: a start after the capture thread has panicked returns       *)
(* CaptureFaulted.                                                         *)
FaultIsReported ==
  [][\A c \in Captures :
       (/\ cap[c].thread = "panicked"
        /\ cap[c].api = "idle"
        /\ cap'[c].api \in {"starting", "returning"})
         => cap'[c].ret = "CaptureFaulted"]_vars
=============================================================================
