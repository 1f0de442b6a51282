# TLA+ models and proofs for video-device-rs

`video-device` is a Rust crate that captures video from cameras on four
platforms: V4L2 and PipeWire (Linux), AVFoundation (macOS) and Media Foundation
(Windows). The first three are C or Objective-C sources behind one FFI layer,
the last one is Rust. Every backend hands frames to a user callback on a thread
the user does not own, and the user starts, stops and drops the capture
concurrently with it. Most of what can go wrong here is in the order in which
those threads take their steps, in the error paths, and in the arithmetic that
turns a C buffer into Rust slices: these are what the modules describe.

- [Inventory](#inventory): the parts of the system, their state and what makes them correct
- [Hazards](#hazards)
- [Modules](#modules): which module models which code
- [Runs](#runs): what TLC checks, with which bounds and fairness
- [Where code and documentation part](#where-code-and-documentation-part)
- [Proofs](#proofs)
- [What is not modelled](#what-is-not-modelled)
- [Plan](#plan)

Paths are relative to the repository's root.

## Inventory

### Capture life cycle (`src/capture.rs`, `src/lib.rs`)
`VideoCapture` wraps one backend. `new`, `start`, `stop` (both `&mut self`) and
`Drop` are the operations; the documentation promises that `start` is
idempotent, that a `start` after a `stop` works, that `stop` blocks until the
callback in progress has returned, and that no callback runs afterwards. The
callback must not block for ever and must not call `stop` or drop the capture.
*Correct when*: callbacks run only between a start and the return of its stop
(or drop); every call returns; a failed start leaves nothing running.

### FFI capture (`src/capture_ffi.rs`, `src/ffi.rs`, `src/video.h`)
`FfiCaptureImpl` owns a C session, a boxed `CaptureContext` and its own
`running` flag, and drives the session through a table of C functions.
`frame_callback` is called by C with the context as `user_data`, builds a
`VideoFrame` of slices, and releases the retained pixel buffer of AVFoundation.
*Correct when*: the two running flags (Rust's and the C session's) agree
between calls; the context outlives every call of `frame_callback`; every slice
lies in the memory the C side vouches for.

### V4L2 capture (`src/video_v4l2.c`)
A session (device node, mmap ring, `running` flag, thread) and a capture thread
that loops over select, DQBUF, callback, QBUF. The driver fills queued buffers.
`stop` clears the flag and joins the thread; nothing wakes the thread, it sees
the flag when `select` gives up after a second.
*Correct when*: a buffer in the callback is mapped and is not the driver's; the
ring loses no buffer; a stopped session can be started again; failed and
finished sessions leave nothing.

### PipeWire capture (`src/video_pipewire.c`)
A session with a thread loop, a context and, per start, a new core and a new
stream. The handlers (`on_process`, `on_param_changed`,
`on_stream_state_changed`, core done and error) run on the loop's thread under
the loop's lock; start waits on the loop for the stream to be streaming.
`on_process` also runs there, because the stream is connected without
`PW_STREAM_FLAG_RT_PROCESS`.
*Correct when*: the caller touches PipeWire objects only while no handler runs;
no signal is lost; no deadlock between the lock and joining the loop's thread;
every pointer the session keeps is live.

### AVFoundation capture (`src/video_avf.m`, `PixelBuffer` of `src/types.rs`)
`session_create` may ask the user for permission and block on a semaphore.
Samples are blocks on a serial queue that run `captureOutput`: lock, convert,
retain, `frame_callback`, free, unlock. `stop` detaches the delegate, then
drains the queue with `dispatch_sync`.
*Correct when*: `stop` waits for exactly the blocks already queued; the
reference counts balance on every path, including the copies the user keeps.

### Media Foundation capture (`src/capture_mf.rs`, `src/device_mf.rs`)
`MfCaptureImpl` moves the user callback into the capture thread at `start` and
gets it back at the join, unless the callback panicked. COM is initialised per
thread, Media Foundation is reference-counted per process and shared with the
enumeration and other captures.
*Correct when*: the callback is never lost without a panic; references balance
on every error path; the reader is used only while its source, COM and MF are up.

### Frame geometry (`src/frame_math.rs`, `frame_callback`, the C checks)
Two computations of one thing: C checks that a buffer is large enough, Rust
computes the lengths of the slices. *Correct when* they agree for every format,
padding, odd size and overflow.

### Enumeration (`src/device.rs`, `src/device_ffi.rs`, the `*_enumerate_devices` functions)
Lists of devices and formats owned by C arrays, freed when the list is dropped.
PipeWire's version is an event loop with two rounds of sync, over two parallel
arrays that grow while listeners point into one of them. V4L2's asks each node
for its name, closes it and opens it again for its formats. AVFoundation's walks
an array that cannot change. Media Foundation's activates every device for a
reader of its own, among COM, `MFStartup` and the activation array.
*Correct when*: a camera that was there is listed under its name with all its
formats, unless a call about it failed; the loop ends; handlers write to live
memory; nothing but the list is left, and the list only until it is dropped.

### Everything else
Types and errors (`src/types.rs`, `src/error.rs`): the types that own something
(`PixelBuffer`, the COM and activation guards) are part of the models of their
backends, the others are data. `build.rs`, examples, tests, release tooling: not
modelled.

### Interactions

| from | to | how |
|---|---|---|
| owner thread | FFI capture | method calls, at most one at a time (`&mut self`) |
| FFI capture | C session | the `CaptureOps` table; NULL or a negative value is an error |
| C backend's thread | `frame_callback` | C callback with `user_data` = `CaptureContext` |
| owner thread | V4L2 capture thread | atomic flag `running`, `pthread_join` |
| V4L2 capture thread | driver | QBUF/DQBUF ownership of mmap buffers |
| owner thread | PipeWire loop | lock, wait and signal; start and stop of the loop's thread |
| owner thread | AVF serial queue | delegate attached or not, `dispatch_sync` |
| owner thread | MF capture thread | atomic flag, `JoinHandle` that returns the callback |
| MF captures, MF enumeration | the process | MFStartup/MFShutdown count |

## Hazards

`PROJECT.json` lists them by line with the properties that would catch them.
The ones that shaped the models:

- `stop`, `start` and `drop` against a thread that is anywhere in its loop,
  in the user callback in particular (all backends);
- two flags with an early return each, on the Rust and on the C side;
- a ring or queue that silently runs dry when one path forgets to give a buffer back;
- error paths that leave half a session: streams still on, buffers still
  queued, a delegate still attached, references one too many or too few;
- state that outlives what it describes: `stream_error`, `running`;
- waits without a timeout, and a signal between a test and its wait;
- a format that is asked for, set, remembered and used at four different
  times, by four different parties;
- cameras that change places between two looks at them;
- failures that shorten a list silently, and report success;
- geometry computed twice, in signed, unsigned and 64-bit arithmetic.

## Modules

| module | what it is | code |
|---|---|---|
| `CaptureContract` | the abstract specification: phases of the life cycle and when a callback may run | `src/capture.rs`, `src/lib.rs` |
| `FfiCapture` | the Rust half of each operation, as actions the backends conjoin with the C half | `src/capture_ffi.rs` |
| `V4l2Capture` | V4L2 session, capture thread, driver, failing device; EXTENDS `FfiCapture` | `src/video_v4l2.c` |
| `PipewireCapture` | PipeWire session, loop's thread and lock, stream and core events; EXTENDS `FfiCapture` | `src/video_pipewire.c` |
| `AvfCapture` | AVFoundation session, serial queue, reference counts; EXTENDS `FfiCapture` | `src/video_avf.m`, `src/types.rs` |
| `MfCapture` | several Media Foundation captures and the enumeration | `src/capture_mf.rs`, `src/device_mf.rs` |
| `FramePlanes` | one frame: what each C backend checks, what `frame_callback` slices | `src/frame_math.rs`, `src/capture_ffi.rs`, C sources |
| `DeviceListing` | listing the cameras with V4L2 and AVFoundation, and the list's accessors and drop | `src/video_v4l2.c`, `src/video_avf.m`, `src/device_ffi.rs` |
| `PipewireEnumerate` | listing the cameras with PipeWire: caller, daemon, cameras that come and go | `src/video_pipewire.c`, `src/device_ffi.rs` |
| `MCMfCapture`, `MCFramePlanes` | instances for TLC | |
| `V4l2CaptureProofs`, `PipewireCaptureProofs`, `AvfCaptureProofs`, `MfCaptureProofs`, `FramePlanesProofs`, `DeviceListingProofs`, `PipewireEnumerateProofs`, `CaptureContractProofs` | theorems and proofs about the module of the same name | |

**How the backends are written.** A backend's state is a program counter per
thread (`cpc` for the owner inside the C functions, `tpc`, `loop`, `qpc` or
`cap[c].thread` for the backend's), the fields of the C session, and the state
of what the code drives (driver, PipeWire objects, dispatch queue). One action
is one stretch of code between two points where another thread can observe the
difference; a function's error paths are separate actions (`OpenFails`,
`QueueBufferFails`, ...). A C function's entry is conjoined with the Rust half
(`EnterStart == RsStart /\ ...`), its return with `RsStartReturns(ok)`. Calls
that the code turns into a no-op by an early return in Rust change nothing and
are stuttering steps.

**V4l2Capture.** `CreatePcs` walks session create (open, configure, REQBUFS,
mmap per buffer), `StartPcs` start (test, QBUF per buffer, STREAMON, spawn),
`StopPcs` stop, `DestroyPcs` destroy; `ThreadPcs` is the loop of
`capture_thread`. `bufs[b]` says who has buffer `b`: dequeued (the process),
queued (the driver, empty), done (the driver, full). `dev` turns failing and
back at any moment; while failing any ioctl may fail. `FormatPcs` are the
`VIDIOC_S_FMT` that new may issue: the wanted format, or NV12 and then YUYV.
`driverFormat` is what the driver captures in, `format` what the session has
kept of its answer; a refused format may change the former all the same. Until
`VIDIOC_REQBUFS` another process may set the driver's format (`Meddle`).

**PipewireCapture.** `lock` and `loop` are the loop's lock and thread;
`pw_thread_loop_wait` releases the lock (`cpc = "wait"`) and `Wakes` takes it
again after a signal. The n-th start of a session makes core and stream number
n. `stop` leaves core and stream in place, and the next start overwrites the
pointers; both are freed with the context on destroy, as in the code. Stream
events that arrive before `running` is set reach nobody. `ses.format` is what
`on_param_changed` has parsed last, `pw.format` what the stream carries; a
param that is not a raw video format leaves the former alone.

**AvfCapture.** `pending` counts queued blocks, `ahead` those in front of the
waiting `dispatch_sync`. `KeepFrame`/`DropFrame` are the user's `to_owned`,
`clone` and drop of a `PixelBuffer`.

**MfCapture.** Each capture is a record; `callback` says who owns the boxed
callback, `format` the media type the reader was given: the wanted one, or the
first that is accepted of those that new builds, or the native one. The
enumeration is a record too (`listing`) and takes the devices one by one. Failure paths of `new` undo in the order the code's closure and
guards do (`CreateUndo`). A panic of the callback unwinds through the media
buffer's lock and the COM guard of the thread; a panic of
`std::thread::spawn` is `StartSpawnPanics`.

**FramePlanes.** `Dims`, `Strides` and `Lengths` are the values a frame may
have; `I32Max` and `USizeMax` are the machine's limits, with wrapping or
checked arithmetic where the source wraps or checks.

**PipewireEnumerate.** `requests` and `events` are the two directions of the
connection; the daemon (external) serves requests in order. `devices` and
`pending` are the parallel arrays, `moves` counts the reallocs that moved
`pending`, and `home` is its value when a listener was registered: a listener
is stale when they differ. `blocks` are the formats that are allocated, a node's
own and those that nothing points to any more. A param for a live listener is
`NodeParam`, or `NodeParamFails` when the formats cannot grow. For a stale one it
is `StaleParam`: `on_node_param` then works on the `PendingNode` in the freed
array, so the live one learns nothing, and when the freed one has to grow, its
formats are reallocated to where only freed memory points; they may be the same
block as the live one's, which then dangles. From that step on `astray` is
true. `RegistryGlobal` sends the request for the params or does not, as the code
looks at neither result. Three history variables serve the properties: `early`
(the nodes there at the beginning), `missed` (given up for want of memory or a
proxy) and `shortened` (listed, but not asked or without memory for a format). A
loop told to quit may still dispatch events it has received. Rust's
`FfiDeviceListImpl` owns the result until `DropList`.

**DeviceListing.** `at` says which camera is behind which node, and changes at
any moment; `heap` counts every allocation, `fd` is the one descriptor there may
be. A node is probed (`Probe`: stat and open), asked for its capabilities and
closed (`QueryCap`), allocated, opened again (`OpenNode`), asked for its formats
one by one, and appended. Each of these may fail at any node, whether its camera
is still there or not: the probe, QUERYCAP, the second open, ENUM_FMT
(`EnumEnds`, after any number of formats), ENUM_FRAMESIZES (`EnumSizesFail`,
which skips the format or lists the sizes before) and the allocations. Two
history variables serve the properties: `disturbed`, the nodes whose camera has
changed since the beginning, and `refused`, those about which a call failed.
AVFoundation's array is the cameras found at the beginning.

**Refinement.** Every capture backend defines
`Contract == INSTANCE CaptureContract WITH ...` with the phase computed from
the call in progress and the running flag, and `inCallback` from the program
counter of its thread. `ImplementsContract` is the abstract specification under
that mapping (for Media Foundation, `FirstImplementsContract` for one of the
captures while another one interferes).

## Runs

Each run is `tlc -config <cfg> <module>`.

| run | bounds | what it shows |
|---|---|---|
| `V4l2` | 3 buffers; 2 pixel formats, each in the size asked for or another | Memory in the callback, flags, no leaks, the ring, restart, the format told with a frame; the session refines the contract and every call returns; frames keep coming |
| `Pipewire` | 3 starts per session; formats asked for, another, one of unknown kind, or not raw | Live pointers, exclusion by the lock, the format told with a frame, flags, no leaks; every call returns; refinement |
| `Avf` | 2 queued samples, 1 kept buffer, session may stop by itself | Locked and retained memory in the callback, balance of references, stop drains the queue; the backend refines the contract until the session stops by itself, and stop returns even then |
| `Mf` | 2 captures and the enumeration | Balance of Media Foundation, ownership of the callback, a reader that has a media type, no leak on a panic or in the enumeration, refinement |
| `DeviceListing` | 2 cameras, 2 nodes, 3 formats of which the first and last are known | A node that kept its camera is listed as that camera, completely if no call failed; no block and no descriptor is leaked, except exactly what issues/0045 records |
| `PipewireEnumerate` | 3 cameras, 3 params each of which the first and last are usable, first capacity 2 (8 in the code), of the formats 1 (4 in the code) | Cameras are listed with their formats, all of them unless a failure cut them short; listeners are live until the arrays grow; nothing leaks unless a stale listener was called; the loop ends when the daemon answers |
| `PlanesSafety` | 4-bit `int`, 8-bit `size_t`, sizes and strides around every boundary | Slices lie in the checked bytes, or exceed them by a padding; planes are disjoint, what C accepted is delivered |
| `V4l2ThreadDies`, `PipewireStaleError`, `AvfFailedStart`, `MfPanicRestart`, `PlanesPadding` | as the passing run | one disagreement each, see below |

**Properties.** `CallbackMemoryIsSafe`, `CallbackIsSafe`, `FrameMemoryIsHeld`
and `ReaderIsUsable` say that a callback never reads memory that belongs to
someone else or is gone. `FlagsTellTheTruth` ties both running flags to the
existence of the thread. `BuffersAreKept` (`RingIsComplete` while capturing,
`StoppedIsRestartable` after), `MfIsBalanced`, `CallbackIsRecovered` and
`NothingLeaks` are the conservation laws. `FramesMatchFormat` says that a frame
is described by the format it was captured in, not by one that was asked for, or
of an earlier stream. `ListIsComplete`, `ListIsFaithful` and `ListenersAreLive`
are the enumerations' results and memory. The first two say what a list is worth
although every failure is silent: which cameras are on it, whose formats they
have, and when these are all. Where the camera behind a V4L2 node changed between
the two opens, its name and its formats may be of two cameras; `ListIsFaithful`
promises only that the formats are of one. Once a stale listener has been called,
`ListIsComplete` and the part of `NothingLeaks` about formats promise nothing. `SlicesAreBounded`,
`PlanesAreDisjoint` and `CheckedIsDelivered` are the arithmetic.
`ImplementsContract` is the life cycle; `CallsReturn`, `FramesKeepComing` and
`EnumerationEnds` are liveness, and so are halves of the contract.

**Bounds and why they are enough.** Three buffers let the driver hold one, the
thread another, and leave one queued; the safety properties are proved for any
number. Three starts show two generations of leftover cores and streams. Two
waiting samples and one that runs make `dispatch_sync` wait for several. Two
sizes and two pixel formats are all that a comparison of a wish with an answer
can tell apart. With two cameras and two nodes they can swap places, and one
can be listed after a failure of the other; of three formats the unknown one in
the middle may be skipped and an unplug or a failing ioctl may cut the list
anywhere; the three params of PipeWire's cameras are chosen likewise, and with
room for one format the second one makes the formats grow. Two captures are enough for
one capture to shut Media Foundation down under another. With 4-bit ints and
8-bit sizes every overflow and rounding case of the formulas occurs, and the
theorems cover the real widths. A first capacity of two lets a third camera make
the arrays grow, with and without moving. No counter is unbounded otherwise.

**Fairness and why the code justifies it.**

- V4L2, AVF, MF: weak fairness of the call in progress and of the backend's
  thread: a thread that can run does, and the callback returns (`src/lib.rs`
  forbids it to block). Nothing is assumed of the camera: V4L2's `select` gives
  up by itself.
- PipeWire: strong fairness of the call, because it competes for the loop's
  lock, which the loop gives up before every poll. `CallsReturn` assumes nothing
  of the daemon for stop and drop (`StopReturns`); for start (`StartReturns`) it
  has the premise `DaemonAnswers`, since the code waits without a timeout
  (issues/0036).
- PipeWire's enumeration: weak fairness of the caller; `EnumerationEnds` has the
  premise that the daemon serves its requests (issues/0036).
- `FramesKeepComing` has the premise `CameraStreams`: the camera fills the
  buffers it has, `select` does not lose to signals for ever and not every
  frame is short.
- AVF `AnsweringSpec`: the user answers the permission prompt.
- `DeviceListing` has no liveness: V4L2 walks a fixed range of nodes and ends
  each list of formats at the driver's word.
- MF: ReadSample returns. The code can neither time out nor cancel it, so with
  a silent device `stop` blocks.

Deadlock is checked in every run except those of `FramePlanes`, which takes one
frame and ends.

## Where code and documentation part

Each has a run that TLC stops with a trace.

1. `V4l2ThreadDies`: after an error of select, DQBUF or QBUF the capture thread
   is gone while `running` stays set; `start` then returns Ok at once
   (`src/video_v4l2.c:555`, against `src/lib.rs:8`).
2. `PipewireStaleError`: `stream_error` is never cleared, so once a stream has
   had an error every later start fails (`src/video_pipewire.c:927`, against
   `src/capture.rs:111`).
3. `AvfFailedStart`: a start that finds the session not running leaves the
   delegate attached; Rust's flag is false, so drop does not drain the queue
   and a queued block finds a freed context (`src/video_avf.m:516`, against
   `src/capture_ffi.rs:267`).
4. `MfPanicRestart`: after a panic of the callback, `start` returns Ok instead
   of `CaptureFaulted` until `stop` is called (`src/capture_mf.rs:72`, against
   `src/capture.rs:116`).
5. `PlanesPadding`: PipeWire's check of YUY2 leaves out the padding of the last
   row, Rust's slice includes it (`src/video_pipewire.c:494`, against
   `src/capture_ffi.rs:330`). `OverrunIsPadding` shows and proves that the
   excess is at most that padding.

The passing runs of the same modules are restricted by no more than these: the
AVF refinement excludes a session that stops by itself (history variable
`interrupted`), V4L2's `StartedIsCapturing` and `StoppedIsRestartable` exclude
sessions in which an ioctl has failed (history variable `failed`) and its
`FramesMatchFormat` those in which another process has set the format in the
window before `VIDIOC_REQBUFS` (`meddled`), `SlicesAreInBuffer` excludes padded
YUY2 of PipeWire, for which `OverrunIsPadding` stands in.

## Proofs

`tlapm <module>` for each of the eight proof modules. Every invariant that a
passing run checks is the subject of a theorem (`THEOREM ... == Spec => []Inv`),
so it holds for every value of the constants that satisfies the named
assumption of the module. Each component has one inductive invariant, `IndInv`,
a conjunction of named parts that TLC checked before it was proved;
`Invariance` is `Spec => []IndInv`, by one lemma or step per action.

What is assumed of the constants is little: counts are naturals, sets of
captures and nodes are finite (their members are counted or listed), and in
`DeviceListing` the value `None`, which stands for a NULL pointer and for a
node without a camera, and `"gone"`, which stands for a descriptor whose camera
was unplugged, are no cameras.

**CaptureContractProofs** says what the abstract specification amounts to for a
user: `PromisesKept`, that a callback runs only between a start and the return of
its stop, and `FaultStays`, that after a panic nothing but a new capture runs.
Each backend has the first of them as a theorem of its own,
`NoCallbackAfterStop`, in terms of its own state: the call of `FfiCapture` or
`MfCapture` in progress and the program counter of the thread that calls back.

**V4l2CaptureProofs**, for every `MaxBuffers >= 2`. The properties are not
inductive: that the buffer in the callback is mapped depends on when buffers
are mapped, that depends on which call is in progress, and that a stopped
session has no thread on where the flags are set. `IndInv` adds, in named
parts, what each call guarantees at each of its points: `CallsMatch` relates
the Rust call to the place inside C, `FlagsMatch` the two flags and the thread
to both, others describe which buffers are mapped, which are queued at each
step of start and stop, what holds when nothing has failed, and from which
point of new on the session's format is the driver's (`Agreed`). `IndInv` was
first checked by TLC with four buffers. `Invariance` proves
`Spec => []IndInv`, one step per action; `TypeCorrect`, `CallbackMemory`,
`FlagsTruth` (from `FlagsAgree`, `NoThreadWhenStopped` and `Capturing`),
`NoLeak`, `BuffersKept` (from `RingComplete` and `Restartable`) and
`FormatKnown` follow. `ImplementsLifeCycle` proves
the refinement `Spec => ImplementsContract`: initial states map to initial
states, and each action to one named step of the contract or to a stutter.

**AvfCaptureProofs**, for any `MaxPending` and `MaxKept`, with `Interruptible`
or without. Its `IndInv` has the same first parts, and three of its own:
`FrameHeld` says what `captureOutput` holds at each of its points, `Draining`
that the block of `dispatch_sync` is behind exactly what is left on a queue that
can only get shorter, `Undisturbed` where samples may come from as long as the
session has not stopped by itself. `TypeCorrect`, `FrameMemory`, `NoLeak` and
the action property `StopIsDraining` follow; `ImplementsLifeCycle` proves the
safety part of `UninterruptedContract`.

**PipewireCaptureProofs**, for any number of starts per session. The pointers
are live and the callback is safe because of who has the lock, and that depends
on the points at which the caller, the loop's thread and the stream are. So
`IndInv` has `CallsMatch` and `FlagsMatch` as before, `LoopRuns` (the loop has a
thread exactly between two points of start and stop), `Locks` (who holds the
lock at each point of either thread), `Objects` (a start makes the core and
stream of its own number; until it has made the stream, the session's stream is
of an earlier start and outlives the end of the new core), `Streams` (handlers
run only for a stream that streams) and `Formats`. The hard step is a start that
fails after it connected its core (`GivingUp`): the stream goes with the core
only if it was made by this start. `PointersLive`, `CallbackSafe`,
`FormatKnown`, `FlagsTruth`, `NoLeak` and `TypeCorrect` follow, and
`ImplementsLifeCycle` proves `Spec => ImplementsContract`.

**MfCaptureProofs**, for any finite set of captures next to the enumeration.
`CaptureInv(c)` says, of one capture, when it has a thread and a handle, who has
the callback, when source and media type are usable, and what the thread holds;
`ListingInv` what the enumeration holds; `MfIsBalanced` is the only part about
several of them. A step of a capture changes its own record and the count of
Media Foundation (`StepIsLocal`), so the parts about one capture are proved for
that one, and the balance by counting the captures that hold a reference, with
the cardinality theorems. `Balance`, `ReaderSafe` (Media Foundation is up
because the count includes the reader's own reference), `CallbackKept`,
`NoLeak` and `TypeCorrect` follow. `ImplementsLifeCycle` proves of every capture
`c` that `Spec => Life(c)!ContractSafety`, whatever the other captures and the
enumeration do: the safety half of what the run `Mf` checks of the first.

**PipewireEnumerateProofs**, for any finite set of nodes, any number of params
and any first capacities. That the list is complete rests on a chain of
orderings, which `IndInv` spells out over the two queues of the connection:
`Syncs` (a sync is a request or its answer, once, and the second is issued
after the first was answered; the loop ends after the answer to the second),
`Announced` (a node is announced, asked and listed at most once), `Early` (a
node that was there from the beginning is announced before the answer to the
first sync) and `Collecting` (as long as no stale listener has been called, such
a node has been asked before the second sync, or its remaining answers are the
next consecutive ones, before the answer to the second sync). `Collected` says
what a node has by then: usable params among those handled, in order, and all
of them unless the node is shortened. `Owned` says that the blocks of formats
are those the pending nodes point to, and after the loop those of the devices.
`Phases` and `Arrays` describe what the caller holds and the parallel arrays.
The three ways a param is handled share the lemma `TakesParam`, which asks of
each what it does to the node's formats and blocks. `Complete`,
`ListenersLive`, `NoLeak` and `TypeCorrect` follow. The general lemmas are about
adding to and taking from a queue in which something is at most once, or
before something else.

**DeviceListingProofs**, for any cameras, nodes and formats and both backends.
`Accounted` gives every block of the heap its owner, a device in the list or
the loop that is collecting formats; `Ordered` and `Progress` say where the loop
over the nodes is, and when a descriptor is open; `Undisturbed` that a node
which is not disturbed has the camera it had at the beginning. `Done` says what
is known of a node gone through, with and without a failed call about it;
`Behind` that it holds of all undisturbed nodes passed, and `Here` that the
current one is as far as the program counter says: what has been collected
(`Collected`) is of its camera, and all there is by now unless a call failed.
`OneCamera`, a part of `Here`, says that the formats of any entry are from one
descriptor and so from one camera, even when the node was disturbed.
`Faithful`, `NoLeak` and `TypeCorrect` follow.

**FramePlanesProofs**, for every width of `int` and `size_t` that satisfies
`FramePlanes`' assumptions and all sizes, strides and lengths:
`SlicesBounded` (from `SlicesStayInBuffer` and `OverrunIsBounded`),
`PlanesStayDisjoint`, `ChecksAgree` and `TypeCorrect`. The lemmas are about the formulas: the lengths Rust computes
are at most what the C checks asked for, format by format.

**Only model-checked.** Liveness, which is beyond the prover: `CallsReturn`,
`FramesKeepComing`, `EnumerationEnds`, and in `ImplementsContract` of
`AvfCapture` and `FirstImplementsContract` of `MCMfCapture` the half that says
that calls return. The safety halves of both are `ImplementsLifeCycle` of the
modules above.

## What is not modelled

- A callback that calls `stop` or drops the capture (forbidden by the
  documentation, not prevented by the code; issues/0043).
- A panic of the callback in the FFI backends: `frame_callback` is
  `extern "C"`, so it aborts the process.
- Pixel contents, frame rates, timestamps. A format is its pixel format and
  whether the size is the one asked for; in `DeviceListing` it is one datum, with
  the frame sizes and intervals that belong to it.
- The stride the V4L2 driver chose (`bytesperline`): the code does not look at
  it (issues/0029), and neither does the model.
- Media types that change while Media Foundation streams, and descriptors
  beyond `FD_SETSIZE` (issues/0033).
- Which camera AVFoundation opens for an unknown id (issues/0049).
- PipeWire's listener hooks that `stop` leaves linked and `start` zeroes
  (issues/0031); its core and stream objects are modelled.
- The names and formats Media Foundation's enumeration reads: copies of
  attributes. `device.rs`, which forwards to the backend, and `build.rs`, which
  selects it, have no state.
- In PipeWire's enumeration, other globals than Video/Source nodes, and names.
  A camera that appears between the two syncs may be listed without formats
  (`src/video_pipewire.c:249` expects otherwise); the model has that behaviour
  and `ListIsComplete` does not exclude it.
- What a stale listener of that enumeration does to memory that has a new owner,
  or the owner to it, and a crash there; `StaleParam` is about the formats only.
  A sync that cannot be sent is a daemon that does not answer (issues/0036).
- `usize` narrower than 64 bits; C signed overflow is taken to wrap.
- Memory ordering: flags are atomic in the sources and modelled as sequentially
  consistent.

## Plan

Done, in this order: `CaptureContract`, `FfiCapture`, `V4l2Capture` with its
proofs, `PipewireCapture`, `AvfCapture`, `MfCapture`, `FramePlanes` with its proofs,
`PipewireEnumerate`, `DeviceListing`; the negotiation of formats in the backends;
the proofs about `AvfCapture`; the proofs about `CaptureContract`, `PipewireCapture`, `MfCapture`,
`PipewireEnumerate` and `DeviceListing`, and with them all invariants and the
safety half of all refinements.

Next: action properties that follow from the invariants: which thread may change
which part of the state, and when (who frees a buffer, a stream or a source, and
what no step may do while the callback runs).
