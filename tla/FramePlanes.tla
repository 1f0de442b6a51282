----------------------------- MODULE FramePlanes -----------------------------
(***************************************************************************)
(* How much of a backend's buffer a VideoFrame may read.                   *)
(*                                                                         *)
(* A backend knows how many bytes its buffer holds; it checks them against *)
(* the geometry of the frame and calls frame_callback of                   *)
(* src/capture_ffi.rs, which is told the geometry but not the bytes and    *)
(* makes the slices of the VideoFrame from the geometry alone.  The two    *)
(* computations are written in two languages and in five places; here they *)
(* are compared.  The Media Foundation backend does both in one function.  *)
(*                                                                         *)
(* Integers have their C and Rust width: int is INT_MIN .. I32Max, size_t, *)
(* uint64_t and usize are 0 .. USizeMax (the 64-bit targets the library    *)
(* supports), uint32_t is 0 .. U32Max.  TLC runs a scaled machine with     *)
(* 4-bit ints and an 8-bit size_t, which keeps the ratio.                  *)
(***************************************************************************)
EXTENDS Integers

CONSTANTS
  I32Max,          \* INT32_MAX
  USizeMax,        \* SIZE_MAX
  MjpegMaxPayload, \* MJPEG_MAX_PAYLOAD_BYTES of video_v4l2.c
  Dims,            \* the widths and heights a device may report
  Strides,         \* the strides a producer may report
  Lengths          \* the byte counts a driver or a producer may report

U32Max == 2 * I32Max + 1
Int32s == -I32Max - 1 .. I32Max

ASSUME PlanesAssumption ==
  /\ I32Max \in Nat /\ I32Max >= 1
  /\ USizeMax \in Nat /\ USizeMax + 1 >= 4 * (I32Max + 1) * (I32Max + 1)
  /\ MjpegMaxPayload \in 0 .. I32Max
  /\ Dims \subseteq Int32s
  /\ Strides \subseteq Int32s
  /\ Lengths \subseteq 0 .. U32Max

VARIABLES
  backend,   \* the backend of the capture
  geometry,  \* the width, height and pixel format it has negotiated
  pc,        \* idle, in frame_callback, or in the user's callback
  mem,       \* the bytes behind the data pointer, and where uv_data points
  args,      \* the arguments of frame_callback
  slices     \* the lengths of the slices of the VideoFrame

vars == <<backend, geometry, pc, mem, args, slices>>

Backends == {"avf", "v4l2", "pipewire", "mf"}
Formats  == {"nv12", "i420", "yuy2", "mjpeg", "unknown"}
Planar   == {"nv12", "i420"}

Geometries == [width : Dims, height : Dims, format : Formats]

-----------------------------------------------------------------------------
(* (n + 1) / 2 in C, div_ceil(2) in Rust. *)
Halved(n) == (n + 1) \div 2

(* The conversion to size_t, and arithmetic on it: modulo its width. *)
USize(n) == n % (USizeMax + 1)

(* int arithmetic that leaves the range of int is undefined in C; the      *)
(* builds wrap, and so does the conversion of a larger type.               *)
Int32(n) == ((n + I32Max + 1) % (U32Max + 1)) - (I32Max + 1)

(* checked_mul and mul_u64_ov, add_u64_ov: the result fits. *)
Fits(n) == n <= USizeMax

-----------------------------------------------------------------------------
(***************************************************************************)
(* src/frame_math.rs: what frame_callback makes of its arguments.          *)
(***************************************************************************)
DataBytes(a) ==
  IF a.format = "mjpeg" THEN a.stride ELSE a.stride * a.height

UvBytes(a) ==
  CASE a.format = "nv12" -> a.strideUv * Halved(a.height)
    [] a.format = "i420" -> a.strideUv * Halved(a.height) * 2
    [] OTHER             -> 0

(* frame_callback ignores a frame with a size or stride that is not        *)
(* positive, or with a plane missing.                                      *)
RustAccepts(a) ==
  /\ a.format # "unknown"
  /\ a.width > 0 /\ a.height > 0
  /\ a.stride > 0
  /\ a.format \in Planar => a.uv /\ a.strideUv > 0
  /\ Fits(DataBytes(a)) /\ Fits(UvBytes(a))

SlicesOf(a) == [data |-> DataBytes(a), uv |-> UvBytes(a)]

NoMem == [size |-> 0, uvAt |-> 0]
NoArgs == [width |-> 0, height |-> 0, stride |-> 0, strideUv |-> 0,
           format |-> "unknown", uv |-> FALSE]
NoSlices == [data |-> 0, uv |-> 0]

-----------------------------------------------------------------------------
(* The pixel formats a backend can negotiate, src/capture_ffi.rs and the   *)
(* conversion tables of the backends.                                      *)
Negotiable ==
  CASE backend = "v4l2" -> {"nv12", "i420", "yuy2", "mjpeg"}
    [] backend = "pipewire" -> Formats \ {"mjpeg"}
    [] OTHER -> {"nv12", "i420", "yuy2"}

Init ==
  /\ backend \in Backends
  /\ geometry \in Geometries
  /\ geometry.format \in Negotiable
  /\ pc = "idle" /\ mem = NoMem /\ args = NoArgs /\ slices = NoSlices

(* A capture begins with a negotiated geometry.  V4L2 keeps the one that   *)
(* VIDIOC_S_FMT returned and Media Foundation the one of its source        *)
(* reader; PipeWire may announce another one between any two frames        *)
(* (on_param_changed), whatever the buffers under way were made for;       *)
(* AVFoundation reads it from every sample.                                *)
Negotiate ==
  /\ pc = "idle"
  /\ backend \in {"pipewire", "avf"}
  /\ geometry' \in Geometries
  /\ geometry'.format \in Negotiable
  /\ UNCHANGED <<backend, pc, mem, args, slices>>

(* The C side calls frame_callback with a plane pointer, with uv_data      *)
(* pointing uvAt bytes further, and with size bytes behind the pointer.    *)
Call(size, uvAt, a) ==
  /\ pc' = "callback"
  /\ mem' = [size |-> size, uvAt |-> uvAt]
  /\ args' = a
  /\ UNCHANGED <<backend, geometry, slices>>

CallbackArgs(stride, strideUv) ==
  [width |-> geometry.width, height |-> geometry.height,
   stride |-> stride, strideUv |-> strideUv,
   format |-> geometry.format, uv |-> geometry.format \in Planar]

-----------------------------------------------------------------------------
(***************************************************************************)
(* capture_thread of src/video_v4l2.c: the stride is the width, and        *)
(* everything is computed in size_t.                                       *)
(***************************************************************************)
V4l2YBytes == USize(USize(geometry.width) * USize(geometry.height))
V4l2UvRows == USize(USize(geometry.height) + 1) \div 2

V4l2StrideUv ==
  CASE geometry.format = "nv12" -> geometry.width
    [] geometry.format = "i420" -> Int32(geometry.width + 1) \div 2
    [] OTHER -> 0

BadV4l2Need ==
  CASE geometry.format = "nv12" ->
         USize(V4l2YBytes + USize(USize(geometry.width)
                                  * (USize(geometry.height) \div 2)))
    [] geometry.format = "i420" ->
         USize(V4l2YBytes + USize(USize(V4l2StrideUv) * V4l2UvRows * 2))
    [] OTHER ->
         USize(USize(USize(geometry.width) * 2) * USize(geometry.height))

V4l2Need ==
  CASE geometry.format = "nv12" ->
         USize(V4l2YBytes + USize(USize(geometry.width) * V4l2UvRows))
    [] geometry.format = "i420" ->
         USize(V4l2YBytes + USize(USize(V4l2StrideUv) * V4l2UvRows * 2))
    [] OTHER ->
         USize(USize(USize(geometry.width) * 2) * USize(geometry.height))

V4l2Stride(available) ==
  CASE geometry.format \in Planar -> geometry.width
    [] geometry.format = "yuy2"  -> Int32(geometry.width * 2)
    [] OTHER                     -> available

(* A dequeued buffer of length mapped bytes (never 0: mmap refuses that),  *)
(* of which the driver says it has used some.                              *)
V4l2Frame(used, length) ==
  LET available == IF used < length THEN used ELSE length IN
  /\ backend = "v4l2" /\ pc = "idle"
  /\ length # 0 /\ used # 0
  /\ IF geometry.format = "mjpeg"
       THEN available <= MjpegMaxPayload
       ELSE V4l2Need <= available
  /\ Call(available, V4l2YBytes,
          CallbackArgs(V4l2Stride(available), V4l2StrideUv))

-----------------------------------------------------------------------------
(***************************************************************************)
(* on_process of src/video_pipewire.c with required_bytes_nv12, _i420 and  *)
(* _yuy2: the stride comes with each chunk.                                *)
(***************************************************************************)
RequiredBytes(stride, strideUv) ==
  CASE geometry.format = "nv12" ->
         stride * geometry.height + strideUv * Halved(geometry.height)
    [] geometry.format = "i420" ->
         stride * geometry.height + strideUv * Halved(geometry.height) * 2
    [] OTHER ->
         stride * (geometry.height - 1) + geometry.width * 2

(* When required_bytes_* report a requirement at all. *)
BadIsRequirable(stride, strideUv) ==
  /\ geometry.height > 0
  /\ Fits(RequiredBytes(stride, strideUv))

IsRequirable(stride, strideUv) ==
  /\ geometry.height > 0
  /\ IF geometry.format = "yuy2"
       THEN geometry.width > 0 /\ stride >= geometry.width * 2
       ELSE strideUv > 0
  /\ Fits(RequiredBytes(stride, strideUv))

(* (stride + 1) / 2 in int: C division truncates towards zero, which only  *)
(* differs from \div for the wrapped INT_MIN, refused either way.          *)
PipewireStrideUv(stride) ==
  CASE geometry.format = "nv12" -> stride
    [] geometry.format = "i420" -> Int32(stride + 1) \div 2
    [] OTHER -> 0

BadPipewireFrame(stride, offset, size, maxsize) ==
  LET strideUv == PipewireStrideUv(stride)
      need == RequiredBytes(stride, strideUv)
  IN
  /\ backend = "pipewire" /\ pc = "idle"
  /\ stride > 0
  /\ geometry.width > 0 /\ geometry.height > 0
  /\ geometry.format # "unknown"
  /\ IsRequirable(stride, strideUv)
  /\ need <= maxsize
  /\ size # 0 /\ need <= size
  /\ Call(maxsize - offset, stride * geometry.height,
          CallbackArgs(stride, strideUv))

MisplacedUvFrame(stride, offset, size, maxsize) ==
  LET strideUv == PipewireStrideUv(stride)
      need == RequiredBytes(stride, strideUv)
  IN
  /\ backend = "pipewire" /\ pc = "idle"
  /\ stride > 0
  /\ geometry.width > 0 /\ geometry.height > 0
  /\ geometry.format # "unknown"
  /\ IsRequirable(stride, strideUv)
  /\ offset <= maxsize /\ need <= maxsize - offset
  /\ size # 0 /\ need <= size
  /\ Call(maxsize - offset, geometry.width * geometry.height,
          CallbackArgs(stride, strideUv))

PipewireFrame(stride, offset, size, maxsize) ==
  LET strideUv == PipewireStrideUv(stride)
      need == RequiredBytes(stride, strideUv)
  IN
  /\ backend = "pipewire" /\ pc = "idle"
  /\ stride > 0
  /\ geometry.width > 0 /\ geometry.height > 0
  /\ geometry.format # "unknown"
  /\ IsRequirable(stride, strideUv)
  /\ offset <= maxsize /\ need <= maxsize - offset
  /\ size # 0 /\ need <= size
  /\ Call(maxsize - offset, stride * geometry.height,
          CallbackArgs(stride, strideUv))

-----------------------------------------------------------------------------
(***************************************************************************)
(* captureOutput of src/video_avf.m.  CoreVideo allocates stride times the *)
(* rows of every plane; the U and V planes of I420 are copied behind each  *)
(* other into a buffer of the common stride strideUv.  The planes are      *)
(* separate allocations, here laid out one after the other.                *)
(***************************************************************************)
AvfFrame(stride, strideU, strideV) ==
  LET strideUv == CASE geometry.format = "nv12" -> strideU
                    [] geometry.format = "i420" ->
                         IF strideU > strideV THEN strideU ELSE strideV
                    [] OTHER -> 0
      uvSize == CASE geometry.format = "nv12" -> strideUv * Halved(geometry.height)
                  [] geometry.format = "i420" -> strideUv * Halved(geometry.height) * 2
                  [] OTHER -> 0
      ySize == stride * geometry.height
  IN
  /\ backend = "avf" /\ pc = "idle"
  /\ geometry.width > 0 /\ geometry.height > 0
  /\ stride > 0 /\ strideU > 0 /\ strideV > 0
  /\ Call(ySize + uvSize, ySize, CallbackArgs(stride, strideUv))

-----------------------------------------------------------------------------
(* frame_callback builds the VideoFrame, or ignores the frame. *)
FrameCallback ==
  /\ pc = "callback"
  /\ IF RustAccepts(args)
       THEN pc' = "user" /\ slices' = SlicesOf(args) /\ UNCHANGED <<mem, args>>
       ELSE pc' = "idle" /\ mem' = NoMem /\ args' = NoArgs /\ UNCHANGED slices
  /\ UNCHANGED <<backend, geometry>>

(* process_sample of src/capture_mf.rs: the length of the locked buffer    *)
(* against the packed frame of src/frame_math.rs.                          *)
MfStrideUv ==
  CASE geometry.format = "nv12" -> geometry.width
    [] geometry.format = "i420" -> Int32(geometry.width + 1) \div 2
    [] OTHER -> 0

MfRequired ==
  CASE geometry.format = "nv12" ->
         geometry.width * geometry.height + geometry.width * Halved(geometry.height)
    [] geometry.format = "i420" ->
         geometry.width * geometry.height
           + Halved(geometry.width) * Halved(geometry.height) * 2
    [] OTHER ->
         geometry.width * 2 * geometry.height

MfFrame(length) ==
  LET yuy2 == geometry.format = "yuy2"
      ySize == IF yuy2 THEN MfRequired ELSE geometry.width * geometry.height
  IN
  /\ backend = "mf" /\ pc = "idle"
  /\ geometry.format # "unknown"
  /\ geometry.width > 0 /\ geometry.height > 0
  /\ yuy2 => geometry.width * 2 <= I32Max
  /\ Fits(MfRequired)
  /\ length >= MfRequired
  /\ pc' = "user"
  /\ mem' = [size |-> length, uvAt |-> ySize]
  /\ args' = CallbackArgs(IF yuy2 THEN geometry.width * 2 ELSE geometry.width,
                          MfStrideUv)
  /\ slices' = [data |-> ySize, uv |-> MfRequired - ySize]
  /\ UNCHANGED <<backend, geometry>>

(* The user's callback returns; the slices end with it. *)
UserReturns ==
  /\ pc = "user"
  /\ pc' = "idle" /\ mem' = NoMem /\ args' = NoArgs /\ slices' = NoSlices
  /\ UNCHANGED <<backend, geometry>>

Next ==
  \/ Negotiate
  \/ \E used, length \in Lengths : V4l2Frame(used, length)
  \/ \E stride \in Strides, offset, size, maxsize \in Lengths :
       PipewireFrame(stride, offset, size, maxsize)
  \/ \E stride, strideU, strideV \in Strides : AvfFrame(stride, strideU, strideV)
  \/ \E length \in Lengths : MfFrame(length)
  \/ FrameCallback
  \/ UserReturns

Spec == Init /\ [][Next]_vars

-----------------------------------------------------------------------------
(***************************************************************************)
(* Properties.                                                             *)
(***************************************************************************)
TypeOK ==
  /\ backend \in Backends
  /\ geometry.width \in Int32s /\ geometry.height \in Int32s
  /\ geometry.format \in Negotiable
  /\ pc \in {"idle", "callback", "user"}
  /\ mem.size \in Nat /\ mem.uvAt \in Nat
  /\ args.width \in Int32s /\ args.height \in Int32s
  /\ args.stride \in Int32s /\ args.strideUv \in Int32s
  /\ args.format \in Formats /\ args.uv \in BOOLEAN
  /\ slices.data \in Nat /\ slices.uv \in Nat

(* The PipeWire YUY2 frame, whose last row the C side does not require to  *)
(* be padded to the stride.                                                *)
PaddedYuy2 == backend = "pipewire" /\ args.format = "yuy2"

(* The slices Rust makes never reach beyond the bytes that C has checked,  *)
(* although Rust is not told how many they are; the one exception is       *)
(* PaddedYuy2.                                                             *)
SlicesAreInBuffer ==
  pc = "user" /\ ~PaddedYuy2 =>
    /\ slices.data <= mem.size
    /\ args.uv => mem.uvAt + slices.uv <= mem.size

(* The same for every frame: frame_callback makes its slices on the        *)
(* strength of "the valid area that the C side guarantees".                *)
EverySliceIsInBuffer ==
  pc = "user" => slices.data <= mem.size

(* What a padded YUY2 frame reads too much is the padding of the last row  *)
(* at most.                                                                *)
OverrunIsPadding ==
  pc = "user" /\ PaddedYuy2 =>
    slices.data <= mem.size + args.stride - 2 * args.width

(* No slice leaves its buffer by more than that padding, on any backend.   *)
SlicesAreBounded == SlicesAreInBuffer /\ OverrunIsPadding

(* The UV slice begins where the Y slice ends, and not before: the C       *)
(* pointer and the Rust length agree on the size of the Y plane.           *)
PlanesAreDisjoint ==
  pc = "user" /\ args.uv => slices.data = mem.uvAt

(* A frame whose buffer C has found large enough is not thrown away by     *)
(* Rust: the two checks agree.  (Nor is a width of half the int range.)    *)
CheckedIsDelivered ==
  pc = "callback" /\ args.width > 0 /\ args.height > 0
                  /\ args.width <= I32Max \div 2
    => RustAccepts(args)
=============================================================================
