-------------------------- MODULE FramePlanesProofs --------------------------
(***************************************************************************)
(* The slices of a VideoFrame stay inside the buffer, for every width of   *)
(* int and size_t and every size, stride and byte count.                   *)
(*                                                                         *)
(* The argument: what C checks is at least what Rust computes (one lemma   *)
(* for each backend, V4l2Backed with the care that size_t arithmetic does  *)
(* not wrap); IndInv carries that fact over the call of frame_callback.    *)
(***************************************************************************)
EXTENDS FramePlanes, TLAPS

(* The call of frame_callback under way is backed: if Rust accepts its     *)
(* arguments, the slices it will make lie inside the buffer.               *)
CallIsBacked ==
  pc = "callback" /\ RustAccepts(args) =>
    /\ ~PaddedYuy2 => DataBytes(args) <= mem.size
    /\ PaddedYuy2 => DataBytes(args) <= mem.size + args.stride - 2 * args.width
    /\ args.uv => /\ mem.uvAt = DataBytes(args)
                  /\ mem.uvAt + UvBytes(args) <= mem.size

UvIffPlanar == pc # "idle" => args.uv = (args.format \in Planar)

IndInv ==
  /\ TypeOK
  /\ UvIffPlanar
  /\ CallIsBacked
  /\ CheckedIsDelivered
  /\ SlicesAreInBuffer
  /\ OverrunIsPadding
  /\ PlanesAreDisjoint

-----------------------------------------------------------------------------
(* Arithmetic. *)

LEMMA RemainderIsSmall ==
  ASSUME NEW n \in Int, NEW m \in Nat, m > 0
  PROVE  n % m \in 0 .. m - 1
  BY SMT

LEMMA SmallRemainder ==
  ASSUME NEW n \in Nat, NEW m \in Nat, n < m
  PROVE  n % m = n
  BY SMT

LEMMA WrappedRemainder ==
  ASSUME NEW n \in Nat, NEW m \in Nat, m <= n, n < 2 * m
  PROVE  n % m = n - m
  BY SMT

LEMMA HalvedFacts ==
  ASSUME NEW n \in Nat
  PROVE  /\ Halved(n) \in Nat
         /\ n <= 2 * Halved(n) /\ 2 * Halved(n) <= n + 1
  BY DEF Halved

LEMMA ProductBound ==
  ASSUME NEW a \in Nat, NEW b \in Nat, NEW c \in Nat, NEW d \in Nat,
         a <= c, b <= d
  PROVE  a * b \in Nat /\ a * b <= c * d
  BY SMT

LEMMA ProductIsNat ==
  ASSUME NEW a \in Nat, NEW b \in Nat
  PROVE  a * b \in Nat
  BY SMT

(* size_t is wide enough for two planes of the largest picture.            *)
LEMMA TwoPlanesFit ==
  ASSUME NEW s \in Int32s, NEW t \in Int32s, NEW h \in Int32s,
         s > 0, t > 0, h > 0
  PROVE  /\ s * h \in Nat
         /\ t * Halved(h) \in Nat
         /\ t * Halved(h) * 2 \in Nat
         /\ s * h + t * Halved(h) * 2 <= USizeMax
         /\ t * Halved(h) <= t * Halved(h) * 2
<1> DEFINE K == I32Max + 1
<1>1. K \in Nat /\ s \in Nat /\ t \in Nat /\ h \in Nat
      /\ s <= K /\ t <= K /\ h <= K
  BY PlanesAssumption DEF Int32s
<1>2. Halved(h) \in Nat /\ Halved(h) <= K
  BY <1>1, HalvedFacts
<1>3. s * h \in Nat /\ s * h <= K * K
  BY <1>1, ProductBound
<1>4. t * Halved(h) \in Nat /\ t * Halved(h) <= K * K
  BY <1>1, <1>2, ProductBound
<1>5. K * K \in Nat /\ 4 * (K * K) <= USizeMax + 1 /\ 1 <= K * K
  <2>1. K * K \in Nat /\ 1 <= K * K
    BY PlanesAssumption, <1>1
  <2>2. 4 * K * K = 4 * (K * K)
    BY <1>1
  <2> QED
    BY <2>1, <2>2, PlanesAssumption
<1> HIDE DEF K
<1> QED
  BY <1>3, <1>4, <1>5, PlanesAssumption

(* Positive sizes and strides never overflow the checked arithmetic of     *)
(* frame_math.rs: frame_callback refuses a frame for its signs alone.      *)
LEMMA PositiveIsAccepted ==
  ASSUME NEW a,
         a.width \in Int32s, a.height \in Int32s, a.stride \in Int32s,
         a.strideUv \in Int32s, a.format \in Formats,
         a.stride > 0, a.height > 0,
         a.format \in Planar => a.strideUv > 0
  PROVE  /\ DataBytes(a) \in Nat /\ UvBytes(a) \in Nat
         /\ Fits(DataBytes(a)) /\ Fits(UvBytes(a))
<1>1. a.stride * a.height \in Nat /\ a.stride * a.height <= USizeMax
  BY TwoPlanesFit, PlanesAssumption
<1>2. a.stride \in Nat /\ a.stride <= USizeMax
  <2>1. a.stride <= a.stride * a.height
    <3>1. a.stride \in Nat /\ a.height \in Nat /\ a.height >= 1
      BY PlanesAssumption DEF Int32s
    <3> QED
      BY <3>1
  <2> QED
    BY <1>1, <2>1, PlanesAssumption DEF Int32s
<1>3. ASSUME a.format \in Planar
      PROVE  /\ a.strideUv * Halved(a.height) \in Nat
             /\ a.strideUv * Halved(a.height) * 2 \in Nat
             /\ a.strideUv * Halved(a.height) <= USizeMax
             /\ a.strideUv * Halved(a.height) * 2 <= USizeMax
  BY <1>1, <1>3, TwoPlanesFit, PlanesAssumption
<1>4. DataBytes(a) \in Nat /\ Fits(DataBytes(a))
  BY <1>1, <1>2 DEF DataBytes, Fits
<1>5. UvBytes(a) \in Nat /\ Fits(UvBytes(a))
  <2>1. CASE a.format = "nv12"
    BY <1>3, <2>1 DEF UvBytes, Fits, Planar
  <2>2. CASE a.format = "i420"
    BY <1>3, <2>2 DEF UvBytes, Fits, Planar
  <2>3. CASE a.format \notin Planar
    BY <2>3, PlanesAssumption DEF UvBytes, Fits, Planar
  <2> QED
    BY <2>1, <2>2, <2>3 DEF Planar
<1> QED
  BY <1>4, <1>5

LEMMA Int32IsInRange ==
  ASSUME NEW n \in Int
  PROVE  Int32(n) \in Int32s
<1> DEFINE k == n + I32Max + 1
           m == U32Max + 1
           r == k % m
<1>1. m \in Nat /\ m > 0 /\ k \in Int
  BY PlanesAssumption DEF U32Max
<1>2. r \in 0 .. m - 1
  <2> HIDE DEF k, m
  <2> QED
    BY <1>1, RemainderIsSmall
<1>3. Int32(n) = r - (I32Max + 1)
  BY DEF Int32
<1> HIDE DEF r
<1> QED
  BY <1>2, <1>3, PlanesAssumption DEF Int32s, U32Max

LEMMA Int32Keeps ==
  ASSUME NEW n \in Int32s
  PROVE  Int32(n) = n
<1> DEFINE k == n + I32Max + 1
           m == U32Max + 1
           r == k % m
<1>1. m \in Nat /\ k \in Nat /\ k < m
  BY PlanesAssumption DEF U32Max, Int32s
<1>2. r = k
  <2> HIDE DEF k, m
  <2> QED
    BY <1>1, SmallRemainder
<1>3. Int32(n) = r - (I32Max + 1)
  BY DEF Int32
<1> HIDE DEF r
<1> QED
  BY <1>2, <1>3, PlanesAssumption DEF Int32s

LEMMA Int32Wraps ==
  ASSUME NEW n \in I32Max + 1 .. U32Max
  PROVE  Int32(n) < 0
<1> DEFINE k == n + I32Max + 1
           m == U32Max + 1
           r == k % m
<1>1. m \in Nat /\ k \in Nat /\ m <= k /\ k < 2 * m
  BY PlanesAssumption DEF U32Max
<1>2. r = k - m
  <2> HIDE DEF k, m
  <2> QED
    BY <1>1, WrappedRemainder
<1>3. Int32(n) = r - (I32Max + 1)
  BY DEF Int32
<1> HIDE DEF r
<1> QED
  BY <1>2, <1>3, PlanesAssumption DEF U32Max

LEMMA USizeKeeps ==
  ASSUME NEW n \in Nat, n <= USizeMax
  PROVE  USize(n) = n
  BY SmallRemainder, PlanesAssumption DEF USize

LEMMA USizeIsNat ==
  ASSUME NEW n \in Int
  PROVE  USize(n) \in Nat
<1> DEFINE m == USizeMax + 1
<1>1. m \in Nat /\ m > 0
  BY PlanesAssumption
<1>2. n % m \in 0 .. m - 1
  <2> HIDE DEF m
  <2> QED
    BY <1>1, RemainderIsSmall
<1> QED
  BY <1>2 DEF USize

LEMMA IntFitsUSize ==
  ASSUME NEW n \in Int32s, n > 0
  PROVE  n \in Nat /\ n + 1 \in Nat /\ n + 1 <= USizeMax
<1>1. (I32Max + 1) * (I32Max + 1) >= I32Max + 1
  BY PlanesAssumption
<1>2. 4 * (I32Max + 1) * (I32Max + 1) = 4 * ((I32Max + 1) * (I32Max + 1))
  BY PlanesAssumption
<1> QED
  BY <1>1, <1>2, PlanesAssumption DEF Int32s

(* Half of a stride, as the backends compute it: the wrapped value of the  *)
(* largest one is negative, and refused.                                   *)
LEMMA HalfStride ==
  ASSUME NEW n \in Int32s
  PROVE  /\ Int32(n + 1) \div 2 \in Int32s
         /\ n > 0 /\ n # I32Max => Int32(n + 1) \div 2 > 0
         /\ n <= I32Max \div 2 => Int32(n + 1) = n + 1
<1>1. Int32(n + 1) \in Int32s
  <2>1. n + 1 \in Int
    BY PlanesAssumption DEF Int32s
  <2> QED
    BY <2>1, Int32IsInRange
<1>2. Int32(n + 1) \div 2 \in Int32s
  BY <1>1, PlanesAssumption DEF Int32s
<1>3. n # I32Max => Int32(n + 1) = n + 1
  <2>1. n # I32Max => n + 1 \in Int32s
    BY PlanesAssumption DEF Int32s
  <2> QED
    BY <2>1, Int32Keeps
<1> QED
  BY <1>2, <1>3, PlanesAssumption DEF Int32s

-----------------------------------------------------------------------------
(* What each backend checks covers what Rust will read.                    *)

GeometryOK ==
  /\ geometry.width \in Int32s /\ geometry.height \in Int32s
  /\ geometry.format \in Formats \ {"unknown"}

ArgsOK(a) ==
  /\ a.width \in Int32s /\ a.height \in Int32s
  /\ a.stride \in Int32s /\ a.strideUv \in Int32s
  /\ a.format \in Formats /\ a.uv = (a.format \in Planar)

(* The planes of an accepted frame end within size bytes, and the second   *)
(* begins uvAt bytes after the first.                                      *)
PlanesWithin(a, uvAt, size) ==
  /\ DataBytes(a) <= size
  /\ a.uv => uvAt = DataBytes(a) /\ uvAt + UvBytes(a) <= size

LEMMA V4l2Backed ==
  ASSUME GeometryOK, NEW available \in 1 .. U32Max,
         IF geometry.format = "mjpeg" THEN available <= MjpegMaxPayload
                                      ELSE V4l2Need <= available
  PROVE  LET a == CallbackArgs(V4l2Stride(available), V4l2StrideUv)
         IN  /\ ArgsOK(a)
             /\ V4l2YBytes \in Nat
             /\ RustAccepts(a) => PlanesWithin(a, V4l2YBytes, available)
             /\ /\ a.width > 0 /\ a.height > 0
                /\ a.width <= I32Max \div 2
                => a.stride > 0 /\ (a.format \in Planar => a.strideUv > 0)
<1> DEFINE w == geometry.width
           h == geometry.height
           f == geometry.format
           a == CallbackArgs(V4l2Stride(available), V4l2StrideUv)
<1>0. /\ w \in Int32s /\ h \in Int32s /\ w \in Int /\ h \in Int
      /\ f \in {"nv12", "i420", "yuy2", "mjpeg"}
  BY PlanesAssumption DEF GeometryOK, Int32s, Formats
<1>1. V4l2Stride(available) \in Int32s
  <2>1. Int32(w * 2) \in Int32s
    BY <1>0, Int32IsInRange
  <2>2. f = "mjpeg" => available \in Int32s
    BY PlanesAssumption DEF Int32s
  <2> QED
    BY <1>0, <2>1, <2>2 DEF V4l2Stride, Planar
<1>2. V4l2StrideUv \in Int32s
  <2>1. 0 \in Int32s
    BY PlanesAssumption DEF Int32s
  <2> QED
    BY <1>0, <2>1, HalfStride DEF V4l2StrideUv
<1>3. ArgsOK(a)
  BY <1>0, <1>1, <1>2 DEF ArgsOK, CallbackArgs, Planar, Formats
<1>4. V4l2YBytes \in Nat
  <2>1. USize(w) \in Nat /\ USize(h) \in Nat
    BY <1>0, USizeIsNat
  <2>2. USize(w) * USize(h) \in Int
    BY <2>1
  <2> QED
    BY <2>2, USizeIsNat DEF V4l2YBytes
<1>5. ASSUME w > 0, h > 0
      PROVE  USize(w) = w /\ USize(h) = h
  <2>1. w \in Nat /\ h \in Nat /\ w <= USizeMax /\ h <= USizeMax
    BY <1>0, <1>5, IntFitsUSize, PlanesAssumption
  <2> QED
    BY <2>1, USizeKeeps
<1>6. ASSUME w > 0, h > 0
      PROVE  V4l2YBytes = w * h /\ V4l2UvRows = Halved(h)
  <2>1. w * h \in Nat /\ w * h <= USizeMax
    BY <1>0, <1>6, TwoPlanesFit, PlanesAssumption
  <2>2. h + 1 \in Nat /\ h + 1 <= USizeMax
    BY <1>0, <1>6, IntFitsUSize
  <2>3. USize(w * h) = w * h /\ USize(h + 1) = h + 1
    BY <2>1, <2>2, USizeKeeps
  <2> QED
    BY <1>5, <1>6, <2>3 DEF V4l2YBytes, V4l2UvRows, Halved
<1>7. RustAccepts(a) => PlanesWithin(a, V4l2YBytes, available)
  <2> SUFFICES ASSUME RustAccepts(a)
               PROVE  PlanesWithin(a, V4l2YBytes, available)
    OBVIOUS
  <2>0. w > 0 /\ h > 0 /\ a.stride > 0 /\ a.height = h /\ a.format = f
        /\ a.stride = V4l2Stride(available) /\ a.strideUv = V4l2StrideUv
        /\ a.uv = (f \in Planar)
        /\ (f \in Planar => V4l2StrideUv > 0)
    BY DEF RustAccepts, CallbackArgs
  <2> HIDE DEF a
  <2>1. CASE f = "nv12"
    <3>1. w * Halved(h) \in Nat /\ w * h + w * Halved(h) <= USizeMax /\ w * h \in Nat
      BY <1>0, <2>0, TwoPlanesFit, PlanesAssumption
    <3>2. V4l2Need = w * h + w * Halved(h)
      <4>1. V4l2Need = USize(w * h + USize(w * Halved(h)))
        BY <1>5, <1>6, <2>0, <2>1 DEF V4l2Need
      <4>2. USize(w * Halved(h)) = w * Halved(h)
        BY <3>1, USizeKeeps, PlanesAssumption
      <4> QED
        BY <3>1, <4>1, <4>2, USizeKeeps, PlanesAssumption
    <3>3. DataBytes(a) = w * h /\ UvBytes(a) = w * Halved(h)
      BY <2>0, <2>1 DEF DataBytes, UvBytes, V4l2Stride, V4l2StrideUv, Planar
    <3> QED
      BY <1>6, <2>0, <2>1, <3>1, <3>2, <3>3 DEF PlanesWithin, U32Max
  <2>2. CASE f = "i420"
    <3> DEFINE t == V4l2StrideUv
    <3>0. t \in Int32s /\ t > 0
      BY <1>2, <2>0, <2>2 DEF Planar
    <3> HIDE DEF t
    <3>1. /\ t * Halved(h) \in Nat /\ t * Halved(h) * 2 \in Nat /\ w * h \in Nat
          /\ w * h + t * Halved(h) * 2 <= USizeMax
      BY <1>0, <2>0, <3>0, TwoPlanesFit
    <3>2. V4l2Need = w * h + t * Halved(h) * 2
      <4>1. USize(t) = t
        <5>1. t \in Nat /\ t <= USizeMax
          BY <3>0, IntFitsUSize, PlanesAssumption
        <5> QED
          BY <5>1, USizeKeeps
      <4>2. V4l2Need = USize(w * h + USize(t * Halved(h) * 2))
        BY <1>5, <1>6, <2>0, <2>2, <4>1 DEF V4l2Need, t
      <4>3. USize(t * Halved(h) * 2) = t * Halved(h) * 2
        BY <3>1, USizeKeeps, PlanesAssumption
      <4> QED
        BY <3>1, <4>2, <4>3, USizeKeeps, PlanesAssumption
    <3>3. DataBytes(a) = w * h /\ UvBytes(a) = t * Halved(h) * 2
      BY <2>0, <2>2 DEF DataBytes, UvBytes, V4l2Stride, Planar, t
    <3> QED
      BY <1>6, <2>0, <2>2, <3>1, <3>2, <3>3 DEF PlanesWithin, U32Max
  <2>3. CASE f = "yuy2"
    <3>1. V4l2Stride(available) = Int32(w * 2) /\ ~a.uv
      BY <2>0, <2>3 DEF V4l2Stride, Planar
    <3>2. w * 2 \in Int32s
      <4>1. w * 2 \in 1 .. U32Max
        BY <1>0, <2>0, PlanesAssumption DEF Int32s, U32Max
      <4>2. ~(w * 2 \in I32Max + 1 .. U32Max)
        <5>1. ASSUME w * 2 \in I32Max + 1 .. U32Max PROVE Int32(w * 2) < 0
          BY <5>1, Int32Wraps
        <5>2. Int32(w * 2) \in Int
          BY <1>0, Int32IsInRange, PlanesAssumption DEF Int32s
        <5> QED
          BY <2>0, <3>1, <5>1, <5>2
      <4> QED
        BY <4>1, <4>2, PlanesAssumption DEF Int32s, U32Max
    <3>3. DataBytes(a) = w * 2 * h
      <4>1. Int32(w * 2) = w * 2
        BY <3>2, Int32Keeps
      <4> QED
        BY <2>0, <2>3, <3>1, <4>1 DEF DataBytes
    <3>4. w * 2 * h \in Nat /\ w * 2 * h <= USizeMax /\ w * 2 > 0
      <4>1. w * 2 > 0
        BY <1>0, <2>0
      <4> QED
        BY <1>0, <2>0, <3>2, <4>1, TwoPlanesFit, PlanesAssumption
    <3>5. V4l2Need = w * 2 * h
      <4>1. USize(w * 2) = w * 2
        <5>1. w * 2 \in Nat /\ w * 2 <= USizeMax
          BY <3>2, <3>4, IntFitsUSize, PlanesAssumption
        <5> QED
          BY <5>1, USizeKeeps
      <4>2. V4l2Need = USize(w * 2 * h)
        <5>1. USize(w) = w /\ USize(h) = h
          BY <1>5, <2>0
        <5>2. V4l2Need = USize(USize(USize(w) * 2) * USize(h))
          BY <2>3 DEF V4l2Need
        <5> QED
          BY <4>1, <5>1, <5>2
      <4> QED
        BY <3>4, <4>2, USizeKeeps
    <3> QED
      BY <2>3, <3>1, <3>3, <3>5 DEF PlanesWithin
  <2>4. CASE f = "mjpeg"
    <3>1. V4l2Stride(available) = available /\ ~a.uv
      BY <2>0, <2>4 DEF V4l2Stride, Planar
    <3> QED
      BY <2>0, <2>4, <3>1, PlanesAssumption DEF PlanesWithin, DataBytes, U32Max
  <2> QED
    BY <1>0, <2>1, <2>2, <2>3, <2>4
<1>8. ASSUME a.width > 0, a.height > 0, a.width <= I32Max \div 2
      PROVE  a.stride > 0 /\ (a.format \in Planar => a.strideUv > 0)
  <2>1. a.width = w /\ a.stride = V4l2Stride(available)
        /\ a.strideUv = V4l2StrideUv /\ a.format = f
    BY DEF CallbackArgs
  <2>2. w > 0 /\ w # I32Max /\ w * 2 \in Int32s
    BY <1>0, <1>8, <2>1, PlanesAssumption DEF Int32s
  <2>3. Int32(w * 2) = w * 2 /\ Int32(w + 1) \div 2 > 0
    BY <1>0, <2>2, Int32Keeps, HalfStride
  <2> QED
    BY <1>0, <2>1, <2>2, <2>3 DEF V4l2Stride, V4l2StrideUv, Planar
<1> QED
  BY <1>3, <1>4, <1>7, <1>8

LEMMA PipewireBacked ==
  ASSUME GeometryOK, NEW stride \in Int32s, NEW available \in Nat,
         stride > 0, geometry.width > 0, geometry.height > 0,
         geometry.format # "mjpeg",
         IsRequirable(stride, PipewireStrideUv(stride)),
         RequiredBytes(stride, PipewireStrideUv(stride)) <= available
  PROVE  LET a == CallbackArgs(stride, PipewireStrideUv(stride))
         IN  /\ ArgsOK(a)
             /\ stride * geometry.height \in Nat
             /\ a.format # "yuy2"
                  => PlanesWithin(a, stride * geometry.height, available)
             /\ a.format = "yuy2" /\ RustAccepts(a)
                  => /\ DataBytes(a) <= available + a.stride - 2 * a.width
                     /\ a.stride >= 2 * a.width
             /\ a.stride > 0 /\ (a.format \in Planar => a.strideUv > 0)
<1> DEFINE w == geometry.width
           h == geometry.height
           f == geometry.format
           t == PipewireStrideUv(stride)
           a == CallbackArgs(stride, t)
<1>0. /\ w \in Int32s /\ h \in Int32s /\ w \in Nat /\ h \in Nat /\ stride \in Nat
      /\ f \in {"nv12", "i420", "yuy2"}
  BY PlanesAssumption DEF GeometryOK, Int32s, Formats
<1>1. t \in Int32s
  <2>1. 0 \in Int32s
    BY PlanesAssumption DEF Int32s
  <2> QED
    BY <1>0, <2>1, HalfStride DEF PipewireStrideUv
<1>2. f \in Planar => t > 0
  BY DEF IsRequirable, Planar
<1>3. /\ a.width = w /\ a.height = h /\ a.stride = stride /\ a.strideUv = t
      /\ a.format = f /\ a.uv = (f \in Planar)
  BY DEF CallbackArgs
<1> HIDE DEF a, t
<1>4. ArgsOK(a)
  BY <1>0, <1>1, <1>3 DEF ArgsOK, Formats
<1>5. stride * h \in Nat
  BY <1>0
<1>6. f = "nv12" => PlanesWithin(a, stride * h, available)
  <2> HAVE f = "nv12"
  <2>1. DataBytes(a) = stride * h /\ UvBytes(a) = t * Halved(h)
    BY <1>3 DEF DataBytes, UvBytes
  <2>2. RequiredBytes(stride, t) = stride * h + t * Halved(h)
    BY DEF RequiredBytes
  <2>3. t * Halved(h) \in Nat
    BY <1>0, <1>1, <1>2, TwoPlanesFit DEF Planar
  <2>4. stride * h + t * Halved(h) <= available
    BY <2>2 DEF t
  <2> QED
    BY <1>5, <2>1, <2>3, <2>4 DEF PlanesWithin
<1>7. f = "i420" => PlanesWithin(a, stride * h, available)
  <2> HAVE f = "i420"
  <2>1. DataBytes(a) = stride * h /\ UvBytes(a) = t * Halved(h) * 2
    BY <1>3 DEF DataBytes, UvBytes
  <2>2. RequiredBytes(stride, t) = stride * h + t * Halved(h) * 2
    BY DEF RequiredBytes
  <2>3. t * Halved(h) * 2 \in Nat
    BY <1>0, <1>1, <1>2, TwoPlanesFit DEF Planar
  <2>4. stride * h + t * Halved(h) * 2 <= available
    BY <2>2 DEF t
  <2> QED
    BY <1>5, <2>1, <2>3, <2>4 DEF PlanesWithin
<1>8. f = "yuy2" => /\ DataBytes(a) <= available + stride - 2 * w
                    /\ stride >= 2 * w
  <2> HAVE f = "yuy2"
  <2>1. DataBytes(a) = stride * h
    BY <1>3 DEF DataBytes
  <2>2. RequiredBytes(stride, t) = stride * (h - 1) + w * 2 /\ stride >= w * 2
    BY DEF RequiredBytes, IsRequirable, t
  <2>3. stride * h = stride * (h - 1) + stride
    BY <1>0
  <2>4. stride * (h - 1) + w * 2 <= available
    BY <2>2 DEF t
  <2>5. stride * (h - 1) \in Int
    BY <1>0
  <2> QED
    BY <1>0, <2>1, <2>2, <2>3, <2>4, <2>5
<1> QED
  BY <1>0, <1>2, <1>3, <1>4, <1>5, <1>6, <1>7, <1>8 DEF a, t

-----------------------------------------------------------------------------
(* The inductive invariant. *)

LEMMA InitIndInv == Init => IndInv
  BY PlanesAssumption
  DEF Init, IndInv, TypeOK, UvIffPlanar, CallIsBacked, CheckedIsDelivered,
      SlicesAreInBuffer, OverrunIsPadding, PlanesAreDisjoint, Geometries,
      NoMem, NoArgs, NoSlices, Formats, Int32s, Negotiable

(* A call of frame_callback that the backend's lemma covers keeps IndInv.  *)
LEMMA CallKeepsIndInv ==
  ASSUME IndInv, NEW size \in Nat, NEW uvAt \in Nat, NEW a,
         pc = "idle", Call(size, uvAt, a), ArgsOK(a),
         backend # "pipewire" \/ a.format # "yuy2"
           => (RustAccepts(a) => PlanesWithin(a, uvAt, size)),
         backend = "pipewire" /\ a.format = "yuy2" /\ RustAccepts(a)
           => DataBytes(a) <= size + a.stride - 2 * a.width,
         /\ a.width > 0 /\ a.height > 0 /\ a.width <= I32Max \div 2
           => a.stride > 0 /\ (a.format \in Planar => a.strideUv > 0),
         a.format # "unknown"
  PROVE  IndInv'
<1>1. TypeOK'
  <2>1. Negotiable' = Negotiable
    BY DEF Call, Negotiable
  <2> QED
    BY <2>1 DEF IndInv, TypeOK, Call, ArgsOK, Planar
<1>2. UvIffPlanar'
  BY DEF UvIffPlanar, Call, ArgsOK
<1>3. CallIsBacked'
  <2>1. args' = a /\ mem'.size = size /\ mem'.uvAt = uvAt /\ backend' = backend
    BY DEF Call
  <2>2. PaddedYuy2' = (backend = "pipewire" /\ a.format = "yuy2")
    BY <2>1 DEF PaddedYuy2
  <2>3. SUFFICES ASSUME RustAccepts(a)
                 PROVE  /\ ~PaddedYuy2' => DataBytes(a) <= size
                        /\ PaddedYuy2' => DataBytes(a) <= size + a.stride - 2 * a.width
                        /\ a.uv => uvAt = DataBytes(a) /\ uvAt + UvBytes(a) <= size
    BY <2>1 DEF CallIsBacked
  <2>4. CASE PaddedYuy2'
    BY <2>2, <2>3, <2>4 DEF ArgsOK, Planar
  <2>5. CASE ~PaddedYuy2'
    BY <2>2, <2>3, <2>5 DEF PlanesWithin
  <2> QED
    BY <2>4, <2>5
<1>4. CheckedIsDelivered'
  <2>1. /\ a.width > 0 /\ a.height > 0 /\ a.width <= I32Max \div 2
          => RustAccepts(a)
    BY PositiveIsAccepted DEF RustAccepts, ArgsOK
  <2> QED
    BY <2>1 DEF CheckedIsDelivered, Call
<1>5. (SlicesAreInBuffer /\ OverrunIsPadding /\ PlanesAreDisjoint)'
  BY DEF SlicesAreInBuffer, OverrunIsPadding, PlanesAreDisjoint, Call
<1> QED
  BY <1>1, <1>2, <1>3, <1>4, <1>5 DEF IndInv

LEMMA V4l2KeepsIndInv ==
  ASSUME IndInv, NEW used \in Lengths, NEW length \in Lengths,
         V4l2Frame(used, length)
  PROVE  IndInv'
<1> DEFINE available == IF used < length THEN used ELSE length
           a == CallbackArgs(V4l2Stride(available), V4l2StrideUv)
<1>1. available \in 1 .. U32Max
  BY PlanesAssumption DEF V4l2Frame, U32Max
<1>2. GeometryOK /\ a.format # "unknown" /\ a.format = geometry.format
      /\ backend = "v4l2"
  BY DEF IndInv, TypeOK, V4l2Frame, GeometryOK, Negotiable, Formats, CallbackArgs
<1>3. /\ pc = "idle" /\ Call(available, V4l2YBytes, a)
      /\ IF geometry.format = "mjpeg" THEN available <= MjpegMaxPayload
                                       ELSE V4l2Need <= available
  BY DEF V4l2Frame
<1>4. /\ ArgsOK(a) /\ V4l2YBytes \in Nat
      /\ RustAccepts(a) => PlanesWithin(a, V4l2YBytes, available)
      /\ /\ a.width > 0 /\ a.height > 0 /\ a.width <= I32Max \div 2
         => a.stride > 0 /\ (a.format \in Planar => a.strideUv > 0)
  <2> HIDE DEF available
  <2> QED
    BY <1>1, <1>2, <1>3, V4l2Backed
<1>5. available \in Nat
  BY <1>1, PlanesAssumption DEF U32Max
<1> HIDE DEF a, available
<1> QED
  BY <1>2, <1>3, <1>4, <1>5, CallKeepsIndInv

LEMMA PipewireKeepsIndInv ==
  ASSUME IndInv, NEW stride \in Strides, NEW offset \in Lengths,
         NEW size \in Lengths, NEW maxsize \in Lengths,
         PipewireFrame(stride, offset, size, maxsize)
  PROVE  IndInv'
<1> DEFINE available == maxsize - offset
           a == CallbackArgs(stride, PipewireStrideUv(stride))
           uvAt == stride * geometry.height
<1>1. available \in Nat /\ stride \in Int32s
  BY PlanesAssumption DEF PipewireFrame, U32Max
<1>2. /\ GeometryOK /\ a.format = geometry.format /\ backend = "pipewire"
      /\ a.format # "unknown" /\ a.format # "mjpeg"
  BY DEF IndInv, TypeOK, PipewireFrame, GeometryOK, Negotiable, Formats,
         CallbackArgs
<1>3. /\ pc = "idle" /\ Call(available, uvAt, a)
      /\ stride > 0 /\ geometry.width > 0 /\ geometry.height > 0
      /\ IsRequirable(stride, PipewireStrideUv(stride))
      /\ RequiredBytes(stride, PipewireStrideUv(stride)) <= available
  BY DEF PipewireFrame
<1>4. /\ ArgsOK(a) /\ uvAt \in Nat
      /\ a.format # "yuy2" => PlanesWithin(a, uvAt, available)
      /\ a.format = "yuy2" /\ RustAccepts(a)
           => /\ DataBytes(a) <= available + a.stride - 2 * a.width
              /\ a.stride >= 2 * a.width
      /\ a.stride > 0 /\ (a.format \in Planar => a.strideUv > 0)
  <2> HIDE DEF available
  <2> QED
    BY <1>1, <1>2, <1>3, PipewireBacked
<1> HIDE DEF a, available, uvAt
<1> QED
  BY <1>1, <1>2, <1>3, <1>4, CallKeepsIndInv

LEMMA AvfKeepsIndInv ==
  ASSUME IndInv, NEW stride \in Strides, NEW strideU \in Strides,
         NEW strideV \in Strides, AvfFrame(stride, strideU, strideV)
  PROVE  IndInv'
<1> DEFINE h == geometry.height
           f == geometry.format
           t == CASE f = "nv12" -> strideU
                  [] f = "i420" -> IF strideU > strideV THEN strideU ELSE strideV
                  [] OTHER -> 0
           uvSize == CASE f = "nv12" -> t * Halved(h)
                       [] f = "i420" -> t * Halved(h) * 2
                       [] OTHER -> 0
           ySize == stride * h
           a == CallbackArgs(stride, t)
<1>1. /\ stride \in Int32s /\ strideU \in Int32s /\ strideV \in Int32s
      /\ stride > 0 /\ strideU > 0 /\ strideV > 0 /\ h > 0
      /\ backend = "avf" /\ pc = "idle" /\ Call(ySize + uvSize, ySize, a)
  BY PlanesAssumption DEF AvfFrame
<1>2. h \in Int32s /\ geometry.width \in Int32s /\ f \in {"nv12", "i420", "yuy2"}
  BY <1>1 DEF IndInv, TypeOK, Negotiable
<1>3. t \in Int32s /\ (f \in Planar => t > 0)
  <2>1. 0 \in Int32s
    BY PlanesAssumption DEF Int32s
  <2> QED
    BY <1>1, <1>2, <2>1 DEF Planar
<1>4. /\ a.width = geometry.width /\ a.height = h /\ a.stride = stride
      /\ a.strideUv = t /\ a.format = f /\ a.uv = (f \in Planar)
  BY DEF CallbackArgs
<1>5. ySize \in Nat
  BY <1>1, <1>2, TwoPlanesFit
<1>6. uvSize \in Nat /\ (f \in Planar => uvSize = UvBytes(a))
  <2> HIDE DEF t, a
  <2>1. f \in Planar => t * Halved(h) \in Nat /\ t * Halved(h) * 2 \in Nat
    BY <1>1, <1>2, <1>3, TwoPlanesFit
  <2> QED
    BY <1>2, <1>4, <2>1 DEF UvBytes, Planar
<1>7. DataBytes(a) = ySize
  BY <1>2, <1>4 DEF DataBytes
<1>8. ArgsOK(a)
  <2> HIDE DEF a, t
  <2> QED
    BY <1>1, <1>2, <1>3, <1>4 DEF ArgsOK, Formats
<1> HIDE DEF a, t, uvSize, ySize
<1>9. PlanesWithin(a, ySize, ySize + uvSize)
  <2>1. DataBytes(a) <= ySize + uvSize
    BY <1>5, <1>6, <1>7
  <2>2. a.uv => ySize = DataBytes(a) /\ ySize + UvBytes(a) <= ySize + uvSize
    <3>1. a.uv => uvSize = UvBytes(a)
      BY <1>4, <1>6
    <3> QED
      BY <1>5, <1>6, <1>7, <3>1
  <2> QED
    BY <2>1, <2>2 DEF PlanesWithin
<1>10. ySize + uvSize \in Nat
  BY <1>5, <1>6
<1> QED
  BY <1>1, <1>2, <1>3, <1>4, <1>5, <1>8, <1>9, <1>10, CallKeepsIndInv

LEMMA MfKeepsIndInv ==
  ASSUME IndInv, NEW length \in Lengths, MfFrame(length)
  PROVE  IndInv'
<1> DEFINE w == geometry.width
           h == geometry.height
           f == geometry.format
           ySize == IF f = "yuy2" THEN MfRequired ELSE w * h
<1>1. /\ w \in Int32s /\ h \in Int32s /\ w > 0 /\ h > 0 /\ backend = "mf"
      /\ f \in {"nv12", "i420", "yuy2"} /\ length \in Nat
      /\ f = "yuy2" => w * 2 \in Int32s
  BY PlanesAssumption DEF MfFrame, IndInv, TypeOK, Negotiable, U32Max, Int32s
<1>2. /\ pc' = "user" /\ backend' = backend /\ geometry' = geometry
      /\ mem' = [size |-> length, uvAt |-> ySize]
      /\ args' = CallbackArgs(IF f = "yuy2" THEN w * 2 ELSE w, MfStrideUv)
      /\ slices' = [data |-> ySize, uv |-> MfRequired - ySize]
      /\ MfRequired <= length
  BY DEF MfFrame
<1>3. MfRequired \in Nat /\ ySize \in Nat /\ MfRequired - ySize \in Nat
  <2>0. w \in Nat /\ h \in Nat
    BY <1>1, PlanesAssumption DEF Int32s
  <2>1. w * h \in Nat /\ w * Halved(h) \in Nat
    BY <1>1, TwoPlanesFit
  <2>2. Halved(w) * Halved(h) * 2 \in Nat /\ w * 2 * h \in Nat
    <3>1. Halved(w) \in Nat /\ Halved(h) \in Nat /\ w * 2 \in Nat
      BY <2>0 DEF Halved
    <3>2. Halved(w) * Halved(h) \in Nat
      BY <3>1, ProductIsNat, Zenon
    <3>3. w * 2 * h \in Nat
      BY <2>0, <3>1, ProductIsNat, Zenon
    <3> QED
      BY <3>2, <3>3
  <2> QED
    BY <1>1, <2>1, <2>2 DEF MfRequired
<1> HIDE DEF ySize
<1>4. MfStrideUv \in Int32s
  <2>1. 0 \in Int32s
    BY PlanesAssumption DEF Int32s
  <2> QED
    BY <1>1, <2>1, HalfStride DEF MfStrideUv
<1>5. TypeOK'
  <2>1. Negotiable' = Negotiable
    BY <1>2 DEF Negotiable
  <2> QED
    BY <1>1, <1>2, <1>3, <1>4, <2>1 DEF IndInv, TypeOK, CallbackArgs, Formats, Planar
<1>6. UvIffPlanar'
  BY <1>2 DEF UvIffPlanar, CallbackArgs
<1>7. (CallIsBacked /\ CheckedIsDelivered)'
  BY <1>2 DEF CallIsBacked, CheckedIsDelivered
<1>8. SlicesAreInBuffer'
  BY <1>2, <1>3, <1>1 DEF SlicesAreInBuffer
<1>9. (OverrunIsPadding /\ PlanesAreDisjoint)'
  BY <1>1, <1>2 DEF OverrunIsPadding, PlanesAreDisjoint, PaddedYuy2
<1> QED
  BY <1>5, <1>6, <1>7, <1>8, <1>9 DEF IndInv

(* Between frames only the types are left to show.                         *)
LEMMA IdleIsFine ==
  ASSUME IndInv, pc' = "idle", mem' = NoMem, args' = NoArgs,
         slices'.data \in Nat, slices'.uv \in Nat,
         backend' = backend, geometry' = geometry, Negotiable' = Negotiable
  PROVE  IndInv'
<1>1. TypeOK'
  BY PlanesAssumption DEF IndInv, TypeOK, NoMem, NoArgs, Int32s, Formats
<1> QED
  BY <1>1 DEF IndInv, UvIffPlanar, CallIsBacked, CheckedIsDelivered,
     SlicesAreInBuffer, OverrunIsPadding, PlanesAreDisjoint

LEMMA FrameCallbackKeepsIndInv ==
  ASSUME IndInv, FrameCallback
  PROVE  IndInv'
<1>1. Negotiable' = Negotiable /\ backend' = backend /\ geometry' = geometry
  BY DEF FrameCallback, Negotiable
<1>2. CASE RustAccepts(args)
  <2>1. pc' = "user" /\ slices' = SlicesOf(args) /\ mem' = mem /\ args' = args
        /\ pc = "callback"
    BY <1>2 DEF FrameCallback
  <2>2. DataBytes(args) \in Nat /\ UvBytes(args) \in Nat
    BY <1>2, PositiveIsAccepted DEF RustAccepts, IndInv, TypeOK
  <2>3. TypeOK'
    BY <1>1, <2>1, <2>2 DEF IndInv, TypeOK, SlicesOf
  <2>4. (UvIffPlanar /\ CallIsBacked /\ CheckedIsDelivered)'
    BY <2>1 DEF IndInv, UvIffPlanar, CallIsBacked, CheckedIsDelivered
  <2>5. SlicesAreInBuffer' /\ OverrunIsPadding' /\ PlanesAreDisjoint'
    <3>1. PaddedYuy2' = PaddedYuy2
      BY <1>1, <2>1 DEF PaddedYuy2
    <3>2. slices'.data = DataBytes(args) /\ slices'.uv = UvBytes(args)
      BY <2>1 DEF SlicesOf
    <3> QED
      BY <1>2, <2>1, <3>1, <3>2
      DEF IndInv, CallIsBacked, SlicesAreInBuffer, OverrunIsPadding, PlanesAreDisjoint
  <2> QED
    BY <2>3, <2>4, <2>5 DEF IndInv
<1>3. CASE ~RustAccepts(args)
  <2>1. pc' = "idle" /\ mem' = NoMem /\ args' = NoArgs /\ slices' = slices
    BY <1>3 DEF FrameCallback
  <2> QED
    BY <1>1, <2>1, IdleIsFine DEF IndInv, TypeOK
<1> QED
  BY <1>2, <1>3

LEMMA NextIndInv == IndInv /\ [Next]_vars => IndInv'
<1> SUFFICES ASSUME IndInv, [Next]_vars PROVE IndInv'
  OBVIOUS
<1>1. CASE Negotiate
  <2>1. /\ pc' = pc /\ pc = "idle" /\ args' = args /\ mem' = mem
        /\ slices' = slices /\ backend' = backend
        /\ geometry' \in Geometries /\ geometry'.format \in Negotiable
    BY <1>1 DEF Negotiate
  <2>2. Negotiable' = Negotiable
    BY <2>1 DEF Negotiable
  <2>3. TypeOK'
    BY <2>1, <2>2, PlanesAssumption DEF IndInv, TypeOK, Geometries
  <2> QED
    BY <2>1, <2>3 DEF IndInv, UvIffPlanar, CallIsBacked, CheckedIsDelivered,
       SlicesAreInBuffer, OverrunIsPadding, PlanesAreDisjoint
<1>2. CASE \E used, length \in Lengths : V4l2Frame(used, length)
  BY <1>2, V4l2KeepsIndInv
<1>3. CASE \E stride \in Strides, offset, size, maxsize \in Lengths :
             PipewireFrame(stride, offset, size, maxsize)
  BY <1>3, PipewireKeepsIndInv
<1>4. CASE \E stride, strideU, strideV \in Strides :
             AvfFrame(stride, strideU, strideV)
  BY <1>4, AvfKeepsIndInv
<1>5. CASE \E length \in Lengths : MfFrame(length)
  BY <1>5, MfKeepsIndInv
<1>6. CASE FrameCallback
  BY <1>6, FrameCallbackKeepsIndInv
<1>7. CASE UserReturns
  <2>1. /\ pc' = "idle" /\ mem' = NoMem /\ args' = NoArgs /\ slices' = NoSlices
        /\ backend' = backend /\ geometry' = geometry
    BY <1>7 DEF UserReturns
  <2>2. Negotiable' = Negotiable /\ slices'.data \in Nat /\ slices'.uv \in Nat
    BY <2>1 DEF Negotiable, NoSlices
  <2> QED
    BY <2>1, <2>2, IdleIsFine
<1>8. CASE UNCHANGED vars
  <2>1. Negotiable' = Negotiable /\ PaddedYuy2' = PaddedYuy2
    BY <1>8 DEF vars, Negotiable, PaddedYuy2
  <2> QED
    BY <1>8, <2>1 DEF vars, IndInv, TypeOK, UvIffPlanar, CallIsBacked,
       CheckedIsDelivered, SlicesAreInBuffer, OverrunIsPadding, PlanesAreDisjoint
<1> QED
  BY <1>1, <1>2, <1>3, <1>4, <1>5, <1>6, <1>7, <1>8 DEF Next

LEMMA Invariance == Spec => []IndInv
  BY InitIndInv, NextIndInv, PTL DEF Spec

-----------------------------------------------------------------------------
(* Whatever the geometry and the buffer, the values stay in the range of   *)
(* their C and Rust types.                                                 *)
THEOREM TypeCorrect == Spec => []TypeOK
  BY Invariance, PTL DEF IndInv

(* The slices frame_callback and process_sample make never leave the bytes *)
(* the backend has checked, but for the padded YUY2 frames of PipeWire.    *)
THEOREM SlicesStayInBuffer == Spec => []SlicesAreInBuffer
  BY Invariance, PTL DEF IndInv

(* A padded YUY2 frame of PipeWire overruns the checked bytes by the       *)
(* padding of its last row at most.                                        *)
THEOREM OverrunIsBounded == Spec => []OverrunIsPadding
  BY Invariance, PTL DEF IndInv

(* No slice leaves its buffer by more than the padding of a padded YUY2    *)
(* frame's last row, on any backend.                                       *)
THEOREM SlicesBounded == Spec => []SlicesAreBounded
  BY SlicesStayInBuffer, OverrunIsBounded, PTL DEF SlicesAreBounded

(* The UV slice begins exactly where the Y slice ends, on every backend.   *)
THEOREM PlanesStayDisjoint == Spec => []PlanesAreDisjoint
  BY Invariance, PTL DEF IndInv

(* frame_callback drops no frame whose buffer the C side found sufficient. *)
THEOREM ChecksAgree == Spec => []CheckedIsDelivered
  BY Invariance, PTL DEF IndInv
=============================================================================
