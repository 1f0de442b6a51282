-------------------------- MODULE V4l2CaptureProofs --------------------------
(***************************************************************************)
(* Proofs about V4l2Capture for every number of buffers: the inductive     *)
(* invariant, the safety properties it implies, and the implementation of  *)
(* the documented life cycle (the safety part of CaptureContract).         *)
(***************************************************************************)
EXTENDS V4l2Capture, TLAPS

(* The caller is inside the C function that its Rust call invoked. *)
CallsMatch ==
  /\ cpc = "none" <=> api \in {"idle", "absent"}
  /\ cpc \in CreatePcs <=> api = "creating"
  /\ cpc \in StartPcs <=> api = "starting"
  /\ cpc \in StopPcs <=> api \in {"stopping", "dropStopping"}
  /\ cpc \in DestroyPcs <=> api = "destroying"

(* Who has set which flag, and when there is a capture thread. *)
FlagsMatch ==
  /\ running <=> (api = "idle" /\ rsRunning) \/ cpc = "stopTest"
  /\ rsRunning => api \in {"idle", "stopping", "dropStopping"}
  /\ api \in {"stopping", "dropStopping"} => rsRunning
  /\ tpc # "none" <=> running \/ cpc = "join"

(* The steps of new before the VideoSession is allocated. *)
BeforeSession == {"open", "querycap", "alloc"} \cup FormatPcs

(* What is allocated at each point of the life cycle. *)
Allocated ==
  /\ fd <=> api # "absent" /\ cpc # "open"
  /\ session <=> api # "absent" /\ cpc \notin BeforeSession
  /\ context <=> api \notin {"absent", "creating"}
  /\ streaming => api \notin {"absent", "creating"}

(* Which buffers are mapped at each point of the life cycle. *)
MappedRing ==
  /\ api \notin {"absent", "creating", "destroying"} =>
       count >= 2 /\ mapped = 0 .. count - 1
  /\ cpc = "map" => count >= 2 /\ next < count /\ mapped = 0 .. next - 1
  /\ api = "absent" \/ cpc \in BeforeSession \cup {"reqbufs", "close"} =>
       mapped = {}

(* Where the buffers are: outside the ring nothing is queued, session_start *)
(* has queued the buffers before next, and the capture thread holds at most *)
(* the buffer cur.                                                          *)
RingMatches ==
  /\ cpc = "map" => bufs = AllDequeued
  /\ api \notin {"absent", "creating", "destroying"} =>
       \A b \in Buffers : b >= count => bufs[b] = "dequeued"
  /\ cpc = "qbuf" =>
       next < count /\ \A b \in Buffers : b < next => bufs[b] # "dequeued"
  /\ cpc \in {"streamon", "spawn"} =>
       \A b \in Buffers : b < count => bufs[b] # "dequeued"
  /\ RingIsComplete
  /\ tpc \in {"none", "exited", "top", "select", "dqbuf"} => cur = NoBuffer
  /\ tpc \in {"check", "callback", "requeue"} =>
       cur \in Buffers /\ cur < count /\ bufs[cur] = "dequeued"

(* What a session in which nothing has failed looks like. *)
NoFailure ==
  /\ (api = "idle" /\ ~rsRunning) \/ cpc = "startTest" =>
       failed \/ (~streaming /\ bufs = AllDequeued)
  /\ running => failed \/ ThreadAlive
  /\ running \/ cpc = "spawn" => streaming

(* From VIDIOC_S_FMT on, the session and the driver agree on the format. *)
Agreed ==
  api # "absent" /\ cpc \notin {"open", "querycap"} \cup FormatPcs =>
    format = driverFormat \/ meddled

IndInv ==
  /\ TypeOK /\ CallsMatch /\ FlagsMatch /\ Allocated
  /\ MappedRing /\ RingMatches /\ NoFailure /\ Agreed

-----------------------------------------------------------------------------
(* The initial state satisfies the inductive invariant.                     *)
LEMMA InitIndInv == Init => IndInv
<1> SUFFICES ASSUME Init PROVE IndInv
  OBVIOUS
<1> USE MaxBuffersAssumption DEF Init, RustInit
<1>1. TypeOK
  <2>1. mapped \in SUBSET Buffers /\ cur \in Buffers \cup {NoBuffer}
    BY DEF Buffers, NoBuffer
  <2>2. bufs \in [Buffers -> {"dequeued", "queued", "done"}]
    BY DEF AllDequeued
  <2>3. count \in 0 .. MaxBuffers /\ next \in 0 .. MaxBuffers /\ tpc \in ThreadPcs
    BY DEF ThreadPcs
  <2> QED
    BY <2>1, <2>2, <2>3 DEF TypeOK, RustTypeOK, ApiStates
<1>2. CallsMatch /\ FlagsMatch /\ Allocated
  BY DEF CallsMatch, FlagsMatch, Allocated, CreatePcs, FormatPcs, BeforeSession,
         StartPcs, StopPcs, DestroyPcs
<1>3. MappedRing /\ RingMatches /\ NoFailure /\ Agreed
  BY DEF MappedRing, Agreed, RingMatches, RingIsComplete, NoFailure, ThreadAlive, NoBuffer
<1> QED
  BY <1>1, <1>2, <1>3 DEF IndInv

(* Every step of the caller, the capture thread, the driver and the device  *)
(* preserves it.                                                            *)
LEMMA NextIndInv == IndInv /\ [Next]_vars => IndInv'
<1> SUFFICES ASSUME IndInv, [Next]_vars PROVE IndInv'
  OBVIOUS
<1> USE MaxBuffersAssumption
    DEF IndInv, TypeOK, RustTypeOK, ApiStates, CallsMatch, FlagsMatch,
        Allocated, MappedRing, RingMatches, RingIsComplete, ThreadAlive,
        NoFailure, Agreed, Buffers, NoBuffer, AllDequeued, CreatePcs,
        FormatPcs, BeforeSession, negotiated, StartPcs,
        StopPcs, DestroyPcs, ThreadPcs, caller, thread, driver, rustVars,
        CanFail, CreateFails, StreamOff, StopLeaves, ThreadGoes, Quiet,
        RsNew, RsNewReturns, RsStart, RsStartReturns, RsStop, RsStopReturns,
        RsDrop, RsDropReturns
<1>1. CASE EnterCreate
  BY <1>1 DEF EnterCreate
<1>2. CASE Open
  BY <1>2 DEF Open
<1>3. CASE OpenFails
  BY <1>3 DEF OpenFails
<1>4. CASE QueryCapabilities
  BY <1>4 DEF QueryCapabilities
<1>5. CASE SetFormat
  BY <1>5 DEF SetFormat
<1>6. CASE FormatRefused
  BY <1>6 DEF FormatRefused
<1>7. CASE Allocate
  BY <1>7 DEF Allocate
<1>8. CASE Meddle
  BY <1>8 DEF Meddle
<1>9. CASE ConfigureFails
  BY <1>9 DEF ConfigureFails
<1>10. CASE RequestBuffers
  <2>1. TypeOK'
    BY <1>10 DEF RequestBuffers
  <2>2. CallsMatch'
    BY <1>10 DEF RequestBuffers
  <2>3. FlagsMatch'
    BY <1>10 DEF RequestBuffers
  <2>4. Allocated'
    BY <1>10 DEF RequestBuffers
  <2>5. MappedRing'
    BY <1>10 DEF RequestBuffers
  <2>6. RingMatches'
    BY <1>10 DEF RequestBuffers
  <2>7. NoFailure'
    BY <1>10 DEF RequestBuffers
  <2>8. Agreed'
    BY <1>10 DEF RequestBuffers
  <2>9. QED
    BY <2>1, <2>2, <2>3, <2>4, <2>5, <2>6, <2>7, <2>8
<1>11. CASE RequestBuffersFails
  BY <1>11 DEF RequestBuffersFails
<1>12. CASE MapBuffer
  <2>1. TypeOK'
    <3>1. RustTypeOK' BY <1>12 DEF MapBuffer
    <3>2. (mapped \in SUBSET Buffers)' BY <1>12 DEF MapBuffer
    <3>3. (next \in 0 .. MaxBuffers)' BY <1>12 DEF MapBuffer
    <3>4. (bufs \in [Buffers -> {"dequeued", "queued", "done"}])' BY <1>12 DEF MapBuffer
    <3>5. (cpc \in {"none"} \cup CreatePcs \cup StartPcs \cup StopPcs \cup DestroyPcs)' BY <1>12 DEF MapBuffer
    <3> QED BY <3>1, <3>2, <3>3,<3>4,<3>5, <1>12 DEF MapBuffer
  <2>2. CallsMatch'
    BY <1>12 DEF MapBuffer
  <2>3. FlagsMatch'
    BY <1>12 DEF MapBuffer
  <2>4. Allocated'
    BY <1>12 DEF MapBuffer
  <2>5. MappedRing'
    BY <1>12 DEF MapBuffer
  <2>6. RingMatches'
    BY <1>12 DEF MapBuffer
  <2>7. NoFailure'
    BY <1>12 DEF MapBuffer
  <2>8. Agreed'
    BY <1>12 DEF MapBuffer
  <2>9. QED
    BY <2>1, <2>2, <2>3, <2>4, <2>5, <2>6, <2>7, <2>8
<1>13. CASE MapBufferFails
  <2>1. TypeOK'
    <3>1. RustTypeOK' BY <1>13 DEF MapBufferFails
    <3>2. (mapped \in SUBSET Buffers)' BY <1>13 DEF MapBufferFails
    <3>3. (count \in 0 .. MaxBuffers)' BY <1>13 DEF MapBufferFails
    <3>4. (bufs \in [Buffers -> {"dequeued", "queued", "done"}])' BY <1>13 DEF MapBufferFails
    <3>5. (cpc \in {"none"} \cup CreatePcs \cup StartPcs \cup StopPcs \cup DestroyPcs)' BY <1>13 DEF MapBufferFails
    <3> QED BY <3>1, <3>2, <3>3,<3>4,<3>5, <1>13 DEF MapBufferFails
  <2>2. CallsMatch'
    BY <1>13 DEF MapBufferFails
  <2>3. FlagsMatch'
    BY <1>13 DEF MapBufferFails
  <2>4. Allocated'
    BY <1>13 DEF MapBufferFails
  <2>5. MappedRing'
    BY <1>13 DEF MapBufferFails
  <2>6. RingMatches'
    BY <1>13 DEF MapBufferFails
  <2>7. NoFailure'
    BY <1>13 DEF MapBufferFails
  <2>8. Agreed'
    BY <1>13 DEF MapBufferFails
  <2>9. QED
    BY <2>1, <2>2, <2>3, <2>4, <2>5, <2>6, <2>7, <2>8
<1>14. CASE EnterStart
  BY <1>14 DEF EnterStart
<1>15. CASE StartTest
  BY <1>15 DEF StartTest
<1>16. CASE QueueBuffer
  BY <1>16 DEF QueueBuffer
<1>17. CASE QueueBufferFails
  BY <1>17 DEF QueueBufferFails
<1>18. CASE StreamOn
  BY <1>18 DEF StreamOn
<1>19. CASE StreamOnFails
  BY <1>19 DEF StreamOnFails
<1>20. CASE Spawn
  BY <1>20 DEF Spawn
<1>21. CASE SpawnFails
  BY <1>21 DEF SpawnFails
<1>22. CASE EnterStop
  BY <1>22 DEF EnterStop
<1>23. CASE StopTest
  BY <1>23 DEF StopTest
<1>24. CASE Join
  BY <1>24 DEF Join
<1>25. CASE StopStreamOff
  BY <1>25 DEF StopStreamOff
<1>26. CASE EnterDrop
  BY <1>26 DEF EnterDrop
<1>27. CASE DestroyTest
  BY <1>27 DEF DestroyTest
<1>28. CASE Unmap
  BY <1>28 DEF Unmap
<1>29. CASE Close
  BY <1>29 DEF Close
<1>30. CASE LoopTest
  BY <1>30 DEF LoopTest
<1>31. CASE SelectTimeout
  BY <1>31 DEF SelectTimeout
<1>32. CASE SelectInterrupted
  BY <1>32 DEF SelectInterrupted
<1>33. CASE SelectReady
  BY <1>33 DEF SelectReady
<1>34. CASE WaitFails
  BY <1>34 DEF WaitFails
<1>35. CASE DequeueAgain
  BY <1>35 DEF DequeueAgain
<1>36. ASSUME NEW b \in Buffers, Dequeue(b) PROVE IndInv'
  BY <1>36 DEF Dequeue
<1>37. ASSUME NEW b \in Buffers, DequeueBadIndex(b) PROVE IndInv'
  BY <1>37 DEF DequeueBadIndex
<1>38. CASE SkipFrame
  BY <1>38 DEF SkipFrame
<1>39. CASE DeliverFrame
  BY <1>39 DEF DeliverFrame
<1>40. CASE CallbackReturns
  BY <1>40 DEF CallbackReturns
<1>41. CASE Requeue
  BY <1>41 DEF Requeue
<1>42. CASE RequeueFails
  BY <1>42 DEF RequeueFails
<1>43. ASSUME NEW b \in Buffers, Fill(b) PROVE IndInv'
  BY <1>43 DEF Fill
<1>44. CASE DeviceFails
  BY <1>44 DEF DeviceFails
<1>45. CASE DeviceRecovers
  BY <1>45 DEF DeviceRecovers
<1>46. CASE UNCHANGED vars
  BY <1>46 DEF vars
<1>47. QED
  BY <1>1, <1>2, <1>3, <1>4, <1>5, <1>6, <1>7, <1>8, <1>9, <1>10, <1>11,
     <1>12, <1>13, <1>14, <1>15, <1>16, <1>17, <1>18, <1>19, <1>20, <1>21,
     <1>22, <1>23, <1>24, <1>25, <1>26, <1>27, <1>28, <1>29, <1>30, <1>31,
     <1>32, <1>33, <1>34, <1>35, <1>36, <1>37, <1>38, <1>39, <1>40, <1>41,
     <1>42, <1>43, <1>44, <1>45, <1>46
     DEF Next, UserCalls, CallSteps, ThreadSteps, Environment

-----------------------------------------------------------------------------
(* The inductive invariant holds in every reachable state, for every number *)
(* of buffers the driver may grant.                                         *)
THEOREM Invariance == Spec => []IndInv
<1>1. Init => IndInv
  BY InitIndInv
<1>2. IndInv /\ [Next]_vars => IndInv'
  BY NextIndInv
<1> QED
  BY <1>1, <1>2, PTL DEF Spec

(* Type correctness of the V4L2 backend. *)
THEOREM TypeCorrect == Spec => []TypeOK
<1>1. IndInv => TypeOK
  BY DEF IndInv
<1> QED
  BY <1>1, Invariance, PTL

(* The user callback never reads memory that the driver may write, that has *)
(* been unmapped, or that belongs to a freed session.                       *)
THEOREM CallbackMemory == Spec => []CallbackMemoryIsSafe
<1>1. IndInv => CallbackMemoryIsSafe
  <2> SUFFICES ASSUME IndInv, tpc = "callback"
               PROVE  cur \in mapped /\ bufs[cur] = "dequeued" /\ session /\ fd /\ context
    BY DEF CallbackMemoryIsSafe
  <2>1. running \/ cpc = "join"
    BY DEF IndInv, FlagsMatch
  <2>2. api \notin {"absent", "creating", "destroying"} /\ cpc \notin CreatePcs
    BY <2>1 DEF IndInv, FlagsMatch, CallsMatch, StopPcs
  <2>3. cur \in Buffers /\ cur < count /\ bufs[cur] = "dequeued"
    BY DEF IndInv, RingMatches
  <2>4. mapped = 0 .. count - 1 /\ count \in Nat
    BY <2>2 DEF IndInv, MappedRing, TypeOK
  <2>5. session /\ fd /\ context
    BY <2>2 DEF IndInv, Allocated, BeforeSession, CreatePcs
  <2> QED
    BY <2>3, <2>4, <2>5, MaxBuffersAssumption DEF Buffers
<1> QED
  BY <1>1, Invariance, PTL

(* Between calls the Rust flag and the C flag agree. *)
THEOREM FlagsAgree == Spec => []RunningFlagsAgree
<1>1. IndInv => RunningFlagsAgree
  BY DEF IndInv, TypeOK, RustTypeOK, CallsMatch, FlagsMatch, StopPcs,
         RunningFlagsAgree
<1> QED
  BY <1>1, Invariance, PTL

(* After stop, a failed start or drop there is no capture thread. *)
THEOREM NoThreadWhenStopped == Spec => []StoppedMeansNoThread
<1>1. IndInv => StoppedMeansNoThread
  BY DEF IndInv, CallsMatch, FlagsMatch, StoppedMeansNoThread, StopPcs
<1> QED
  BY <1>1, Invariance, PTL

(* A failed new and a drop free everything. *)
THEOREM NoLeak == Spec => []NothingLeaks
<1>1. IndInv => NothingLeaks
  BY DEF IndInv, Allocated, MappedRing, NothingLeaks, CallsMatch
<1> QED
  BY <1>1, Invariance, PTL

(* The ring of buffers never loses one while the capture thread runs. *)
THEOREM RingComplete == Spec => []RingIsComplete
<1>1. IndInv => RingIsComplete
  BY DEF IndInv, RingMatches
<1> QED
  BY <1>1, Invariance, PTL

(* Absent failures a stopped session can be started again. *)
THEOREM Restartable == Spec => []StoppedIsRestartable
<1>1. IndInv => StoppedIsRestartable
  BY DEF IndInv, NoFailure, StoppedIsRestartable
<1> QED
  BY <1>1, Invariance, PTL

(* Started or stopped, the buffers are all accounted for. *)
THEOREM BuffersKept == Spec => []BuffersAreKept
  BY RingComplete, Restartable, PTL DEF BuffersAreKept

(* The user is told the format that the driver captures in, unless another  *)
(* process has changed it before the session requested its buffers.         *)
THEOREM FormatKnown == Spec => []FramesMatchFormat
<1>1. IndInv => FramesMatchFormat
  BY DEF IndInv, FlagsMatch, CallsMatch, StopPcs, CreatePcs, Agreed,
         FormatPcs, FramesMatchFormat
<1> QED
  BY <1>1, Invariance, PTL

(* Absent failures a started session is capturing. *)
THEOREM Capturing == Spec => []StartedIsCapturing
<1>1. IndInv => StartedIsCapturing
  BY DEF IndInv, FlagsMatch, NoFailure, StartedIsCapturing
<1> QED
  BY <1>1, Invariance, PTL

-----------------------------------------------------------------------------
(* Every step of the backend is a step of the documented life cycle or      *)
(* leaves its variables alone.                                              *)
LEMMA StepImplements ==
  IndInv /\ [Next]_vars => [Contract!ContractNext]_(Contract!contractVars)
<1> SUFFICES ASSUME IndInv, [Next]_vars
             PROVE  [Contract!ContractNext]_(Contract!contractVars)
  OBVIOUS
<1> USE DEF IndInv, TypeOK, RustTypeOK, ApiStates, CallsMatch, FlagsMatch,
        ThreadAlive, CreatePcs, FormatPcs, StartPcs, StopPcs, DestroyPcs, ThreadPcs,
        caller, thread, driver, rustVars, CreateFails, StopLeaves, ThreadGoes,
        Quiet, RsNew, RsNewReturns, RsStart, RsStartReturns, RsStop,
        RsStopReturns, RsDrop, RsDropReturns, ContractPhase,
        Contract!ContractNext, Contract!contractVars, Contract!Go,
        Contract!New, Contract!NewFails, Contract!NewReturns, Contract!Start,
        Contract!StartReturns, Contract!StartFails, Contract!Stop,
        Contract!StopReturns, Contract!Drop, Contract!DropStops,
        Contract!DropReturns, Contract!CallbackBegins,
        Contract!CallbackReturns, Contract!CallbackPanics,
        Contract!Delivering
<1>1. CASE EnterCreate
  BY <1>1 DEF EnterCreate
<1>2. CASE Open
  BY <1>2 DEF Open
<1>3. CASE OpenFails
  BY <1>3 DEF OpenFails
<1>4. CASE QueryCapabilities
  BY <1>4 DEF QueryCapabilities
<1>5. CASE SetFormat
  BY <1>5 DEF SetFormat
<1>6. CASE FormatRefused
  BY <1>6 DEF FormatRefused
<1>7. CASE Allocate
  BY <1>7 DEF Allocate
<1>8. CASE Meddle
  BY <1>8 DEF Meddle
<1>9. CASE ConfigureFails
  BY <1>9 DEF ConfigureFails
<1>10. CASE RequestBuffers
  BY <1>10 DEF RequestBuffers
<1>11. CASE RequestBuffersFails
  BY <1>11 DEF RequestBuffersFails
<1>12. CASE MapBuffer
  BY <1>12 DEF MapBuffer
<1>13. CASE MapBufferFails
  BY <1>13 DEF MapBufferFails
<1>14. CASE EnterStart
  BY <1>14 DEF EnterStart
<1>15. CASE StartTest
  BY <1>15 DEF StartTest
<1>16. CASE QueueBuffer
  BY <1>16 DEF QueueBuffer
<1>17. CASE QueueBufferFails
  BY <1>17 DEF QueueBufferFails
<1>18. CASE StreamOn
  BY <1>18 DEF StreamOn
<1>19. CASE StreamOnFails
  BY <1>19 DEF StreamOnFails
<1>20. CASE Spawn
  BY <1>20 DEF Spawn
<1>21. CASE SpawnFails
  BY <1>21 DEF SpawnFails
<1>22. CASE EnterStop
  BY <1>22 DEF EnterStop
<1>23. CASE StopTest
  BY <1>23 DEF StopTest
<1>24. CASE Join
  BY <1>24 DEF Join
<1>25. CASE StopStreamOff
  BY <1>25 DEF StopStreamOff
<1>26. CASE EnterDrop
  BY <1>26 DEF EnterDrop
<1>27. CASE DestroyTest
  BY <1>27 DEF DestroyTest
<1>28. CASE Unmap
  BY <1>28 DEF Unmap
<1>29. CASE Close
  BY <1>29 DEF Close
<1>30. CASE LoopTest
  BY <1>30 DEF LoopTest
<1>31. CASE SelectTimeout
  BY <1>31 DEF SelectTimeout
<1>32. CASE SelectInterrupted
  BY <1>32 DEF SelectInterrupted
<1>33. CASE SelectReady
  BY <1>33 DEF SelectReady
<1>34. CASE WaitFails
  BY <1>34 DEF WaitFails
<1>35. CASE DequeueAgain
  BY <1>35 DEF DequeueAgain
<1>36. ASSUME NEW b \in Buffers, Dequeue(b)
       PROVE  [Contract!ContractNext]_(Contract!contractVars)
  BY <1>36 DEF Dequeue
<1>37. ASSUME NEW b \in Buffers, DequeueBadIndex(b)
       PROVE  [Contract!ContractNext]_(Contract!contractVars)
  BY <1>37 DEF DequeueBadIndex
<1>38. CASE SkipFrame
  BY <1>38 DEF SkipFrame
<1>39. CASE DeliverFrame
  BY <1>39 DEF DeliverFrame
<1>40. CASE CallbackReturns
  BY <1>40 DEF CallbackReturns
<1>41. CASE Requeue
  BY <1>41 DEF Requeue
<1>42. CASE RequeueFails
  BY <1>42 DEF RequeueFails
<1>43. ASSUME NEW b \in Buffers, Fill(b)
       PROVE  [Contract!ContractNext]_(Contract!contractVars)
  BY <1>43 DEF Fill
<1>44. CASE DeviceFails
  BY <1>44 DEF DeviceFails
<1>45. CASE DeviceRecovers
  BY <1>45 DEF DeviceRecovers
<1>46. CASE UNCHANGED vars
  BY <1>46 DEF vars
<1>47. QED
  BY <1>1, <1>2, <1>3, <1>4, <1>5, <1>6, <1>7, <1>8, <1>9, <1>10, <1>11,
     <1>12, <1>13, <1>14, <1>15, <1>16, <1>17, <1>18, <1>19, <1>20, <1>21,
     <1>22, <1>23, <1>24, <1>25, <1>26, <1>27, <1>28, <1>29, <1>30, <1>31,
     <1>32, <1>33, <1>34, <1>35, <1>36, <1>37, <1>38, <1>39, <1>40, <1>41,
     <1>42, <1>43, <1>44, <1>45, <1>46
     DEF Next, UserCalls, CallSteps, ThreadSteps, Environment

(* Between calls the running flags, the thread and the stream tell the same *)
(* story.                                                                   *)
THEOREM FlagsTruth == Spec => []FlagsTellTheTruth
  BY FlagsAgree, NoThreadWhenStopped, Capturing, PTL DEF FlagsTellTheTruth

(* The V4L2 backend implements the safety part of the life cycle that       *)
(* capture.rs documents.                                                    *)
THEOREM ImplementsLifeCycle == Spec => ImplementsContract
<1>1. Init => Contract!ContractInit
  BY DEF Init, RustInit, Contract!ContractInit, ContractPhase
<1>2. IndInv /\ [Next]_vars => [Contract!ContractNext]_(Contract!contractVars)
  BY StepImplements
<1> QED
  BY <1>1, <1>2, Invariance, PTL DEF Spec, ImplementsContract, Contract!ContractSafety

(* The user callback runs only between the beginning of a start and the     *)
(* return of the stop, or of the implied stop of a drop.                    *)
CallbackOnlyWhileCapturing ==
  tpc = "callback" =>
    \/ api \in {"starting", "stopping", "dropStopping"}
    \/ api = "idle" /\ rsRunning

THEOREM NoCallbackAfterStop == Spec => []CallbackOnlyWhileCapturing
<1>1. IndInv => CallbackOnlyWhileCapturing
  BY DEF IndInv, CallsMatch, FlagsMatch, StartPcs, StopPcs,
         CallbackOnlyWhileCapturing
<1> QED
  BY <1>1, Invariance, PTL
=============================================================================
