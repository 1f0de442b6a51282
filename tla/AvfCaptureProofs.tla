--------------------------- MODULE AvfCaptureProofs ---------------------------
(***************************************************************************)
(* Proofs about AvfCapture for any number of waiting samples and of frames *)
(* kept, whether or not the capture session may stop by itself: the        *)
(* inductive invariant, the safety properties, and that a session which    *)
(* has not stopped by itself follows the documented life cycle.            *)
(***************************************************************************)
EXTENDS AvfCapture, TLAPS

(* The caller is inside the C function that its Rust call invoked. *)
CallsMatch ==
  /\ cpc = "none" <=> api \in {"idle", "absent"}
  /\ cpc \in CreatePcs <=> api = "creating"
  /\ cpc \in StartPcs <=> api = "starting"
  /\ cpc \in StopPcs <=> api \in {"stopping", "dropStopping"}
  /\ cpc \in DestroyPcs <=> api = "destroying"
  /\ rsRunning => api \in {"idle", "stopping", "dropStopping"}

(* What exists at each point of the life cycle. *)
Allocated ==
  /\ session => api # "absent" /\ cpc \notin {"authorize", "prompt", "device"}
  /\ context <=> api \notin {"absent", "creating"}
  /\ running => api \notin {"absent", "creating"} /\ cpc # "free"
  /\ attached => api \notin {"absent", "creating"}

(* What captureOutput holds at each of its points. *)
FrameHeld ==
  /\ locked <=> qpc \notin {"idle", "entry"}
  /\ uvBuffer => qpc \in {"retain", "callback", "returned"}
  /\ retains = kept + (IF qpc = "callback" THEN 1 ELSE 0)

(* Once the delegate is detached the queue only gets shorter, and the empty *)
(* block of dispatch_sync is behind exactly what is left of it.             *)
Draining ==
  /\ cpc \in {"sync", "drain", "stopRunning"} => ~attached
  /\ cpc = "drain" => ahead = pending + (IF qpc = "idle" THEN 0 ELSE 1)
  /\ cpc = "stopRunning" => pending = 0 /\ qpc = "idle"

(* Between start and the end of stop. *)
Delivers ==
  \/ cpc \in {"startRunning", "startTest", "detach"}
  \/ api = "idle" /\ rsRunning

(* As long as the session has not stopped by itself, samples come only      *)
(* between start and stop, and a start does not fail.                       *)
Undisturbed ==
  ~interrupted =>
    /\ attached => Delivers
    /\ pending > 0 \/ qpc # "idle" => Delivers \/ cpc \in {"sync", "drain"}
    /\ cpc = "startTest" => running

IndInv ==
  /\ TypeOK /\ CallsMatch /\ Allocated
  /\ FrameHeld /\ Draining /\ Undisturbed

-----------------------------------------------------------------------------
(* The initial state satisfies the inductive invariant.                     *)
LEMMA InitIndInv == Init => IndInv
<1> SUFFICES ASSUME Init PROVE IndInv
  OBVIOUS
<1> USE AvfAssumption DEF Init, RustInit, CreatePcs, StartPcs, StopPcs, DestroyPcs
<1>1. TypeOK
  <2>1. RustTypeOK
    BY DEF RustTypeOK, ApiStates
  <2>2. /\ {session, attached, userData, running} \subseteq BOOLEAN
        /\ {interrupted, locked, uvBuffer} \subseteq BOOLEAN
    OBVIOUS
  <2>3. /\ pending \in 0 .. MaxPending /\ ahead \in 0 .. MaxPending + 1
        /\ retains \in 0 .. MaxKept + 1 /\ kept \in 0 .. MaxKept
    OBVIOUS
  <2>4. qpc \in QueuePcs
    BY DEF QueuePcs
  <2> QED
    BY <2>1, <2>2, <2>3, <2>4 DEF TypeOK
<1>2. CallsMatch /\ Allocated
  BY DEF CallsMatch, Allocated
<1>3. FrameHeld /\ Draining /\ Undisturbed
  BY DEF FrameHeld, Draining, Undisturbed
<1> QED
  BY <1>1, <1>2, <1>3 DEF IndInv

(* Every step of the caller, the queue, the session and the user preserves  *)
(* it.                                                                      *)
LEMMA NextIndInv == IndInv /\ [Next]_vars => IndInv'
<1> SUFFICES ASSUME IndInv, [Next]_vars PROVE IndInv'
  OBVIOUS
<1> USE AvfAssumption
    DEF IndInv, TypeOK, RustTypeOK, ApiStates, CallsMatch, Allocated,
        FrameHeld, Draining, Delivers, Undisturbed, CreatePcs, StartPcs,
        StopPcs, DestroyPcs, QueuePcs, avf, caller, queue, rustVars,
        CreateFails, QueueGoes, Behind, RsNew, RsNewReturns, RsStart,
        RsStartReturns, RsStop, RsStopReturns, RsDrop, RsDropReturns
<1>1. CASE EnterCreate
  <2>1. TypeOK'
    <3>1. RustTypeOK'
      BY <1>1 DEF EnterCreate
    <3>2. ({session, attached, userData, running} \subseteq BOOLEAN)'
      BY <1>1 DEF EnterCreate
    <3>3. ({interrupted, locked, uvBuffer} \subseteq BOOLEAN)'
      BY <1>1 DEF EnterCreate
    <3>4. /\ (pending \in 0 .. MaxPending /\ ahead \in 0 .. MaxPending + 1)'
          /\ (retains \in 0 .. MaxKept + 1 /\ kept \in 0 .. MaxKept)'
      BY <1>1 DEF EnterCreate
    <3>5. (qpc \in QueuePcs)'
      BY <1>1 DEF EnterCreate
    <3> QED
      BY <3>1, <3>2, <3>3, <3>4, <3>5, <1>1 DEF EnterCreate
  <2>2. CallsMatch'
    BY <1>1 DEF EnterCreate
  <2>3. Allocated'
    BY <1>1 DEF EnterCreate
  <2>4. FrameHeld'
    BY <1>1 DEF EnterCreate
  <2>5. Draining'
    BY <1>1 DEF EnterCreate
  <2>6. Undisturbed'
    BY <1>1 DEF EnterCreate
  <2>7. QED
    BY <2>1, <2>2, <2>3, <2>4, <2>5, <2>6
<1>2. CASE Authorize
  <2>1. TypeOK'
    <3>1. RustTypeOK'
      BY <1>2 DEF Authorize
    <3>2. ({session, attached, userData, running} \subseteq BOOLEAN)'
      BY <1>2 DEF Authorize
    <3>3. ({interrupted, locked, uvBuffer} \subseteq BOOLEAN)'
      BY <1>2 DEF Authorize
    <3>4. /\ (pending \in 0 .. MaxPending /\ ahead \in 0 .. MaxPending + 1)'
          /\ (retains \in 0 .. MaxKept + 1 /\ kept \in 0 .. MaxKept)'
      BY <1>2 DEF Authorize
    <3>5. (qpc \in QueuePcs)'
      BY <1>2 DEF Authorize
    <3> QED
      BY <3>1, <3>2, <3>3, <3>4, <3>5, <1>2 DEF Authorize
  <2>2. CallsMatch'
    BY <1>2 DEF Authorize
  <2>3. Allocated'
    BY <1>2 DEF Authorize
  <2>4. FrameHeld'
    BY <1>2 DEF Authorize
  <2>5. Draining'
    BY <1>2 DEF Authorize
  <2>6. Undisturbed'
    BY <1>2 DEF Authorize
  <2>7. QED
    BY <2>1, <2>2, <2>3, <2>4, <2>5, <2>6
<1>3. CASE Answered
  BY <1>3 DEF Answered
<1>4. CASE FindDevice
  <2>1. TypeOK'
    <3>1. RustTypeOK'
      BY <1>4 DEF FindDevice
    <3>2. ({session, attached, userData, running} \subseteq BOOLEAN)'
      BY <1>4 DEF FindDevice
    <3>3. ({interrupted, locked, uvBuffer} \subseteq BOOLEAN)'
      BY <1>4 DEF FindDevice
    <3>4. /\ (pending \in 0 .. MaxPending /\ ahead \in 0 .. MaxPending + 1)'
          /\ (retains \in 0 .. MaxKept + 1 /\ kept \in 0 .. MaxKept)'
      BY <1>4 DEF FindDevice
    <3>5. (qpc \in QueuePcs)'
      BY <1>4 DEF FindDevice
    <3> QED
      BY <3>1, <3>2, <3>3, <3>4, <3>5, <1>4 DEF FindDevice
  <2>2. CallsMatch'
    BY <1>4 DEF FindDevice
  <2>3. Allocated'
    BY <1>4 DEF FindDevice
  <2>4. FrameHeld'
    BY <1>4 DEF FindDevice
  <2>5. Draining'
    BY <1>4 DEF FindDevice
  <2>6. Undisturbed'
    BY <1>4 DEF FindDevice
  <2>7. QED
    BY <2>1, <2>2, <2>3, <2>4, <2>5, <2>6
<1>5. CASE ConfigureFails
  BY <1>5 DEF ConfigureFails
<1>6. CASE Configure
  BY <1>6 DEF Configure
<1>7. CASE EnterStart
  BY <1>7 DEF EnterStart
<1>8. CASE Attach
  BY <1>8 DEF Attach
<1>9. CASE StartRunning
  <2>1. TypeOK'
    <3>1. RustTypeOK'
      BY <1>9 DEF StartRunning
    <3>2. ({session, attached, userData, running} \subseteq BOOLEAN)'
      BY <1>9 DEF StartRunning
    <3>3. ({interrupted, locked, uvBuffer} \subseteq BOOLEAN)'
      BY <1>9 DEF StartRunning
    <3>4. /\ (pending \in 0 .. MaxPending /\ ahead \in 0 .. MaxPending + 1)'
          /\ (retains \in 0 .. MaxKept + 1 /\ kept \in 0 .. MaxKept)'
      BY <1>9 DEF StartRunning
    <3>5. (qpc \in QueuePcs)'
      BY <1>9 DEF StartRunning
    <3> QED
      BY <3>1, <3>2, <3>3, <3>4, <3>5, <1>9 DEF StartRunning
  <2>2. CallsMatch'
    BY <1>9 DEF StartRunning
  <2>3. Allocated'
    BY <1>9 DEF StartRunning
  <2>4. FrameHeld'
    BY <1>9 DEF StartRunning
  <2>5. Draining'
    BY <1>9 DEF StartRunning
  <2>6. Undisturbed'
    BY <1>9 DEF StartRunning
  <2>7. QED
    BY <2>1, <2>2, <2>3, <2>4, <2>5, <2>6
<1>10. CASE StartTest
  BY <1>10 DEF StartTest
<1>11. CASE EnterStop
  BY <1>11 DEF EnterStop
<1>12. CASE Detach
  <2>1. TypeOK'
    <3>1. RustTypeOK'
      BY <1>12 DEF Detach
    <3>2. ({session, attached, userData, running} \subseteq BOOLEAN)'
      BY <1>12 DEF Detach
    <3>3. ({interrupted, locked, uvBuffer} \subseteq BOOLEAN)'
      BY <1>12 DEF Detach
    <3>4. /\ (pending \in 0 .. MaxPending /\ ahead \in 0 .. MaxPending + 1)'
          /\ (retains \in 0 .. MaxKept + 1 /\ kept \in 0 .. MaxKept)'
      BY <1>12 DEF Detach
    <3>5. (qpc \in QueuePcs)'
      BY <1>12 DEF Detach
    <3> QED
      BY <3>1, <3>2, <3>3, <3>4, <3>5, <1>12 DEF Detach
  <2>2. CallsMatch'
    BY <1>12 DEF Detach
  <2>3. Allocated'
    BY <1>12 DEF Detach
  <2>4. FrameHeld'
    BY <1>12 DEF Detach
  <2>5. Draining'
    BY <1>12 DEF Detach
  <2>6. Undisturbed'
    BY <1>12 DEF Detach
  <2>7. QED
    BY <2>1, <2>2, <2>3, <2>4, <2>5, <2>6
<1>13. CASE DispatchSync
  BY <1>13 DEF DispatchSync
<1>14. CASE Drained
  BY <1>14 DEF Drained
<1>15. CASE StopRunning
  BY <1>15 DEF StopRunning
<1>16. CASE EnterDrop
  BY <1>16 DEF EnterDrop
<1>17. CASE DestroyTest
  BY <1>17 DEF DestroyTest
<1>18. CASE Free
  BY <1>18 DEF Free
<1>19. CASE SampleArrives
  BY <1>19 DEF SampleArrives
<1>20. CASE Interrupted
  <2>1. TypeOK'
    <3>1. RustTypeOK'
      BY <1>20 DEF Interrupted
    <3>2. ({session, attached, userData, running} \subseteq BOOLEAN)'
      BY <1>20 DEF Interrupted
    <3>3. ({interrupted, locked, uvBuffer} \subseteq BOOLEAN)'
      BY <1>20 DEF Interrupted
    <3>4. /\ (pending \in 0 .. MaxPending /\ ahead \in 0 .. MaxPending + 1)'
          /\ (retains \in 0 .. MaxKept + 1 /\ kept \in 0 .. MaxKept)'
      BY <1>20 DEF Interrupted
    <3>5. (qpc \in QueuePcs)'
      BY <1>20 DEF Interrupted
    <3> QED
      BY <3>1, <3>2, <3>3, <3>4, <3>5, <1>20 DEF Interrupted
  <2>2. CallsMatch'
    BY <1>20 DEF Interrupted
  <2>3. Allocated'
    BY <1>20 DEF Interrupted
  <2>4. FrameHeld'
    BY <1>20 DEF Interrupted
  <2>5. Draining'
    BY <1>20 DEF Interrupted
  <2>6. Undisturbed'
    BY <1>20 DEF Interrupted
  <2>7. QED
    BY <2>1, <2>2, <2>3, <2>4, <2>5, <2>6
<1>21. CASE UserAnswers
  BY <1>21 DEF UserAnswers
<1>22. CASE BlockBegins
  BY <1>22 DEF BlockBegins
<1>23. CASE BlockIgnored
  BY <1>23 DEF BlockIgnored
<1>24. CASE LockBaseAddress
  BY <1>24 DEF LockBaseAddress
<1>25. CASE Convert
  BY <1>25 DEF Convert
<1>26. CASE ConvertFails
  BY <1>26 DEF ConvertFails
<1>27. CASE Retain
  BY <1>27 DEF Retain
<1>28. CASE KeepFrame
  BY <1>28 DEF KeepFrame
<1>29. CASE DropFrame
  BY <1>29 DEF DropFrame
<1>30. CASE CallbackReturns
  BY <1>30 DEF CallbackReturns
<1>31. CASE FreeUvBuffer
  <2>1. TypeOK'
    <3>1. RustTypeOK'
      BY <1>31 DEF FreeUvBuffer
    <3>2. ({session, attached, userData, running} \subseteq BOOLEAN)'
      BY <1>31 DEF FreeUvBuffer
    <3>3. ({interrupted, locked, uvBuffer} \subseteq BOOLEAN)'
      BY <1>31 DEF FreeUvBuffer
    <3>4. /\ (pending \in 0 .. MaxPending /\ ahead \in 0 .. MaxPending + 1)'
          /\ (retains \in 0 .. MaxKept + 1 /\ kept \in 0 .. MaxKept)'
      BY <1>31 DEF FreeUvBuffer
    <3>5. (qpc \in QueuePcs)'
      BY <1>31 DEF FreeUvBuffer
    <3> QED
      BY <3>1, <3>2, <3>3, <3>4, <3>5, <1>31 DEF FreeUvBuffer
  <2>2. CallsMatch'
    BY <1>31 DEF FreeUvBuffer
  <2>3. Allocated'
    BY <1>31 DEF FreeUvBuffer
  <2>4. FrameHeld'
    BY <1>31 DEF FreeUvBuffer
  <2>5. Draining'
    BY <1>31 DEF FreeUvBuffer
  <2>6. Undisturbed'
    BY <1>31 DEF FreeUvBuffer
  <2>7. QED
    BY <2>1, <2>2, <2>3, <2>4, <2>5, <2>6
<1>32. CASE UnlockBaseAddress
  <2>1. TypeOK'
    <3>1. RustTypeOK'
      BY <1>32 DEF UnlockBaseAddress
    <3>2. ({session, attached, userData, running} \subseteq BOOLEAN)'
      BY <1>32 DEF UnlockBaseAddress
    <3>3. ({interrupted, locked, uvBuffer} \subseteq BOOLEAN)'
      BY <1>32 DEF UnlockBaseAddress
    <3>4. /\ (pending \in 0 .. MaxPending /\ ahead \in 0 .. MaxPending + 1)'
          /\ (retains \in 0 .. MaxKept + 1 /\ kept \in 0 .. MaxKept)'
      BY <1>32 DEF UnlockBaseAddress
    <3>5. (qpc \in QueuePcs)'
      BY <1>32 DEF UnlockBaseAddress
    <3> QED
      BY <3>1, <3>2, <3>3, <3>4, <3>5, <1>32 DEF UnlockBaseAddress
  <2>2. CallsMatch'
    BY <1>32 DEF UnlockBaseAddress
  <2>3. Allocated'
    BY <1>32 DEF UnlockBaseAddress
  <2>4. FrameHeld'
    BY <1>32 DEF UnlockBaseAddress
  <2>5. Draining'
    BY <1>32 DEF UnlockBaseAddress
  <2>6. Undisturbed'
    BY <1>32 DEF UnlockBaseAddress
  <2>7. QED
    BY <2>1, <2>2, <2>3, <2>4, <2>5, <2>6
<1>33. CASE UNCHANGED vars
  BY <1>33 DEF vars
<1>34. QED
  BY <1>1, <1>2, <1>3, <1>4, <1>5, <1>6, <1>7, <1>8, <1>9, <1>10, <1>11,
     <1>12, <1>13, <1>14, <1>15, <1>16, <1>17, <1>18, <1>19, <1>20, <1>21,
     <1>22, <1>23, <1>24, <1>25, <1>26, <1>27, <1>28, <1>29, <1>30, <1>31,
     <1>32, <1>33
     DEF Next, UserCalls, CallSteps, QueueSteps, Environment

-----------------------------------------------------------------------------
(* The inductive invariant holds in every reachable state.                  *)
THEOREM Invariance == Spec => []IndInv
<1>1. Init => IndInv
  BY InitIndInv
<1>2. IndInv /\ [Next]_vars => IndInv'
  BY NextIndInv
<1> QED
  BY <1>1, <1>2, PTL DEF Spec

(* Type correctness of the AVFoundation backend. *)
THEOREM TypeCorrect == Spec => []TypeOK
<1>1. IndInv => TypeOK
  BY DEF IndInv
<1> QED
  BY <1>1, Invariance, PTL

(* The callback reads a locked and retained pixel buffer, and every         *)
(* CFRetain has one owner: the frame in the callback or a copy the user     *)
(* keeps.                                                                   *)
THEOREM FrameMemory == Spec => []FrameMemoryIsHeld
<1>1. IndInv => FrameMemoryIsHeld
  BY DEF IndInv, FrameHeld, FrameMemoryIsHeld
<1> QED
  BY <1>1, Invariance, PTL

(* A frame leaves nothing locked or allocated, a failed new and a drop no   *)
(* session, context or running camera.                                      *)
THEOREM NoLeak == Spec => []NothingLeaks
<1>1. IndInv => NothingLeaks
  BY DEF IndInv, FrameHeld, Allocated, NothingLeaks
<1> QED
  BY <1>1, Invariance, PTL

(* stop returns with the queue drained and the delegate detached, however   *)
(* many samples were waiting and whether or not the session had stopped.    *)
THEOREM StopIsDraining == Spec => StopDrains
<1>1. IndInv /\ [Next]_vars
        => [api' # api /\ api \in {"stopping", "dropStopping"}
              => pending = 0 /\ qpc = "idle" /\ ~attached]_vars
  <2> SUFFICES ASSUME IndInv, Next, api' # api,
                      api \in {"stopping", "dropStopping"}
               PROVE  pending = 0 /\ qpc = "idle" /\ ~attached
    OBVIOUS
  <2>1. cpc \in StopPcs
    BY DEF IndInv, CallsMatch
  <2>2. cpc = "stopRunning"
    BY <2>1 DEF Next, UserCalls, CallSteps, QueueSteps, Environment, StopPcs,
       EnterCreate, EnterStart, EnterStop, EnterDrop, RsNew, RsStart, RsStop,
       RsDrop, Authorize, Answered, FindDevice, ConfigureFails, Configure,
       Attach, StartRunning, StartTest, Detach, DispatchSync, Drained,
       DestroyTest, Free, StopRunning, SampleArrives, Interrupted, UserAnswers,
       KeepFrame, DropFrame, BlockBegins, BlockIgnored, LockBaseAddress,
       Convert, ConvertFails, Retain, CallbackReturns, FreeUvBuffer,
       UnlockBaseAddress, QueueGoes, rustVars
  <2> QED
    BY <2>2 DEF IndInv, Draining
<1> QED
  BY <1>1, Invariance, PTL DEF Spec, StopDrains

-----------------------------------------------------------------------------
(* Every step of a session that has not stopped by itself is a step of the  *)
(* documented life cycle or leaves its variables alone.                     *)
LEMMA StepImplements ==
  IndInv /\ [Next]_vars
    => [interrupted' \/ Contract!ContractNext]_(Contract!contractVars)
<1> SUFFICES ASSUME IndInv, [Next]_vars
             PROVE  [interrupted' \/ Contract!ContractNext]_(Contract!contractVars)
  OBVIOUS
<1> USE DEF IndInv, TypeOK, RustTypeOK, ApiStates, CallsMatch, Draining,
        Delivers, Undisturbed, CreatePcs, StartPcs, StopPcs, DestroyPcs,
        QueuePcs, avf, caller, queue, rustVars, CreateFails, QueueGoes, RsNew,
        RsNewReturns, RsStart, RsStartReturns, RsStop, RsStopReturns, RsDrop,
        RsDropReturns, ContractPhase, Contract!ContractNext,
        Contract!contractVars, Contract!Go, Contract!New, Contract!NewFails,
        Contract!NewReturns, Contract!Start, Contract!StartReturns,
        Contract!StartFails, Contract!Stop, Contract!StopReturns,
        Contract!Drop, Contract!DropStops, Contract!DropReturns,
        Contract!CallbackBegins, Contract!CallbackReturns,
        Contract!CallbackPanics, Contract!Delivering
<1>1. CASE EnterCreate
  BY <1>1 DEF EnterCreate
<1>2. CASE Authorize
  BY <1>2 DEF Authorize
<1>3. CASE Answered
  BY <1>3 DEF Answered
<1>4. CASE FindDevice
  BY <1>4 DEF FindDevice
<1>5. CASE ConfigureFails
  BY <1>5 DEF ConfigureFails
<1>6. CASE Configure
  BY <1>6 DEF Configure
<1>7. CASE EnterStart
  BY <1>7 DEF EnterStart
<1>8. CASE Attach
  BY <1>8 DEF Attach
<1>9. CASE StartRunning
  BY <1>9 DEF StartRunning
<1>10. CASE StartTest
  BY <1>10 DEF StartTest
<1>11. CASE EnterStop
  BY <1>11 DEF EnterStop
<1>12. CASE Detach
  BY <1>12 DEF Detach
<1>13. CASE DispatchSync
  BY <1>13 DEF DispatchSync
<1>14. CASE Drained
  BY <1>14 DEF Drained
<1>15. CASE StopRunning
  BY <1>15 DEF StopRunning
<1>16. CASE EnterDrop
  BY <1>16 DEF EnterDrop
<1>17. CASE DestroyTest
  BY <1>17 DEF DestroyTest
<1>18. CASE Free
  BY <1>18 DEF Free
<1>19. CASE SampleArrives
  BY <1>19 DEF SampleArrives
<1>20. CASE Interrupted
  BY <1>20 DEF Interrupted
<1>21. CASE UserAnswers
  BY <1>21 DEF UserAnswers
<1>22. CASE BlockBegins
  BY <1>22 DEF BlockBegins
<1>23. CASE BlockIgnored
  BY <1>23 DEF BlockIgnored
<1>24. CASE LockBaseAddress
  BY <1>24 DEF LockBaseAddress
<1>25. CASE Convert
  BY <1>25 DEF Convert
<1>26. CASE ConvertFails
  BY <1>26 DEF ConvertFails
<1>27. CASE Retain
  BY <1>27 DEF Retain
<1>28. CASE KeepFrame
  BY <1>28 DEF KeepFrame
<1>29. CASE DropFrame
  BY <1>29 DEF DropFrame
<1>30. CASE CallbackReturns
  BY <1>30 DEF CallbackReturns
<1>31. CASE FreeUvBuffer
  BY <1>31 DEF FreeUvBuffer
<1>32. CASE UnlockBaseAddress
  BY <1>32 DEF UnlockBaseAddress
<1>33. CASE UNCHANGED vars
  BY <1>33 DEF vars
<1>34. QED
  BY <1>1, <1>2, <1>3, <1>4, <1>5, <1>6, <1>7, <1>8, <1>9, <1>10, <1>11,
     <1>12, <1>13, <1>14, <1>15, <1>16, <1>17, <1>18, <1>19, <1>20, <1>21,
     <1>22, <1>23, <1>24, <1>25, <1>26, <1>27, <1>28, <1>29, <1>30, <1>31,
     <1>32, <1>33
     DEF Next, UserCalls, CallSteps, QueueSteps, Environment

(* A session that has not stopped by itself implements the safety part of   *)
(* the life cycle that capture.rs documents.                                *)
THEOREM ImplementsLifeCycle ==
  Spec => /\ Contract!ContractInit
          /\ [][interrupted' \/ Contract!ContractNext]_(Contract!contractVars)
<1>1. Init => Contract!ContractInit
  BY DEF Init, RustInit, Contract!ContractInit, ContractPhase
<1>2. IndInv /\ [Next]_vars
        => [interrupted' \/ Contract!ContractNext]_(Contract!contractVars)
  BY StepImplements
<1> QED
  BY <1>1, <1>2, Invariance, PTL DEF Spec

(* As long as the session has not stopped by itself the user callback runs  *)
(* only between the beginning of a start and the return of the stop, or of  *)
(* the implied stop of a drop.                                              *)
CallbackOnlyWhileCapturing ==
  qpc = "callback" /\ ~interrupted =>
    \/ api \in {"starting", "stopping", "dropStopping"}
    \/ api = "idle" /\ rsRunning

THEOREM NoCallbackAfterStop == Spec => []CallbackOnlyWhileCapturing
<1>1. IndInv => CallbackOnlyWhileCapturing
  BY DEF IndInv, CallsMatch, Undisturbed, Delivers, StartPcs, StopPcs,
         CallbackOnlyWhileCapturing
<1> QED
  BY <1>1, Invariance, PTL
=============================================================================
