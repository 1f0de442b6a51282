--------------------------- MODULE MfCaptureProofs ---------------------------
(***************************************************************************)
(* Proofs about MfCapture for any finite set of captures: the inductive    *)
(* invariant, the safety properties it implies, and that every capture     *)
(* follows the documented life cycle whatever the others do.               *)
(***************************************************************************)
EXTENDS MfCapture, FiniteSetTheorems, TLAPS

(* Between a successful new and the start of Drop's releases. *)
Usable(c) ==
  cap[c].api \in {"idle", "starting", "returning", "stopping", "dropStopping"}

(* The capture thread and its handle, which start makes and stop joins.    *)
ThreadMatches(c) ==
  /\ cap[c].handle <=> cap[c].thread # "none"
  /\ cap[c].handle =>
       cap[c].running \/ cap[c].api \in {"stopping", "dropStopping"}
  /\ cap[c].running => cap[c].api \in {"idle", "starting", "returning"}
  /\ cap[c].api = "starting" => cap[c].running

(* Who has the callback. *)
CallbackMatches(c) ==
  /\ cap[c].callback = "thread" <=> ThreadAlive(c) \/ cap[c].thread = "returned"
  /\ cap[c].callback = "none" => cap[c].api \in {"absent"} \cup CreateSteps
  /\ cap[c].api \in {"absent"} \cup CreateSteps =>
       cap[c].callback = "none" /\ ~cap[c].running
  /\ cap[c].callback = "self" => ~cap[c].running
  /\ cap[c].thread = "panicked" => cap[c].callback = "panicked"

(* The source and the media type of its reader, and the owner's COM guard. *)
SourceMatches(c) ==
  /\ Usable(c) => cap[c].source = "active" /\ cap[c].format = "supported"
  /\ cap[c].api = "createReader" => cap[c].source = "active"
  /\ cap[c].api \in {"createFormat", "createCheck"} => cap[c].source = "active"
  /\ cap[c].api \in {"absent", "createCom", "createUndo"} => ~cap[c].com

(* What the capture thread holds at each of its points. *)
GuardsMatch(c) ==
  /\ cap[c].locked <=> cap[c].thread = "callback"
  /\ cap[c].tcom <=> ThreadAlive(c) /\ cap[c].thread # "init"

CaptureInv(c) ==
  /\ ThreadMatches(c) /\ CallbackMatches(c)
  /\ SourceMatches(c) /\ GuardsMatch(c)

(* What the enumeration holds at each of its points. *)
ListingInv ==
  /\ listing.source <=> listing.at \in {"reader", "types", "stopSource"}
  /\ listing.array <=> listing.at \in {"each", "reader", "types", "stopSource"}

IndInv ==
  /\ TypeOK
  /\ \A c \in Captures : CaptureInv(c)
  /\ MfIsBalanced
  /\ ListingInv

CaptureSteps(c) == UserCalls(c) \/ CallSteps(c) \/ CaptureThread(c)

-----------------------------------------------------------------------------
(* A step of one capture leaves the others alone.                           *)
LEMMA StepIsLocal ==
  ASSUME cap \in [Captures -> Capture], NEW c \in Captures, CaptureSteps(c)
  PROVE  /\ cap' = [cap EXCEPT ![c] = cap'[c]]
         /\ listing' = listing
<1> USE DEF At, Alone, Unbuilt, ThreadGoes
<1>1. CASE EnterNew(c)
  BY <1>1 DEF EnterNew
<1>2. CASE StartAlreadyRunning(c)
  BY <1>2 DEF StartAlreadyRunning
<1>3. CASE StartFaulted(c)
  BY <1>3 DEF StartFaulted
<1>4. CASE StartSpawns(c)
  BY <1>4 DEF StartSpawns
<1>5. CASE StartSpawnPanics(c)
  BY <1>5 DEF StartSpawnPanics
<1>6. CASE EnterStop(c)
  BY <1>6 DEF EnterStop
<1>7. CASE EnterDrop(c)
  BY <1>7 DEF EnterDrop
<1>8. CASE CreateCom(c)
  BY <1>8 DEF CreateCom
<1>9. CASE CreateMf(c)
  BY <1>9 DEF CreateMf
<1>10. CASE CreateSource(c)
  BY <1>10 DEF CreateSource
<1>11. CASE CreateReader(c)
  BY <1>11 DEF CreateReader
<1>12. CASE CreateFormat(c)
  BY <1>12 DEF CreateFormat
<1>13. CASE CreateCheck(c)
  BY <1>13 DEF CreateCheck
<1>14. CASE CreateUndo(c)
  BY <1>14 DEF CreateUndo
<1>15. CASE StartReturns(c)
  BY <1>15 DEF StartReturns
<1>16. CASE Join(c)
  BY <1>16 DEF Join
<1>17. CASE NothingToJoin(c)
  BY <1>17 DEF NothingToJoin
<1>18. CASE DropSource(c)
  BY <1>18 DEF DropSource
<1>19. CASE DropMf(c)
  BY <1>19 DEF DropMf
<1>20. CASE DropCom(c)
  BY <1>20 DEF DropCom
<1>21. CASE ThreadInit(c)
  BY <1>21 DEF ThreadInit
<1>22. CASE LoopTest(c)
  BY <1>22 DEF LoopTest
<1>23. CASE ReadSample(c)
  BY <1>23 DEF ReadSample
<1>24. CASE Retry(c)
  BY <1>24 DEF Retry
<1>25. CASE SkipSample(c)
  BY <1>25 DEF SkipSample
<1>26. CASE DeliverSample(c)
  BY <1>26 DEF DeliverSample
<1>27. CASE CallbackReturns(c)
  BY <1>27 DEF CallbackReturns
<1>28. CASE CallbackPanics(c)
  BY <1>28 DEF CallbackPanics
<1>29. CASE ThreadReturns(c)
  BY <1>29 DEF ThreadReturns
<1> QED
  BY <1>1, <1>2, <1>3, <1>4, <1>5, <1>6, <1>7, <1>8, <1>9, <1>10, <1>11,
     <1>12, <1>13, <1>14, <1>15, <1>16, <1>17, <1>18, <1>19, <1>20, <1>21,
     <1>22, <1>23, <1>24, <1>25, <1>26, <1>27, <1>28, <1>29
     DEF CaptureSteps, UserCalls, CallSteps, CaptureThread

(* and keeps the type of its record.                                        *)
LEMMA StepKeepsType ==
  ASSUME cap \in [Captures -> Capture], NEW c \in Captures, CaptureSteps(c)
  PROVE  cap'[c] \in Capture
<1>0. cap[c] \in Capture
  OBVIOUS
<1> USE DEF At, Alone, Unbuilt, ThreadGoes, Capture, CreateSteps, DropSteps,
        ThreadSteps, MediaTypes, StopLeaves, NoCapture
<1>1. CASE EnterNew(c)
  BY <1>1, <1>0 DEF EnterNew
<1>2. CASE StartAlreadyRunning(c)
  BY <1>2, <1>0 DEF StartAlreadyRunning
<1>3. CASE StartFaulted(c)
  BY <1>3, <1>0 DEF StartFaulted
<1>4. CASE StartSpawns(c)
  BY <1>4, <1>0 DEF StartSpawns
<1>5. CASE StartSpawnPanics(c)
  BY <1>5, <1>0 DEF StartSpawnPanics
<1>6. CASE EnterStop(c)
  BY <1>6, <1>0 DEF EnterStop
<1>7. CASE EnterDrop(c)
  BY <1>7, <1>0 DEF EnterDrop
<1>8. CASE CreateCom(c)
  BY <1>8, <1>0 DEF CreateCom
<1>9. CASE CreateMf(c)
  BY <1>9, <1>0 DEF CreateMf
<1>10. CASE CreateSource(c)
  BY <1>10, <1>0 DEF CreateSource
<1>11. CASE CreateReader(c)
  BY <1>11, <1>0 DEF CreateReader
<1>12. CASE CreateFormat(c)
  BY <1>12, <1>0 DEF CreateFormat
<1>13. CASE CreateCheck(c)
  BY <1>13, <1>0 DEF CreateCheck
<1>14. CASE CreateUndo(c)
  BY <1>14, <1>0 DEF CreateUndo
<1>15. CASE StartReturns(c)
  BY <1>15, <1>0 DEF StartReturns
<1>16. CASE Join(c)
  BY <1>16, <1>0 DEF Join
<1>17. CASE NothingToJoin(c)
  BY <1>17, <1>0 DEF NothingToJoin
<1>18. CASE DropSource(c)
  BY <1>18, <1>0 DEF DropSource
<1>19. CASE DropMf(c)
  BY <1>19, <1>0 DEF DropMf
<1>20. CASE DropCom(c)
  <2>1. NoCapture \in Capture
    OBVIOUS
  <2>2. /\ cap[c].thread \in ThreadSteps /\ cap[c].tcom \in BOOLEAN
        /\ cap[c].locked \in BOOLEAN
    BY <1>0
  <2>3. cap'[c] = [NoCapture EXCEPT !.thread = cap[c].thread,
                                    !.tcom = cap[c].tcom,
                                    !.locked = cap[c].locked]
    BY <1>20, <1>0 DEF DropCom
  <2> QED
    BY <2>1, <2>2, <2>3
<1>21. CASE ThreadInit(c)
  BY <1>21, <1>0 DEF ThreadInit
<1>22. CASE LoopTest(c)
  BY <1>22, <1>0 DEF LoopTest
<1>23. CASE ReadSample(c)
  BY <1>23, <1>0 DEF ReadSample
<1>24. CASE Retry(c)
  BY <1>24, <1>0 DEF Retry
<1>25. CASE SkipSample(c)
  BY <1>25, <1>0 DEF SkipSample
<1>26. CASE DeliverSample(c)
  BY <1>26, <1>0 DEF DeliverSample
<1>27. CASE CallbackReturns(c)
  BY <1>27, <1>0 DEF CallbackReturns
<1>28. CASE CallbackPanics(c)
  BY <1>28, <1>0 DEF CallbackPanics
<1>29. CASE ThreadReturns(c)
  BY <1>29, <1>0 DEF ThreadReturns
<1> QED
  BY <1>1, <1>2, <1>3, <1>4, <1>5, <1>6, <1>7, <1>8, <1>9, <1>10, <1>11,
     <1>12, <1>13, <1>14, <1>15, <1>16, <1>17, <1>18, <1>19, <1>20, <1>21,
     <1>22, <1>23, <1>24, <1>25, <1>26, <1>27, <1>28, <1>29
     DEF CaptureSteps, UserCalls, CallSteps, CaptureThread

(* and preserves its part of the inductive invariant.                       *)
LEMMA StepKeepsInv ==
  ASSUME cap \in [Captures -> Capture], NEW c \in Captures, CaptureInv(c),
         CaptureSteps(c)
  PROVE  CaptureInv(c)'
<1>0. cap[c] \in Capture
  OBVIOUS
<1> USE DEF At, Alone, Unbuilt, ThreadGoes, Capture, CreateSteps, DropSteps,
        ThreadSteps, MediaTypes, StopLeaves, NoCapture, CaptureInv,
        ThreadMatches, CallbackMatches, SourceMatches, GuardsMatch, Usable,
        ThreadAlive
<1>1. CASE EnterNew(c)
  BY <1>1, <1>0 DEF EnterNew
<1>2. CASE StartAlreadyRunning(c)
  BY <1>2, <1>0 DEF StartAlreadyRunning
<1>3. CASE StartFaulted(c)
  BY <1>3, <1>0 DEF StartFaulted
<1>4. CASE StartSpawns(c)
  BY <1>4, <1>0 DEF StartSpawns
<1>5. CASE StartSpawnPanics(c)
  BY <1>5, <1>0 DEF StartSpawnPanics
<1>6. CASE EnterStop(c)
  BY <1>6, <1>0 DEF EnterStop
<1>7. CASE EnterDrop(c)
  BY <1>7, <1>0 DEF EnterDrop
<1>8. CASE CreateCom(c)
  BY <1>8, <1>0 DEF CreateCom
<1>9. CASE CreateMf(c)
  BY <1>9, <1>0 DEF CreateMf
<1>10. CASE CreateSource(c)
  BY <1>10, <1>0 DEF CreateSource
<1>11. CASE CreateReader(c)
  BY <1>11, <1>0 DEF CreateReader
<1>12. CASE CreateFormat(c)
  BY <1>12, <1>0 DEF CreateFormat
<1>13. CASE CreateCheck(c)
  BY <1>13, <1>0 DEF CreateCheck
<1>14. CASE CreateUndo(c)
  BY <1>14, <1>0 DEF CreateUndo
<1>15. CASE StartReturns(c)
  BY <1>15, <1>0 DEF StartReturns
<1>16. CASE Join(c)
  BY <1>16, <1>0 DEF Join
<1>17. CASE NothingToJoin(c)
  BY <1>17, <1>0 DEF NothingToJoin
<1>18. CASE DropSource(c)
  BY <1>18, <1>0 DEF DropSource
<1>19. CASE DropMf(c)
  BY <1>19, <1>0 DEF DropMf
<1>20. CASE DropCom(c)
  BY <1>20, <1>0 DEF DropCom
<1>21. CASE ThreadInit(c)
  BY <1>21, <1>0 DEF ThreadInit
<1>22. CASE LoopTest(c)
  BY <1>22, <1>0 DEF LoopTest
<1>23. CASE ReadSample(c)
  BY <1>23, <1>0 DEF ReadSample
<1>24. CASE Retry(c)
  BY <1>24, <1>0 DEF Retry
<1>25. CASE SkipSample(c)
  BY <1>25, <1>0 DEF SkipSample
<1>26. CASE DeliverSample(c)
  BY <1>26, <1>0 DEF DeliverSample
<1>27. CASE CallbackReturns(c)
  BY <1>27, <1>0 DEF CallbackReturns
<1>28. CASE CallbackPanics(c)
  BY <1>28, <1>0 DEF CallbackPanics
<1>29. CASE ThreadReturns(c)
  BY <1>29, <1>0 DEF ThreadReturns
<1> QED
  BY <1>1, <1>2, <1>3, <1>4, <1>5, <1>6, <1>7, <1>8, <1>9, <1>10, <1>11,
     <1>12, <1>13, <1>14, <1>15, <1>16, <1>17, <1>18, <1>19, <1>20, <1>21,
     <1>22, <1>23, <1>24, <1>25, <1>26, <1>27, <1>28, <1>29
     DEF CaptureSteps, UserCalls, CallSteps, CaptureThread

-----------------------------------------------------------------------------
(* The captures that hold a reference to Media Foundation, and whether the  *)
(* enumeration does.                                                        *)
Holders == {c \in Captures : HoldsMf(c)}

ListingHolds == IF listing.at \in {"none", "com", "startup"} THEN 0 ELSE 1

(* A number of references that is balanced is within the bound of the type  *)
(* invariant, and positive while one is held.                               *)
LEMMA BalanceBounds ==
  ASSUME NEW H \in SUBSET Captures, NEW k \in 0 .. 1
  PROVE  /\ IsFiniteSet(H) /\ Cardinality(H) \in Nat
         /\ Cardinality(H) + k \in 0 .. Cardinality(Captures) + 1
         /\ H # {} => Cardinality(H) + k > 0
<1>1. /\ IsFiniteSet(H)
      /\ Cardinality(H) \in Nat /\ Cardinality(Captures) \in Nat
      /\ Cardinality(H) <= Cardinality(Captures)
  BY CapturesAssumption, FS_Subset, FS_CardinalityType
<1>2. H # {} => Cardinality(H) # 0
  BY <1>1, FS_EmptySet
<1> QED
  BY <1>1, <1>2

(* A capture takes or gives back its reference in the step in which it      *)
(* starts or stops to hold it.                                              *)
LEMMA StepOfHolder ==
  ASSUME cap \in [Captures -> Capture], NEW c \in Captures, CaptureSteps(c)
  PROVE  \/ (HoldsMf(c)' <=> HoldsMf(c)) /\ mfRefs' = mfRefs
         \/ ~HoldsMf(c) /\ HoldsMf(c)' /\ mfRefs' = mfRefs + 1
         \/ HoldsMf(c) /\ ~HoldsMf(c)' /\ mfRefs' = mfRefs - 1
<1>0. cap[c] \in Capture
  OBVIOUS
<1> USE DEF At, Alone, Unbuilt, ThreadGoes, CreateSteps, DropSteps, StopLeaves,
        NoCapture, HoldsMf, Capture
<1>1. CASE EnterNew(c)
  BY <1>1, <1>0 DEF EnterNew
<1>2. CASE StartAlreadyRunning(c)
  BY <1>2, <1>0 DEF StartAlreadyRunning
<1>3. CASE StartFaulted(c)
  BY <1>3, <1>0 DEF StartFaulted
<1>4. CASE StartSpawns(c)
  BY <1>4, <1>0 DEF StartSpawns
<1>5. CASE StartSpawnPanics(c)
  BY <1>5, <1>0 DEF StartSpawnPanics
<1>6. CASE EnterStop(c)
  BY <1>6, <1>0 DEF EnterStop
<1>7. CASE EnterDrop(c)
  BY <1>7, <1>0 DEF EnterDrop
<1>8. CASE CreateCom(c)
  BY <1>8, <1>0 DEF CreateCom
<1>9. CASE CreateMf(c)
  BY <1>9, <1>0 DEF CreateMf
<1>10. CASE CreateSource(c)
  BY <1>10, <1>0 DEF CreateSource
<1>11. CASE CreateReader(c)
  BY <1>11, <1>0 DEF CreateReader
<1>12. CASE CreateFormat(c)
  BY <1>12, <1>0 DEF CreateFormat
<1>13. CASE CreateCheck(c)
  BY <1>13, <1>0 DEF CreateCheck
<1>14. CASE CreateUndo(c)
  BY <1>14, <1>0 DEF CreateUndo
<1>15. CASE StartReturns(c)
  BY <1>15, <1>0 DEF StartReturns
<1>16. CASE Join(c)
  BY <1>16, <1>0 DEF Join
<1>17. CASE NothingToJoin(c)
  BY <1>17, <1>0 DEF NothingToJoin
<1>18. CASE DropSource(c)
  BY <1>18, <1>0 DEF DropSource
<1>19. CASE DropMf(c)
  BY <1>19, <1>0 DEF DropMf
<1>20. CASE DropCom(c)
  BY <1>20, <1>0 DEF DropCom
<1>21. CASE ThreadInit(c)
  BY <1>21, <1>0 DEF ThreadInit
<1>22. CASE LoopTest(c)
  BY <1>22, <1>0 DEF LoopTest
<1>23. CASE ReadSample(c)
  BY <1>23, <1>0 DEF ReadSample
<1>24. CASE Retry(c)
  BY <1>24, <1>0 DEF Retry
<1>25. CASE SkipSample(c)
  BY <1>25, <1>0 DEF SkipSample
<1>26. CASE DeliverSample(c)
  BY <1>26, <1>0 DEF DeliverSample
<1>27. CASE CallbackReturns(c)
  BY <1>27, <1>0 DEF CallbackReturns
<1>28. CASE CallbackPanics(c)
  BY <1>28, <1>0 DEF CallbackPanics
<1>29. CASE ThreadReturns(c)
  BY <1>29, <1>0 DEF ThreadReturns
<1> QED
  BY <1>1, <1>2, <1>3, <1>4, <1>5, <1>6, <1>7, <1>8, <1>9, <1>10, <1>11,
     <1>12, <1>13, <1>14, <1>15, <1>16, <1>17, <1>18, <1>19, <1>20, <1>21,
     <1>22, <1>23, <1>24, <1>25, <1>26, <1>27, <1>28, <1>29
     DEF CaptureSteps, UserCalls, CallSteps, CaptureThread

(* So the references stay balanced when a capture takes a step              *)
LEMMA CaptureKeepsBalance ==
  ASSUME cap \in [Captures -> Capture], MfIsBalanced,
         NEW c \in Captures, CaptureSteps(c)
  PROVE  MfIsBalanced'
<1>1. mfRefs = Cardinality(Holders) + ListingHolds /\ ListingHolds \in 0 .. 1
  BY DEF MfIsBalanced, Holders, ListingHolds
<1>2. IsFiniteSet(Holders) /\ Cardinality(Holders) \in Nat
  BY <1>1, BalanceBounds DEF Holders
<1>3. ListingHolds' = ListingHolds
  BY StepIsLocal DEF ListingHolds
<1>4. mfRefs \in Int
  BY <1>1, <1>2
<1>5. \A d \in Captures \ {c} : cap'[d] = cap[d]
  BY StepIsLocal
<1>6. \A d \in Captures \ {c} : HoldsMf(d)' <=> HoldsMf(d)
  BY <1>5 DEF HoldsMf
<1>7. SUFFICES mfRefs' = Cardinality(Holders') + ListingHolds
  BY <1>3 DEF MfIsBalanced, Holders, ListingHolds
<1>8. CASE (HoldsMf(c)' <=> HoldsMf(c)) /\ mfRefs' = mfRefs
  <2>1. Holders' = Holders
    BY <1>6, <1>8 DEF Holders
  <2> QED
    BY <1>1, <1>8, <2>1
<1>9. CASE ~HoldsMf(c) /\ HoldsMf(c)' /\ mfRefs' = mfRefs + 1
  <2>1. Holders' = Holders \cup {c} /\ c \notin Holders
    BY <1>6, <1>9 DEF Holders
  <2>2. Cardinality(Holders') = Cardinality(Holders) + 1
    BY <1>2, <2>1, FS_AddElement
  <2> QED
    BY <1>1, <1>2, <1>9, <2>2
<1>10. CASE HoldsMf(c) /\ ~HoldsMf(c)' /\ mfRefs' = mfRefs - 1
  <2>1. Holders' = Holders \ {c} /\ c \in Holders
    BY <1>6, <1>10 DEF Holders
  <2>2. Cardinality(Holders') = Cardinality(Holders) - 1
    BY <1>2, <2>1, FS_RemoveElement
  <2> QED
    BY <1>1, <1>2, <1>10, <2>2
<1> QED
  BY <1>8, <1>9, <1>10, StepOfHolder

(* A step of the enumeration touches no capture, and keeps its own part of  *)
(* the inductive invariant                                                  *)
LEMMA ListingKeepsInv ==
  ASSUME listing \in Listing, ListingInv,
         ListDevices \/ ListSources \/ ListFormats \/ ListEnds
  PROVE  cap' = cap /\ (listing \in Listing)' /\ ListingInv'
<1> USE DEF Listing, ListingInv
<1>1. CASE ListDevices
  BY <1>1 DEF ListDevices, ListingGoes
<1>2. CASE ListSources
  BY <1>2 DEF ListSources
<1>3. CASE ListFormats
  <2>1. cap' = cap
    BY <1>3 DEF ListFormats
  <2>2. (listing \in Listing)'
    BY <1>3 DEF ListFormats
  <2>3. (listing.source <=> listing.at \in {"reader", "types", "stopSource"})'
    <3>1. CASE listing' = [listing EXCEPT !.at = "reader", !.source = TRUE]
      BY <3>1
    <3>2. CASE /\ listing.at \in {"reader", "types"}
               /\ \E at \in {"types", "stopSource"} :
                    listing' = [listing EXCEPT !.at = at]
      BY <3>2
    <3>3. CASE listing' = [listing EXCEPT !.at = "each", !.source = FALSE]
      BY <3>3
    <3> QED
      BY <1>3, <3>1, <3>2, <3>3 DEF ListFormats
  <2>4. (listing.array <=>
           listing.at \in {"each", "reader", "types", "stopSource"})'
    BY <1>3 DEF ListFormats
  <2> QED
    BY <2>1, <2>2, <2>3, <2>4
<1>4. CASE ListEnds
  BY <1>4 DEF ListEnds
<1> QED
  BY <1>1, <1>2, <1>3, <1>4

(* and the balance.                                                         *)
LEMMA ListingKeepsBalance ==
  ASSUME listing \in Listing, MfIsBalanced,
         ListDevices \/ ListSources \/ ListFormats \/ ListEnds
  PROVE  MfIsBalanced'
<1>1. mfRefs = Cardinality(Holders) + ListingHolds /\ ListingHolds \in 0 .. 1
  BY DEF MfIsBalanced, Holders, ListingHolds
<1>2. Cardinality(Holders) \in Nat
  BY <1>1, BalanceBounds DEF Holders
<1>3. mfRefs \in Int
  BY <1>1, <1>2
<1>4. cap' = cap
  BY DEF ListDevices, ListSources, ListFormats, ListEnds, ListingGoes
<1>5. \/ ListingHolds' = ListingHolds /\ mfRefs' = mfRefs
      \/ ListingHolds = 0 /\ ListingHolds' = 1 /\ mfRefs' = mfRefs + 1
      \/ ListingHolds = 1 /\ ListingHolds' = 0 /\ mfRefs' = mfRefs - 1
  <2> USE DEF Listing, ListingHolds
  <2>1. CASE ListDevices
    BY <2>1 DEF ListDevices, ListingGoes
  <2>2. CASE ListSources
    BY <2>2 DEF ListSources
  <2>3. CASE ListFormats
    BY <2>3 DEF ListFormats
  <2>4. CASE ListEnds
    BY <2>4 DEF ListEnds
  <2> QED
    BY <2>1, <2>2, <2>3, <2>4
<1>6. mfRefs' = Cardinality(Holders) + ListingHolds'
  BY <1>1, <1>2, <1>3, <1>5
<1>7. Holders' = Holders
  BY <1>4 DEF Holders, HoldsMf
<1> QED
  BY <1>6, <1>7 DEF MfIsBalanced, Holders, ListingHolds

(* A balanced count has its type and is positive while anyone holds a       *)
(* reference.                                                               *)
LEMMA BalancePositive ==
  ASSUME MfIsBalanced
  PROVE  /\ \A c \in Captures : HoldsMf(c) => mfRefs > 0
         /\ ListingHolds = 1 => mfRefs > 0
<1>1. mfRefs = Cardinality(Holders) + ListingHolds /\ ListingHolds \in 0 .. 1
  BY DEF MfIsBalanced, Holders, ListingHolds
<1>2. Cardinality(Holders) \in Nat /\ (Holders # {} => mfRefs > 0)
  BY <1>1, BalanceBounds DEF Holders
<1>3. \A c \in Captures : HoldsMf(c) => Holders # {}
  BY DEF Holders
<1> QED
  BY <1>1, <1>2, <1>3

-----------------------------------------------------------------------------
(* The initial state satisfies the inductive invariant.                     *)
LEMMA InitIndInv == Init => IndInv
<1> SUFFICES ASSUME Init PROVE IndInv
  OBVIOUS
<1>1. cap \in [Captures -> Capture] /\ listing \in Listing
  BY DEF Init, NoCapture, Capture, Listing, CreateSteps, DropSteps, ThreadSteps
<1>2. \A c \in Captures : CaptureInv(c)
  BY DEF Init, NoCapture, CaptureInv, ThreadMatches, CallbackMatches,
         SourceMatches, GuardsMatch, Usable, ThreadAlive, CreateSteps
<1>3. MfIsBalanced
  <2>1. {c \in Captures : HoldsMf(c)} = {}
    BY DEF Init, NoCapture, HoldsMf
  <2> QED
    BY <2>1, FS_EmptySet DEF Init, MfIsBalanced
<1>4. ListingInv
  BY DEF Init, ListingInv
<1>5. mfRefs \in 0 .. Cardinality(Captures) + 1
  BY FS_CardinalityType, CapturesAssumption DEF Init
<1> QED
  BY <1>1, <1>2, <1>3, <1>4, <1>5 DEF IndInv, TypeOK

(* Every step of a capture or of the enumeration preserves it.              *)
LEMMA NextIndInv == IndInv /\ [Next]_vars => IndInv'
<1> SUFFICES ASSUME IndInv, [Next]_vars PROVE IndInv'
  OBVIOUS
<1>1. cap \in [Captures -> Capture] /\ listing \in Listing
  BY DEF IndInv, TypeOK
<1>2. SUFFICES /\ cap' \in [Captures -> Capture] /\ (listing \in Listing)'
               /\ (\A c \in Captures : CaptureInv(c))'
               /\ MfIsBalanced' /\ ListingInv'
  <2>1. ASSUME MfIsBalanced'
        PROVE  mfRefs' \in 0 .. Cardinality(Captures) + 1
    <3>1. /\ mfRefs' = Cardinality(Holders') + ListingHolds'
          /\ ListingHolds' \in 0 .. 1 /\ Holders' \in SUBSET Captures
      BY <2>1 DEF MfIsBalanced, Holders, ListingHolds
    <3> QED
      BY <3>1, BalanceBounds
  <2> QED
    BY <2>1 DEF IndInv, TypeOK
<1>3. ASSUME NEW c \in Captures, CaptureSteps(c)
      PROVE  /\ cap' \in [Captures -> Capture] /\ (listing \in Listing)'
             /\ (\A d \in Captures : CaptureInv(d))'
             /\ MfIsBalanced' /\ ListingInv'
  <2>1. /\ cap' = [cap EXCEPT ![c] = cap'[c]] /\ listing' = listing
        /\ cap'[c] \in Capture
    BY <1>1, <1>3, StepIsLocal, StepKeepsType
  <2>2. cap' \in [Captures -> Capture]
    BY <1>1, <2>1
  <2>3. ASSUME NEW d \in Captures PROVE CaptureInv(d)'
    <3>1. CASE d = c
      BY <1>1, <1>3, <3>1, StepKeepsInv DEF IndInv
    <3>2. CASE d # c
      <4>1. cap'[d] = cap[d] /\ CaptureInv(d)
        BY <1>1, <2>1, <3>2 DEF IndInv
      <4> QED
        BY <4>1 DEF CaptureInv, ThreadMatches, CallbackMatches, SourceMatches,
                    GuardsMatch, Usable, ThreadAlive
    <3> QED
      BY <3>1, <3>2
  <2>4. MfIsBalanced'
    BY <1>1, <1>3, CaptureKeepsBalance DEF IndInv
  <2>5. ListingInv'
    BY <2>1 DEF IndInv, ListingInv
  <2> QED
    BY <1>1, <2>1, <2>2, <2>3, <2>4, <2>5
<1>4. CASE ListDevices \/ ListSources \/ ListFormats \/ ListEnds
  <2>1. cap' = cap /\ (listing \in Listing)' /\ ListingInv' /\ MfIsBalanced'
    BY <1>1, <1>4, ListingKeepsInv, ListingKeepsBalance DEF IndInv
  <2>2. (\A c \in Captures : CaptureInv(c))'
    BY <2>1 DEF IndInv, CaptureInv, ThreadMatches, CallbackMatches,
                SourceMatches, GuardsMatch, Usable, ThreadAlive
  <2> QED
    BY <1>1, <2>1, <2>2
<1>5. CASE UNCHANGED vars
  BY <1>1, <1>5 DEF vars, IndInv, CaptureInv, ThreadMatches, CallbackMatches,
                    SourceMatches, GuardsMatch, Usable, ThreadAlive,
                    MfIsBalanced, HoldsMf, ListingInv
<1> QED
  BY <1>3, <1>4, <1>5 DEF Next, CaptureSteps

-----------------------------------------------------------------------------
(* The inductive invariant holds in every reachable state.                  *)
THEOREM Invariance == Spec => []IndInv
<1>1. Init => IndInv
  BY InitIndInv
<1>2. IndInv /\ [Next]_vars => IndInv'
  BY NextIndInv
<1> QED
  BY <1>1, <1>2, PTL DEF Spec

(* Type correctness; that the count of references stays within its bound    *)
(* follows from the balance.                                                *)
THEOREM TypeCorrect == Spec => []TypeOK
<1>1. IndInv => TypeOK
  BY DEF IndInv
<1> QED
  BY <1>1, Invariance, PTL

(* The references of Media Foundation are those of the captures and the     *)
(* enumeration that use it, on every failure path, whatever their number.   *)
THEOREM Balance == Spec => []MfIsBalanced
<1>1. IndInv => MfIsBalanced
  BY DEF IndInv
<1> QED
  BY <1>1, Invariance, PTL

(* While a capture thread uses its source reader, all it stands on is there. *)
THEOREM ReaderSafe == Spec => []ReaderIsUsable
<1>1. IndInv => ReaderIsUsable
  <2> SUFFICES ASSUME IndInv PROVE ReaderIsUsable
    OBVIOUS
  <2>1. listing.at = "types" => listing.source /\ mfRefs > 0
    BY BalancePositive DEF IndInv, ListingInv, ListingHolds
  <2>2. ASSUME NEW c \in Captures,
               cap[c].thread \in {"read", "sample", "callback"}
        PROVE  /\ cap[c].source = "active" /\ mfRefs > 0 /\ cap[c].tcom
               /\ cap[c].format = "supported"
    <3>1. CaptureInv(c)
      BY DEF IndInv
    <3>2. Usable(c)
      BY <2>2, <3>1 DEF CaptureInv, ThreadMatches, Usable
    <3>3. HoldsMf(c)
      BY <3>2 DEF Usable, HoldsMf
    <3>4. mfRefs > 0
      BY <3>3, BalancePositive DEF IndInv
    <3>5. cap[c].source = "active" /\ cap[c].format = "supported"
      BY <3>1, <3>2 DEF CaptureInv, SourceMatches
    <3>6. cap[c].tcom
      BY <2>2, <3>1 DEF CaptureInv, GuardsMatch, ThreadAlive
    <3> QED
      BY <3>4, <3>5, <3>6
  <2> QED
    BY <2>1, <2>2 DEF ReaderIsUsable
<1> QED
  BY <1>1, Invariance, PTL

(* The callback is lost only by a panic.                                    *)
THEOREM CallbackKept == Spec => []CallbackIsRecovered
<1>1. IndInv => CallbackIsRecovered
  <2> SUFFICES ASSUME IndInv, NEW c \in Captures
               PROVE  /\ cap[c].callback = "thread"
                           <=> ThreadAlive(c) \/ cap[c].thread = "returned"
                      /\ At(c, "idle") /\ ~cap[c].running =>
                           cap[c].callback \in {"self", "panicked", "dropped"}
    BY DEF CallbackIsRecovered
  <2>1. CaptureInv(c) /\ cap[c] \in Capture
    BY DEF IndInv, TypeOK
  <2>2. cap[c].callback = "thread"
          <=> ThreadAlive(c) \/ cap[c].thread = "returned"
    BY <2>1 DEF CaptureInv, CallbackMatches
  <2>3. ASSUME At(c, "idle"), ~cap[c].running
        PROVE  cap[c].callback \in {"self", "panicked", "dropped"}
    <3>1. cap[c].thread = "none"
      BY <2>1, <2>3 DEF CaptureInv, ThreadMatches, At
    <3>2. cap[c].callback \notin {"thread", "none"}
      BY <2>1, <2>3, <3>1 DEF CaptureInv, CallbackMatches, ThreadAlive, At,
                              CreateSteps
    <3> QED
      BY <2>1, <3>2 DEF Capture
  <2> QED
    BY <2>2, <2>3
<1> QED
  BY <1>1, Invariance, PTL

(* A capture that is gone and a thread that has ended leave nothing, nor    *)
(* does the enumeration.                                                    *)
THEOREM NoLeak == Spec => []NothingLeaks
<1>1. IndInv => NothingLeaks
  <2> SUFFICES ASSUME IndInv PROVE NothingLeaks
    OBVIOUS
  <2>1. listing.at \in {"shutdown", "none"} => ~listing.array /\ ~listing.source
    BY DEF IndInv, ListingInv
  <2>2. ASSUME NEW c \in Captures
        PROVE  /\ At(c, "absent") => cap[c].thread = "none" /\ ~cap[c].com
               /\ ~ThreadAlive(c) => ~cap[c].locked /\ ~cap[c].tcom
    <3>1. CaptureInv(c)
      BY DEF IndInv
    <3>2. At(c, "absent") => cap[c].thread = "none" /\ ~cap[c].com
      BY <3>1 DEF CaptureInv, ThreadMatches, SourceMatches, At
    <3>3. ~ThreadAlive(c) => ~cap[c].locked /\ ~cap[c].tcom
      BY <3>1 DEF CaptureInv, GuardsMatch, ThreadAlive
    <3> QED
      BY <3>2, <3>3
  <2> QED
    BY <2>1, <2>2 DEF NothingLeaks
<1> QED
  BY <1>1, Invariance, PTL

-----------------------------------------------------------------------------
(* The life cycle of one capture, by the mapping under which TLC checks the *)
(* first one.                                                               *)
Life(c) ==
  INSTANCE CaptureContract
    WITH phase <- PhaseOf(c),
         inCallback <- (cap[c].thread = "callback"),
         faulted <- (cap[c].callback = "panicked")

(* A step of a capture is a step of its life cycle or leaves it alone.      *)
LEMMA StepOfLife ==
  ASSUME cap \in [Captures -> Capture], NEW c \in Captures, CaptureInv(c),
         CaptureSteps(c)
  PROVE  [Life(c)!ContractNext]_(Life(c)!contractVars)
<1>0. cap[c] \in Capture
  OBVIOUS
<1> USE DEF At, Alone, Unbuilt, ThreadGoes, Capture, CreateSteps, DropSteps,
        ThreadSteps, MediaTypes, StopLeaves, NoCapture, CaptureInv,
        ThreadMatches, CallbackMatches, Usable, ThreadAlive, PhaseOf,
        Life!ContractNext, Life!contractVars, Life!Go, Life!New,
        Life!NewFails, Life!NewReturns, Life!Start, Life!StartReturns,
        Life!StartFails, Life!Stop, Life!StopReturns, Life!Drop,
        Life!DropStops, Life!DropReturns, Life!CallbackBegins,
        Life!CallbackReturns, Life!CallbackPanics, Life!Delivering
<1>1. CASE EnterNew(c)
  BY <1>1, <1>0 DEF EnterNew
<1>2. CASE StartAlreadyRunning(c)
  BY <1>2, <1>0 DEF StartAlreadyRunning
<1>3. CASE StartFaulted(c)
  BY <1>3, <1>0 DEF StartFaulted
<1>4. CASE StartSpawns(c)
  BY <1>4, <1>0 DEF StartSpawns
<1>5. CASE StartSpawnPanics(c)
  BY <1>5, <1>0 DEF StartSpawnPanics
<1>6. CASE EnterStop(c)
  BY <1>6, <1>0 DEF EnterStop
<1>7. CASE EnterDrop(c)
  BY <1>7, <1>0 DEF EnterDrop
<1>8. CASE CreateCom(c)
  BY <1>8, <1>0 DEF CreateCom
<1>9. CASE CreateMf(c)
  BY <1>9, <1>0 DEF CreateMf
<1>10. CASE CreateSource(c)
  BY <1>10, <1>0 DEF CreateSource
<1>11. CASE CreateReader(c)
  BY <1>11, <1>0 DEF CreateReader
<1>12. CASE CreateFormat(c)
  BY <1>12, <1>0 DEF CreateFormat
<1>13. CASE CreateCheck(c)
  BY <1>13, <1>0 DEF CreateCheck
<1>14. CASE CreateUndo(c)
  BY <1>14, <1>0 DEF CreateUndo
<1>15. CASE StartReturns(c)
  BY <1>15, <1>0 DEF StartReturns
<1>16. CASE Join(c)
  <2>1. /\ cap'[c].running = cap[c].running /\ ~cap[c].running
        /\ cap[c].thread # "callback" /\ cap'[c].thread # "callback"
        /\ cap'[c].callback = "panicked" <=> cap[c].callback = "panicked"
    BY <1>16, <1>0 DEF Join
  <2>2. \/ cap[c].api = "stopping" /\ cap'[c].api = "idle"
        \/ cap[c].api = "dropStopping" /\ cap'[c].api = "dropSource"
    BY <1>16, <1>0 DEF Join
  <2>3. \/ PhaseOf(c) = "stopping" /\ PhaseOf(c)' = "stopped"
        \/ PhaseOf(c) = "dropping" /\ PhaseOf(c)' = "releasing"
    BY <2>1, <2>2
  <2> HIDE DEF PhaseOf
  <2> QED
    BY <2>1, <2>3
<1>17. CASE NothingToJoin(c)
  <2>1. /\ cap'[c].running = cap[c].running /\ ~cap[c].running
        /\ cap[c].thread # "callback" /\ cap'[c].thread # "callback"
        /\ cap'[c].callback = "panicked" <=> cap[c].callback = "panicked"
    BY <1>17, <1>0 DEF NothingToJoin
  <2>2. \/ cap[c].api = "stopping" /\ cap'[c].api = "idle"
        \/ cap[c].api = "dropStopping" /\ cap'[c].api = "dropSource"
    BY <1>17, <1>0 DEF NothingToJoin
  <2>3. \/ PhaseOf(c) = "stopping" /\ PhaseOf(c)' = "stopped"
        \/ PhaseOf(c) = "dropping" /\ PhaseOf(c)' = "releasing"
    BY <2>1, <2>2
  <2> HIDE DEF PhaseOf
  <2> QED
    BY <2>1, <2>3
<1>18. CASE DropSource(c)
  BY <1>18, <1>0 DEF DropSource
<1>19. CASE DropMf(c)
  BY <1>19, <1>0 DEF DropMf
<1>20. CASE DropCom(c)
  BY <1>20, <1>0 DEF DropCom
<1>21. CASE ThreadInit(c)
  <2>1. /\ cap'[c].api = cap[c].api /\ cap'[c].running = cap[c].running
        /\ cap'[c].callback = cap[c].callback
        /\ cap[c].thread # "callback" /\ cap'[c].thread # "callback"
    BY <1>21, <1>0 DEF ThreadInit
  <2> QED
    BY <2>1
<1>22. CASE LoopTest(c)
  <2>1. /\ cap'[c].api = cap[c].api /\ cap'[c].running = cap[c].running
        /\ cap'[c].callback = cap[c].callback
        /\ cap[c].thread # "callback" /\ cap'[c].thread # "callback"
    BY <1>22, <1>0 DEF LoopTest
  <2> QED
    BY <2>1
<1>23. CASE ReadSample(c)
  <2>1. /\ cap'[c].api = cap[c].api /\ cap'[c].running = cap[c].running
        /\ cap'[c].callback = cap[c].callback
        /\ cap[c].thread # "callback" /\ cap'[c].thread # "callback"
    BY <1>23, <1>0 DEF ReadSample
  <2> QED
    BY <2>1
<1>24. CASE Retry(c)
  <2>1. /\ cap'[c].api = cap[c].api /\ cap'[c].running = cap[c].running
        /\ cap'[c].callback = cap[c].callback
        /\ cap[c].thread # "callback" /\ cap'[c].thread # "callback"
    BY <1>24, <1>0 DEF Retry
  <2> QED
    BY <2>1
<1>25. CASE SkipSample(c)
  <2>1. /\ cap'[c].api = cap[c].api /\ cap'[c].running = cap[c].running
        /\ cap'[c].callback = cap[c].callback
        /\ cap[c].thread # "callback" /\ cap'[c].thread # "callback"
    BY <1>25, <1>0 DEF SkipSample
  <2> QED
    BY <2>1
<1>26. CASE DeliverSample(c)
  BY <1>26, <1>0 DEF DeliverSample
<1>27. CASE CallbackReturns(c)
  BY <1>27, <1>0 DEF CallbackReturns
<1>28. CASE CallbackPanics(c)
  BY <1>28, <1>0 DEF CallbackPanics
<1>29. CASE ThreadReturns(c)
  <2>1. /\ cap'[c].api = cap[c].api /\ cap'[c].running = cap[c].running
        /\ cap'[c].callback = cap[c].callback
        /\ cap[c].thread # "callback" /\ cap'[c].thread # "callback"
    BY <1>29, <1>0 DEF ThreadReturns
  <2> QED
    BY <2>1
<1> QED
  BY <1>1, <1>2, <1>3, <1>4, <1>5, <1>6, <1>7, <1>8, <1>9, <1>10, <1>11,
     <1>12, <1>13, <1>14, <1>15, <1>16, <1>17, <1>18, <1>19, <1>20, <1>21,
     <1>22, <1>23, <1>24, <1>25, <1>26, <1>27, <1>28, <1>29
     DEF CaptureSteps, UserCalls, CallSteps, CaptureThread

(* Every capture implements the safety part of the life cycle that          *)
(* capture.rs documents, whatever the other captures and the enumeration    *)
(* of devices do.                                                           *)
THEOREM ImplementsLifeCycle ==
  ASSUME NEW c \in Captures
  PROVE  Spec => Life(c)!ContractSafety
<1>1. Init => Life(c)!ContractInit
  BY DEF Init, NoCapture, PhaseOf, At, CreateSteps, Life!ContractInit
<1>2. IndInv /\ [Next]_vars => [Life(c)!ContractNext]_(Life(c)!contractVars)
  <2> SUFFICES ASSUME IndInv, [Next]_vars
               PROVE  [Life(c)!ContractNext]_(Life(c)!contractVars)
    OBVIOUS
  <2>1. cap \in [Captures -> Capture] /\ CaptureInv(c)
    BY DEF IndInv, TypeOK
  <2>2. CASE CaptureSteps(c)
    BY <2>1, <2>2, StepOfLife
  <2>3. ASSUME cap'[c] = cap[c]
        PROVE  UNCHANGED Life(c)!contractVars
    BY <2>3 DEF PhaseOf, At, Life!contractVars
  <2>4. CASE \E d \in Captures \ {c} : CaptureSteps(d)
    <3>1. cap'[c] = cap[c]
      BY <2>1, <2>4, StepIsLocal
    <3> QED
      BY <2>3, <3>1
  <2>5. CASE cap' = cap
    BY <2>3, <2>5
  <2> QED
    BY <2>2, <2>4, <2>5 DEF Next, CaptureSteps, vars, ListDevices, ListSources,
                            ListFormats, ListEnds, ListingGoes
<1> QED
  BY <1>1, <1>2, Invariance, PTL DEF Spec, Life!ContractSafety

(* The user callback of a capture runs only between the beginning of a      *)
(* start and the return of the stop, or of the implied stop of a drop, and  *)
(* never again once it has panicked.                                        *)
CallbackOnlyWhileCapturing(c) ==
  cap[c].thread = "callback" =>
    /\ cap[c].callback # "panicked"
    /\ \/ cap[c].api \in {"starting", "stopping", "dropStopping"}
       \/ cap[c].api \in {"idle", "returning"} /\ cap[c].running

THEOREM NoCallbackAfterStop ==
  ASSUME NEW c \in Captures
  PROVE  Spec => []CallbackOnlyWhileCapturing(c)
<1>1. IndInv => CallbackOnlyWhileCapturing(c)
  BY DEF IndInv, CaptureInv, ThreadMatches, CallbackMatches, ThreadAlive,
         CallbackOnlyWhileCapturing
<1> QED
  BY <1>1, Invariance, PTL
=============================================================================
