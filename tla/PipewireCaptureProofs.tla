------------------------ MODULE PipewireCaptureProofs ------------------------
(***************************************************************************)
(* Proofs about PipewireCapture for any number of starts per session: the  *)
(* inductive invariant, the safety properties it implies, and the          *)
(* implementation of the documented life cycle.                            *)
(***************************************************************************)
EXTENDS PipewireCapture, TLAPS

(* The caller is inside the C function that its Rust call invoked.  Only   *)
(* pw_thread_loop_stop ends both a failed start and a stop.                *)
CallsMatch ==
  /\ cpc = "none" <=> api \in {"idle", "absent"}
  /\ cpc \in CreatePcs <=> api = "creating"
  /\ api = "starting" => cpc \in StartPcs
  /\ cpc \in StartPcs \ {"loopStop"} => api = "starting"
  /\ api \in {"stopping", "dropStopping"} => cpc \in StopPcs
  /\ cpc \in StopPcs \ {"loopStop"} => api \in {"stopping", "dropStopping"}
  /\ cpc \in DestroyPcs <=> api = "destroying"

(* Between the start and the join of the loop's thread. *)
LoopRuns ==
  \/ ses.running
  \/ cpc \in {"startLock", "connectCore", "newStream", "connectStream", "check",
              "wait", "startUnlock", "stopLock", "disconnect", "loopStop"}

(* Who has set which flag, and when the loop has a thread. *)
FlagsMatch ==
  /\ ses.running =>
       (api = "idle" /\ rsRunning) \/ cpc \in {"stopTest", "startUnlock"}
  /\ (api = "idle" /\ rsRunning) \/ cpc = "stopTest" => ses.running
  /\ rsRunning => api \in {"idle", "stopping", "dropStopping"}
  /\ api \in {"stopping", "dropStopping"} => rsRunning
  /\ loop # "off" <=> LoopRuns

(* Who has the lock of the loop. *)
Locks ==
  /\ lock = "loop" <=> loop \notin {"off", "poll"}
  /\ lock = "caller" <=>
       cpc \in {"connectCore", "newStream", "connectStream", "check",
                "startUnlock", "disconnect"}

(* What exists, and which of it the session points to.  A start makes the  *)
(* core and the stream with its own number; until then the stream is one   *)
(* of an earlier start, which the end of the new core does not destroy.    *)
Objects ==
  /\ context <=> api \notin {"absent", "creating"}
  /\ api \in {"absent", "creating"} =>
       /\ pw.cores = {} /\ pw.streams = {} /\ pw.state = "none"
       /\ ses.core = 0 /\ ses.stream = 0
  /\ api = "absent" => ses = NoSession
  /\ PointersAreLive
  /\ ses.stream <= starts
  /\ cpc \in {"startTest", "loopStart", "startLock", "connectCore", "newStream"}
       => ses.stream < starts
  /\ cpc \in {"newStream", "connectStream"} => ses.core = starts
  /\ cpc = "connectStream" => starts > 0
  /\ cpc \in {"freeCore", "freeContext"} => ses.stream = 0
  /\ pw.held = IF loop \in {"frame", "callback", "requeue"} THEN 1 ELSE 0

(* Only a start that waits for its stream, or a running session, has a     *)
(* stream that the daemon may still change; one that streams is there.     *)
Streams ==
  /\ pw.state \in {"connecting", "paused", "streaming"} /\ ses.stream # 0 =>
       ses.running \/ cpc \in {"check", "wait", "stopLock", "disconnect"}
  /\ pw.state = "streaming" => ses.stream # 0
  /\ loop \notin {"off", "poll"} => pw.state = "streaming"

(* A stream that streams has a format, and unless it is not raw video the  *)
(* session has parsed it.                                                  *)
Formats ==
  /\ pw.state \in {"paused", "streaming"} =>
       pw.format # "none" /\ (pw.format # "notRaw" => ses.format = pw.format)
  /\ loop = "callback" => ses.format \in {"asked", "other"}

IndInv ==
  /\ TypeOK /\ CallsMatch /\ FlagsMatch /\ Locks /\ Objects /\ Streams
  /\ Formats

-----------------------------------------------------------------------------
(* An assignment to a field of the session keeps its type.                  *)
LEMMA SessionUpdate ==
  ASSUME NEW s \in Session, NEW c \in 0 .. MaxStarts, NEW d \in 0 .. MaxStarts
  PROVE  /\ NoSession \in Session
         /\ [s EXCEPT !.inited = TRUE] \in Session
         /\ [s EXCEPT !.threadLoop = TRUE] \in Session
         /\ [s EXCEPT !.pwContext = TRUE] \in Session
         /\ [s EXCEPT !.core = c] \in Session
         /\ [s EXCEPT !.stream = c] \in Session
         /\ [s EXCEPT !.core = c, !.stream = d] \in Session
<1>1. NoSession \in Session
  <2>1. 0 \in 0 .. MaxStarts
    BY MaxStartsAssumption
  <2> QED
    BY <2>1 DEF Session, NoSession
<1>2. [s EXCEPT !.inited = TRUE] \in Session
  BY DEF Session
<1>3. [s EXCEPT !.threadLoop = TRUE] \in Session
  BY DEF Session
<1>4. [s EXCEPT !.pwContext = TRUE] \in Session
  BY DEF Session
<1>5. [s EXCEPT !.core = c] \in Session
  BY DEF Session
<1>6. [s EXCEPT !.stream = c] \in Session
  BY DEF Session
<1>7. [s EXCEPT !.core = c, !.stream = d] \in Session
  BY DEF Session
<1> QED
  BY <1>1, <1>2, <1>3, <1>4, <1>5, <1>6, <1>7

(* What the objects and the pointers of the session keep of each other when *)
(* a start creates its stream or gives up.                                  *)
Consistent ==
  ses \in Session /\ pw \in Pipewire /\ PointersAreLive /\ ses.stream <= starts

(* A start that gives up after it has made its core disconnects it.  The    *)
(* stream goes with it, unless the pointer is to the one of an earlier      *)
(* start, and that one stays.                                               *)
LEMMA GivingUp ==
  ASSUME TypeOK, Consistent, starts' = starts, pw' = Disconnect(ses.core),
         \/ ses' = [ses EXCEPT !.core = 0, !.stream = 0]
         \/ (ses' = [ses EXCEPT !.core = 0] /\ ses.stream # ses.core)
  PROVE  Consistent'
<1>1. /\ ses \in Session /\ pw \in Pipewire /\ starts \in 0 .. MaxStarts
      /\ PointersAreLive /\ ses.stream <= starts
  BY DEF TypeOK, Consistent
<1>2. 0 \in 0 .. MaxStarts
  BY MaxStartsAssumption
<1>3. ASSUME ses' = [ses EXCEPT !.core = 0]
      PROVE  ses' \in Session /\ ses'.core = 0 /\ ses'.stream = ses.stream
  <2>1. ses' \in Session
    BY <1>1, <1>2, <1>3 DEF Session
  <2>2. ses'.core = 0 /\ ses'.stream = ses.stream
    BY <1>1, <1>3 DEF Session
  <2> QED
    BY <2>1, <2>2
<1>4. ASSUME ses' = [ses EXCEPT !.core = 0, !.stream = 0]
      PROVE  ses' \in Session /\ ses'.core = 0 /\ ses'.stream = 0
  <2>1. ses' \in Session
    BY <1>1, <1>2, <1>4 DEF Session
  <2>2. ses'.core = 0 /\ ses'.stream = 0
    BY <1>1, <1>4 DEF Session
  <2> QED
    BY <2>1, <2>2
<1>5. ses' \in Session /\ ses'.core = 0
  BY <1>3, <1>4
<1>6. ses'.stream = 0 \/ (ses'.stream = ses.stream /\ ses.stream # ses.core)
  BY <1>3, <1>4
<1>7. pw' \in Pipewire /\ pw'.streams = pw.streams \ {ses.core}
  BY <1>1 DEF Pipewire, Disconnect
<1>8. PointersAreLive'
  BY <1>1, <1>5, <1>6, <1>7 DEF PointersAreLive
<1>9. ses'.stream <= starts
  BY <1>1, <1>6 DEF Session
<1> QED
  BY <1>5, <1>7, <1>8, <1>9 DEF Consistent

(* The three steps of a start that may give up so keep them consistent.     *)
LEMMA StartKeeps ==
  ASSUME TypeOK, Objects, NewStream \/ ConnectStream \/ Check
  PROVE  Consistent'
<1>1. /\ ses \in Session /\ pw \in Pipewire /\ starts \in 0 .. MaxStarts
      /\ starts' = starts /\ PointersAreLive /\ ses.stream <= starts
  BY DEF TypeOK, Objects, NewStream, ConnectStream, Check
<1>2. Consistent
  BY <1>1 DEF Consistent
<1>3. ASSUME NewStream
      PROVE  Consistent'
  <2>1. ses.core = starts /\ ses.stream < starts /\ starts \in 1 .. MaxStarts
    BY <1>1, <1>3 DEF Objects, NewStream, Goes, Session
  <2>2. CASE /\ ses' = [ses EXCEPT !.stream = starts]
             /\ pw' = [pw EXCEPT !.streams = @ \cup {starts},
                               !.state = "unconnected", !.format = "none"]
    <3>1. ses' \in Session
      BY <1>1, <2>2, SessionUpdate
    <3>2. pw' \in Pipewire
      BY <1>1, <2>1, <2>2 DEF Pipewire
    <3>3. PointersAreLive' /\ (ses.stream <= starts)'
      BY <1>1, <2>1, <2>2 DEF PointersAreLive, Session, Pipewire
    <3> QED
      BY <3>1, <3>2, <3>3 DEF Consistent
  <2>3. CASE /\ \/ ses' = [ses EXCEPT !.core = 0]
                \/ ses' = [ses EXCEPT !.core = 0, !.stream = 0]
             /\ pw' = Disconnect(ses.core)
    <3>1. ses.stream # ses.core
      BY <1>1, <2>1 DEF Session
    <3> QED
      BY <1>1, <1>2, <2>3, <3>1, GivingUp
  <2> QED
    BY <1>3, <2>2, <2>3 DEF NewStream
<1>4. ASSUME ses' = ses, pw' = [pw EXCEPT !.state = "connecting"]
      PROVE  Consistent'
  <2>1. pw' \in Pipewire /\ pw'.cores = pw.cores /\ pw'.streams = pw.streams
    BY <1>1, <1>4 DEF Pipewire
  <2> QED
    BY <1>1, <1>4, <2>1 DEF Consistent, PointersAreLive
<1>5. ASSUME pw' = pw, ses' = ses \/ ses' = [ses EXCEPT !.running = TRUE]
      PROVE  Consistent'
  <2>1. ses' \in Session /\ ses'.core = ses.core /\ ses'.stream = ses.stream
    BY <1>1, <1>5 DEF Session
  <2> QED
    BY <1>1, <1>5, <2>1 DEF Consistent, PointersAreLive
<1>6. ASSUME StartUndo
      PROVE  Consistent'
  BY <1>1, <1>2, <1>6, GivingUp DEF StartUndo
<1>7. CASE ConnectStream
  BY <1>4, <1>6, <1>7 DEF ConnectStream
<1>8. CASE Check
  BY <1>5, <1>6, <1>8 DEF Check
<1> QED
  BY <1>3, <1>7, <1>8

(* The initial state satisfies the inductive invariant.                     *)
LEMMA InitIndInv == Init => IndInv
<1> SUFFICES ASSUME Init PROVE IndInv
  OBVIOUS
<1> USE MaxStartsAssumption DEF Init, RustInit, NoSession
<1>1. TypeOK
  <2>1. RustTypeOK
    BY DEF RustTypeOK, ApiStates
  <2>2. ses \in Session
    BY DEF Session
  <2>3. pw \in Pipewire
    BY DEF Pipewire
  <2>4. loop \in LoopPcs /\ woken \in BOOLEAN /\ cause \in BOOLEAN
    BY DEF LoopPcs
  <2>5. starts \in 0 .. MaxStarts
    OBVIOUS
  <2> QED
    BY <2>1, <2>2, <2>3, <2>4, <2>5 DEF TypeOK
<1>2. CallsMatch /\ FlagsMatch /\ Locks
  BY DEF CallsMatch, FlagsMatch, Locks, LoopRuns, CreatePcs, StartPcs, StopPcs,
         DestroyPcs
<1>3. Objects /\ Streams /\ Formats
  BY DEF Objects, PointersAreLive, Streams, Formats
<1> QED
  BY <1>1, <1>2, <1>3 DEF IndInv

(* Every step of the caller, the handlers and the daemon preserves it.      *)
LEMMA NextIndInv == IndInv /\ [Next]_vars => IndInv'
<1> SUFFICES ASSUME IndInv, [Next]_vars PROVE IndInv'
  OBVIOUS
<1> USE MaxStartsAssumption
    DEF IndInv, TypeOK, RustTypeOK, ApiStates, CallsMatch, FlagsMatch, LoopRuns,
        Locks, Objects, PointersAreLive, Streams, Formats, CreatePcs, StartPcs,
        StopPcs, DestroyPcs, LoopPcs, Parsed, Session, Pipewire, NoSession,
        rustVars, Goes, CreateFails, Disconnect, StartUndo, LoopStopLeaves,
        CanDispatch, Event, FormatIs, LoopGoes, RsNew, RsNewReturns, RsStart,
        RsStartReturns, RsStop, RsStopReturns, RsDrop, RsDropReturns
<1>1. CASE EnterCreate
  BY <1>1 DEF EnterCreate
<1>2. CASE Alloc
  <2>1. TypeOK'
    <3>1. RustTypeOK'
      BY <1>2 DEF Alloc
    <3>2. (ses \in Session)'
      <4>1. NoSession \in Session
        BY MaxStartsAssumption, SessionUpdate
      <4>2. ses' \in {NoSession, [NoSession EXCEPT !.inited = TRUE]}
        BY <1>2 DEF Alloc
      <4> HIDE DEF Session
      <4> QED
        BY <4>1, <4>2, SessionUpdate
    <3>3. (pw \in Pipewire)'
      BY <1>2 DEF Alloc
    <3>4. /\ (loop \in LoopPcs /\ lock \in {"free", "caller", "loop"})'
          /\ (cpc \in {"none"} \cup CreatePcs \cup StartPcs \cup StopPcs
                     \cup DestroyPcs)'
      BY <1>2 DEF Alloc
    <3>5. (starts \in 0 .. MaxStarts)'
      BY <1>2 DEF Alloc
    <3>6. (woken \in BOOLEAN /\ cause \in BOOLEAN)'
      BY <1>2 DEF Alloc
    <3> QED
      BY <3>1, <3>2, <3>3, <3>4, <3>5, <3>6 DEF TypeOK
  <2>2. CallsMatch'
    BY <1>2 DEF Alloc
  <2>3. FlagsMatch'
    BY <1>2 DEF Alloc
  <2>4. Locks'
    BY <1>2 DEF Alloc
  <2>5. Objects'
    BY <1>2 DEF Alloc
  <2>6. Streams'
    BY <1>2 DEF Alloc
  <2>7. Formats'
    BY <1>2 DEF Alloc
  <2>8. QED
    BY <2>1, <2>2, <2>3, <2>4, <2>5, <2>6, <2>7
<1>3. CASE NewLoop
  <2>1. TypeOK'
    <3>1. RustTypeOK'
      BY <1>3 DEF NewLoop
    <3>2. (ses \in Session)'
      <4>1. NoSession \in Session
        BY MaxStartsAssumption, SessionUpdate
      <4>2. ses' \in {NoSession, [ses EXCEPT !.threadLoop = TRUE]}
        BY <1>3 DEF NewLoop
      <4> HIDE DEF Session
      <4> QED
        BY <4>1, <4>2, SessionUpdate
    <3>3. (pw \in Pipewire)'
      BY <1>3 DEF NewLoop
    <3>4. /\ (loop \in LoopPcs /\ lock \in {"free", "caller", "loop"})'
          /\ (cpc \in {"none"} \cup CreatePcs \cup StartPcs \cup StopPcs
                     \cup DestroyPcs)'
      BY <1>3 DEF NewLoop
    <3>5. (starts \in 0 .. MaxStarts)'
      BY <1>3 DEF NewLoop
    <3>6. (woken \in BOOLEAN /\ cause \in BOOLEAN)'
      BY <1>3 DEF NewLoop
    <3> QED
      BY <3>1, <3>2, <3>3, <3>4, <3>5, <3>6 DEF TypeOK
  <2>2. CallsMatch'
    BY <1>3 DEF NewLoop
  <2>3. FlagsMatch'
    BY <1>3 DEF NewLoop
  <2>4. Locks'
    BY <1>3 DEF NewLoop
  <2>5. Objects'
    BY <1>3 DEF NewLoop
  <2>6. Streams'
    BY <1>3 DEF NewLoop
  <2>7. Formats'
    BY <1>3 DEF NewLoop
  <2>8. QED
    BY <2>1, <2>2, <2>3, <2>4, <2>5, <2>6, <2>7
<1>4. CASE NewContext
  <2>1. TypeOK'
    <3>1. RustTypeOK'
      BY <1>4 DEF NewContext
    <3>2. (ses \in Session)'
      <4>1. NoSession \in Session
        BY MaxStartsAssumption, SessionUpdate
      <4>2. ses' \in {NoSession, [ses EXCEPT !.pwContext = TRUE]}
        BY <1>4 DEF NewContext
      <4> HIDE DEF Session
      <4> QED
        BY <4>1, <4>2, SessionUpdate
    <3>3. (pw \in Pipewire)'
      BY <1>4 DEF NewContext
    <3>4. /\ (loop \in LoopPcs /\ lock \in {"free", "caller", "loop"})'
          /\ (cpc \in {"none"} \cup CreatePcs \cup StartPcs \cup StopPcs
                     \cup DestroyPcs)'
      BY <1>4 DEF NewContext
    <3>5. (starts \in 0 .. MaxStarts)'
      BY <1>4 DEF NewContext
    <3>6. (woken \in BOOLEAN /\ cause \in BOOLEAN)'
      BY <1>4 DEF NewContext
    <3> QED
      BY <3>1, <3>2, <3>3, <3>4, <3>5, <3>6 DEF TypeOK
  <2>2. CallsMatch'
    BY <1>4 DEF NewContext
  <2>3. FlagsMatch'
    BY <1>4 DEF NewContext
  <2>4. Locks'
    BY <1>4 DEF NewContext
  <2>5. Objects'
    BY <1>4 DEF NewContext
  <2>6. Streams'
    BY <1>4 DEF NewContext
  <2>7. Formats'
    BY <1>4 DEF NewContext
  <2>8. QED
    BY <2>1, <2>2, <2>3, <2>4, <2>5, <2>6, <2>7
<1>5. CASE EnterStart
  <2>1. TypeOK'
    <3>1. RustTypeOK'
      BY <1>5 DEF EnterStart
    <3>2. (ses \in Session)'
      BY <1>5 DEF EnterStart
    <3>3. (pw \in Pipewire)'
      BY <1>5 DEF EnterStart
    <3>4. /\ (loop \in LoopPcs /\ lock \in {"free", "caller", "loop"})'
          /\ (cpc \in {"none"} \cup CreatePcs \cup StartPcs \cup StopPcs
                     \cup DestroyPcs)'
      BY <1>5 DEF EnterStart
    <3>5. (starts \in 0 .. MaxStarts)'
      BY <1>5 DEF EnterStart
    <3>6. (woken \in BOOLEAN /\ cause \in BOOLEAN)'
      BY <1>5 DEF EnterStart
    <3> QED
      BY <3>1, <3>2, <3>3, <3>4, <3>5, <3>6 DEF TypeOK
  <2>2. CallsMatch'
    BY <1>5 DEF EnterStart
  <2>3. FlagsMatch'
    BY <1>5 DEF EnterStart
  <2>4. Locks'
    BY <1>5 DEF EnterStart
  <2>5. Objects'
    BY <1>5 DEF EnterStart
  <2>6. Streams'
    BY <1>5 DEF EnterStart
  <2>7. Formats'
    BY <1>5 DEF EnterStart
  <2>8. QED
    BY <2>1, <2>2, <2>3, <2>4, <2>5, <2>6, <2>7
<1>6. CASE StartTest
  <2>1. TypeOK'
    <3>1. RustTypeOK'
      BY <1>6 DEF StartTest
    <3>2. (ses \in Session)'
      BY <1>6 DEF StartTest
    <3>3. (pw \in Pipewire)'
      BY <1>6 DEF StartTest
    <3>4. /\ (loop \in LoopPcs /\ lock \in {"free", "caller", "loop"})'
          /\ (cpc \in {"none"} \cup CreatePcs \cup StartPcs \cup StopPcs
                     \cup DestroyPcs)'
      BY <1>6 DEF StartTest
    <3>5. (starts \in 0 .. MaxStarts)'
      BY <1>6 DEF StartTest
    <3>6. (woken \in BOOLEAN /\ cause \in BOOLEAN)'
      BY <1>6 DEF StartTest
    <3> QED
      BY <3>1, <3>2, <3>3, <3>4, <3>5, <3>6 DEF TypeOK
  <2>2. CallsMatch'
    BY <1>6 DEF StartTest
  <2>3. FlagsMatch'
    BY <1>6 DEF StartTest
  <2>4. Locks'
    BY <1>6 DEF StartTest
  <2>5. Objects'
    BY <1>6 DEF StartTest
  <2>6. Streams'
    BY <1>6 DEF StartTest
  <2>7. Formats'
    BY <1>6 DEF StartTest
  <2>8. QED
    BY <2>1, <2>2, <2>3, <2>4, <2>5, <2>6, <2>7
<1>7. CASE LoopStart
  <2>1. TypeOK'
    <3>1. RustTypeOK'
      BY <1>7 DEF LoopStart
    <3>2. (ses \in Session)'
      BY <1>7 DEF LoopStart
    <3>3. (pw \in Pipewire)'
      BY <1>7 DEF LoopStart
    <3>4. /\ (loop \in LoopPcs /\ lock \in {"free", "caller", "loop"})'
          /\ (cpc \in {"none"} \cup CreatePcs \cup StartPcs \cup StopPcs
                     \cup DestroyPcs)'
      BY <1>7 DEF LoopStart
    <3>5. (starts \in 0 .. MaxStarts)'
      BY <1>7 DEF LoopStart
    <3>6. (woken \in BOOLEAN /\ cause \in BOOLEAN)'
      BY <1>7 DEF LoopStart
    <3> QED
      BY <3>1, <3>2, <3>3, <3>4, <3>5, <3>6 DEF TypeOK
  <2>2. CallsMatch'
    BY <1>7 DEF LoopStart
  <2>3. FlagsMatch'
    BY <1>7 DEF LoopStart
  <2>4. Locks'
    BY <1>7 DEF LoopStart
  <2>5. Objects'
    BY <1>7 DEF LoopStart
  <2>6. Streams'
    BY <1>7 DEF LoopStart
  <2>7. Formats'
    BY <1>7 DEF LoopStart
  <2>8. QED
    BY <2>1, <2>2, <2>3, <2>4, <2>5, <2>6, <2>7
<1>8. CASE StartLock
  BY <1>8 DEF StartLock
<1>9. CASE ConnectCore
  <2>1. TypeOK'
    <3>1. RustTypeOK'
      BY <1>9 DEF ConnectCore
    <3>2. (ses \in Session)'
      BY <1>9 DEF ConnectCore
    <3>3. (pw \in Pipewire)'
      BY <1>9 DEF ConnectCore
    <3>4. /\ (loop \in LoopPcs /\ lock \in {"free", "caller", "loop"})'
          /\ (cpc \in {"none"} \cup CreatePcs \cup StartPcs \cup StopPcs
                     \cup DestroyPcs)'
      BY <1>9 DEF ConnectCore
    <3>5. (starts \in 0 .. MaxStarts)'
      BY <1>9 DEF ConnectCore
    <3>6. (woken \in BOOLEAN /\ cause \in BOOLEAN)'
      BY <1>9 DEF ConnectCore
    <3> QED
      BY <3>1, <3>2, <3>3, <3>4, <3>5, <3>6 DEF TypeOK
  <2>2. CallsMatch'
    BY <1>9 DEF ConnectCore
  <2>3. FlagsMatch'
    BY <1>9 DEF ConnectCore
  <2>4. Locks'
    BY <1>9 DEF ConnectCore
  <2>5. Objects'
    BY <1>9 DEF ConnectCore
  <2>6. Streams'
    BY <1>9 DEF ConnectCore
  <2>7. Formats'
    BY <1>9 DEF ConnectCore
  <2>8. QED
    BY <2>1, <2>2, <2>3, <2>4, <2>5, <2>6, <2>7
<1>10. CASE NewStream
  <2>1. TypeOK'
    <3>1. RustTypeOK'
      BY <1>10 DEF NewStream
    <3>2. (ses \in Session)'
      BY <1>10, StartKeeps DEF Consistent
    <3>3. (pw \in Pipewire)'
      BY <1>10, StartKeeps DEF Consistent
    <3>4. /\ (loop \in LoopPcs /\ lock \in {"free", "caller", "loop"})'
          /\ (cpc \in {"none"} \cup CreatePcs \cup StartPcs \cup StopPcs
                     \cup DestroyPcs)'
      BY <1>10 DEF NewStream
    <3>5. (starts \in 0 .. MaxStarts)'
      BY <1>10 DEF NewStream
    <3>6. (woken \in BOOLEAN /\ cause \in BOOLEAN)'
      BY <1>10 DEF NewStream
    <3> QED
      BY <3>1, <3>2, <3>3, <3>4, <3>5, <3>6 DEF TypeOK
  <2>2. CallsMatch'
    BY <1>10 DEF NewStream
  <2>3. FlagsMatch'
    BY <1>10 DEF NewStream
  <2>4. Locks'
    BY <1>10 DEF NewStream
  <2>5. Objects'
    <3>1. (context <=> api \notin {"absent", "creating"})'
      BY <1>10 DEF NewStream
    <3>2. (api \notin {"absent", "creating"})'
      BY <1>10 DEF NewStream
    <3>3. PointersAreLive'
      BY <1>10, StartKeeps DEF Consistent
    <3>4. (ses.stream <= starts)'
      BY <1>10, StartKeeps DEF Consistent
    <3>5. (cpc = "connectStream" => ses.core = starts /\ starts > 0)'
      BY <1>10 DEF NewStream
    <3>6. (cpc \in {"connectStream", "check", "wait", "startUnlock"})'
      BY <1>10 DEF NewStream
    <3>7. (pw.held = IF loop \in {"frame", "callback", "requeue"} THEN 1 ELSE 0)'
      BY <1>10 DEF NewStream
    <3> QED
      BY <3>1, <3>2, <3>3, <3>4, <3>5, <3>6, <3>7 DEF Objects
  <2>6. Streams'
    BY <1>10 DEF NewStream
  <2>7. Formats'
    BY <1>10 DEF NewStream
  <2>8. QED
    BY <2>1, <2>2, <2>3, <2>4, <2>5, <2>6, <2>7
<1>11. CASE ConnectStream
  <2>1. TypeOK'
    <3>1. RustTypeOK'
      BY <1>11 DEF ConnectStream
    <3>2. (ses \in Session)'
      BY <1>11, StartKeeps DEF Consistent
    <3>3. (pw \in Pipewire)'
      BY <1>11, StartKeeps DEF Consistent
    <3>4. /\ (loop \in LoopPcs /\ lock \in {"free", "caller", "loop"})'
          /\ (cpc \in {"none"} \cup CreatePcs \cup StartPcs \cup StopPcs
                     \cup DestroyPcs)'
      BY <1>11 DEF ConnectStream
    <3>5. (starts \in 0 .. MaxStarts)'
      BY <1>11 DEF ConnectStream
    <3>6. (woken \in BOOLEAN /\ cause \in BOOLEAN)'
      BY <1>11 DEF ConnectStream
    <3> QED
      BY <3>1, <3>2, <3>3, <3>4, <3>5, <3>6 DEF TypeOK
  <2>2. CallsMatch'
    BY <1>11 DEF ConnectStream
  <2>3. FlagsMatch'
    BY <1>11 DEF ConnectStream
  <2>4. Locks'
    BY <1>11 DEF ConnectStream
  <2>5. Objects'
    <3>1. (context <=> api \notin {"absent", "creating"})'
      BY <1>11 DEF ConnectStream
    <3>2. (api \notin {"absent", "creating"})'
      BY <1>11 DEF ConnectStream
    <3>3. PointersAreLive'
      BY <1>11, StartKeeps DEF Consistent
    <3>4. (ses.stream <= starts)'
      BY <1>11, StartKeeps DEF Consistent
    <3>5. (cpc = "connectStream" => ses.core = starts /\ starts > 0)'
      BY <1>11 DEF ConnectStream
    <3>6. (cpc \in {"connectStream", "check", "wait", "startUnlock"})'
      BY <1>11 DEF ConnectStream
    <3>7. (pw.held = IF loop \in {"frame", "callback", "requeue"} THEN 1 ELSE 0)'
      BY <1>11 DEF ConnectStream
    <3> QED
      BY <3>1, <3>2, <3>3, <3>4, <3>5, <3>6, <3>7 DEF Objects
  <2>6. Streams'
    BY <1>11 DEF ConnectStream
  <2>7. Formats'
    BY <1>11 DEF ConnectStream
  <2>8. QED
    BY <2>1, <2>2, <2>3, <2>4, <2>5, <2>6, <2>7
<1>12. CASE Check
  <2>1. TypeOK'
    <3>1. RustTypeOK'
      BY <1>12 DEF Check
    <3>2. (ses \in Session)'
      BY <1>12, StartKeeps DEF Consistent
    <3>3. (pw \in Pipewire)'
      BY <1>12, StartKeeps DEF Consistent
    <3>4. /\ (loop \in LoopPcs /\ lock \in {"free", "caller", "loop"})'
          /\ (cpc \in {"none"} \cup CreatePcs \cup StartPcs \cup StopPcs
                     \cup DestroyPcs)'
      BY <1>12 DEF Check
    <3>5. (starts \in 0 .. MaxStarts)'
      BY <1>12 DEF Check
    <3>6. (woken \in BOOLEAN /\ cause \in BOOLEAN)'
      BY <1>12 DEF Check
    <3> QED
      BY <3>1, <3>2, <3>3, <3>4, <3>5, <3>6 DEF TypeOK
  <2>2. CallsMatch'
    BY <1>12 DEF Check
  <2>3. FlagsMatch'
    BY <1>12 DEF Check
  <2>4. Locks'
    BY <1>12 DEF Check
  <2>5. Objects'
    <3>1. (context <=> api \notin {"absent", "creating"})'
      BY <1>12 DEF Check
    <3>2. (api \notin {"absent", "creating"})'
      BY <1>12 DEF Check
    <3>3. PointersAreLive'
      BY <1>12, StartKeeps DEF Consistent
    <3>4. (ses.stream <= starts)'
      BY <1>12, StartKeeps DEF Consistent
    <3>5. (cpc = "connectStream" => ses.core = starts /\ starts > 0)'
      BY <1>12 DEF Check
    <3>6. (cpc \in {"connectStream", "check", "wait", "startUnlock"})'
      BY <1>12 DEF Check
    <3>7. (pw.held = IF loop \in {"frame", "callback", "requeue"} THEN 1 ELSE 0)'
      BY <1>12 DEF Check
    <3> QED
      BY <3>1, <3>2, <3>3, <3>4, <3>5, <3>6, <3>7 DEF Objects
  <2>6. Streams'
    BY <1>12 DEF Check
  <2>7. Formats'
    BY <1>12 DEF Check
  <2>8. QED
    BY <2>1, <2>2, <2>3, <2>4, <2>5, <2>6, <2>7
<1>13. CASE Wakes
  BY <1>13 DEF Wakes
<1>14. CASE StartUnlock
  <2>1. TypeOK'
    <3>1. RustTypeOK'
      BY <1>14 DEF StartUnlock
    <3>2. (ses \in Session)'
      BY <1>14 DEF StartUnlock
    <3>3. (pw \in Pipewire)'
      BY <1>14 DEF StartUnlock
    <3>4. /\ (loop \in LoopPcs /\ lock \in {"free", "caller", "loop"})'
          /\ (cpc \in {"none"} \cup CreatePcs \cup StartPcs \cup StopPcs
                     \cup DestroyPcs)'
      BY <1>14 DEF StartUnlock
    <3>5. (starts \in 0 .. MaxStarts)'
      BY <1>14 DEF StartUnlock
    <3>6. (woken \in BOOLEAN /\ cause \in BOOLEAN)'
      BY <1>14 DEF StartUnlock
    <3> QED
      BY <3>1, <3>2, <3>3, <3>4, <3>5, <3>6 DEF TypeOK
  <2>2. CallsMatch'
    BY <1>14 DEF StartUnlock
  <2>3. FlagsMatch'
    BY <1>14 DEF StartUnlock
  <2>4. Locks'
    BY <1>14 DEF StartUnlock
  <2>5. Objects'
    BY <1>14 DEF StartUnlock
  <2>6. Streams'
    BY <1>14 DEF StartUnlock
  <2>7. Formats'
    BY <1>14 DEF StartUnlock
  <2>8. QED
    BY <2>1, <2>2, <2>3, <2>4, <2>5, <2>6, <2>7
<1>15. CASE EnterStop
  BY <1>15 DEF EnterStop
<1>16. CASE StopTest
  <2>1. TypeOK'
    <3>1. RustTypeOK'
      BY <1>16 DEF StopTest
    <3>2. (ses \in Session)'
      BY <1>16 DEF StopTest
    <3>3. (pw \in Pipewire)'
      BY <1>16 DEF StopTest
    <3>4. /\ (loop \in LoopPcs /\ lock \in {"free", "caller", "loop"})'
          /\ (cpc \in {"none"} \cup CreatePcs \cup StartPcs \cup StopPcs
                     \cup DestroyPcs)'
      BY <1>16 DEF StopTest
    <3>5. (starts \in 0 .. MaxStarts)'
      BY <1>16 DEF StopTest
    <3>6. (woken \in BOOLEAN /\ cause \in BOOLEAN)'
      BY <1>16 DEF StopTest
    <3> QED
      BY <3>1, <3>2, <3>3, <3>4, <3>5, <3>6 DEF TypeOK
  <2>2. CallsMatch'
    BY <1>16 DEF StopTest
  <2>3. FlagsMatch'
    BY <1>16 DEF StopTest
  <2>4. Locks'
    BY <1>16 DEF StopTest
  <2>5. Objects'
    BY <1>16 DEF StopTest
  <2>6. Streams'
    BY <1>16 DEF StopTest
  <2>7. Formats'
    BY <1>16 DEF StopTest
  <2>8. QED
    BY <2>1, <2>2, <2>3, <2>4, <2>5, <2>6, <2>7
<1>17. CASE StopLock
  BY <1>17 DEF StopLock
<1>18. CASE StopDisconnect
  BY <1>18 DEF StopDisconnect
<1>19. CASE LoopStop
  <2>1. TypeOK'
    <3>1. RustTypeOK'
      BY <1>19 DEF LoopStop
    <3>2. (ses \in Session)'
      BY <1>19 DEF LoopStop
    <3>3. (pw \in Pipewire)'
      BY <1>19 DEF LoopStop
    <3>4. /\ (loop \in LoopPcs /\ lock \in {"free", "caller", "loop"})'
          /\ (cpc \in {"none"} \cup CreatePcs \cup StartPcs \cup StopPcs
                     \cup DestroyPcs)'
      BY <1>19 DEF LoopStop
    <3>5. (starts \in 0 .. MaxStarts)'
      BY <1>19 DEF LoopStop
    <3>6. (woken \in BOOLEAN /\ cause \in BOOLEAN)'
      BY <1>19 DEF LoopStop
    <3> QED
      BY <3>1, <3>2, <3>3, <3>4, <3>5, <3>6 DEF TypeOK
  <2>2. CallsMatch'
    BY <1>19 DEF LoopStop
  <2>3. FlagsMatch'
    BY <1>19 DEF LoopStop
  <2>4. Locks'
    BY <1>19 DEF LoopStop
  <2>5. Objects'
    BY <1>19 DEF LoopStop
  <2>6. Streams'
    BY <1>19 DEF LoopStop
  <2>7. Formats'
    BY <1>19 DEF LoopStop
  <2>8. QED
    BY <2>1, <2>2, <2>3, <2>4, <2>5, <2>6, <2>7
<1>20. CASE EnterDrop
  BY <1>20 DEF EnterDrop
<1>21. CASE DestroyTest
  BY <1>21 DEF DestroyTest
<1>22. CASE FreeStream
  BY <1>22 DEF FreeStream
<1>23. CASE FreeCore
  BY <1>23 DEF FreeCore
<1>24. CASE FreeContext
  BY <1>24 DEF FreeContext
<1>25. CASE FormatNegotiated
  <2>1. TypeOK'
    <3>1. RustTypeOK'
      BY <1>25 DEF FormatNegotiated
    <3>2. (ses \in Session)'
      BY <1>25 DEF FormatNegotiated
    <3>3. (pw \in Pipewire)'
      BY <1>25 DEF FormatNegotiated
    <3>4. /\ (loop \in LoopPcs /\ lock \in {"free", "caller", "loop"})'
          /\ (cpc \in {"none"} \cup CreatePcs \cup StartPcs \cup StopPcs
                     \cup DestroyPcs)'
      BY <1>25 DEF FormatNegotiated
    <3>5. (starts \in 0 .. MaxStarts)'
      BY <1>25 DEF FormatNegotiated
    <3>6. (woken \in BOOLEAN /\ cause \in BOOLEAN)'
      BY <1>25 DEF FormatNegotiated
    <3> QED
      BY <3>1, <3>2, <3>3, <3>4, <3>5, <3>6 DEF TypeOK
  <2>2. CallsMatch'
    BY <1>25 DEF FormatNegotiated
  <2>3. FlagsMatch'
    BY <1>25 DEF FormatNegotiated
  <2>4. Locks'
    BY <1>25 DEF FormatNegotiated
  <2>5. Objects'
    BY <1>25 DEF FormatNegotiated
  <2>6. Streams'
    BY <1>25 DEF FormatNegotiated
  <2>7. Formats'
    BY <1>25 DEF FormatNegotiated
  <2>8. QED
    BY <2>1, <2>2, <2>3, <2>4, <2>5, <2>6, <2>7
<1>26. CASE Renegotiated
  <2>1. TypeOK'
    <3>1. RustTypeOK'
      BY <1>26 DEF Renegotiated
    <3>2. (ses \in Session)'
      BY <1>26 DEF Renegotiated
    <3>3. (pw \in Pipewire)'
      BY <1>26 DEF Renegotiated
    <3>4. /\ (loop \in LoopPcs /\ lock \in {"free", "caller", "loop"})'
          /\ (cpc \in {"none"} \cup CreatePcs \cup StartPcs \cup StopPcs
                     \cup DestroyPcs)'
      BY <1>26 DEF Renegotiated
    <3>5. (starts \in 0 .. MaxStarts)'
      BY <1>26 DEF Renegotiated
    <3>6. (woken \in BOOLEAN /\ cause \in BOOLEAN)'
      BY <1>26 DEF Renegotiated
    <3> QED
      BY <3>1, <3>2, <3>3, <3>4, <3>5, <3>6 DEF TypeOK
  <2>2. CallsMatch'
    BY <1>26 DEF Renegotiated
  <2>3. FlagsMatch'
    BY <1>26 DEF Renegotiated
  <2>4. Locks'
    BY <1>26 DEF Renegotiated
  <2>5. Objects'
    BY <1>26 DEF Renegotiated
  <2>6. Streams'
    BY <1>26 DEF Renegotiated
  <2>7. Formats'
    BY <1>26 DEF Renegotiated
  <2>8. QED
    BY <2>1, <2>2, <2>3, <2>4, <2>5, <2>6, <2>7
<1>27. CASE StreamStarts
  BY <1>27 DEF StreamStarts
<1>28. CASE StreamFails
  <2>1. TypeOK'
    <3>1. RustTypeOK'
      BY <1>28 DEF StreamFails
    <3>2. (ses \in Session)'
      BY <1>28 DEF StreamFails
    <3>3. (pw \in Pipewire)'
      BY <1>28 DEF StreamFails
    <3>4. /\ (loop \in LoopPcs /\ lock \in {"free", "caller", "loop"})'
          /\ (cpc \in {"none"} \cup CreatePcs \cup StartPcs \cup StopPcs
                     \cup DestroyPcs)'
      BY <1>28 DEF StreamFails
    <3>5. (starts \in 0 .. MaxStarts)'
      BY <1>28 DEF StreamFails
    <3>6. (woken \in BOOLEAN /\ cause \in BOOLEAN)'
      BY <1>28 DEF StreamFails
    <3> QED
      BY <3>1, <3>2, <3>3, <3>4, <3>5, <3>6 DEF TypeOK
  <2>2. CallsMatch'
    BY <1>28 DEF StreamFails
  <2>3. FlagsMatch'
    BY <1>28 DEF StreamFails
  <2>4. Locks'
    BY <1>28 DEF StreamFails
  <2>5. Objects'
    BY <1>28 DEF StreamFails
  <2>6. Streams'
    BY <1>28 DEF StreamFails
  <2>7. Formats'
    BY <1>28 DEF StreamFails
  <2>8. QED
    BY <2>1, <2>2, <2>3, <2>4, <2>5, <2>6, <2>7
<1>29. CASE CoreEvent
  BY <1>29 DEF CoreEvent
<1>30. CASE ProcessBegins
  BY <1>30 DEF ProcessBegins
<1>31. CASE ProcessReturnsEarly
  BY <1>31 DEF ProcessReturnsEarly
<1>32. CASE Dequeue
  BY <1>32 DEF Dequeue
<1>33. CASE SkipFrame
  BY <1>33 DEF SkipFrame
<1>34. CASE DeliverFrame
  BY <1>34 DEF DeliverFrame
<1>35. CASE CallbackReturns
  BY <1>35 DEF CallbackReturns
<1>36. CASE Requeue
  BY <1>36 DEF Requeue
<1>37. CASE UNCHANGED vars
  BY <1>37 DEF vars
<1>38. QED
  BY <1>1, <1>2, <1>3, <1>4, <1>5, <1>6, <1>7, <1>8, <1>9, <1>10, <1>11,
     <1>12, <1>13, <1>14, <1>15, <1>16, <1>17, <1>18, <1>19, <1>20, <1>21,
     <1>22, <1>23, <1>24, <1>25, <1>26, <1>27, <1>28, <1>29, <1>30, <1>31,
     <1>32, <1>33, <1>34, <1>35, <1>36, <1>37
     DEF Next, UserCalls, CallSteps, HandlerSteps, Daemon

-----------------------------------------------------------------------------
(* The inductive invariant holds in every reachable state.                  *)
THEOREM Invariance == Spec => []IndInv
<1>1. Init => IndInv
  BY InitIndInv
<1>2. IndInv /\ [Next]_vars => IndInv'
  BY NextIndInv
<1> QED
  BY <1>1, <1>2, PTL DEF Spec

(* Type correctness of the PipeWire backend. *)
THEOREM TypeCorrect == Spec => []TypeOK
<1>1. IndInv => TypeOK
  BY DEF IndInv
<1> QED
  BY <1>1, Invariance, PTL

(* The core and the stream that the session points to exist. *)
THEOREM PointersLive == Spec => []PointersAreLive
<1>1. IndInv => PointersAreLive
  BY DEF IndInv, Objects
<1> QED
  BY <1>1, Invariance, PTL

(* The callback has its stream, its buffer, its context and the lock, and   *)
(* the caller makes and frees PipeWire objects only while no handler runs.  *)
THEOREM CallbackSafe == Spec => []CallbackIsSafe
<1>1. IndInv => CallbackIsSafe
  <2> SUFFICES ASSUME IndInv PROVE CallbackIsSafe
    OBVIOUS
  <2>1. ASSUME loop = "callback"
        PROVE  /\ ses.stream \in pw.streams /\ pw.held = 1 /\ pw.state # "none"
               /\ context /\ lock = "loop"
    <3>1. pw.state = "streaming" /\ lock = "loop" /\ pw.held = 1
      BY <2>1 DEF IndInv, Streams, Locks, Objects
    <3>2. ses.stream \in pw.streams
      BY <3>1 DEF IndInv, Streams, Objects, PointersAreLive
    <3>3. context
      BY <2>1 DEF IndInv, TypeOK, RustTypeOK, ApiStates, FlagsMatch, LoopRuns,
                  CallsMatch, CreatePcs, Objects
    <3> QED
      BY <3>1, <3>2, <3>3
  <2>2. ASSUME cpc \in {"connectCore", "newStream", "connectStream", "check",
                        "disconnect"}
        PROVE  loop \in {"off", "poll"} /\ lock # "loop"
    BY <2>2 DEF IndInv, Locks
  <2>3. ASSUME cpc \in {"freeStream", "freeCore", "freeContext"}
        PROVE  loop \in {"off", "poll"} /\ lock # "loop"
    BY <2>3 DEF IndInv, TypeOK, CallsMatch, DestroyPcs, FlagsMatch, LoopRuns, Locks
  <2> QED
    BY <2>1, <2>2, <2>3 DEF CallbackIsSafe
<1> QED
  BY <1>1, Invariance, PTL

(* A frame is described with the format its stream has now. *)
THEOREM FormatKnown == Spec => []FramesMatchFormat
<1>1. IndInv => FramesMatchFormat
  BY DEF IndInv, Streams, Formats, FramesMatchFormat
<1> QED
  BY <1>1, Invariance, PTL

(* Between calls the two running flags and the loop's thread tell the same  *)
(* story.                                                                   *)
THEOREM FlagsTruth == Spec => []FlagsTellTheTruth
<1>1. IndInv => FlagsTellTheTruth
  BY DEF IndInv, TypeOK, RustTypeOK, Session, CallsMatch, FlagsMatch, LoopRuns,
         Locks, Objects, NoSession, FlagsTellTheTruth
<1> QED
  BY <1>1, Invariance, PTL

(* Every buffer is given back; a failed new and a drop leave nothing.       *)
THEOREM NoLeak == Spec => []NothingLeaks
<1>1. IndInv => NothingLeaks
  BY DEF IndInv, Objects, NothingLeaks
<1> QED
  BY <1>1, Invariance, PTL

-----------------------------------------------------------------------------
(* Every step of the backend is a step of the documented life cycle or      *)
(* leaves its variables alone.                                              *)
LEMMA StepImplements ==
  IndInv /\ [Next]_vars => [Contract!ContractNext]_(Contract!contractVars)
<1> SUFFICES ASSUME IndInv, [Next]_vars
             PROVE  [Contract!ContractNext]_(Contract!contractVars)
  OBVIOUS
<1> USE DEF IndInv, TypeOK, RustTypeOK, ApiStates, CallsMatch, FlagsMatch,
        LoopRuns, CreatePcs, StartPcs, StopPcs, DestroyPcs, LoopPcs, Session,
        rustVars, Goes, CreateFails, LoopStopLeaves, CanDispatch, Event,
        FormatIs, LoopGoes, RsNew, RsNewReturns, RsStart, RsStartReturns,
        RsStop, RsStopReturns, RsDrop, RsDropReturns, ContractPhase,
        Contract!ContractNext, Contract!contractVars, Contract!Go,
        Contract!New, Contract!NewFails, Contract!NewReturns, Contract!Start,
        Contract!StartReturns, Contract!StartFails, Contract!Stop,
        Contract!StopReturns, Contract!Drop, Contract!DropStops,
        Contract!DropReturns, Contract!CallbackBegins,
        Contract!CallbackReturns, Contract!CallbackPanics, Contract!Delivering
<1>1. CASE EnterCreate
  BY <1>1 DEF EnterCreate
<1>2. CASE Alloc
  BY <1>2 DEF Alloc
<1>3. CASE NewLoop
  BY <1>3 DEF NewLoop
<1>4. CASE NewContext
  BY <1>4 DEF NewContext
<1>5. CASE EnterStart
  BY <1>5 DEF EnterStart
<1>6. CASE StartTest
  BY <1>6 DEF StartTest
<1>7. CASE LoopStart
  BY <1>7 DEF LoopStart
<1>8. CASE StartLock
  BY <1>8 DEF StartLock
<1>9. CASE ConnectCore
  BY <1>9 DEF ConnectCore
<1>10. CASE NewStream
  BY <1>10 DEF NewStream
<1>11. CASE ConnectStream
  BY <1>11 DEF ConnectStream
<1>12. CASE Check
  BY <1>12 DEF Check
<1>13. CASE Wakes
  BY <1>13 DEF Wakes
<1>14. CASE StartUnlock
  BY <1>14 DEF StartUnlock
<1>15. CASE EnterStop
  BY <1>15 DEF EnterStop
<1>16. CASE StopTest
  BY <1>16 DEF StopTest
<1>17. CASE StopLock
  BY <1>17 DEF StopLock
<1>18. CASE StopDisconnect
  BY <1>18 DEF StopDisconnect
<1>19. CASE LoopStop
  BY <1>19 DEF LoopStop
<1>20. CASE EnterDrop
  BY <1>20 DEF EnterDrop
<1>21. CASE DestroyTest
  BY <1>21 DEF DestroyTest
<1>22. CASE FreeStream
  BY <1>22 DEF FreeStream
<1>23. CASE FreeCore
  BY <1>23 DEF FreeCore
<1>24. CASE FreeContext
  BY <1>24 DEF FreeContext
<1>25. CASE FormatNegotiated
  BY <1>25 DEF FormatNegotiated
<1>26. CASE Renegotiated
  BY <1>26 DEF Renegotiated
<1>27. CASE StreamStarts
  BY <1>27 DEF StreamStarts
<1>28. CASE StreamFails
  BY <1>28 DEF StreamFails
<1>29. CASE CoreEvent
  BY <1>29 DEF CoreEvent
<1>30. CASE ProcessBegins
  BY <1>30 DEF ProcessBegins
<1>31. CASE ProcessReturnsEarly
  BY <1>31 DEF ProcessReturnsEarly
<1>32. CASE Dequeue
  BY <1>32 DEF Dequeue
<1>33. CASE SkipFrame
  BY <1>33 DEF SkipFrame
<1>34. CASE DeliverFrame
  BY <1>34 DEF DeliverFrame
<1>35. CASE CallbackReturns
  BY <1>35 DEF CallbackReturns
<1>36. CASE Requeue
  BY <1>36 DEF Requeue
<1>37. CASE UNCHANGED vars
  BY <1>37 DEF vars
<1>38. QED
  BY <1>1, <1>2, <1>3, <1>4, <1>5, <1>6, <1>7, <1>8, <1>9, <1>10, <1>11,
     <1>12, <1>13, <1>14, <1>15, <1>16, <1>17, <1>18, <1>19, <1>20, <1>21,
     <1>22, <1>23, <1>24, <1>25, <1>26, <1>27, <1>28, <1>29, <1>30, <1>31,
     <1>32, <1>33, <1>34, <1>35, <1>36, <1>37
     DEF Next, UserCalls, CallSteps, HandlerSteps, Daemon

(* The PipeWire backend implements the safety part of the life cycle that   *)
(* capture.rs documents.                                                    *)
THEOREM ImplementsLifeCycle == Spec => ImplementsContract
<1>1. Init => Contract!ContractInit
  BY DEF Init, RustInit, Contract!ContractInit, ContractPhase
<1>2. IndInv /\ [Next]_vars => [Contract!ContractNext]_(Contract!contractVars)
  BY StepImplements
<1> QED
  BY <1>1, <1>2, Invariance, PTL DEF Spec, ImplementsContract, Contract!ContractSafety

(* The user callback runs only between the beginning of a start and the     *)
(* return of the stop, or of the implied stop of a drop.                    *)
CallbackOnlyWhileCapturing ==
  loop = "callback" =>
    \/ api \in {"starting", "stopping", "dropStopping"}
    \/ api = "idle" /\ rsRunning

THEOREM NoCallbackAfterStop == Spec => []CallbackOnlyWhileCapturing
<1>1. IndInv => CallbackOnlyWhileCapturing
  BY DEF IndInv, TypeOK, RustTypeOK, ApiStates, CallsMatch, FlagsMatch,
         LoopRuns, CreatePcs, StartPcs, StopPcs, DestroyPcs,
         CallbackOnlyWhileCapturing
<1> QED
  BY <1>1, Invariance, PTL
=============================================================================
