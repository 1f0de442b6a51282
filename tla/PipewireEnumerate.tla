-------------------------- MODULE PipewireEnumerate --------------------------
(***************************************************************************)
(* Listing the cameras with PipeWire: FfiDeviceListImpl of                 *)
(* src/device_ffi.rs over video_pipewire_enumerate_devices of              *)
(* src/video_pipewire.c.                                                   *)
(*                                                                         *)
(* The caller connects to the daemon and runs a main loop of its own that  *)
(* dispatches the daemon's events.  The registry announces nodes; each is  *)
(* put in two parallel arrays, devices and pending, and asked for its      *)
(* formats.  A first sync tells that the nodes there are have been         *)
(* announced, a second one that they have answered.  Cameras come and go   *)
(* all the while, and every allocation may fail.                           *)
(*                                                                         *)
(* A listener lives in the array pending, and so does the pointer to a     *)
(* node's formats.  When realloc moves the array the listeners registered  *)
(* before are in freed memory (issues/0042).  What one of them does there  *)
(* to the formats is modelled, from what was in that memory; what a new    *)
(* owner of the memory would do to it, or it to the owner, is not, and the *)
(* properties promise nothing once that has happened.                      *)
(*                                                                         *)
(* The daemon is external: it serves the requests of a client in order and *)
(* the client sees its events in order.                                    *)
(***************************************************************************)
EXTENDS Integers, Sequences, SequencesExt

CONSTANTS
  Nodes,            \* the Video/Source nodes there may be
  Params,           \* how many EnumFormat params a node reports
  Usable,           \* those of them that on_node_param can convert
  InitialCapacity,  \* the first capacity of the two arrays, 8 in the code
  InitialFormats    \* the first capacity of a node's formats, 4 in the code

ASSUME EnumerateAssumption ==
  /\ IsFiniteSet(Nodes)
  /\ Params \in Nat
  /\ Usable \subseteq 1 .. Params
  /\ {InitialCapacity, InitialFormats} \subseteq Nat \ {0}

VARIABLES
  api,       \* absent, enumerating, or listed: a VideoDeviceList exists
  cpc,       \* where the caller is inside the C function
  held,      \* the PipeWire objects the C function holds
  sync,      \* the syncs issued: 1 is pending_sync, 2 is enum_params_sync
  capacity,  \* of devices and of pending
  moves,     \* how often realloc has moved pending with listeners in it
  devices,   \* the VideoDevices found
  pending,   \* the PendingNodes; home is the value of moves at registration
  blocks,    \* the formats that are allocated: a node's own, and stray ones
  astray,    \* a listener has been called that was in freed memory
  node,      \* the state of every node at the daemon
  bound,     \* the daemon reports new nodes to the registry
  requests,  \* on their way to the daemon
  events,    \* on their way to the caller
  early,     \* the nodes present when enumerate was called (history)
  missed,    \* the nodes given up for want of memory or a proxy (history)
  shortened  \* those listed whose formats no memory was there for, or that
             \* could not be asked (history)

memory == <<blocks, astray>>
arrays == <<capacity, moves, devices, pending, memory>>
daemon == <<node, bound, requests, events>>
past   == <<missed, shortened>>
vars   == <<api, cpc, held, sync, arrays, daemon, early, past>>

AllObjects == {"pipewire", "loop", "context", "core", "registry"}

Requests ==
  [type : {"registry"}] \cup [type : {"sync"}, seq : 1 .. 2]
    \cup [type : {"enumParams"}, node : Nodes]

Events ==
  [type : {"global"}, node : Nodes] \cup [type : {"done"}, seq : 1 .. 2]
    \cup [type : {"param"}, node : Nodes, param : 1 .. Params]

TypeOK ==
  /\ api \in {"absent", "enumerating", "listed"}
  /\ cpc \in {"none", "newLoop", "newContext", "connect", "getRegistry", "run",
             "cleanup"}
  /\ held \in SUBSET AllObjects
  /\ sync \in 0 .. 2
  /\ capacity \in Nat /\ moves \in Nat
  /\ devices \in Seq([node : Nodes, formats : Seq(Usable)])
  /\ pending \in Seq([node : Nodes, formats : Seq(Usable), room : Nat,
                      home : 0 .. moves])
  /\ blocks \subseteq Nodes \X {"own", "stray"} /\ astray \in BOOLEAN
  /\ node \in [Nodes -> {"absent", "present", "gone"}]
  /\ bound \in BOOLEAN
  /\ requests \in Seq(Requests) /\ events \in Seq(Events)
  /\ {early, missed, shortened} \subseteq SUBSET Nodes

Present == {n \in Nodes : node[n] = "present"}

Init ==
  /\ api = "absent" /\ cpc = "none" /\ held = {} /\ sync = 0
  /\ capacity = 0 /\ moves = 0 /\ devices = <<>> /\ pending = <<>>
  /\ node \in [Nodes -> {"absent", "present"}]
  /\ bound = FALSE /\ requests = <<>> /\ events = <<>>
  /\ blocks = {} /\ astray = FALSE
  /\ early = {} /\ missed = {} /\ shortened = {}

-----------------------------------------------------------------------------
(***************************************************************************)
(* Connecting.  Each failure undoes what came before it and returns a      *)
(* negative value, for which Rust reports DeviceAccessDenied.              *)
(***************************************************************************)
(* The blocks are those of this enumeration: what an earlier one has lost  *)
(* stays lost.                                                             *)
EnterEnumerate ==
  /\ api = "absent"
  /\ api' = "enumerating"
  /\ cpc' = "newLoop"
  /\ held' = {"pipewire"}
  /\ sync' = 0 /\ moves' = 0
  /\ early' = Present
  /\ missed' = {} /\ shortened' = {}
  /\ blocks' = {} /\ astray' = FALSE
  /\ UNCHANGED <<capacity, devices, pending, daemon>>

Acquire(from, object, to) ==
  /\ cpc = from
  /\ cpc' = to
  /\ held' = held \cup {object}
  /\ UNCHANGED <<api, sync, arrays, daemon, early, past>>

Undo(from, objects) ==
  /\ cpc = from
  /\ cpc' = "none"
  /\ api' = "absent"
  /\ held' = held \ objects
  /\ UNCHANGED <<sync, arrays, daemon, early, past>>

NewLoop    == Acquire("newLoop", "loop", "newContext")
NewContext == Acquire("newContext", "context", "connect")
Connect    == Acquire("connect", "core", "getRegistry")

ConnectFails ==
  \/ Undo("newLoop", {"pipewire"})
  \/ Undo("newContext", {"loop", "pipewire"})
  \/ Undo("connect", {"context", "loop", "pipewire"})
  \/ Undo("getRegistry", {"core", "context", "loop", "pipewire"})

(* The registry is asked for, and the first sync follows it at once.  (One  *)
(* that cannot be sent is a request that the daemon does not serve.)        *)
GetRegistry ==
  /\ cpc = "getRegistry"
  /\ cpc' = "run"
  /\ held' = held \cup {"registry"}
  /\ sync' = 1
  /\ requests' = requests \o
                   <<[type |-> "registry"], [type |-> "sync", seq |-> 1]>>
  /\ UNCHANGED <<api, arrays, node, bound, events, early, past>>

-----------------------------------------------------------------------------
(***************************************************************************)
(* The main loop: the handlers of the daemon's events.  A loop that was    *)
(* told to quit may still dispatch events it has received.                 *)
(***************************************************************************)
Dispatch(type) ==
  /\ cpc \in {"run", "cleanup"}
  /\ events # <<>>
  /\ Head(events).type = type
  /\ events' = Tail(events)
  /\ UNCHANGED <<api, held, node, bound, early>>

BadGrow ==
  IF Len(devices) < capacity
  THEN UNCHANGED <<capacity, moves>>
  ELSE /\ capacity' = capacity + 1
       /\ moves' \in IF capacity = 0 THEN {moves} ELSE {moves, moves + 1}

(* realloc may leave pending where it is, or move it away from under the   *)
(* listeners that were registered with its elements.                       *)
Grow ==
  IF Len(devices) < capacity
  THEN UNCHANGED <<capacity, moves>>
  ELSE /\ capacity' = IF capacity = 0 THEN InitialCapacity ELSE 2 * capacity
       /\ moves' \in IF capacity = 0 THEN {moves} ELSE {moves, moves + 1}

(* Neither the listener nor the request for the params is checked: a node  *)
(* that could not be asked stays in the list, without formats.             *)
RegistryGlobal ==
  LET n == Head(events).node
  IN /\ Dispatch("global")
     /\ Grow
     /\ pending' = Append(pending,
                          [node |-> n, formats |-> <<>>, room |-> 0,
                           home |-> moves'])
     /\ devices' = Append(devices, [node |-> n, formats |-> <<>>])
     /\ \/ /\ requests' = Append(requests, [type |-> "enumParams", node |-> n])
           /\ UNCHANGED shortened
        \/ /\ shortened' = shortened \cup {n}
           /\ UNCHANGED requests
     /\ UNCHANGED <<cpc, sync, memory, missed>>

(* Out of memory, perhaps after the arrays have grown, or no proxy: the    *)
(* node is left out.                                                       *)
RegistryGlobalFails ==
  /\ Dispatch("global")
  /\ Grow \/ UNCHANGED <<capacity, moves>>
  /\ missed' = missed \cup {Head(events).node}
  /\ UNCHANGED <<cpc, sync, devices, pending, memory, requests, shortened>>

(* The listener of node n was registered before pending moved. *)
IsStale(n) ==
  \E i \in DOMAIN pending : pending[i].node = n /\ pending[i].home # moves

IsFull(p) == Len(p.formats) >= p.room

WithFormat(p, param) ==
  [p EXCEPT !.formats = Append(@, param),
            !.room = IF ~IsFull(p) THEN @
                     ELSE IF @ = 0 THEN InitialFormats ELSE 2 * @]

BadNodeParam ==
  LET e == Head(events)
  IN /\ Dispatch("param") /\ ~IsStale(e.node)
     /\ pending' = [i \in DOMAIN pending |->
                      IF pending[i].node = e.node
                      THEN WithFormat(pending[i], e.param) ELSE pending[i]]
     /\ blocks' = blocks \cup {<<e.node, "own">>}
     /\ UNCHANGED <<cpc, sync, capacity, moves, devices, astray, requests, past>>

(* A param that cannot be converted is passed over. *)
NodeParam ==
  LET e == Head(events)
  IN /\ Dispatch("param") /\ ~IsStale(e.node)
     /\ \/ /\ e.param \in Usable
           /\ pending' = [i \in DOMAIN pending |->
                            IF pending[i].node = e.node
                            THEN WithFormat(pending[i], e.param) ELSE pending[i]]
           /\ blocks' = blocks \cup {<<e.node, "own">>}
        \/ /\ e.param \notin Usable
           /\ UNCHANGED <<pending, blocks>>
     /\ UNCHANGED <<cpc, sync, capacity, moves, devices, astray, requests, past>>

(* realloc of the formats fails: this one is passed over, silently. *)
NodeParamFails ==
  LET e == Head(events)
  IN /\ Dispatch("param") /\ ~IsStale(e.node) /\ e.param \in Usable
     /\ \E i \in DOMAIN pending : pending[i].node = e.node /\ IsFull(pending[i])
     /\ shortened' = shortened \cup {e.node}
     /\ UNCHANGED <<cpc, sync, arrays, requests, missed>>

(* A stale listener works on the PendingNode that was freed.  The live one *)
(* does not learn of the format; when the freed one has to grow its        *)
(* formats there is a block that nothing points to, and it may be the      *)
(* live one's, reallocated.                                                *)
StaleParam ==
  LET e     == Head(events)
      stray == {<<e.node, "stray">>}
  IN /\ Dispatch("param") /\ IsStale(e.node)
     /\ astray' = TRUE
     /\ \/ UNCHANGED blocks
        \/ /\ e.param \in Usable
           /\ blocks' \in {blocks \cup stray,
                           (blocks \ {<<e.node, "own">>}) \cup stray}
     /\ UNCHANGED <<cpc, sync, capacity, moves, devices, pending, requests, past>>

BadCoreDone ==
  /\ Dispatch("done")
  /\ cpc' = "cleanup"
  /\ UNCHANGED <<sync, requests, arrays, past>>

BadCoreDoneRepeats ==
  /\ Dispatch("done")
  /\ requests' = Append(requests, Head(events))
  /\ UNCHANGED <<cpc, sync, arrays, past>>

(* The first sync is followed by a second one, which ends the loop. *)
CoreDone ==
  /\ Dispatch("done")
  /\ \/ /\ Head(events).seq = 1
        /\ sync' = 2
        /\ requests' = Append(requests, [type |-> "sync", seq |-> 2])
        /\ UNCHANGED cpc
     \/ /\ Head(events).seq = 2
        /\ cpc' = "cleanup"
        /\ UNCHANGED <<sync, requests>>
  /\ UNCHANGED <<arrays, past>>

-----------------------------------------------------------------------------
(***************************************************************************)
(* The end of the function, and the list that Rust owns.                   *)
(***************************************************************************)
NodesAfterwards ==
  [n \in Nodes |-> IF node[n] = "gone" THEN "absent" ELSE node[n]]

(* The formats move to the devices, the connection is closed. *)
Cleanup ==
  /\ cpc = "cleanup"
  /\ cpc' = "none"
  /\ api' = "listed"
  /\ devices' = [i \in DOMAIN devices |->
                   [devices[i] EXCEPT !.formats = pending[i].formats]]
  /\ pending' = <<>>
  /\ capacity' = 0
  /\ held' = {}
  /\ bound' = FALSE /\ requests' = <<>> /\ events' = <<>>
  /\ UNCHANGED <<sync, moves, memory, node, early, past>>

(* The blocks that the list points to; free(NULL) does nothing. *)
ListBlocks ==
  {<<devices[i].node, "own">> :
     i \in {j \in DOMAIN devices : devices[j].formats # <<>>}}

BadDropList ==
  /\ api = "listed"
  /\ api' = "absent"
  /\ devices' = <<>>
  /\ node' = NodesAfterwards
  /\ UNCHANGED <<cpc, held, sync, capacity, moves, pending, memory, bound,
                 requests, events, early, past>>

DropList ==
  /\ api = "listed"
  /\ api' = "absent"
  /\ devices' = <<>>
  /\ blocks' = blocks \ ListBlocks
  /\ node' = NodesAfterwards
  /\ UNCHANGED <<cpc, held, sync, capacity, moves, pending, astray, bound,
                 requests, events, early, past>>

-----------------------------------------------------------------------------
(***************************************************************************)
(* The daemon.                                                             *)
(***************************************************************************)
Global(n) == [type |-> "global", node |-> n]

Answers(request) ==
  CASE request.type = "registry" ->
         {[i \in DOMAIN s |-> Global(s[i])] : s \in SetToSeqs(Present)}
    [] request.type = "sync" -> {<<[type |-> "done", seq |-> request.seq]>>}
    [] request.type = "enumParams" /\ request.node \in Present ->
         {[p \in 1 .. Params |->
             [type |-> "param", node |-> request.node, param |-> p]]}
    [] OTHER -> {<<>>}

Serve ==
  /\ cpc \in {"run", "cleanup"} /\ requests # <<>>
  /\ \E answer \in Answers(Head(requests)) : events' = events \o answer
  /\ bound' = (bound \/ Head(requests).type = "registry")
  /\ requests' = Tail(requests)
  /\ UNCHANGED <<api, cpc, held, sync, arrays, node, early, past>>

NodeAppears(n) ==
  /\ node[n] = "absent"
  /\ node' = [node EXCEPT ![n] = "present"]
  /\ events' = IF bound THEN Append(events, Global(n)) ELSE events
  /\ UNCHANGED <<api, cpc, held, sync, arrays, bound, requests, early, past>>

(* A node that goes does not come back under the same name before the list *)
(* has been dropped: PipeWire gives it a new identity.                     *)
NodeGoes(n) ==
  /\ node[n] = "present"
  /\ node' = [node EXCEPT ![n] = "gone"]
  /\ UNCHANGED <<api, cpc, held, sync, arrays, bound, requests, events, early,
                 past>>

-----------------------------------------------------------------------------
CallerSteps ==
  \/ NewLoop \/ NewContext \/ Connect \/ ConnectFails \/ GetRegistry
  \/ RegistryGlobal \/ RegistryGlobalFails
  \/ NodeParam \/ NodeParamFails \/ StaleParam \/ CoreDone
  \/ Cleanup

Cameras == \E n \in Nodes : NodeAppears(n) \/ NodeGoes(n)

Next == EnterEnumerate \/ CallerSteps \/ DropList \/ Serve \/ Cameras

Spec == Init /\ [][Next]_vars

(* The caller's thread runs.  Nothing is assumed of the daemon. *)
FairSpec == Spec /\ WF_vars(CallerSteps)

(* The daemon serves what it is asked for. *)
DaemonAnswers == WF_vars(Serve)

-----------------------------------------------------------------------------
(***************************************************************************)
(* Properties.                                                             *)
(***************************************************************************)

(* Formats of a node, each once and in the order of its params. *)
InOrder(seq) == \A k, l \in DOMAIN seq : k < l => seq[k] < seq[l]

Listed == {devices[i].node : i \in DOMAIN devices}

(* What the user gets: no node twice, every camera that was there when     *)
(* enumerate was called and still is, and its formats in order, all of     *)
(* them.  Excepted are nodes given up for want of memory or a proxy; for   *)
(* the completeness of the formats, nodes that could not be asked or whose *)
(* formats could not grow, neither of which is reported; and lists for     *)
(* which a listener was called in freed memory (issues/0042): of these     *)
(* nothing is said.  (A camera plugged in meanwhile may be listed with no  *)
(* formats.)                                                               *)
ListIsComplete ==
  api = "listed" /\ ~astray =>
    /\ \A i, j \in DOMAIN devices : devices[i].node = devices[j].node => i = j
    /\ (early \cap Present) \ missed \subseteq Listed
    /\ \A i \in DOMAIN devices :
         LET n    == devices[i].node
             seq  == devices[i].formats
         IN  n \in early \cap Present =>
               /\ InOrder(seq)
               /\ n \notin shortened => {seq[k] : k \in DOMAIN seq} = Usable

(* The two arrays stay parallel, and until they have outgrown their first  *)
(* capacity every listener points into the array there is.                 *)
ListenersAreLive ==
  cpc \in {"run", "cleanup"} =>
    /\ Len(pending) = Len(devices) /\ Len(devices) <= capacity
    /\ \A i \in DOMAIN pending :
         /\ pending[i].node = devices[i].node
         /\ capacity <= InitialCapacity => pending[i].home = moves

(* Whatever fails, the function leaves nothing behind but the list, and    *)
(* the drop of the list nothing: no object, and of the formats exactly     *)
(* those that the list points to.  That holds though the arrays have       *)
(* moved, as long as no listener has been called in freed memory: one that *)
(* has may leave formats that nothing points to, or a pointer to formats   *)
(* that are gone (issues/0042).                                            *)
NothingLeaks ==
  /\ api # "enumerating" => held = {} /\ pending = <<>>
  /\ api = "absent" => devices = <<>>
  /\ api # "enumerating" /\ ~astray => blocks = ListBlocks

(* enumerate returns if the daemon answers, however many cameras come and  *)
(* go; no other event is needed to end the loop.                           *)
EnumerationEnds ==
  DaemonAnswers => (api = "enumerating" ~> api # "enumerating")
=============================================================================
