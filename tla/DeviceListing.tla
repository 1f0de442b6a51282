---------------------------- MODULE DeviceListing ----------------------------
(***************************************************************************)
(* VideoDeviceList::enumerate on the V4L2 and AVFoundation backends: the   *)
(* C functions that fill an array of devices, FfiDeviceListImpl that owns  *)
(* it, and its Drop.  (PipeWire's enumeration is PipewireEnumerate.)       *)
(*                                                                         *)
(* V4L2 goes through the nodes /dev/video*: it asks a node for its name,   *)
(* closes it, and opens it again by its path for the formats; cameras may  *)
(* be unplugged and others take their nodes at any moment.  AVFoundation   *)
(* gives an array of devices that ARC keeps alive.  Every allocation and   *)
(* every ioctl may fail.  A node without a device that captures and        *)
(* streams counts as empty.                                                *)
(***************************************************************************)
EXTENDS Integers, Sequences, FiniteSets

CONSTANTS
  Cameras,   \* the video devices that may be plugged in
  NumNodes,  \* the nodes looked at; 64 in the code
  Formats,   \* the formats every camera has
  Usable,    \* those of them that the library knows
  None       \* no camera, or a NULL pointer

ASSUME ListingAssumption ==
  /\ NumNodes \in Nat /\ Formats \in Nat
  /\ Usable \subseteq 1 .. Formats
  /\ None \notin Cameras \cup 1 .. NumNodes
  /\ "gone" \notin Cameras \cup {None}

Nodes == 1 .. NumNodes

VARIABLES
  backend,  \* "v4l2" or "avf"
  at,       \* the camera at each node
  pc,       \* where the enumeration is, or what has become of it
  node,     \* the node (the device, for AVFoundation) it is at
  fd,       \* the camera behind the descriptor that is open, or "gone"
  name,     \* the camera whose capabilities were read
  next,     \* the number of the next format to ask for
  formats,  \* the formats collected so far
  list,     \* the array of devices
  heap,     \* how often each block is allocated
  found,    \* the cameras there were at the beginning
  disturbed,  \* the nodes whose camera has changed since (history)
  refused   \* the nodes about which a call has failed (history)

world == <<backend, at, found>>
entry == <<fd, name, next, formats>>
past  == <<disturbed, refused>>
vars  == <<world, pc, node, entry, list, heap, past>>

(* malloc'ed blocks: of the n-th device, and the array of devices. *)
Blocks == ({"device", "name", "id", "formats"} \X Nodes) \cup {<<"array", 0>>}

Entry == [node : Nodes, name : Cameras \cup {None}, id : Nodes \cup {None},
          formats : SUBSET (Cameras \X (1 .. Formats))]

TypeOK ==
  /\ backend \in {"v4l2", "avf"}
  /\ {at, found} \subseteq [Nodes -> Cameras \cup {None}]
  /\ pc \in {"idle", "probe", "query", "alloc", "open", "enum", "append",
            "listed", "failed"}
  /\ node \in 1 .. NumNodes + 1
  /\ fd \in Cameras \cup {None, "gone"} /\ name \in Cameras \cup {None}
  /\ next \in 1 .. Formats + 1
  /\ formats \subseteq Cameras \X (1 .. Formats)
  /\ list \in Seq(Entry) /\ Len(list) <= NumNodes
  /\ heap \in [Blocks -> 0 .. 1]
  /\ disturbed \subseteq Nodes /\ refused \subseteq Nodes

(* A camera is at one node only. *)
Placements ==
  {f \in [Nodes -> Cameras \cup {None}] :
     \A p, q \in Nodes : p # q /\ f[p] = f[q] => f[p] = None}

Init ==
  /\ backend \in {"v4l2", "avf"} /\ at \in Placements /\ found = at
  /\ pc = "idle" /\ node = 1
  /\ fd = None /\ name = None /\ next = 1 /\ formats = {}
  /\ list = <<>> /\ heap = [b \in Blocks |-> 0]
  /\ disturbed = {} /\ refused = {}

(* malloc and free of blocks. *)
With(blocks)    == [b \in Blocks |-> heap[b] + (IF b \in blocks THEN 1 ELSE 0)]
Without(blocks) == [b \in Blocks |-> heap[b] - (IF b \in blocks THEN 1 ELSE 0)]

Goes(from, to) == pc = from /\ pc' = to

(* The blocks the list points to; free(NULL) does nothing, and neither     *)
(* does freeing a list without an array.                                   *)
Strings == {<<"device", i>> : i \in DOMAIN list}
             \cup {<<"name", i>> : i \in {j \in DOMAIN list : list[j].name # None}}
             \cup {<<"id", i>> : i \in {j \in DOMAIN list : list[j].id # None}}
             \cup {b \in {<<"array", 0>>} : heap[b] > 0}
Arrays == {<<"formats", i>> : i \in {j \in DOMAIN list : list[j].formats # {}}}

-----------------------------------------------------------------------------
(***************************************************************************)
(* FfiDeviceListImpl::enumerate and Drop.                                  *)
(***************************************************************************)
Enumerate ==
  /\ Goes("idle", "probe")
  /\ node' = 1 /\ list' = <<>> /\ found' = at
  /\ disturbed' = {} /\ refused' = {}
  /\ UNCHANGED <<backend, at, entry, heap>>

(* All nodes done: the array goes to Rust, which makes it a list. *)
Listed ==
  /\ Goes("probe", "listed")
  /\ node > NumNodes
  /\ UNCHANGED <<world, node, entry, list, heap, past>>

(* ret < 0: Err(DeviceAccessDenied), and Rust frees nothing.  What is lost *)
(* by now stays lost; the model counts the next enumeration's blocks.      *)
EnumerateReturnsErr ==
  /\ Goes("failed", "idle")
  /\ heap' = [b \in Blocks |-> 0]
  /\ list' = <<>>
  /\ UNCHANGED <<world, node, entry, past>>

(* video_*_free_devices, with the count that enumerate returned. *)
DropList ==
  /\ Goes("listed", "idle")
  /\ heap' = Without(Strings \cup Arrays)
  /\ list' = <<>>
  /\ UNCHANGED <<world, node, entry, past>>

-----------------------------------------------------------------------------
(***************************************************************************)
(* video_v4l2_enumerate_devices.                                           *)
(***************************************************************************)
V4l2 == backend = "v4l2" /\ node <= NumNodes

Refuse == UNCHANGED disturbed /\ refused' = refused \cup {node}

(* No such node, or it cannot be opened. *)
ProbeFails ==
  /\ V4l2 /\ pc = "probe"
  /\ node' = node + 1
  /\ IF at[node] = None THEN UNCHANGED past ELSE Refuse
  /\ UNCHANGED <<world, pc, entry, list, heap>>

(* stat and open. *)
Probe ==
  /\ V4l2 /\ Goes("probe", "query")
  /\ at[node] # None
  /\ fd' = at[node]
  /\ UNCHANGED <<world, node, name, next, formats, list, heap, past>>

(* QUERYCAP and close. *)
QueryCap ==
  /\ V4l2 /\ Goes("query", "alloc")
  /\ fd \in Cameras
  /\ name' = fd /\ fd' = None
  /\ UNCHANGED <<world, node, next, formats, list, heap, past>>

QueryFails ==
  /\ V4l2 /\ Goes("query", "probe")
  /\ node' = node + 1 /\ fd' = None
  /\ Refuse
  /\ UNCHANGED <<world, name, next, formats, list, heap>>

(* realloc of the array or malloc of the device has failed: what there is  *)
(* is freed, except the formats.                                           *)
V4l2NoMemory ==
  /\ V4l2 /\ Goes("alloc", "failed")
  /\ heap' = Without(Strings)
  /\ UNCHANGED <<world, node, entry, list, past>>

Alloc ==
  /\ V4l2 /\ Goes("alloc", "open")
  /\ \E strings \in SUBSET {"name", "id"} :
       /\ heap' = [With({<<k, Len(list) + 1>> : k \in strings \cup {"device"}})
                     EXCEPT ![<<"array", 0>>] = 1]
       /\ list' = Append(list,
                    [node |-> node, formats |-> {},
                     name |-> IF "name" \in strings THEN name ELSE None,
                     id |-> IF "id" \in strings THEN node ELSE None])
  /\ UNCHANGED <<world, node, entry, past>>

(* enumerate_device_formats opens the node anew. *)
OpenNode ==
  /\ V4l2 /\ Goes("open", "enum")
  /\ at[node] # None
  /\ fd' = at[node] /\ next' = 1 /\ formats' = {}
  /\ UNCHANGED <<world, node, name, list, heap, past>>

(* It fails: the device is listed without formats all the same. *)
OpenNodeFails ==
  /\ V4l2 /\ Goes("open", "append")
  /\ formats' = {}
  /\ Refuse
  /\ UNCHANGED <<world, node, fd, name, next, list, heap>>

Collect(set) ==
  /\ formats' = formats \cup set
  /\ heap' = IF formats = {} /\ set # {}
               THEN With({<<"formats", Len(list)>>}) ELSE heap
  /\ next' = next + 1

(* ENUM_FMT with its frame sizes and intervals; an unknown format is passed *)
(* over.                                                                    *)
EnumFormat ==
  /\ V4l2 /\ pc = "enum"
  /\ fd \in Cameras /\ next <= Formats
  /\ Collect({fd} \X (Usable \cap {next}))
  /\ UNCHANGED <<world, pc, node, fd, name, list, past>>

(* ENUM_FRAMESIZES fails: the loop goes on with the next format, and this   *)
(* one is listed with the sizes before, if there are any.                   *)
EnumSizesFail ==
  /\ V4l2 /\ pc = "enum"
  /\ fd \in Cameras /\ next \in Usable
  /\ \E set \in SUBSET {<<fd, next>>} : Collect(set)
  /\ Refuse
  /\ UNCHANGED <<world, pc, node, fd, name, list>>

(* ENUM_FMT fails: after the last format, or before.  It is a success       *)
(* either way.                                                              *)
EnumEnds ==
  /\ V4l2 /\ Goes("enum", "append")
  /\ fd' = None
  /\ IF next > Formats THEN UNCHANGED past ELSE Refuse
  /\ UNCHANGED <<world, node, name, next, formats, list, heap>>

BadEnumNoMemory ==
  /\ V4l2 /\ Goes("enum", "append")
  /\ fd \in Cameras /\ next \in Usable
  /\ heap' = IF formats = {} THEN heap ELSE Without({<<"formats", Len(list)>>})
  /\ fd' = None
  /\ Refuse
  /\ UNCHANGED <<world, node, name, next, formats, list>>

(* realloc of the formats fails: those collected so far are freed. *)
EnumNoMemory ==
  /\ V4l2 /\ Goes("enum", "append")
  /\ fd \in Cameras /\ next \in Usable
  /\ heap' = IF formats = {} THEN heap ELSE Without({<<"formats", Len(list)>>})
  /\ formats' = {} /\ fd' = None
  /\ Refuse
  /\ UNCHANGED <<world, node, name, next, list>>

AppendFormats ==
  /\ V4l2 /\ Goes("append", "probe")
  /\ node' = node + 1
  /\ list' = [list EXCEPT ![Len(list)].formats = formats]
  /\ formats' = {} /\ name' = None /\ next' = 1
  /\ UNCHANGED <<world, fd, heap, past>>

-----------------------------------------------------------------------------
(***************************************************************************)
(* video_avf_enumerate_devices.                                            *)
(***************************************************************************)
Avf == backend = "avf" /\ pc = "probe" /\ node <= NumNodes

AvfArray ==
  /\ Avf /\ heap[<<"array", 0>>] = 0
  /\ \E n \in Nodes : found[n] # None
  /\ \/ heap' = With({<<"array", 0>>}) /\ UNCHANGED pc
     \/ pc' = "failed" /\ UNCHANGED heap
  /\ UNCHANGED <<world, node, entry, list, past>>

(* No device, no array. *)
AvfNoDevice ==
  /\ Avf /\ found[node] = None
  /\ heap[<<"array", 0>>] = 1 \/ \A n \in Nodes : found[n] = None
  /\ node' = node + 1
  /\ UNCHANGED <<world, pc, entry, list, heap, past>>

BadAvfNoMemory ==
  /\ Avf /\ heap[<<"array", 0>>] = 1 /\ found[node] # None
  /\ pc' = "failed"
  /\ heap' = Without(Strings)
  /\ UNCHANGED <<world, node, entry, list, past>>

(* malloc of a device fails: all there is is freed. *)
AvfNoMemory ==
  /\ Avf /\ heap[<<"array", 0>>] = 1 /\ found[node] # None
  /\ pc' = "failed"
  /\ heap' = Without(Strings \cup Arrays)
  /\ UNCHANGED <<world, node, entry, list, past>>

UsableOf(camera) == {camera} \X Usable

(* The formats are allocated at once and freed again if none is known; when *)
(* that fails the device is listed without them.                            *)
AvfDevice ==
  /\ Avf /\ heap[<<"array", 0>>] = 1 /\ found[node] # None
  /\ \E strings \in SUBSET {"name", "id"}, f \in {{}, UsableOf(found[node])} :
       LET kinds == {"device"} \cup strings
                      \cup (IF f = {} THEN {} ELSE {"formats"})
       IN  /\ heap' = With({<<kind, Len(list) + 1>> : kind \in kinds})
           /\ list' = Append(list,
                        [node |-> node, formats |-> f,
                         name |-> IF "name" \in strings THEN found[node]
                                 ELSE None,
                         id |-> IF "id" \in strings THEN node ELSE None])
           /\ IF f = UsableOf(found[node]) THEN UNCHANGED past ELSE Refuse
  /\ node' = node + 1
  /\ UNCHANGED <<world, pc, entry>>

-----------------------------------------------------------------------------
(***************************************************************************)
(* Cameras come and go.  To AVFoundation's list it makes no difference.    *)
(***************************************************************************)
Disturb(n, camera) ==
  /\ at' = [at EXCEPT ![n] = camera]
  /\ disturbed' = IF backend = "v4l2" THEN disturbed \cup {n} ELSE disturbed
  /\ UNCHANGED <<backend, found, pc, node, name, next, formats, list, heap,
                 refused>>

Unplug(n) ==
  /\ at[n] # None
  /\ fd' = IF node = n /\ fd # None THEN "gone" ELSE fd
  /\ Disturb(n, None)

Plug(n, camera) ==
  /\ at[n] = None /\ \A m \in Nodes : at[m] # camera
  /\ Disturb(n, camera)
  /\ UNCHANGED fd

Caller == Enumerate \/ Listed \/ EnumerateReturnsErr \/ DropList

V4l2Steps ==
  \/ ProbeFails \/ Probe \/ QueryCap \/ QueryFails
  \/ V4l2NoMemory \/ Alloc \/ OpenNode \/ OpenNodeFails
  \/ EnumFormat \/ EnumSizesFail \/ EnumEnds \/ EnumNoMemory \/ AppendFormats

AvfSteps == AvfArray \/ AvfNoDevice \/ AvfNoMemory \/ AvfDevice

Next ==
  \/ Caller \/ V4l2Steps \/ AvfSteps
  \/ \E n \in Nodes : Unplug(n) \/ \E camera \in Cameras : Plug(n, camera)

Spec == Init /\ [][Next]_vars

-----------------------------------------------------------------------------
(***************************************************************************)
(* What the user sees of a device: name() is an error for a NULL name.     *)
(***************************************************************************)
NameOf(device) == IF device.name = None THEN "NullPointer" ELSE device.name

BadFormatsOf(device) == {f \in device.formats : f[2] # Formats}

(* format_count entries, each by its index. *)
FormatsOf(device) == device.formats

(* A node that has had one camera all the time is listed at most once,     *)
(* under that camera's name and with no format but that camera's; a node   *)
(* that was empty is not.  If no call about it has failed the camera is    *)
(* listed, with all its formats.  (A failing ioctl cuts the list of        *)
(* formats short and is not reported, issues/0044.)  V4L2 opens each node  *)
(* twice: where the camera has changed the name may be that of another     *)
(* camera than the formats, but the formats are those of one camera.       *)
ListIsFaithful ==
  pc = "listed" =>
    /\ \A n \in Nodes \ disturbed, i \in DOMAIN list :
         list[i].node = n =>
           /\ found[n] # None
           /\ NameOf(list[i]) \in {found[n], "NullPointer"}
           /\ FormatsOf(list[i]) \subseteq UsableOf(found[n])
    /\ \A n \in Nodes \ (disturbed \cup refused) :
         found[n] # None =>
           \E i \in DOMAIN list :
             list[i].node = n /\ FormatsOf(list[i]) = UsableOf(found[n])
    /\ \A i, j \in DOMAIN list : i < j => list[i].node < list[j].node
    /\ \A i \in DOMAIN list :
         Cardinality({f[1] : f \in FormatsOf(list[i])}) <= 1

(* Every block and every descriptor is given back: by the enumeration that *)
(* fails, and by Drop.  What a V4L2 enumeration without memory does leave  *)
(* is the formats of the devices before, exactly (issues/0045).            *)
NothingLeaks ==
  LET allocated == {b \in Blocks : heap[b] > 0}
  IN  /\ pc = "idle" => allocated = {}
      /\ pc = "failed" =>
           allocated = IF backend = "avf" THEN {} ELSE Arrays
      /\ fd # None => pc \in {"query", "enum"}
=============================================================================
