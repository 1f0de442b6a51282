------------------------- MODULE DeviceListingProofs -------------------------
(***************************************************************************)
(* Proofs about DeviceListing for any cameras, nodes and formats: the      *)
(* inductive invariant and the safety properties it implies.               *)
(***************************************************************************)
EXTENDS DeviceListing, SequenceTheorems, FiniteSetTheorems, TLAPS

Kinds == {"device", "name", "id", "formats"}
Array == <<"array", 0>>

(* The last device of the list has no formats yet. *)
Filling == pc \in {"open", "enum", "append"}

Progress ==
  /\ pc \in {"query", "alloc"} \/ Filling =>
       backend = "v4l2" /\ node <= NumNodes
  /\ pc = "alloc" => name # None
  /\ ~Filling \/ pc = "open" => formats = {}
  /\ fd # None <=> pc \in {"query", "enum"}
  /\ pc = "idle" => list = <<>>
  /\ pc = "listed" => node > NumNodes

(* The devices are those of nodes gone through, in order. *)
Ordered ==
  /\ \A i, j \in DOMAIN list : i < j => list[i].node < list[j].node
  /\ ~Filling => Len(list) < node /\ \A i \in DOMAIN list : list[i].node < node
  /\ Filling => /\ list # <<>> /\ Len(list) <= node
                /\ list[Len(list)].node = node /\ list[Len(list)].formats = {}

(* The block that the i-th device, or the loop that collects its formats,  *)
(* points to.                                                              *)
Owns(kind, i) ==
  /\ i \in DOMAIN list
  /\ kind = "name" => list[i].name # None
  /\ kind = "id" => list[i].id # None
  /\ kind = "formats" => list[i].formats # {} \/ (i = Len(list) /\ formats # {})

(* What is allocated, block by block.  What a failure has freed depends on *)
(* the backend: V4L2's leaves the formats behind.                          *)
Allocated(kind, i) ==
  /\ Owns(kind, i)
  /\ pc # "idle"
  /\ pc = "failed" => backend = "v4l2" /\ kind = "formats"

Accounted ==
  /\ pc \in {"idle", "failed"} => heap[Array] = 0
  /\ pc \notin {"idle", "failed"} /\ list # <<>> => heap[Array] = 1
  /\ \A kind \in Kinds, i \in Nodes :
       heap[<<kind, i>>] = IF Allocated(kind, i) THEN 1 ELSE 0

(* A node that is not disturbed has had one camera all the time. *)
Undisturbed == backend = "v4l2" => \A n \in Nodes \ disturbed : at[n] = found[n]

(* The formats are those of one camera. *)
OneCamera(set) == \A f, g \in set : f[1] = g[1]

(* Node n has been gone through.  What is listed for it is its camera, and  *)
(* without a failed call the camera is listed with all it has.              *)
Done(n) ==
  /\ \A i \in DOMAIN list :
       list[i].node = n => /\ found[n] # None
                           /\ list[i].name \in {found[n], None}
                           /\ list[i].formats \subseteq UsableOf(found[n])
  /\ n \notin refused /\ found[n] # None =>
       \E i \in DOMAIN list :
         list[i].node = n /\ list[i].formats = UsableOf(found[n])

Behind ==
  pc \notin {"idle", "failed"} =>
    \A n \in Nodes \ disturbed : n < node => Done(n)

(* The formats of the node at hand that have been collected, of all there   *)
(* are to collect by now.                                                   *)
Collected(all) == formats \subseteq all /\ (node \notin refused => formats = all)

(* The node that the enumeration is at. *)
Here ==
  /\ node \notin disturbed =>
       /\ pc = "query" => fd = found[node]
       /\ pc = "alloc" => name = found[node]
       /\ Filling => /\ found[node] # None
                     /\ list[Len(list)].name \in {found[node], None}
       /\ pc = "enum" => /\ fd = found[node]
                         /\ Collected({fd} \X (Usable \cap 1 .. next - 1))
       /\ pc = "append" => Collected(UsableOf(found[node]))
  /\ fd \in Cameras => \A f \in formats : f[1] = fd
  /\ OneCamera(formats)
  /\ \A i \in DOMAIN list : OneCamera(list[i].formats)

IndInv ==
  /\ TypeOK /\ Progress /\ Ordered /\ Accounted /\ Undisturbed /\ Behind /\ Here

-----------------------------------------------------------------------------
LEMMA Pairs ==
  \A k, l, i, j : <<k, i>> = <<l, j>> <=> k = l /\ i = j
OBVIOUS

LEMMA PairsOf ==
  ASSUME NEW S, NEW i, NEW k, NEW j
  PROVE  <<k, j>> \in {<<l, i>> : l \in S} <=> k \in S /\ j = i
BY Pairs

(* The blocks are the array and those of the devices.                       *)
LEMMA BlockCases ==
  /\ Array \in Blocks
  /\ \A kind \in Kinds, i \in Nodes : <<kind, i>> \in Blocks /\ <<kind, i>> # Array
  /\ \A b \in Blocks : b = Array \/ \E kind \in Kinds, i \in Nodes : b = <<kind, i>>
<1>1. \A kind \in Kinds, i \in Nodes : <<kind, i>> \in Blocks /\ <<kind, i>> # Array
  BY Pairs DEF Blocks, Kinds, Array
<1>2. \A b \in Blocks : b = Array \/ \E kind \in Kinds, i \in Nodes : b = <<kind, i>>
  BY DEF Blocks, Kinds, Array
<1> QED
  BY <1>1, <1>2 DEF Blocks, Array

LEMMA ZeroOrOne ==
  ASSUME NEW h, h[Array] \in 0 .. 1,
         \A kind \in Kinds, i \in Nodes : h[<<kind, i>>] \in {0, 1}
  PROVE  \A b \in Blocks : h[b] \in 0 .. 1
BY BlockCases

(* The blocks to free.                                                      *)
LEMMA InStrings ==
  /\ Array \in Strings <=> heap[Array] > 0
  /\ \A kind \in Kinds : \A i :
       <<kind, i>> \in Strings <=>
         /\ kind # "formats" /\ i \in DOMAIN list
         /\ kind = "name" => list[i].name # None
         /\ kind = "id" => list[i].id # None
<1>1. Array \in Strings <=> heap[Array] > 0
  BY Pairs DEF Strings, Array
<1>2. ASSUME NEW i
      PROVE  /\ <<"device", i>> \in Strings <=> i \in DOMAIN list
             /\ <<"name", i>> \in Strings <=> i \in DOMAIN list /\ list[i].name # None
             /\ <<"id", i>> \in Strings <=> i \in DOMAIN list /\ list[i].id # None
             /\ <<"formats", i>> \notin Strings
  <2>1. \A k \in Kinds : <<k, i>> # <<"array", 0>>
    BY Pairs DEF Kinds
  <2>2. <<"device", i>> \in Strings <=> i \in DOMAIN list
    BY <2>1, Pairs DEF Strings, Kinds
  <2>3. <<"name", i>> \in Strings <=> i \in DOMAIN list /\ list[i].name # None
    BY <2>1, Pairs DEF Strings, Kinds
  <2>4. <<"id", i>> \in Strings <=> i \in DOMAIN list /\ list[i].id # None
    BY <2>1, Pairs DEF Strings, Kinds
  <2>5. <<"formats", i>> \notin Strings
    BY <2>1, Pairs DEF Strings, Kinds
  <2> QED
    BY <2>2, <2>3, <2>4, <2>5
<1> QED
  BY <1>1, <1>2 DEF Kinds

LEMMA InArrays ==
  /\ Array \notin Arrays
  /\ \A kind \in Kinds : \A i :
       <<kind, i>> \in Arrays <=>
         kind = "formats" /\ i \in DOMAIN list /\ list[i].formats # {}
<1>1. Array \notin Arrays
  BY Pairs DEF Arrays, Array
<1>2. ASSUME NEW kind \in Kinds, NEW i
      PROVE  <<kind, i>> \in Arrays <=>
               kind = "formats" /\ i \in DOMAIN list /\ list[i].formats # {}
  BY Pairs DEF Arrays
<1> QED
  BY <1>1, <1>2

(* Sequences of devices.                                                    *)
LEMMA ListTypes ==
  ASSUME TypeOK
  PROVE  /\ list \in Seq(Entry) /\ Len(list) \in Nat /\ DOMAIN list = 1 .. Len(list)
         /\ Len(list) <= NumNodes /\ NumNodes \in Nat /\ node \in Nat /\ node >= 1
         /\ DOMAIN list \subseteq Nodes /\ Nodes \subseteq Nat
         /\ list # <<>> => Len(list) >= 1 /\ Len(list) \in DOMAIN list
         /\ \A i \in DOMAIN list :
              /\ list[i] \in Entry /\ list[i].node \in Nodes
              /\ list[i].name \in Cameras \cup {None}
              /\ list[i].id \in Nodes \cup {None}
              /\ list[i].formats \subseteq Cameras \X (1 .. Formats)
<1>1. list \in Seq(Entry) /\ Len(list) <= NumNodes /\ NumNodes \in Nat
      /\ node \in 1 .. NumNodes + 1
  BY ListingAssumption DEF TypeOK
<1>2. /\ Len(list) \in Nat /\ DOMAIN list = 1 .. Len(list)
      /\ \A i \in DOMAIN list : list[i] \in Entry
  BY <1>1, LenProperties, ElementOfSeq
<1>3. list # <<>> => Len(list) >= 1 /\ Len(list) \in DOMAIN list
  BY <1>1, <1>2, EmptySeq
<1>4. \A i \in DOMAIN list :
        /\ list[i].node \in Nodes
        /\ list[i].name \in Cameras \cup {None}
        /\ list[i].id \in Nodes \cup {None}
        /\ list[i].formats \subseteq Cameras \X (1 .. Formats)
  BY <1>2 DEF Entry
<1> QED
  BY <1>1, <1>2, <1>3, <1>4 DEF Nodes

LEMMA InitIndInv == Init => IndInv
<1> SUFFICES ASSUME Init PROVE IndInv
  OBVIOUS
<1> USE ListingAssumption DEF Init
<1>1. TypeOK
  <2>1. list \in Seq(Entry) /\ Len(list) = 0
    BY EmptySeq
  <2>2. {at, found} \subseteq [Nodes -> Cameras \cup {None}]
    BY DEF Placements
  <2>3. heap \in [Blocks -> 0 .. 1]
    OBVIOUS
  <2>4. 1 \in 1 .. NumNodes + 1 /\ 1 \in 1 .. Formats + 1
    OBVIOUS
  <2> QED
    BY <2>1, <2>2, <2>3, <2>4 DEF TypeOK
<1>2. Progress
  BY DEF Progress, Filling
<1>3. Ordered
  BY DEF Ordered, Filling
<1>4. Accounted
  BY BlockCases DEF Accounted, Allocated
<1>5. Undisturbed
  BY DEF Undisturbed
<1>6. Behind /\ Here
  BY DEF Behind, Here, OneCamera, Filling
<1> QED
  BY <1>1, <1>2, <1>3, <1>4, <1>5, <1>6 DEF IndInv

LEMMA Unchanged ==
  ASSUME IndInv, UNCHANGED vars
  PROVE  IndInv'
<1> USE DEF vars, world, entry, past, IndInv
<1>1. TypeOK' /\ Progress' /\ Ordered'
  BY DEF TypeOK, Progress, Ordered, Filling
<1>2. Accounted' /\ Undisturbed'
  BY DEF Accounted, Allocated, Owns, Undisturbed
<1>3. Behind'
  BY DEF Behind, Done
<1>4. Here'
  BY DEF Here, Collected, Filling, OneCamera
<1> QED
  BY <1>1, <1>2, <1>3, <1>4

-----------------------------------------------------------------------------
(* FfiDeviceListImpl::enumerate starts.                                     *)
LEMMA Starts ==
  ASSUME IndInv, Enumerate
  PROVE  IndInv'
<1> USE DEF Enumerate, Goes, entry, IndInv
<1>1. formats = {} /\ fd = None
  BY DEF Progress, Filling
<1>2. TypeOK'
  <2>1. list' \in Seq(Entry) /\ Len(list') = 0 /\ 0 <= NumNodes
    BY EmptySeq, ListingAssumption
  <2>2. 1 \in 1 .. NumNodes + 1
    BY ListingAssumption
  <2> QED
    BY <2>1, <2>2 DEF TypeOK
<1>3. Progress'
  BY <1>1 DEF Progress, Filling
<1>4. Ordered'
  BY DEF Ordered, Filling
<1>5. Accounted'
  BY DEF Accounted, Allocated, Owns
<1>6. Undisturbed'
  BY DEF Undisturbed
<1>7. Behind'
  BY DEF Behind, Nodes
<1>8. Here'
  BY <1>1, ListingAssumption DEF Here, OneCamera, Filling
<1> QED
  BY <1>2, <1>3, <1>4, <1>5, <1>6, <1>7, <1>8

(* It returns a list.                                                       *)
LEMMA Returns ==
  ASSUME IndInv, Listed
  PROVE  IndInv'
<1> USE DEF Listed, Goes, entry, world, past, IndInv
<1>1. TypeOK' /\ Progress' /\ Ordered'
  BY DEF TypeOK, Progress, Ordered, Filling
<1>2. Accounted' /\ Undisturbed'
  BY DEF Accounted, Allocated, Owns, Undisturbed
<1>3. Behind'
  BY DEF Behind, Done
<1>4. Here'
  BY DEF Here, Collected, Filling, OneCamera
<1> QED
  BY <1>1, <1>2, <1>3, <1>4

(* It returns an error.                                                     *)
LEMMA ReturnsErr ==
  ASSUME IndInv, EnumerateReturnsErr
  PROVE  IndInv'
<1> USE DEF EnumerateReturnsErr, Goes, entry, world, past, IndInv
<1>1. formats = {} /\ fd = None
  BY DEF Progress, Filling
<1>2. TypeOK'
  <2>1. list' \in Seq(Entry) /\ Len(list') = 0 /\ 0 <= NumNodes
    BY EmptySeq, ListingAssumption
  <2> QED
    BY <2>1 DEF TypeOK
<1>3. Progress'
  BY <1>1 DEF Progress, Filling
<1>4. Ordered'
  BY ListTypes DEF Ordered, Filling
<1>5. Accounted'
  BY BlockCases DEF Accounted, Allocated
<1>6. Undisturbed' /\ Behind'
  BY DEF Undisturbed, Behind
<1>7. Here'
  BY <1>1 DEF Here, OneCamera, Filling
<1> QED
  BY <1>2, <1>3, <1>4, <1>5, <1>6, <1>7

(* Freeing what the list points to frees everything.                        *)
LEMMA FreesAll ==
  ASSUME IndInv, pc \notin {"idle", "failed"}, formats = {},
         heap' = Without(Strings \cup Arrays)
  PROVE  \A b \in Blocks : heap'[b] = 0
<1> USE DEF IndInv
<1>1. heap'[Array] = 0
  <2>1. heap[Array] \in 0 .. 1
    BY BlockCases DEF TypeOK
  <2> QED
    BY <2>1, BlockCases, InStrings, InArrays DEF Without
<1>2. ASSUME NEW kind \in Kinds, NEW i \in Nodes PROVE heap'[<<kind, i>>] = 0
  <2>1. Allocated(kind, i) <=> <<kind, i>> \in Strings \cup Arrays
    BY InStrings, InArrays DEF Allocated, Owns, Kinds
  <2>2. heap[<<kind, i>>] = IF Allocated(kind, i) THEN 1 ELSE 0
    BY DEF Accounted
  <2>3. heap'[<<kind, i>>] =
          heap[<<kind, i>>] - (IF <<kind, i>> \in Strings \cup Arrays THEN 1 ELSE 0)
    BY BlockCases DEF Without
  <2> QED
    BY <2>1, <2>2, <2>3
<1> QED
  BY <1>1, <1>2, BlockCases

(* The list is dropped: every block it has is given back.                   *)
LEMMA Drops ==
  ASSUME IndInv, DropList
  PROVE  IndInv'
<1> USE DEF DropList, Goes, entry, world, past, IndInv
<1>1. formats = {} /\ fd = None
  BY DEF Progress, Filling
<1>2. \A b \in Blocks : heap'[b] = 0
  BY <1>1, FreesAll
<1>3. TypeOK'
  <2>1. list' \in Seq(Entry) /\ Len(list') = 0 /\ 0 <= NumNodes
    BY EmptySeq, ListingAssumption
  <2>2. heap' \in [Blocks -> 0 .. 1]
    BY <1>2 DEF Without
  <2> QED
    BY <2>1, <2>2 DEF TypeOK
<1>4. Progress'
  BY <1>1 DEF Progress, Filling
<1>5. Ordered'
  BY ListTypes DEF Ordered, Filling
<1>6. Accounted'
  BY <1>2, BlockCases DEF Accounted, Allocated
<1>7. Undisturbed' /\ Behind'
  BY DEF Undisturbed, Behind
<1>8. Here'
  BY <1>1 DEF Here, OneCamera, Filling
<1> QED
  BY <1>3, <1>4, <1>5, <1>6, <1>7, <1>8

-----------------------------------------------------------------------------
(* Cameras come and go: on V4L2 that disturbs their nodes.                  *)
LEMMA Disturbs ==
  ASSUME IndInv, NEW n \in Nodes, NEW camera \in Cameras \cup {None},
         Disturb(n, camera),
         fd' = IF camera = None /\ node = n /\ fd # None THEN "gone" ELSE fd
  PROVE  IndInv'
<1> USE DEF Disturb, IndInv
<1>1. at' \in [Nodes -> Cameras \cup {None}] /\ disturbed \subseteq disturbed'
      /\ \A m \in Nodes \ {n} : at'[m] = at[m]
  BY DEF TypeOK
<1>2. TypeOK'
  BY <1>1 DEF TypeOK
<1>3. Progress'
  BY ListingAssumption DEF Progress, Filling
<1>4. Ordered'
  BY DEF Ordered, Filling
<1>5. Accounted'
  BY DEF Accounted, Allocated, Owns
<1>6. Undisturbed'
  BY <1>1 DEF Undisturbed
<1>7. Behind'
  BY <1>1 DEF Behind, Done
<1>8. Here'
  <2>1. fd' # fd => fd' \notin Cameras /\ node \in disturbed'
    <3>1. fd' # fd => pc \in {"query", "enum"} /\ node = n /\ fd' = "gone"
      BY DEF Progress
    <3>2. pc \in {"query", "enum"} => backend = "v4l2"
      BY DEF Progress, Filling
    <3> QED
      BY <3>1, <3>2, ListingAssumption
  <2>2. node \notin disturbed' =>
          /\ pc = "query" => fd' = found[node]
          /\ pc = "alloc" => name = found[node]
          /\ Filling => /\ found[node] # None
                        /\ list[Len(list)].name \in {found[node], None}
          /\ pc = "enum" => /\ fd' = found[node]
                            /\ Collected({fd'} \X (Usable \cap 1 .. next - 1))
          /\ pc = "append" => Collected(UsableOf(found[node]))
    BY <1>1, <2>1 DEF Here
  <2>3. fd' \in Cameras => \A f \in formats : f[1] = fd'
    BY <2>1 DEF Here
  <2> QED
    BY <2>2, <2>3 DEF Here, Collected, OneCamera, Filling, UsableOf
<1> QED
  BY <1>2, <1>3, <1>4, <1>5, <1>6, <1>7, <1>8

-----------------------------------------------------------------------------
(* A node that is passed over is not in the list.                           *)
LEMMA DonePassed ==
  ASSUME IndInv, ~Filling, pc \notin {"idle", "failed"}, UNCHANGED <<list, found>>,
         refused \subseteq refused', disturbed' = disturbed, node \in Nodes,
         node \in disturbed \/ node \in refused' \/ found[node] = None
  PROVE  \A n \in Nodes \ disturbed' : n < node + 1 => Done(n)'
<1> USE DEF IndInv
<1> SUFFICES ASSUME NEW n \in Nodes \ disturbed', n < node + 1 PROVE Done(n)'
  OBVIOUS
<1>1. CASE n < node
  <2>1. Done(n)
    BY <1>1 DEF Behind
  <2> QED
    BY <2>1 DEF Done, UsableOf
<1>2. CASE n = node
  <2>1. \A i \in DOMAIN list : list[i].node # node
    <3>1. \A i \in DOMAIN list : list[i].node < node
      BY DEF Ordered
    <3> QED
      BY <3>1, ListTypes
  <2> QED
    BY <1>2, <2>1 DEF Done
<1>3. n < node \/ n = node
  BY ListTypes DEF Nodes
<1> QED
  BY <1>1, <1>2, <1>3

(* A node that cannot be opened is passed over, and so is one that does not *)
(* tell its capabilities.                                                   *)
LEMMA PassesOver ==
  ASSUME IndInv, ProbeFails \/ QueryFails
  PROVE  IndInv'
<1> USE DEF V4l2, Goes, entry, world, past, Refuse, IndInv
<1>1. /\ node \in Nodes /\ node' = node + 1 /\ node \in Nat /\ fd' = None
      /\ pc \in {"probe", "query"} /\ pc' = "probe" /\ backend = "v4l2"
      /\ UNCHANGED <<world, name, next, formats, list, heap, disturbed>>
      /\ refused \subseteq refused' /\ refused' \subseteq refused \cup {node}
      /\ at[node] = None \/ node \in refused'
  <2>1. node \in Nodes /\ node \in Nat /\ backend = "v4l2"
    BY ListTypes DEF Nodes, ProbeFails, QueryFails
  <2>2. CASE ProbeFails
    BY <2>1, <2>2 DEF ProbeFails, Progress
  <2>3. CASE QueryFails
    BY <2>1, <2>3 DEF QueryFails
  <2> QED
    BY <2>2, <2>3
<1>2. TypeOK'
  BY <1>1, ListTypes DEF TypeOK, Nodes
<1>3. Progress'
  BY <1>1 DEF Progress, Filling
<1>4. Ordered'
  <2>1. Len(list) < node /\ \A i \in DOMAIN list : list[i].node < node
    BY <1>1 DEF Ordered, Filling
  <2>2. Len(list) < node + 1 /\ \A i \in DOMAIN list : list[i].node < node + 1
    BY <1>1, <2>1, ListTypes DEF Nodes
  <2>3. \A i, j \in DOMAIN list : i < j => list[i].node < list[j].node
    BY DEF Ordered
  <2> QED
    BY <1>1, <2>2, <2>3 DEF Ordered, Filling
<1>5. Accounted'
  BY <1>1 DEF Accounted, Allocated, Owns
<1>6. Undisturbed'
  BY <1>1 DEF Undisturbed
<1>7. Behind'
  <2>1. node \in disturbed \/ node \in refused' \/ found[node] = None
    BY <1>1 DEF Undisturbed
  <2>2. ~Filling
    BY <1>1 DEF Filling
  <2> QED
    BY <1>1, <2>1, <2>2, DonePassed DEF Behind
<1>8. Here'
  BY <1>1, ListingAssumption DEF Here, Filling, OneCamera, Progress
<1> QED
  BY <1>2, <1>3, <1>4, <1>5, <1>6, <1>7, <1>8

(* A node with a camera is opened.                                          *)
LEMMA Probes ==
  ASSUME IndInv, Probe
  PROVE  IndInv'
<1> USE DEF Probe, Goes, V4l2, world, past, IndInv
<1>1. at[node] \in Cameras /\ at[node] # None /\ node \in Nodes /\ formats = {}
  BY ListTypes DEF TypeOK, Nodes, Progress, Filling
<1>2. TypeOK'
  BY <1>1 DEF TypeOK
<1>3. Progress'
  BY <1>1 DEF Progress, Filling
<1>4. Ordered'
  BY DEF Ordered, Filling
<1>5. Accounted'
  BY DEF Accounted, Allocated, Owns
<1>6. Undisturbed'
  BY DEF Undisturbed
<1>7. Behind'
  BY DEF Behind, Done
<1>8. Here'
  BY <1>1 DEF Here, Filling, OneCamera, Undisturbed
<1> QED
  BY <1>2, <1>3, <1>4, <1>5, <1>6, <1>7, <1>8

(* The capabilities of the camera behind the descriptor are read.           *)
LEMMA Queries ==
  ASSUME IndInv, QueryCap
  PROVE  IndInv'
<1> USE DEF QueryCap, Goes, V4l2, world, past, IndInv
<1>1. fd \in Cameras /\ fd # None /\ node \in Nodes /\ formats = {}
  BY ListTypes, ListingAssumption DEF TypeOK, Nodes, Progress, Filling
<1>2. TypeOK'
  BY <1>1 DEF TypeOK
<1>3. Progress'
  BY <1>1 DEF Progress, Filling
<1>4. Ordered'
  BY DEF Ordered, Filling
<1>5. Accounted'
  BY DEF Accounted, Allocated, Owns
<1>6. Undisturbed'
  BY DEF Undisturbed
<1>7. Behind'
  BY DEF Behind, Done
<1>8. Here'
  BY <1>1, ListingAssumption DEF Here, Filling, OneCamera
<1> QED
  BY <1>2, <1>3, <1>4, <1>5, <1>6, <1>7, <1>8

(* There is no memory for it: all but the formats is given back.            *)
LEMMA RunsOut ==
  ASSUME IndInv, V4l2NoMemory
  PROVE  IndInv'
<1> USE DEF V4l2NoMemory, Goes, V4l2, entry, world, past, IndInv
<1>1. formats = {} /\ fd = None
  BY DEF Progress, Filling
<1>2. heap'[Array] = 0
  <2>1. heap[Array] \in 0 .. 1
    BY BlockCases DEF TypeOK
  <2> QED
    BY <2>1, BlockCases, InStrings DEF Without
<1>3. ASSUME NEW kind \in Kinds, NEW i \in Nodes
      PROVE  heap'[<<kind, i>>] = IF Allocated(kind, i)' THEN 1 ELSE 0
  <2>1. /\ Allocated(kind, i) <=> Owns(kind, i)
        /\ Allocated(kind, i)' <=> Owns(kind, i) /\ kind = "formats"
    BY DEF Allocated, Owns
  <2>2. <<kind, i>> \in Strings <=> Owns(kind, i) /\ kind # "formats"
    BY InStrings DEF Owns, Kinds
  <2>3. heap[<<kind, i>>] = IF Allocated(kind, i) THEN 1 ELSE 0
    BY DEF Accounted
  <2>4. heap'[<<kind, i>>] =
          heap[<<kind, i>>] - (IF <<kind, i>> \in Strings THEN 1 ELSE 0)
    BY BlockCases DEF Without
  <2> QED
    BY <2>1, <2>2, <2>3, <2>4
<1>4. TypeOK'
  <2>1. \A b \in Blocks : heap'[b] \in 0 .. 1
    BY <1>2, <1>3, BlockCases
  <2>2. heap' \in [Blocks -> 0 .. 1]
    BY <2>1 DEF Without
  <2> QED
    BY <2>2 DEF TypeOK
<1>5. Progress'
  BY <1>1 DEF Progress, Filling
<1>6. Ordered'
  BY DEF Ordered, Filling
<1>7. Accounted'
  BY <1>2, <1>3 DEF Accounted
<1>8. Undisturbed' /\ Behind'
  BY DEF Undisturbed, Behind
<1>9. Here'
  BY <1>1 DEF Here, Filling, OneCamera
<1> QED
  BY <1>4, <1>5, <1>6, <1>7, <1>8, <1>9

(* A device at the end of the list, and the blocks it needs.                *)
LEMMA Appends ==
  ASSUME IndInv, node <= NumNodes, ~Filling, NEW d \in Entry, d.node = node,
         list' = Append(list, d)
  PROVE  /\ list' \in Seq(Entry) /\ Len(list') = Len(list) + 1
         /\ Len(list') <= node /\ Len(list') <= NumNodes
         /\ Len(list) + 1 \in Nodes
         /\ DOMAIN list' = DOMAIN list \cup {Len(list) + 1}
         /\ Len(list) + 1 \notin DOMAIN list
         /\ \A i \in DOMAIN list : list'[i] = list[i] /\ list[i].node < node
         /\ list'[Len(list) + 1] = d
         /\ \A i, j \in DOMAIN list' : i < j => list'[i].node < list'[j].node
         /\ \A n \in Nodes :
              n < node /\ Done(n) /\ found' = found /\ refused \subseteq refused' =>
                Done(n)'
<1> USE DEF IndInv
<1>1. /\ list \in Seq(Entry) /\ Len(list) \in Nat /\ DOMAIN list = 1 .. Len(list)
      /\ Len(list) < node /\ node \in Nat /\ NumNodes \in Nat
      /\ \A i \in DOMAIN list : list[i].node < node /\ list[i].node \in Nat
  BY ListTypes DEF Ordered
<1>2. /\ list' \in Seq(Entry) /\ Len(list') = Len(list) + 1
      /\ DOMAIN list' = 1 .. Len(list) + 1
      /\ \A i \in DOMAIN list : list'[i] = list[i]
      /\ list'[Len(list) + 1] = d
  BY <1>1, AppendProperties, LenProperties
<1>3. DOMAIN list' = DOMAIN list \cup {Len(list) + 1} /\ Len(list) + 1 \notin DOMAIN list
  BY <1>1, <1>2
<1>4. ASSUME NEW i \in DOMAIN list', NEW j \in DOMAIN list', i < j
      PROVE  list'[i].node < list'[j].node
  <2>1. i \in DOMAIN list
    BY <1>1, <1>2, <1>4
  <2>2. CASE j \in DOMAIN list
    BY <1>2, <1>4, <2>1, <2>2 DEF Ordered
  <2>3. CASE j = Len(list) + 1
    BY <1>1, <1>2, <2>1, <2>3
  <2> QED
    BY <1>3, <2>2, <2>3
<1>5. ASSUME NEW n \in Nodes, n < node, Done(n), found' = found,
             refused \subseteq refused'
      PROVE  Done(n)'
  <2>1. list'[Len(list) + 1].node # n
    BY <1>1, <1>2, <1>5, ListTypes
  <2>2. \A i \in DOMAIN list' : list'[i].node = n =>
          /\ found[n] # None
          /\ list'[i].name \in {found[n], None}
          /\ list'[i].formats \subseteq UsableOf(found[n])
    BY <1>2, <1>3, <1>5, <2>1 DEF Done
  <2>3. ASSUME n \notin refused', found[n] # None
        PROVE  \E i \in DOMAIN list' :
                 list'[i].node = n /\ list'[i].formats = UsableOf(found[n])
    <3>1. PICK i \in DOMAIN list :
            list[i].node = n /\ list[i].formats = UsableOf(found[n])
      BY <1>5, <2>3 DEF Done
    <3>2. i \in DOMAIN list' /\ list'[i] = list[i]
      BY <1>2, <1>3
    <3> QED
      BY <3>1, <3>2
  <2> QED
    BY <1>5, <2>2, <2>3 DEF Done, UsableOf
<1> QED
  BY <1>1, <1>2, <1>3, <1>4, <1>5 DEF Nodes

(* The device is allocated, without formats.                                *)
LEMMA Allocates ==
  ASSUME IndInv, Alloc
  PROVE  IndInv'
<1> USE DEF Alloc, Goes, V4l2, entry, world, past, IndInv
<1>1. formats = {} /\ fd = None /\ name \in Cameras /\ ~Filling /\ node \in Nodes
  BY ListTypes DEF Progress, Filling, TypeOK, Nodes
<1>2. PICK strings \in SUBSET {"name", "id"} :
        /\ heap' = [With({<<k, Len(list) + 1>> : k \in strings \cup {"device"}})
                      EXCEPT ![Array] = 1]
        /\ list' = Append(list,
                     [node |-> node, formats |-> {},
                      name |-> IF "name" \in strings THEN name ELSE None,
                      id |-> IF "id" \in strings THEN node ELSE None])
  BY DEF Array
<1> DEFINE d == [node |-> node, formats |-> {},
                 name |-> IF "name" \in strings THEN name ELSE None,
                 id |-> IF "id" \in strings THEN node ELSE None]
<1>3. /\ d \in Entry /\ d.node = node /\ d.formats = {}
      /\ d.name = (IF "name" \in strings THEN name ELSE None)
      /\ d.id = (IF "id" \in strings THEN node ELSE None)
  BY <1>1 DEF Entry
<1>4. list' = Append(list, d)
  BY <1>2
<1> HIDE DEF d
<1>5. /\ list' \in Seq(Entry) /\ Len(list') = Len(list) + 1
      /\ Len(list') <= node /\ Len(list') <= NumNodes /\ Len(list) + 1 \in Nodes
      /\ DOMAIN list' = DOMAIN list \cup {Len(list) + 1}
      /\ Len(list) + 1 \notin DOMAIN list
      /\ \A i \in DOMAIN list : list'[i] = list[i] /\ list[i].node < node
      /\ list'[Len(list) + 1] = d
      /\ \A i, j \in DOMAIN list' : i < j => list'[i].node < list'[j].node
      /\ \A n \in Nodes :
           n < node /\ Done(n) /\ found' = found /\ refused \subseteq refused' =>
             Done(n)'
  BY <1>1, <1>3, <1>4, Appends
<1>6. list' # <<>> /\ list'[Len(list')] = d
  BY <1>5
<1>7. Filling' /\ pc' = "open"
  BY DEF Filling
<1>8. heap'[Array] = 1
  BY <1>2, BlockCases DEF With
<1>9. ASSUME NEW kind \in Kinds, NEW i \in Nodes
      PROVE  heap'[<<kind, i>>] = IF Allocated(kind, i)' THEN 1 ELSE 0
  <2> DEFINE New == {<<k, Len(list) + 1>> : k \in strings \cup {"device"}}
  <2>1. heap'[<<kind, i>>] = heap[<<kind, i>>] + (IF <<kind, i>> \in New THEN 1 ELSE 0)
    BY <1>2, BlockCases DEF With
  <2>2. <<kind, i>> \in New <=> i = Len(list) + 1 /\ kind \in strings \cup {"device"}
    BY PairsOf
  <2> HIDE DEF New
  <2>3. heap[<<kind, i>>] = IF Allocated(kind, i) THEN 1 ELSE 0
    BY DEF Accounted
  <2>4. CASE i \in DOMAIN list
    <3>1. Allocated(kind, i)' <=> Allocated(kind, i)
      BY <1>1, <1>5, <2>4 DEF Allocated, Owns
    <3> QED
      BY <1>5, <2>1, <2>2, <2>3, <2>4, <3>1
  <2>5. CASE i = Len(list) + 1
    <3>1. ~Allocated(kind, i)
      BY <1>5, <2>5 DEF Allocated, Owns
    <3>2. Allocated(kind, i)' <=> kind \in strings \cup {"device"}
      <4>1. node # None /\ name # None
        BY <1>1, ListingAssumption DEF Nodes
      <4>2. Allocated(kind, i)' <=>
              /\ kind = "name" => d.name # None
              /\ kind = "id" => d.id # None
              /\ kind = "formats" => FALSE
        BY <1>1, <1>3, <1>5, <2>5 DEF Allocated, Owns
      <4> QED
        BY <1>3, <4>1, <4>2 DEF Kinds
    <3> QED
      BY <2>1, <2>2, <2>3, <2>5, <3>1, <3>2
  <2>6. CASE i \notin DOMAIN list /\ i # Len(list) + 1
    <3>1. ~Allocated(kind, i) /\ ~Allocated(kind, i)'
      BY <1>5, <2>6 DEF Allocated, Owns
    <3> QED
      BY <2>1, <2>2, <2>3, <2>6, <3>1
  <2> QED
    BY <2>4, <2>5, <2>6
<1>10. TypeOK'
  <2>1. \A b \in Blocks : heap'[b] \in 0 .. 1
    BY <1>8, <1>9, BlockCases
  <2>2. heap' \in [Blocks -> 0 .. 1]
    BY <1>2, <2>1 DEF With
  <2> QED
    BY <1>5, <2>2 DEF TypeOK
<1>11. Progress'
  BY <1>1 DEF Progress, Filling
<1>12. Ordered'
  BY <1>3, <1>5, <1>6, <1>7 DEF Ordered
<1>13. Accounted'
  BY <1>7, <1>8, <1>9 DEF Accounted
<1>14. Undisturbed'
  BY DEF Undisturbed
<1>15. Behind'
  BY <1>5 DEF Behind, Filling
<1>16. Here'
  <2>1. OneCamera({})
    BY DEF OneCamera
  <2>2. \A i \in DOMAIN list' : OneCamera(list'[i].formats)
    BY <1>3, <1>5, <2>1 DEF Here
  <2>3. node \notin disturbed => found[node] # None /\ d.name \in {found[node], None}
    BY <1>1, <1>3 DEF Here, Progress
  <2> QED
    BY <1>1, <1>6, <1>7, <2>1, <2>2, <2>3, ListingAssumption DEF Here, OneCamera
<1> QED
  BY <1>10, <1>11, <1>12, <1>13, <1>14, <1>15, <1>16

(* The node is opened anew for the formats.                                 *)
LEMMA Opens ==
  ASSUME IndInv, OpenNode
  PROVE  IndInv'
<1> USE DEF OpenNode, Goes, V4l2, world, past, IndInv
<1>1. at[node] \in Cameras /\ node \in Nodes /\ Filling /\ Filling'
  BY ListTypes DEF TypeOK, Nodes, Filling
<1>2. at[node] # None /\ formats = {}
  BY DEF Progress
<1>3. TypeOK'
  BY <1>1, ListingAssumption DEF TypeOK
<1>4. Progress'
  BY <1>1, <1>2 DEF Progress
<1>5. Ordered'
  BY <1>1 DEF Ordered
<1>6. Accounted'
  BY <1>2 DEF Accounted, Allocated, Owns
<1>7. Undisturbed'
  BY DEF Undisturbed
<1>8. Behind'
  BY DEF Behind, Done
<1>9. Here'
  <2>1. Usable \cap 1 .. next' - 1 = {}
    OBVIOUS
  <2>2. Collected({fd} \X (Usable \cap 1 .. next - 1))'
    BY <2>1 DEF Collected
  <2>3. node \notin disturbed => fd' = found[node]
    BY <1>1 DEF Undisturbed
  <2> QED
    BY <1>1, <2>2, <2>3 DEF Here, OneCamera
<1> QED
  BY <1>3, <1>4, <1>5, <1>6, <1>7, <1>8, <1>9

(* It cannot be opened.                                                     *)
LEMMA OpensNot ==
  ASSUME IndInv, OpenNodeFails
  PROVE  IndInv'
<1> USE DEF OpenNodeFails, Refuse, Goes, V4l2, world, IndInv
<1>1. node \in Nodes /\ Filling /\ Filling'
  BY ListTypes DEF Nodes, Filling
<1>2. fd = None /\ formats = {}
  BY DEF Progress
<1>3. TypeOK'
  BY <1>1, <1>2 DEF TypeOK
<1>4. Progress'
  BY <1>1, <1>2 DEF Progress
<1>5. Ordered'
  BY <1>1 DEF Ordered
<1>6. Accounted'
  BY <1>2 DEF Accounted, Allocated, Owns
<1>7. Undisturbed'
  BY DEF Undisturbed
<1>8. Behind'
  BY DEF Behind, Done, UsableOf
<1>9. Here'
  BY <1>1, <1>2, ListingAssumption DEF Here, Collected, OneCamera
<1> QED
  BY <1>3, <1>4, <1>5, <1>6, <1>7, <1>8, <1>9

(* What is found of a format is collected: nothing where a call fails, and  *)
(* the first that is known needs a block.                                   *)
LEMMA Collects ==
  ASSUME IndInv, V4l2, pc = "enum", fd \in Cameras, next <= Formats,
         NEW set \in SUBSET ({fd} \X (Usable \cap {next})), Collect(set),
         set = {fd} \X (Usable \cap {next}) \/ node \in refused',
         UNCHANGED <<world, pc, node, fd, name, list, disturbed>>,
         refused \subseteq refused', refused' \subseteq refused \cup {node}
  PROVE  IndInv'
<1> USE DEF Collect, V4l2, world, IndInv
<1>1. /\ node \in Nodes /\ Filling /\ Filling' /\ pc' = pc
      /\ next \in 1 .. Formats /\ Formats \in Nat /\ Usable \subseteq 1 .. Formats
  BY ListTypes, ListingAssumption DEF Nodes, Filling, TypeOK
<1>2. list # <<>> /\ Len(list) \in DOMAIN list /\ list[Len(list)].formats = {}
      /\ Len(list) \in Nodes
  BY <1>1, ListTypes DEF Ordered
<1>3. heap'[Array] = heap[Array] /\ heap[Array] \in 0 .. 1
  <2>1. Array # <<"formats", Len(list)>>
    BY <1>2, BlockCases DEF Kinds
  <2> QED
    BY <2>1, BlockCases DEF With, TypeOK
<1>4. ASSUME NEW kind \in Kinds, NEW i \in Nodes
      PROVE  heap'[<<kind, i>>] = IF Allocated(kind, i)' THEN 1 ELSE 0
  <2>1. heap[<<kind, i>>] = IF Allocated(kind, i) THEN 1 ELSE 0
    BY DEF Accounted
  <2>2. <<kind, i>> = <<"formats", Len(list)>> <=> kind = "formats" /\ i = Len(list)
    BY Pairs
  <2>3. CASE formats = {} /\ set # {}
    <3>1. heap'[<<kind, i>>] =
            heap[<<kind, i>>] + (IF <<kind, i>> = <<"formats", Len(list)>> THEN 1 ELSE 0)
      BY <2>3, BlockCases DEF With
    <3>2. kind = "formats" /\ i = Len(list) =>
            ~Allocated(kind, i) /\ Allocated(kind, i)'
      BY <1>2, <2>3 DEF Allocated, Owns
    <3>3. ~(kind = "formats" /\ i = Len(list)) =>
            (Allocated(kind, i)' <=> Allocated(kind, i))
      BY DEF Allocated, Owns
    <3> QED
      BY <2>1, <2>2, <3>1, <3>2, <3>3
  <2>4. CASE ~(formats = {} /\ set # {})
    <3>1. heap' = heap /\ (formats' = {} <=> formats = {})
      BY <2>4
    <3>2. Allocated(kind, i)' <=> Allocated(kind, i)
      BY <3>1 DEF Allocated, Owns
    <3> QED
      BY <2>1, <3>1, <3>2
  <2> QED
    BY <2>3, <2>4
<1>5. TypeOK'
  <2>1. \A b \in Blocks : heap'[b] \in 0 .. 1
    <3>1. \A kind \in Kinds, i \in Nodes : heap'[<<kind, i>>] \in {0, 1}
      BY <1>4
    <3>2. heap'[Array] \in 0 .. 1
      BY <1>3
    <3> QED
      BY <3>1, <3>2, ZeroOrOne
  <2>2. heap' \in [Blocks -> 0 .. 1]
    BY <2>1 DEF With, TypeOK
  <2>3. next' \in 1 .. Formats + 1
    BY <1>1
  <2>4. formats' \subseteq Cameras \X (1 .. Formats)
    BY <1>1 DEF TypeOK
  <2>5. refused' \subseteq Nodes
    BY <1>1 DEF TypeOK
  <2> QED
    BY <2>2, <2>3, <2>4, <2>5 DEF TypeOK
<1>6. Progress'
  BY <1>1 DEF Progress
<1>7. Ordered'
  BY <1>1 DEF Ordered
<1>8. Accounted'
  BY <1>3, <1>4 DEF Accounted, Progress
<1>9. Undisturbed'
  BY DEF Undisturbed
<1>10. Behind'
  BY DEF Behind, Done, UsableOf
<1>11. Here'
  <2>1. \A f \in formats' : f[1] = fd
    BY DEF Here
  <2> DEFINE Before == {fd} \X (Usable \cap 1 .. next - 1)
             All    == {fd} \X (Usable \cap 1 .. next)
  <2>3. All = Before \cup {fd} \X (Usable \cap {next})
    BY <1>1
  <2>4. node \notin disturbed => fd = found[node] /\ Collected(Before)
    BY DEF Here
  <2> HIDE DEF Before, All
  <2>5. node \notin disturbed =>
          formats' \subseteq All /\ (node \notin refused' => formats' = All)
    BY <2>3, <2>4 DEF Collected
  <2>6. All = {fd'} \X (Usable \cap 1 .. next' - 1)
    <3>1. next' - 1 = next
      BY <1>1
    <3> QED
      BY <3>1 DEF All
  <2>7. node \notin disturbed =>
          found[node] # None /\ list[Len(list)].name \in {found[node], None}
    BY <1>1 DEF Here
  <2> QED
    BY <1>1, <2>1, <2>4, <2>5, <2>6, <2>7 DEF Here, Collected, OneCamera, UsableOf
<1> QED
  BY <1>5, <1>6, <1>7, <1>8, <1>9, <1>10, <1>11

(* A format with its sizes, and one whose sizes cannot all be asked for.    *)
LEMMA CollectsAll ==
  ASSUME IndInv, EnumFormat
  PROVE  IndInv'
BY Collects DEF EnumFormat, past

LEMMA CollectsSome ==
  ASSUME IndInv, EnumSizesFail
  PROVE  IndInv'
<1> USE DEF EnumSizesFail, Refuse
<1>1. PICK set \in SUBSET {<<fd, next>>} : Collect(set)
  OBVIOUS
<1>2. {<<fd, next>>} = {fd} \X (Usable \cap {next})
  OBVIOUS
<1>3. next <= Formats
  BY ListingAssumption
<1> QED
  BY <1>1, <1>2, <1>3, Collects

(* All formats are there, or ENUM_FMT has failed.                           *)
LEMMA Ends ==
  ASSUME IndInv, EnumEnds
  PROVE  IndInv'
<1> USE DEF EnumEnds, Refuse, Goes, V4l2, world, past, IndInv
<1>1. /\ node \in Nodes /\ Filling /\ Filling'
      /\ next \in 1 .. Formats + 1 /\ Formats \in Nat /\ Usable \subseteq 1 .. Formats
  BY ListTypes, ListingAssumption DEF Nodes, Filling, TypeOK
<1>2. /\ refused \subseteq refused' /\ refused' \subseteq Nodes
      /\ disturbed' = disturbed
      /\ next > Formats \/ node \in refused'
  BY <1>1 DEF TypeOK
<1>3. TypeOK'
  BY <1>2 DEF TypeOK
<1>4. Progress'
  BY <1>1 DEF Progress
<1>5. Ordered'
  BY <1>1 DEF Ordered
<1>6. Accounted'
  BY DEF Accounted, Allocated, Owns
<1>7. Undisturbed'
  BY <1>2 DEF Undisturbed
<1>8. Behind'
  BY <1>2 DEF Behind, Done, UsableOf
<1>9. Here'
  <2>1. ASSUME node \notin disturbed
        PROVE  /\ found[node] # None
               /\ list[Len(list)].name \in {found[node], None}
               /\ formats \subseteq UsableOf(found[node])
               /\ node \notin refused' => formats = UsableOf(found[node])
    <3>1. /\ fd = found[node] /\ found[node] # None
          /\ list[Len(list)].name \in {found[node], None}
          /\ Collected({fd} \X (Usable \cap 1 .. next - 1))
      BY <1>1, <2>1 DEF Here
    <3>2. formats \subseteq UsableOf(found[node])
      BY <3>1 DEF UsableOf, Collected
    <3>3. ASSUME node \notin refused' PROVE formats = UsableOf(found[node])
      <4>1. next = Formats + 1
        BY <1>1, <1>2, <3>3
      <4>2. Usable \cap 1 .. next - 1 = Usable
        <5>1. next - 1 = Formats
          BY <1>1, <4>1
        <5> QED
          BY <1>1, <5>1
      <4>3. node \notin refused
        BY <1>2, <3>3
      <4> QED
        BY <3>1, <4>2, <4>3 DEF UsableOf, Collected
    <3> QED
      BY <3>1, <3>2, <3>3
  <2> QED
    BY <1>1, <1>2, <2>1, ListingAssumption DEF Here, Collected, OneCamera, UsableOf
<1> QED
  BY <1>3, <1>4, <1>5, <1>6, <1>7, <1>8, <1>9

(* There is no memory for a format: those before it are given back.         *)
LEMMA EndsShort ==
  ASSUME IndInv, EnumNoMemory
  PROVE  IndInv'
<1> USE DEF EnumNoMemory, Refuse, Goes, V4l2, world, IndInv
<1>1. node \in Nodes /\ Filling /\ Filling'
  BY ListTypes DEF Nodes, Filling
<1>2. list # <<>> /\ Len(list) \in DOMAIN list /\ list[Len(list)].formats = {}
      /\ Len(list) \in Nodes
  BY <1>1, ListTypes DEF Ordered
<1>3. heap'[Array] = heap[Array] /\ heap[Array] \in 0 .. 1
  <2>1. Array # <<"formats", Len(list)>>
    BY <1>2, BlockCases DEF Kinds
  <2> QED
    BY <2>1, BlockCases DEF Without, TypeOK
<1>4. ASSUME NEW kind \in Kinds, NEW i \in Nodes
      PROVE  heap'[<<kind, i>>] = IF Allocated(kind, i)' THEN 1 ELSE 0
  <2>1. heap[<<kind, i>>] = IF Allocated(kind, i) THEN 1 ELSE 0
    BY DEF Accounted
  <2>2. <<kind, i>> = <<"formats", Len(list)>> <=> kind = "formats" /\ i = Len(list)
    BY Pairs
  <2>3. kind = "formats" /\ i = Len(list) =>
          (Allocated(kind, i) <=> formats # {}) /\ ~Allocated(kind, i)'
    BY <1>2 DEF Allocated, Owns
  <2>4. ~(kind = "formats" /\ i = Len(list)) =>
          (Allocated(kind, i)' <=> Allocated(kind, i))
    BY DEF Allocated, Owns
  <2>5. formats # {} =>
          heap'[<<kind, i>>] =
            heap[<<kind, i>>] - (IF <<kind, i>> = <<"formats", Len(list)>> THEN 1 ELSE 0)
    BY BlockCases DEF Without
  <2> QED
    BY <2>1, <2>2, <2>3, <2>4, <2>5
<1>5. TypeOK'
  <2>1. \A b \in Blocks : heap'[b] \in 0 .. 1
    <3>1. \A kind \in Kinds, i \in Nodes : heap'[<<kind, i>>] \in {0, 1}
      BY <1>4
    <3>2. heap'[Array] \in 0 .. 1
      BY <1>3
    <3> QED
      BY <3>1, <3>2, ZeroOrOne
  <2>2. heap' \in [Blocks -> 0 .. 1]
    BY <2>1 DEF Without, TypeOK
  <2> QED
    BY <1>1, <2>2 DEF TypeOK
<1>6. Progress'
  BY <1>1 DEF Progress
<1>7. Ordered'
  BY <1>1 DEF Ordered
<1>8. Accounted'
  BY <1>3, <1>4 DEF Accounted
<1>9. Undisturbed'
  BY DEF Undisturbed
<1>10. Behind'
  BY DEF Behind, Done, UsableOf
<1>11. Here'
  BY <1>1, ListingAssumption DEF Here, Collected, OneCamera
<1> QED
  BY <1>5, <1>6, <1>7, <1>8, <1>9, <1>10, <1>11

(* The formats are put in the list.                                         *)
LEMMA Fills ==
  ASSUME IndInv, AppendFormats
  PROVE  IndInv'
<1> USE DEF AppendFormats, Goes, V4l2, world, past, IndInv
<1>1. /\ node \in Nodes /\ Filling /\ ~Filling' /\ fd = None
      /\ node' = node + 1 /\ node \in Nat /\ NumNodes \in Nat
  BY ListTypes DEF Nodes, Filling, Progress
<1>2. /\ list # <<>> /\ Len(list) \in DOMAIN list /\ list[Len(list)].formats = {}
      /\ Len(list) \in Nodes /\ Len(list) <= node /\ list[Len(list)].node = node
      /\ DOMAIN list = 1 .. Len(list) /\ Len(list) \in Nat
  BY <1>1, ListTypes DEF Ordered
<1>3. \A i \in DOMAIN list :
        /\ list'[i] \in Entry
        /\ list'[i].node = list[i].node /\ list'[i].name = list[i].name
        /\ list'[i].id = list[i].id
        /\ list'[i].formats = IF i = Len(list) THEN formats ELSE list[i].formats
  <2>1. formats \subseteq Cameras \X (1 .. Formats)
    BY DEF TypeOK
  <2> QED
    BY <1>2, <2>1, ListTypes DEF Entry
<1>4. list' \in Seq(Entry) /\ Len(list') = Len(list) /\ DOMAIN list' = DOMAIN list
  <2>1. list \in Seq(Entry) /\ list' = [list EXCEPT ![Len(list)] =
                                          [list[Len(list)] EXCEPT !.formats = formats]]
    BY ListTypes
  <2>2. [list[Len(list)] EXCEPT !.formats = formats] \in Entry
    BY <1>2, <1>3, <2>1
  <2> QED
    BY <1>2, <2>1, <2>2, ExceptSeq
<1>5. \A i, j \in DOMAIN list : i < j => list[i].node < list[j].node
  BY DEF Ordered
<1>6. \A i \in DOMAIN list : i # Len(list) => list[i].node < node
  BY <1>2, <1>5
<1>7. TypeOK'
  <2>1. node' \in 1 .. NumNodes + 1
    BY <1>1 DEF Nodes
  <2>2. 1 \in 1 .. Formats + 1
    BY ListingAssumption
  <2> QED
    BY <1>4, <2>1, <2>2 DEF TypeOK
<1>8. Progress'
  BY <1>1 DEF Progress
<1>9. Ordered'
  <2>1. Len(list') < node'
    BY <1>1, <1>2, <1>4
  <2>2. \A i \in DOMAIN list' : list'[i].node < node'
    BY <1>1, <1>2, <1>3, <1>4, <1>6, ListTypes DEF Nodes
  <2>3. \A i, j \in DOMAIN list' : i < j => list'[i].node < list'[j].node
    BY <1>3, <1>4, <1>5
  <2> QED
    BY <1>1, <2>1, <2>2, <2>3 DEF Ordered
<1>10. Accounted'
  <2>1. ASSUME NEW kind \in Kinds, NEW i \in Nodes
        PROVE  Allocated(kind, i)' <=> Allocated(kind, i)
    BY <1>2, <1>3, <1>4 DEF Allocated, Owns
  <2> QED
    BY <2>1 DEF Accounted
<1>11. Undisturbed'
  BY DEF Undisturbed
<1>12. Behind'
  <2>1. ASSUME NEW n \in Nodes \ disturbed, n < node
        PROVE  Done(n)'
    <3>1. Done(n) /\ n # node /\ n \in Nat
      BY <1>1, <2>1 DEF Behind, Filling, Nodes
    <3>2. \A i \in DOMAIN list : list[i].node = n => i # Len(list)
      BY <1>2, <3>1
    <3>3. \A i \in DOMAIN list' : list'[i].node = n =>
            /\ found[n] # None
            /\ list'[i].name \in {found[n], None}
            /\ list'[i].formats \subseteq UsableOf(found[n])
      BY <1>3, <1>4, <3>1, <3>2 DEF Done
    <3>4. ASSUME n \notin refused, found[n] # None
          PROVE  \E i \in DOMAIN list' :
                   list'[i].node = n /\ list'[i].formats = UsableOf(found[n])
      <4>1. PICK i \in DOMAIN list :
              list[i].node = n /\ list[i].formats = UsableOf(found[n])
        BY <3>1, <3>4 DEF Done
      <4> QED
        BY <1>3, <1>4, <3>2, <4>1
    <3> QED
      BY <3>3, <3>4 DEF Done, UsableOf
  <2>2. ASSUME NEW n \in Nodes \ disturbed, n = node PROVE Done(n)'
    <3>1. /\ found[n] # None /\ list[Len(list)].name \in {found[n], None}
          /\ formats \subseteq UsableOf(found[n])
          /\ n \notin refused => formats = UsableOf(found[n])
      BY <1>1, <2>2 DEF Here, Collected
    <3>2. \A i \in DOMAIN list : list[i].node = n => i = Len(list)
      <4> TAKE i \in DOMAIN list
      <4>1. list[i].node \in Nat
        BY ListTypes
      <4> QED
        BY <1>1, <1>6, <2>2, <4>1
    <3>3. /\ Len(list) \in DOMAIN list' /\ list'[Len(list)].node = n
          /\ list'[Len(list)].formats = formats
          /\ list'[Len(list)].name = list[Len(list)].name
      BY <1>2, <1>3, <1>4, <2>2
    <3>4. \A i \in DOMAIN list' : list'[i].node = n => i = Len(list)
      BY <1>3, <1>4, <3>2
    <3> QED
      BY <3>1, <3>3, <3>4 DEF Done, UsableOf
  <2>3. \A n \in Nodes : n < node' <=> n < node \/ n = node
    BY <1>1 DEF Nodes
  <2>4. ASSUME NEW n \in Nodes \ disturbed', n < node' PROVE Done(n)'
    <3>1. CASE n = node
      BY <2>2, <2>4, <3>1
    <3>2. CASE n < node
      BY <2>1, <2>4, <3>2
    <3> QED
      BY <2>3, <2>4, <3>1, <3>2
  <2> QED
    BY <2>4 DEF Behind
<1>13. Here'
  <2>1. \A i \in DOMAIN list' : OneCamera(list'[i].formats)
    BY <1>3, <1>4 DEF Here
  <2> QED
    BY <1>1, <2>1, ListingAssumption DEF Here, OneCamera, Filling
<1> QED
  BY <1>7, <1>8, <1>9, <1>10, <1>11, <1>12, <1>13

-----------------------------------------------------------------------------
(* AVFoundation allocates its array first, if there is a device.            *)
LEMMA AvfStarts ==
  ASSUME IndInv, AvfArray
  PROVE  IndInv'
<1> USE DEF AvfArray, Avf, entry, world, past, IndInv
<1>1. heap[Array] = 0 /\ pc = "probe" /\ list = <<>> /\ formats = {} /\ fd = None
  BY DEF Accounted, Array, Progress, Filling
<1>2. \/ heap' = With({Array}) /\ pc' = "probe"
      \/ heap' = heap /\ pc' = "failed"
  BY DEF Array
<1>3. /\ heap'[Array] = IF pc' = "probe" THEN 1 ELSE 0
      /\ \A kind \in Kinds, i \in Nodes : heap'[<<kind, i>>] = heap[<<kind, i>>]
  <2>1. \A kind \in Kinds, i \in Nodes :
          <<kind, i>> \in Blocks /\ <<kind, i>> \notin {Array}
    BY BlockCases
  <2>2. CASE heap' = With({Array}) /\ pc' = "probe"
    <3>1. heap'[Array] = heap[Array] + 1
      BY <2>2, BlockCases DEF With
    <3>2. \A kind \in Kinds, i \in Nodes : heap[<<kind, i>>] \in 0 .. 1
      BY <2>1 DEF TypeOK
    <3>3. ASSUME NEW kind \in Kinds, NEW i \in Nodes
          PROVE  heap'[<<kind, i>>] = heap[<<kind, i>>]
      <4>1. heap'[<<kind, i>>] = heap[<<kind, i>>] + 0
        BY <2>1, <2>2 DEF With
      <4> QED
        BY <3>2, <4>1
    <3>4. heap'[Array] = 1
      BY <1>1, <3>1
    <3> QED
      BY <2>2, <3>3, <3>4
  <2>3. CASE heap' = heap /\ pc' = "failed"
    BY <1>1, <2>3
  <2> QED
    BY <1>2, <2>2, <2>3
<1>4. ASSUME NEW kind \in Kinds, NEW i \in Nodes
      PROVE  heap'[<<kind, i>>] = 0 /\ ~Allocated(kind, i)'
  <2>1. ~Allocated(kind, i) /\ ~Allocated(kind, i)'
    BY <1>1 DEF Allocated, Owns
  <2> QED
    BY <1>3, <2>1 DEF Accounted
<1>5. TypeOK'
  <2>1. \A b \in Blocks : heap'[b] \in 0 .. 1
    BY <1>3, <1>4, ZeroOrOne
  <2>2. heap' \in [Blocks -> 0 .. 1]
    BY <1>2, <2>1 DEF With, TypeOK
  <2> QED
    BY <1>2, <2>2 DEF TypeOK
<1>6. Progress' /\ Ordered'
  BY <1>2 DEF Progress, Ordered, Filling
<1>7. Accounted'
  BY <1>1, <1>2, <1>3, <1>4 DEF Accounted
<1>8. Undisturbed'
  BY DEF Undisturbed
<1>9. Behind'
  BY <1>1 DEF Behind, Done
<1>10. Here'
  BY <1>1, <1>2 DEF Here, Filling, OneCamera
<1> QED
  BY <1>5, <1>6, <1>7, <1>8, <1>9, <1>10

(* A place without a device.                                                *)
LEMMA AvfPasses ==
  ASSUME IndInv, AvfNoDevice
  PROVE  IndInv'
<1> USE DEF AvfNoDevice, Avf, entry, world, past, IndInv
<1>1. node \in Nodes /\ node' = node + 1 /\ node \in Nat /\ ~Filling /\ fd = None
  BY ListTypes DEF Nodes, Filling, Progress
<1>2. TypeOK'
  BY <1>1, ListTypes DEF TypeOK, Nodes
<1>3. Progress'
  BY DEF Progress, Filling
<1>4. Ordered'
  BY <1>1, ListTypes DEF Ordered, Filling, Nodes
<1>5. Accounted'
  BY DEF Accounted, Allocated, Owns
<1>6. Undisturbed'
  BY DEF Undisturbed
<1>7. Behind'
  BY <1>1, DonePassed DEF Behind
<1>8. Here'
  BY <1>1, ListingAssumption DEF Here, Filling, OneCamera
<1> QED
  BY <1>2, <1>3, <1>4, <1>5, <1>6, <1>7, <1>8

(* There is no memory for a device: everything is given back.               *)
LEMMA AvfRunsOut ==
  ASSUME IndInv, AvfNoMemory
  PROVE  IndInv'
<1> USE DEF AvfNoMemory, Avf, entry, world, past, IndInv
<1>1. formats = {} /\ fd = None /\ pc = "probe" /\ pc' = "failed"
  BY DEF Progress, Filling
<1>2. \A b \in Blocks : heap'[b] = 0
  BY <1>1, FreesAll
<1>3. TypeOK'
  <2>1. heap' \in [Blocks -> 0 .. 1]
    BY <1>2 DEF Without
  <2> QED
    BY <2>1 DEF TypeOK
<1>4. Progress' /\ Ordered'
  BY <1>1 DEF Progress, Ordered, Filling
<1>5. Accounted'
  BY <1>1, <1>2, BlockCases DEF Accounted, Allocated
<1>6. Undisturbed' /\ Behind'
  BY DEF Undisturbed, Behind
<1>7. Here'
  BY <1>1 DEF Here, OneCamera, Filling
<1> QED
  BY <1>3, <1>4, <1>5, <1>6, <1>7

(* A device with the formats it has, or without any.                        *)
LEMMA AvfAppends ==
  ASSUME IndInv, AvfDevice
  PROVE  IndInv'
<1> USE DEF AvfDevice, Refuse, Avf, entry, world, past, IndInv
<1>1. /\ formats = {} /\ fd = None /\ ~Filling /\ ~Filling' /\ node \in Nodes
      /\ node \in Nat /\ node' = node + 1 /\ found[node] \in Cameras
      /\ heap[Array] = 1 /\ pc = "probe"
  BY ListTypes DEF Progress, Filling, TypeOK, Nodes, Array
<1>2. PICK strings \in SUBSET {"name", "id"}, f \in {{}, UsableOf(found[node])} :
        /\ heap' = With({<<kind, Len(list) + 1>> :
                          kind \in {"device"} \cup strings
                                     \cup (IF f = {} THEN {} ELSE {"formats"})})
        /\ list' = Append(list,
                     [node |-> node, formats |-> f,
                      name |-> IF "name" \in strings THEN found[node] ELSE None,
                      id |-> IF "id" \in strings THEN node ELSE None])
        /\ disturbed' = disturbed
        /\ refused' = IF f = UsableOf(found[node]) THEN refused ELSE refused \cup {node}
  OBVIOUS
<1> DEFINE d == [node |-> node, formats |-> f,
                 name |-> IF "name" \in strings THEN found[node] ELSE None,
                 id |-> IF "id" \in strings THEN node ELSE None]
           new == {"device"} \cup strings \cup (IF f = {} THEN {} ELSE {"formats"})
           blocks == {<<kind, Len(list) + 1>> : kind \in new}
<1>3. /\ d \in Entry /\ d.node = node /\ d.formats = f
      /\ d.name = (IF "name" \in strings THEN found[node] ELSE None)
      /\ d.id = (IF "id" \in strings THEN node ELSE None)
  <2>1. f \subseteq Cameras \X (1 .. Formats)
    BY <1>1, ListingAssumption DEF UsableOf
  <2> QED
    BY <1>1, <2>1 DEF Entry
<1>4. list' = Append(list, d) /\ heap' = With(blocks)
  BY <1>2
<1>5. \A kind \in Kinds : kind \in new <=>
        /\ kind = "name" => "name" \in strings
        /\ kind = "id" => "id" \in strings
        /\ kind = "formats" => f # {}
  BY DEF Kinds
<1> HIDE DEF d, new
<1>6. /\ list' \in Seq(Entry) /\ Len(list') = Len(list) + 1
      /\ Len(list') <= node /\ Len(list') <= NumNodes /\ Len(list) + 1 \in Nodes
      /\ DOMAIN list' = DOMAIN list \cup {Len(list) + 1}
      /\ Len(list) + 1 \notin DOMAIN list
      /\ \A i \in DOMAIN list : list'[i] = list[i] /\ list[i].node < node
      /\ list'[Len(list) + 1] = d
      /\ \A i, j \in DOMAIN list' : i < j => list'[i].node < list'[j].node
      /\ \A n \in Nodes :
           n < node /\ Done(n) /\ found' = found /\ refused \subseteq refused' =>
             Done(n)'
  BY <1>1, <1>3, <1>4, Appends
<1>7. \A kind \in Kinds, i \in Nodes :
        <<kind, i>> \in blocks <=> kind \in new /\ i = Len(list) + 1
  BY PairsOf
<1>8. Array \notin blocks
  <2>1. \A i : <<"array", 0>> \notin {<<kind, i>> : kind \in new}
    <3>1. "array" \notin new
      BY DEF new
    <3> QED
      BY <3>1, PairsOf
  <2> QED
    BY <2>1 DEF Array
<1> HIDE DEF blocks
<1>9. heap'[Array] = 1
  BY <1>1, <1>4, <1>8, BlockCases DEF With
<1>10. ASSUME NEW kind \in Kinds, NEW i \in Nodes
       PROVE  heap'[<<kind, i>>] = IF Allocated(kind, i)' THEN 1 ELSE 0
  <2>1. heap'[<<kind, i>>] =
          heap[<<kind, i>>] + (IF <<kind, i>> \in blocks THEN 1 ELSE 0)
    BY <1>4, BlockCases DEF With
  <2>2. heap[<<kind, i>>] = IF Allocated(kind, i) THEN 1 ELSE 0
    BY DEF Accounted
  <2>3. CASE i \in DOMAIN list
    <3>1. Allocated(kind, i)' <=> Allocated(kind, i)
      BY <1>1, <1>6, <2>3 DEF Allocated, Owns
    <3> QED
      BY <1>6, <1>7, <2>1, <2>2, <2>3, <3>1
  <2>4. CASE i = Len(list) + 1
    <3>1. ~Allocated(kind, i)
      BY <1>6, <2>4 DEF Allocated, Owns
    <3>2. Allocated(kind, i)' <=> kind \in new
      <4>1. node # None /\ found[node] # None
        BY <1>1, ListingAssumption DEF Nodes
      <4>2. Allocated(kind, i)' <=>
              /\ kind = "name" => d.name # None
              /\ kind = "id" => d.id # None
              /\ kind = "formats" => d.formats # {}
        BY <1>1, <1>6, <2>4 DEF Allocated, Owns
      <4> QED
        BY <1>3, <1>5, <4>1, <4>2
    <3> QED
      BY <1>7, <2>1, <2>2, <2>4, <3>1, <3>2
  <2>5. CASE i \notin DOMAIN list /\ i # Len(list) + 1
    <3>1. ~Allocated(kind, i) /\ ~Allocated(kind, i)'
      BY <1>6, <2>5 DEF Allocated, Owns
    <3> QED
      BY <1>7, <2>1, <2>2, <2>5, <3>1
  <2> QED
    BY <2>3, <2>4, <2>5
<1>11. TypeOK'
  <2>1. \A b \in Blocks : heap'[b] \in 0 .. 1
    BY <1>9, <1>10, ZeroOrOne
  <2>2. heap' \in [Blocks -> 0 .. 1]
    BY <1>4, <2>1 DEF With
  <2>3. node' \in 1 .. NumNodes + 1
    BY <1>1, ListingAssumption
  <2>4. disturbed' \subseteq Nodes /\ refused' \subseteq Nodes
    BY <1>1, <1>2 DEF TypeOK
  <2> QED
    BY <1>6, <2>2, <2>3, <2>4 DEF TypeOK
<1>12. Progress'
  BY <1>1 DEF Progress
<1>13. Ordered'
  <2>1. \A i \in DOMAIN list' : list'[i].node < node'
    <3>1. \A i \in DOMAIN list : list'[i].node < node'
      <4> TAKE i \in DOMAIN list
      <4>1. list'[i] = list[i] /\ list[i].node < node
        BY <1>6
      <4>2. list[i].node \in Nat
        BY ListTypes
      <4> QED
        BY <1>1, <4>1, <4>2
    <3>2. list'[Len(list) + 1].node < node'
      BY <1>1, <1>3, <1>6
    <3> QED
      BY <1>6, <3>1, <3>2
  <2>2. Len(list') < node'
    BY <1>1, <1>6, ListTypes
  <2> QED
    BY <1>1, <1>6, <2>1, <2>2 DEF Ordered
<1>14. Accounted'
  BY <1>1, <1>9, <1>10 DEF Accounted
<1>15. Undisturbed'
  BY DEF Undisturbed
<1>16. Behind'
  <2>1. \A n \in Nodes : n < node' <=> n < node \/ n = node
    BY <1>1 DEF Nodes
  <2>2. ASSUME NEW n \in Nodes \ disturbed', n < node' PROVE Done(n)'
    <3>1. CASE n = node
      <4>1. /\ found[n] # None /\ d.name \in {found[n], None}
            /\ d.formats \subseteq UsableOf(found[n])
            /\ n \notin refused' => d.formats = UsableOf(found[n])
        BY <1>2, <1>3, <3>1
      <4>2. \A i \in DOMAIN list' : list'[i].node = n => i = Len(list) + 1
        <5>1. \A i \in DOMAIN list : list'[i].node # n
          BY <1>6, <3>1, ListTypes
        <5> QED
          BY <1>6, <5>1
      <4> QED
        BY <1>3, <1>6, <3>1, <4>1, <4>2 DEF Done, UsableOf
    <3>2. CASE n < node
      <4>1. refused \subseteq refused' /\ Done(n)
        BY <1>1, <1>2, <2>2, <3>2 DEF Behind
      <4> QED
        BY <1>6, <2>2, <3>2, <4>1
    <3> QED
      BY <2>1, <2>2, <3>1, <3>2
  <2> QED
    BY <2>2 DEF Behind
<1>17. Here'
  <2>1. OneCamera(f)
    BY <1>2 DEF OneCamera, UsableOf
  <2>2. \A i \in DOMAIN list' : OneCamera(list'[i].formats)
    BY <1>3, <1>6, <2>1 DEF Here
  <2> QED
    BY <1>1, <2>2, ListingAssumption DEF Here, OneCamera, Filling
<1> QED
  BY <1>11, <1>12, <1>13, <1>14, <1>15, <1>16, <1>17

-----------------------------------------------------------------------------
LEMMA NextIndInv ==
  ASSUME IndInv, [Next]_vars
  PROVE  IndInv'
<1>1. CASE Caller
  BY <1>1, Starts, Returns, ReturnsErr, Drops DEF Caller
<1>2. CASE ProbeFails \/ Probe \/ QueryCap \/ QueryFails \/ V4l2NoMemory \/ Alloc
  BY <1>2, PassesOver, Probes, Queries, RunsOut, Allocates
<1>3. CASE OpenNode \/ OpenNodeFails
  BY <1>3, Opens, OpensNot
<1>4. CASE \/ EnumFormat \/ EnumSizesFail \/ EnumEnds \/ EnumNoMemory
           \/ AppendFormats
  BY <1>4, CollectsAll, CollectsSome, Ends, EndsShort, Fills
<1>5. CASE AvfSteps
  BY <1>5, AvfStarts, AvfPasses, AvfRunsOut, AvfAppends DEF AvfSteps
<1>6. ASSUME NEW n \in Nodes, Unplug(n)
      PROVE  IndInv'
  BY <1>6, Disturbs DEF Unplug
<1>7. ASSUME NEW n \in Nodes, NEW camera \in Cameras, Plug(n, camera)
      PROVE  IndInv'
  BY <1>7, Disturbs, ListingAssumption DEF Plug
<1>8. CASE UNCHANGED vars
  BY <1>8, Unchanged
<1> QED
  BY <1>1, <1>2, <1>3, <1>4, <1>5, <1>6, <1>7, <1>8 DEF Next, V4l2Steps

(* The inductive invariant holds in every behaviour, for both backends,     *)
(* whichever ioctl or allocation fails and whenever cameras come and go.    *)
THEOREM Invariance == Spec => []IndInv
<1>1. Init => IndInv
  BY InitIndInv
<1>2. IndInv /\ [Next]_vars => IndInv'
  BY NextIndInv
<1> QED
  BY <1>1, <1>2, PTL DEF Spec

(* Every variable keeps its type: in particular no block is freed twice and *)
(* the list never outgrows the nodes looked at.                             *)
THEOREM TypeCorrect == Spec => []TypeOK
<1>1. IndInv => TypeOK
  BY DEF IndInv
<1> QED
  BY <1>1, Invariance, PTL

(* The cameras of some formats of one camera are one.                       *)
LEMMA AtMostOne ==
  ASSUME NEW set, OneCamera(set)
  PROVE  Cardinality({f[1] : f \in set}) <= 1
<1>1. CASE set = {}
  <2>1. {f[1] : f \in set} = {}
    BY <1>1
  <2> QED
    BY <2>1, FS_EmptySet
<1>2. CASE set # {}
  <2>1. PICK g \in set : TRUE
    BY <1>2
  <2>2. {f[1] : f \in set} = {g[1]}
    BY <2>1 DEF OneCamera
  <2>3. Cardinality({g[1]}) = 1
    BY FS_Singleton
  <2> QED
    BY <2>2, <2>3
<1> QED
  BY <1>1, <1>2

(* What VideoDeviceList::enumerate lists for a node that has had one camera *)
(* all the time is that camera: under its own name (or none), once, in the  *)
(* nodes' order, with formats that are all its own.  If no call about it    *)
(* has failed it is listed, with every format it has.  Where the camera has *)
(* changed between the two times its node is opened the formats are still   *)
(* those of one camera; the name may be another's.                          *)
THEOREM Faithful == Spec => []ListIsFaithful
<1>1. IndInv => ListIsFaithful
  <2> SUFFICES ASSUME IndInv, pc = "listed" PROVE ListIsFaithful
    BY DEF ListIsFaithful
  <2>1. \A n \in Nodes \ disturbed : Done(n)
    <3>1. \A n \in Nodes : n < node
      BY ListTypes DEF IndInv, Progress, Nodes
    <3> QED
      BY <3>1 DEF IndInv, Behind
  <2>2. ASSUME NEW n \in Nodes \ disturbed, NEW i \in DOMAIN list,
               list[i].node = n
        PROVE  /\ found[n] # None
               /\ NameOf(list[i]) \in {found[n], "NullPointer"}
               /\ FormatsOf(list[i]) \subseteq UsableOf(found[n])
    BY <2>1, <2>2 DEF Done, NameOf, FormatsOf
  <2>5. \A n \in Nodes \ (disturbed \cup refused) :
          found[n] # None =>
            \E i \in DOMAIN list :
              list[i].node = n /\ FormatsOf(list[i]) = UsableOf(found[n])
    BY <2>1 DEF Done, FormatsOf
  <2>3. \A i, j \in DOMAIN list : i < j => list[i].node < list[j].node
    BY DEF IndInv, Ordered
  <2>4. \A i \in DOMAIN list : Cardinality({f[1] : f \in FormatsOf(list[i])}) <= 1
    BY AtMostOne DEF IndInv, Here, FormatsOf
  <2> QED
    BY <2>2, <2>3, <2>4, <2>5 DEF ListIsFaithful
<1> QED
  BY <1>1, Invariance, PTL

(* Once an enumeration has failed or its list has been dropped, every block *)
(* has been given back, except that V4L2's enumeration without memory       *)
(* leaves exactly the formats of the devices before; and a node is open     *)
(* only while its capabilities or its formats are asked for.                *)
THEOREM NoLeak == Spec => []NothingLeaks
<1>1. IndInv => NothingLeaks
  <2> SUFFICES ASSUME IndInv PROVE NothingLeaks
    OBVIOUS
  <2> USE DEF IndInv
  <2>1. fd # None => pc \in {"query", "enum"}
    BY DEF Progress
  <2> DEFINE allocated == {b \in Blocks : heap[b] > 0}
  <2>2. \A kind \in Kinds, i \in Nodes : <<kind, i>> \in allocated <=> Allocated(kind, i)
    <3> TAKE kind \in Kinds, i \in Nodes
    <3>1. heap[<<kind, i>>] = IF Allocated(kind, i) THEN 1 ELSE 0
      BY DEF Accounted
    <3>2. <<kind, i>> \in Blocks
      BY BlockCases
    <3> QED
      BY <3>1, <3>2
  <2>3. pc \in {"idle", "failed"} => Array \notin allocated
    BY DEF Accounted
  <2>4. pc = "idle" => allocated = {}
    <3>1. \A kind \in Kinds, i \in Nodes : pc = "idle" => ~Allocated(kind, i)
      BY DEF Allocated
    <3> QED
      BY <2>2, <2>3, <3>1, BlockCases
  <2>5. pc = "failed" /\ backend = "avf" => allocated = {}
    <3>1. \A kind \in Kinds, i \in Nodes :
            pc = "failed" /\ backend = "avf" => ~Allocated(kind, i)
      BY DEF Allocated
    <3> QED
      BY <2>2, <2>3, <3>1, BlockCases
  <2>6. pc = "failed" /\ backend # "avf" => allocated = Arrays
    <3> SUFFICES ASSUME pc = "failed", backend # "avf" PROVE allocated = Arrays
      OBVIOUS
    <3>1. formats = {} /\ backend = "v4l2"
      BY DEF Progress, Filling, TypeOK
    <3>2. \A kind \in Kinds, i \in Nodes :
            Allocated(kind, i) <=> <<kind, i>> \in Arrays
      BY <3>1, InArrays DEF Allocated, Owns
    <3>3. Arrays \subseteq Blocks
      <4>1. \A i \in DOMAIN list : <<"formats", i>> \in Blocks
        BY ListTypes, BlockCases DEF Kinds
      <4> QED
        BY <4>1 DEF Arrays
    <3>4. Array \notin allocated /\ Array \notin Arrays
      BY <2>3, InArrays
    <3> HIDE DEF allocated
    <3>5. \A b \in Blocks : b \in allocated <=> b \in Arrays
      BY <2>2, <3>2, <3>4, BlockCases
    <3> QED
      BY <3>3, <3>5 DEF allocated
  <2> QED
    BY <2>1, <2>4, <2>5, <2>6 DEF NothingLeaks
<1> QED
  BY <1>1, Invariance, PTL
=============================================================================
