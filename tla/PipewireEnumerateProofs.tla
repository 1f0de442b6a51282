----------------------- MODULE PipewireEnumerateProofs -----------------------
(***************************************************************************)
(* Proofs about PipewireEnumerate for any finite set of nodes, any number  *)
(* of params and any first capacity: the inductive invariant and the       *)
(* safety properties it implies.                                           *)
(***************************************************************************)
EXTENDS PipewireEnumerate, SequenceTheorems, FiniteSetTheorems, TLAPS

Connecting == {"newLoop", "newContext", "connect", "getRegistry"}
Running == cpc \in {"run", "cleanup"}

Registry == [type |-> "registry"]
Sync(q) == [type |-> "sync", seq |-> q]
EnumParams(n) == [type |-> "enumParams", node |-> n]
Done(q) == [type |-> "done", seq |-> q]
Param(n, p) == [type |-> "param", node |-> n, param |-> p]

(* x is in the queue s. *)
In(x, s) == \E i \in DOMAIN s : s[i] = x

(* x is in the queue s at most once. *)
Once(x, s) == \A i, j \in DOMAIN s : s[i] = x /\ s[j] = x => i = j

(* What the function holds, and what there is, at each of its points. *)
Phases ==
  /\ api = "enumerating" <=> cpc # "none"
  /\ cpc = "none" => held = {}
  /\ cpc = "newLoop" => held = {"pipewire"}
  /\ cpc = "newContext" => held = {"pipewire", "loop"}
  /\ cpc = "connect" => held = {"pipewire", "loop", "context"}
  /\ cpc = "getRegistry" => held = {"pipewire", "loop", "context", "core"}
  /\ ~Running => /\ pending = <<>> /\ capacity = 0
                 /\ requests = <<>> /\ events = <<>> /\ ~bound
  /\ api = "absent" => devices = <<>>
  /\ cpc \in Connecting => devices = <<>> /\ moves = 0

(* The two parallel arrays. *)
Arrays ==
  /\ Running =>
       /\ Len(pending) = Len(devices) /\ Len(devices) <= capacity
       /\ \A i \in DOMAIN devices : pending[i].node = devices[i].node
       /\ capacity = 0 \/ capacity >= InitialCapacity
  /\ Running /\ capacity <= InitialCapacity => moves = 0

(* A sync is one request or one event, and the second follows the first.   *)
(* Until the registry has been served nothing else can happen.             *)
Syncs ==
  /\ Running => sync \in 1 .. 2
  /\ Running /\ ~bound =>
       requests = <<Registry, Sync(1)>> /\ events = <<>> /\ devices = <<>> /\ sync = 1
  /\ bound => ~In(Registry, requests)
  /\ \A q \in 1 .. 2 :
       /\ Once(Sync(q), requests) /\ Once(Done(q), events)
       /\ In(Sync(q), requests) => sync = q /\ ~In(Done(q), events)
       /\ In(Done(q), events) => sync = q
  /\ cpc = "cleanup" =>
       bound /\ sync = 2 /\ ~In(Sync(2), requests) /\ ~In(Done(2), events)

(* A node is announced once, asked once, and listed once. *)
Announced ==
  /\ \A n \in Nodes :
       /\ Once(Global(n), events)
       /\ In(Global(n), events) => n \notin Listed /\ node[n] # "absent"
       /\ n \in Listed /\ Running => node[n] # "absent"
       /\ In(EnumParams(n), requests) => n \in Listed
       /\ Once(EnumParams(n), requests)
       /\ \A p \in 1 .. Params : In(Param(n, p), events) => n \in Listed
  /\ \A i, j \in DOMAIN devices : devices[i].node = devices[j].node => i = j

(* The nodes that the user may rely on.                                    *)
Steady == early \cap Present

(* A steady node is announced before the answer to the first sync.         *)
Early ==
  /\ api # "absent" => \A n \in early : node[n] # "absent"
  /\ \A n \in Steady, i \in DOMAIN events :
       events[i] = Global(n) =>
         sync = 1 /\ \A j \in DOMAIN events : events[j] = Done(1) => i < j
  /\ Running /\ bound =>
       \A n \in Steady \ missed : n \in Listed \/ In(Global(n), events)
  /\ api = "listed" => Steady \ missed \subseteq Listed

(* The first k params of node n have been handled: these are the formats    *)
(* collected, all of them if no memory was missing and it could be asked.   *)
Collected(n, seq, k) ==
  /\ {seq[l] : l \in DOMAIN seq} \subseteq Usable \cap 1 .. k
  /\ n \notin shortened => {seq[l] : l \in DOMAIN seq} = Usable \cap 1 .. k
  /\ InOrder(seq)

(* Node n has been asked for its params before the second sync was issued. *)
Asked(n) ==
  /\ \A p \in 1 .. Params : ~In(Param(n, p), events)
  /\ \E r \in DOMAIN requests :
       /\ requests[r] = EnumParams(n)
       /\ sync = 1 \/ \E q \in DOMAIN requests : q > r /\ requests[q] = Sync(2)

(* Its answers after the k-th are the events from the s-th on, and before  *)
(* the answer to the second sync.                                          *)
Answered(n, k, s) ==
  /\ ~In(EnumParams(n), requests)
  /\ \A p \in 1 .. Params - k :
       s + p \in DOMAIN events /\ events[s + p] = Param(n, k + p)
  /\ \A j \in DOMAIN events, p \in 1 .. Params :
       events[j] = Param(n, p) => j \in s + 1 .. s + (Params - k)
  /\ \A j \in DOMAIN events :
       events[j] = Done(2) => k = Params \/ s + (Params - k) < j
  /\ cpc = "cleanup" => k = Params

(* The answers of a steady node come in order, and before the second sync,  *)
(* as long as no listener has been called in freed memory.                  *)
Collecting ==
  /\ Running /\ ~astray =>
       \A i \in DOMAIN pending :
         pending[i].node \in Steady =>
           \/ /\ Asked(pending[i].node)
              /\ Collected(pending[i].node, pending[i].formats, 0)
           \/ \E k \in 0 .. Params, s \in Nat :
                /\ Answered(pending[i].node, k, s)
                /\ Collected(pending[i].node, pending[i].formats, k)
  /\ api = "listed" /\ ~astray =>
       \A i \in DOMAIN devices :
         devices[i].node \in Steady =>
           Collected(devices[i].node, devices[i].formats, Params)

(* What is allocated is what the pending nodes point to, or the devices     *)
(* that they have become.                                                   *)
PendingBlocks ==
  {<<pending[i].node, "own">> :
     i \in {j \in DOMAIN pending : pending[j].formats # <<>>}}

Owned == ~astray => blocks = IF Running THEN PendingBlocks ELSE ListBlocks

IndInv ==
  /\ TypeOK /\ Phases /\ Arrays /\ Syncs /\ Announced /\ Early /\ Collecting
  /\ Owned

-----------------------------------------------------------------------------
(* What the two ways of taking from and adding to a queue do to what is in  *)
(* it.                                                                      *)
LEMMA TailQueue ==
  ASSUME NEW S, NEW s \in Seq(S), s # <<>>
  PROVE  /\ Tail(s) \in Seq(S) /\ Head(s) \in S /\ Head(s) = s[1]
         /\ 1 \in DOMAIN s /\ DOMAIN s = 1 .. Len(s) /\ Len(s) \in Nat
         /\ DOMAIN Tail(s) = 1 .. Len(s) - 1
         /\ \A i \in DOMAIN Tail(s) : i + 1 \in DOMAIN s /\ Tail(s)[i] = s[i + 1]
         /\ \A i \in DOMAIN s \ {1} :
              i - 1 \in DOMAIN Tail(s) /\ Tail(s)[i - 1] = s[i]
  BY HeadTailProperties, LenProperties, EmptySeq

LEMMA TailIn ==
  ASSUME NEW S, NEW s \in Seq(S), s # <<>>, NEW x
  PROVE  /\ In(Head(s), s)
         /\ In(x, Tail(s)) => In(x, s)
         /\ In(x, s) /\ x # Head(s) => In(x, Tail(s))
         /\ Once(x, s) => Once(x, Tail(s))
         /\ Once(x, s) /\ x = Head(s) => ~In(x, Tail(s))
<1> USE TailQueue DEF In, Once
<1>1. In(Head(s), s)
  OBVIOUS
<1>2. In(x, Tail(s)) => In(x, s)
  OBVIOUS
<1>3. ASSUME In(x, s), x # Head(s) PROVE In(x, Tail(s))
  <2>1. PICK i \in DOMAIN s : s[i] = x
    BY <1>3
  <2>2. i - 1 \in DOMAIN Tail(s) /\ Tail(s)[i - 1] = x
    BY <1>3, <2>1
  <2> QED
    BY <2>2
<1>4. Once(x, s) => Once(x, Tail(s))
  OBVIOUS
<1>5. Once(x, s) /\ x = Head(s) => ~In(x, Tail(s))
  OBVIOUS
<1> QED
  BY <1>1, <1>2, <1>3, <1>4, <1>5

LEMMA ConcatQueue ==
  ASSUME NEW S, NEW s \in Seq(S), NEW t \in Seq(S)
  PROVE  /\ s \o t \in Seq(S)
         /\ DOMAIN s = 1 .. Len(s) /\ Len(s) \in Nat
         /\ DOMAIN t = 1 .. Len(t) /\ Len(t) \in Nat
         /\ DOMAIN (s \o t) = 1 .. Len(s) + Len(t)
         /\ \A i \in DOMAIN s : (s \o t)[i] = s[i]
         /\ \A i \in DOMAIN t :
              /\ Len(s) + i \in DOMAIN (s \o t)
              /\ (s \o t)[Len(s) + i] = t[i]
         /\ \A i \in DOMAIN (s \o t) :
              i \in DOMAIN s \/ (i > Len(s) /\ i - Len(s) \in DOMAIN t)
  BY ConcatProperties, LenProperties

LEMMA ConcatIn ==
  ASSUME NEW S, NEW s \in Seq(S), NEW t \in Seq(S), NEW x
  PROVE  /\ In(x, s \o t) <=> In(x, s) \/ In(x, t)
         /\ Once(x, s) /\ ~In(x, t) => Once(x, s \o t)
         /\ ~In(x, s) /\ Once(x, t) => Once(x, s \o t)
<1> USE ConcatQueue DEF In, Once
<1>1. In(x, s \o t) => In(x, s) \/ In(x, t)
  OBVIOUS
<1>2. In(x, s) => In(x, s \o t)
  OBVIOUS
<1>3. ASSUME In(x, t) PROVE In(x, s \o t)
  <2>1. PICK i \in DOMAIN t : t[i] = x
    BY <1>3
  <2>2. Len(s) + i \in DOMAIN (s \o t) /\ (s \o t)[Len(s) + i] = x
    BY <2>1
  <2> QED
    BY <2>2
<1>4. Once(x, s) /\ ~In(x, t) => Once(x, s \o t)
  OBVIOUS
<1>5. ~In(x, s) /\ Once(x, t) => Once(x, s \o t)
  OBVIOUS
<1> QED
  BY <1>1, <1>2, <1>3, <1>4, <1>5

LEMMA AppendQueue ==
  ASSUME NEW S, NEW s \in Seq(S), NEW e \in S
  PROVE  /\ Append(s, e) \in Seq(S)
         /\ DOMAIN s = 1 .. Len(s) /\ Len(s) \in Nat
         /\ DOMAIN Append(s, e) = 1 .. Len(s) + 1
         /\ \A i \in DOMAIN s : Append(s, e)[i] = s[i]
         /\ Append(s, e)[Len(s) + 1] = e
  BY AppendProperties, LenProperties

LEMMA AppendIn ==
  ASSUME NEW S, NEW s \in Seq(S), NEW e \in S, NEW x
  PROVE  /\ In(x, Append(s, e)) <=> In(x, s) \/ x = e
         /\ Once(x, s) /\ x # e => Once(x, Append(s, e))
         /\ ~In(x, s) => Once(x, Append(s, e))
<1> USE AppendQueue DEF In, Once
<1>1. In(x, Append(s, e)) => In(x, s) \/ x = e
  OBVIOUS
<1>2. In(x, s) => In(x, Append(s, e))
  OBVIOUS
<1>3. x = e => In(x, Append(s, e))
  OBVIOUS
<1>4. Once(x, s) /\ x # e => Once(x, Append(s, e))
  OBVIOUS
<1>5. ~In(x, s) => Once(x, Append(s, e))
  OBVIOUS
<1> QED
  BY <1>1, <1>2, <1>3, <1>4, <1>5

(* The messages are told apart by their type and their fields.              *)
LEMMA Messages ==
  /\ \A q : Registry # Sync(q) /\ \A n : Registry # EnumParams(n)
  /\ \A q, n : Sync(q) # EnumParams(n)
  /\ \A q, r : Sync(q) = Sync(r) => q = r
  /\ \A n, m : EnumParams(n) = EnumParams(m) => n = m
  /\ \A n, q : Global(n) # Done(q)
  /\ \A n, m, p : Global(n) # Param(m, p)
  /\ \A q, n, p : Done(q) # Param(n, p)
  /\ \A q, r : Done(q) = Done(r) => q = r
  /\ \A n, m : Global(n) = Global(m) => n = m
  /\ \A n, p, m, r : Param(n, p) = Param(m, r) => n = m /\ p = r
<1> USE DEF Registry, Sync, EnumParams, Global, Done, Param
<1>1. \A q : Registry # Sync(q) /\ \A n : Registry # EnumParams(n)
  OBVIOUS
<1>2. \A q, n : Sync(q) # EnumParams(n)
  OBVIOUS
<1>3. \A q, r : Sync(q) = Sync(r) => q = r
  OBVIOUS
<1>4. \A n, m : EnumParams(n) = EnumParams(m) => n = m
  OBVIOUS
<1>5. \A n, q : Global(n) # Done(q)
  OBVIOUS
<1>6. \A n, m, p : Global(n) # Param(m, p)
  OBVIOUS
<1>7. \A q, n, p : Done(q) # Param(n, p)
  OBVIOUS
<1>8. \A q, r : Done(q) = Done(r) => q = r
  OBVIOUS
<1>9. \A n, m : Global(n) = Global(m) => n = m
  OBVIOUS
<1>10. \A n, p, m, r : Param(n, p) = Param(m, r) => n = m /\ p = r
  OBVIOUS
<1> QED
  BY <1>1, <1>2, <1>3, <1>4, <1>5, <1>6, <1>7, <1>8, <1>9, <1>10

LEMMA RequestTypes ==
  /\ \A e \in Requests : \/ e = Registry
                         \/ \E q \in 1 .. 2 : e = Sync(q)
                         \/ \E n \in Nodes : e = EnumParams(n)
  /\ Registry \in Requests /\ Registry.type = "registry"
  /\ \A q \in 1 .. 2 :
       Sync(q) \in Requests /\ Sync(q).type = "sync" /\ Sync(q).seq = q
  /\ \A n \in Nodes : /\ EnumParams(n) \in Requests
                      /\ EnumParams(n).type = "enumParams"
                      /\ EnumParams(n).node = n
<1> USE DEF Requests, Registry, Sync, EnumParams
<1>1. ASSUME NEW e \in Requests
      PROVE  \/ e = Registry
             \/ \E q \in 1 .. 2 : e = Sync(q)
             \/ \E n \in Nodes : e = EnumParams(n)
  <2>1. CASE e \in [type : {"registry"}]
    BY <2>1
  <2>2. CASE e \in [type : {"sync"}, seq : 1 .. 2]
    BY <2>2
  <2>3. CASE e \in [type : {"enumParams"}, node : Nodes]
    BY <2>3
  <2> QED
    BY <2>1, <2>2, <2>3
<1>2. Registry \in Requests /\ Registry.type = "registry"
  OBVIOUS
<1>3. \A q \in 1 .. 2 :
        Sync(q) \in Requests /\ Sync(q).type = "sync" /\ Sync(q).seq = q
  OBVIOUS
<1>4. \A n \in Nodes : /\ EnumParams(n) \in Requests
                       /\ EnumParams(n).type = "enumParams"
                       /\ EnumParams(n).node = n
  OBVIOUS
<1> QED
  BY <1>1, <1>2, <1>3, <1>4

LEMMA EventTypes ==
  /\ \A e \in Events :
       \/ \E n \in Nodes : e = Global(n)
       \/ \E q \in 1 .. 2 : e = Done(q)
       \/ \E n \in Nodes, p \in 1 .. Params : e = Param(n, p)
  /\ \A n \in Nodes : /\ Global(n) \in Events /\ Global(n).type = "global"
                      /\ Global(n).node = n
  /\ \A q \in 1 .. 2 :
       Done(q) \in Events /\ Done(q).type = "done" /\ Done(q).seq = q
  /\ \A n \in Nodes, p \in 1 .. Params :
       /\ Param(n, p) \in Events /\ Param(n, p).type = "param"
       /\ Param(n, p).node = n /\ Param(n, p).param = p
<1> USE DEF Events, Global, Done, Param
<1>1. ASSUME NEW e \in Events
      PROVE  \/ \E n \in Nodes : e = Global(n)
             \/ \E q \in 1 .. 2 : e = Done(q)
             \/ \E n \in Nodes, p \in 1 .. Params : e = Param(n, p)
  <2>1. CASE e \in [type : {"global"}, node : Nodes]
    BY <2>1
  <2>2. CASE e \in [type : {"done"}, seq : 1 .. 2]
    BY <2>2
  <2>3. CASE e \in [type : {"param"}, node : Nodes, param : 1 .. Params]
    BY <2>3
  <2> QED
    BY <2>1, <2>2, <2>3
<1>2. \A n \in Nodes : /\ Global(n) \in Events /\ Global(n).type = "global"
                       /\ Global(n).node = n
  OBVIOUS
<1>3. \A q \in 1 .. 2 :
        Done(q) \in Events /\ Done(q).type = "done" /\ Done(q).seq = q
  OBVIOUS
<1>4. \A n \in Nodes, p \in 1 .. Params :
        /\ Param(n, p) \in Events /\ Param(n, p).type = "param"
        /\ Param(n, p).node = n /\ Param(n, p).param = p
  OBVIOUS
<1> QED
  BY <1>1, <1>2, <1>3, <1>4

(* A queue of two.                                                          *)
LEMMA TwoQueue ==
  ASSUME NEW S, NEW a \in S, NEW b \in S
  PROVE  /\ <<a, b>> \in Seq(S) /\ Tail(<<a, b>>) = <<b>> /\ Head(<<a, b>>) = a
         /\ \A x : In(x, <<a, b>>) <=> x \in {a, b}
         /\ \A x : In(x, <<b>>) <=> x = b
         /\ a # b => \A x : Once(x, <<a, b>>)
         /\ \A x : Once(x, <<b>>)
<1>1. <<a, b>> \in Seq(S) /\ Tail(<<a, b>>) = <<b>> /\ Head(<<a, b>>) = a
  OBVIOUS
<1>2. \A x : In(x, <<a, b>>) <=> x \in {a, b}
  <2>1. /\ DOMAIN <<a, b>> = 1 .. 2
        /\ <<a, b>>[1] = a /\ <<a, b>>[2] = b
    OBVIOUS
  <2>2. 1 \in 1 .. 2 /\ 2 \in 1 .. 2 /\ \A i \in 1 .. 2 : i \in {1, 2}
    OBVIOUS
  <2> QED
    BY <2>1, <2>2 DEF In
<1>3. \A x : In(x, <<b>>) <=> x = b
  BY DEF In
<1>4. a # b => \A x : Once(x, <<a, b>>)
  BY DEF Once
<1>5. \A x : Once(x, <<b>>)
  BY DEF Once
<1> QED
  BY <1>1, <1>2, <1>3, <1>4, <1>5

(* The elements of a queue, and of the two arrays.                          *)
LEMMA QueueElements ==
  ASSUME NEW S, NEW s \in Seq(S)
  PROVE  /\ DOMAIN s = 1 .. Len(s) /\ Len(s) \in Nat
         /\ \A i \in DOMAIN s : s[i] \in S
  BY LenProperties, ElementOfSeq

LEMMA ArrayTypes ==
  ASSUME TypeOK
  PROVE  /\ DOMAIN pending = 1 .. Len(pending) /\ Len(pending) \in Nat
         /\ DOMAIN devices = 1 .. Len(devices) /\ Len(devices) \in Nat
         /\ \A i \in DOMAIN pending :
              /\ pending[i] \in [node : Nodes, formats : Seq(Usable),
                                room : Nat, home : 0 .. moves]
              /\ pending[i].node \in Nodes /\ pending[i].formats \in Seq(Usable)
              /\ pending[i].home \in 0 .. moves
         /\ \A i \in DOMAIN devices :
              /\ devices[i] \in [node : Nodes, formats : Seq(Usable)]
              /\ devices[i].node \in Nodes /\ devices[i].formats \in Seq(Usable)
<1>1. \A i \in DOMAIN pending :
        pending[i] \in [node : Nodes, formats : Seq(Usable), room : Nat, home : 0 .. moves]
  <2>1. pending \in Seq([node : Nodes, formats : Seq(Usable), room : Nat, home : 0 .. moves])
    BY DEF TypeOK
  <2> QED
    BY <2>1, QueueElements
<1>2. \A i \in DOMAIN devices :
        devices[i] \in [node : Nodes, formats : Seq(Usable)]
  <2>1. devices \in Seq([node : Nodes, formats : Seq(Usable)])
    BY DEF TypeOK
  <2> QED
    BY <2>1, QueueElements
<1>3. /\ DOMAIN pending = 1 .. Len(pending) /\ Len(pending) \in Nat
      /\ DOMAIN devices = 1 .. Len(devices) /\ Len(devices) \in Nat
  BY LenProperties DEF TypeOK
<1>4. \A i \in DOMAIN pending :
        /\ pending[i].node \in Nodes /\ pending[i].formats \in Seq(Usable)
        /\ pending[i].home \in 0 .. moves
  BY <1>1
<1>5. \A i \in DOMAIN devices :
        devices[i].node \in Nodes /\ devices[i].formats \in Seq(Usable)
  BY <1>2
<1> QED
  BY <1>1, <1>2, <1>3, <1>4, <1>5

-----------------------------------------------------------------------------
(* The initial state satisfies the inductive invariant.                     *)
LEMMA InitIndInv == Init => IndInv
<1> SUFFICES ASSUME Init PROVE IndInv
  OBVIOUS
<1> USE EnumerateAssumption DEF Init, Running
<1>1. TypeOK
  <2>1. \A S : <<>> \in Seq(S)
    BY EmptySeq
  <2>2. node \in [Nodes -> {"absent", "present", "gone"}]
    OBVIOUS
  <2>3. /\ devices \in Seq([node : Nodes, formats : Seq(Usable)])
        /\ pending \in Seq([node : Nodes, formats : Seq(Usable), room : Nat, home : 0 .. moves])
        /\ requests \in Seq(Requests) /\ events \in Seq(Events)
    BY <2>1
  <2>4. held \in SUBSET AllObjects /\ sync \in 0 .. 2
    OBVIOUS
  <2> QED
    BY <2>2, <2>3, <2>4 DEF TypeOK
<1>2. Phases /\ Arrays
  BY DEF Phases, Arrays, Connecting
<1>3. Syncs
  BY DEF Syncs, In, Once
<1>4. Announced
  BY DEF Announced, In, Once, Listed
<1>5. Early
  BY DEF Early
<1>6. Collecting
  BY DEF Collecting
<1>7. Owned
  BY DEF Owned, ListBlocks
<1> QED
  BY <1>1, <1>2, <1>3, <1>4, <1>5, <1>6, <1>7 DEF IndInv

(* What is collected, when no node gets to be shortened.                    *)
LEMMA SameCollected ==
  ASSUME UNCHANGED shortened
  PROVE  \A n, seq, k : Collected(n, seq, k)' <=> Collected(n, seq, k)
BY DEF Collected, InOrder

(* Whatever is not changed keeps what is said of it.                        *)
LEMMA Unchanged ==
  ASSUME IndInv, UNCHANGED vars
  PROVE  IndInv'
<1> USE DEF vars, arrays, memory, daemon, past, IndInv, Running
<1>1. TypeOK'
  BY DEF TypeOK
<1>2. Phases' /\ Arrays' /\ Syncs'
  BY DEF Phases, Arrays, Syncs, In, Once
<1>3. Announced'
  BY DEF Announced, In, Once, Listed
<1>4. Early'
  BY DEF Early, In, Listed, Steady, Present
<1>5. Collecting'
  <2>1. \A n : Asked(n)' <=> Asked(n)
    BY DEF Asked, In
  <2>2. \A n, k, s : Answered(n, k, s)' <=> Answered(n, k, s)
    BY DEF Answered, In
  <2>3. Steady' = Steady
    BY DEF Steady, Present
  <2> QED
    BY <2>1, <2>2, <2>3, SameCollected DEF Collecting
<1>6. Owned'
  BY DEF Owned, PendingBlocks, ListBlocks
<1> QED
  BY <1>1, <1>2, <1>3, <1>4, <1>5, <1>6

(* What is allocated, when nothing of that changes.                         *)
LEMMA StillOwned ==
  ASSUME IndInv, UNCHANGED <<pending, devices, blocks, astray>>, Running' <=> Running
  PROVE  Owned'
BY DEF IndInv, Owned, PendingBlocks, ListBlocks

(* The steps that connect to the daemon, or give it up.                     *)
LEMMA Connects ==
  ASSUME IndInv,
         EnterEnumerate \/ NewLoop \/ NewContext \/ Connect \/ ConnectFails
  PROVE  IndInv'
<1> USE DEF EnterEnumerate, NewLoop, NewContext, Connect, ConnectFails, Acquire,
        Undo, arrays, memory, daemon, past, IndInv, Running
<1>1. TypeOK'
  <2>1. CASE EnterEnumerate
    <3>1. pending = <<>> /\ pending' = <<>>
      BY <2>1 DEF Phases
    <3>2. (pending \in Seq([node : Nodes, formats : Seq(Usable), room : Nat,
                           home : 0 .. moves]))'
      BY <3>1, EmptySeq
    <3>3. held' \in SUBSET AllObjects /\ early' \in SUBSET Nodes
      BY <2>1 DEF AllObjects, Present
    <3>4. UNCHANGED <<capacity, devices, node, bound, requests, events>>
      BY <2>1
    <3>5. /\ api' = "enumerating" /\ cpc' = "newLoop" /\ sync' = 0 /\ moves' = 0
          /\ missed' = {} /\ shortened' = {} /\ blocks' = {} /\ astray' = FALSE
      BY <2>1
    <3>6. /\ early' \in SUBSET Nodes /\ missed' \in SUBSET Nodes
          /\ shortened' \in SUBSET Nodes
          /\ blocks' \subseteq Nodes \X {"own", "stray"} /\ astray' \in BOOLEAN
      BY <3>3, <3>5
    <3>7. sync' \in 0 .. 2 /\ moves' \in Nat
      BY <3>5
    <3>8. /\ api' \in {"absent", "enumerating", "listed"}
          /\ cpc' \in {"none", "newLoop", "newContext", "connect", "getRegistry",
                       "run", "cleanup"}
      BY <3>5
    <3> HIDE DEF EnterEnumerate, NewLoop, NewContext, Connect, ConnectFails
    <3> QED
      BY <3>2, <3>3, <3>4, <3>6, <3>7, <3>8 DEF TypeOK
  <2>2. CASE NewLoop \/ NewContext \/ Connect \/ ConnectFails
    BY <2>2 DEF TypeOK, AllObjects
  <2> QED
    BY <2>1, <2>2
<1>2. Phases'
  BY DEF Phases, Connecting, TypeOK
<1>3. Arrays' /\ Syncs'
  BY DEF Phases, Arrays, Syncs, In, Once
<1>4. Announced'
  BY DEF Phases, Announced, In, Once, Listed, Connecting
<1>5. Early'
  BY DEF Phases, Early, In, Listed, Steady, Present, TypeOK
<1>6. Collecting'
  BY DEF Phases, Collecting, Asked, Answered, Collected, In, Steady, Present
<1>7. Owned'
  <2>1. devices = <<>> /\ devices' = <<>> /\ ~Running /\ ~Running'
    BY DEF Phases, Connecting
  <2>2. ListBlocks = {} /\ ListBlocks' = {}
    BY <2>1 DEF ListBlocks
  <2> QED
    BY <2>1, <2>2 DEF Owned
<1> QED
  BY <1>1, <1>2, <1>3, <1>4, <1>5, <1>6, <1>7

(* The registry is asked for, and the first sync follows it.                *)
LEMMA Asks ==
  ASSUME IndInv, GetRegistry
  PROVE  IndInv'
<1> USE DEF GetRegistry, arrays, memory, past, IndInv, Running
<1>1. requests = <<>> /\ events = <<>> /\ pending = <<>> /\ devices = <<>>
      /\ capacity = 0 /\ moves = 0 /\ ~bound
  BY DEF Phases, Connecting
<1>2. requests' = <<Registry, Sync(1)>>
  BY <1>1 DEF Registry, Sync
<1>3. Registry \in Requests /\ Sync(1) \in Requests
  BY RequestTypes
<1>4. /\ <<Registry, Sync(1)>> \in Seq(Requests)
      /\ \A x : In(x, <<Registry, Sync(1)>>) <=> x \in {Registry, Sync(1)}
      /\ \A x : Once(x, <<Registry, Sync(1)>>)
  <2>1. Registry # Sync(1)
    BY Messages
  <2> QED
    BY <1>3, <2>1, TwoQueue
<1>5. TypeOK'
  <2>1. requests' \in Seq(Requests)
    BY <1>2, <1>4
  <2>2. held' \in SUBSET AllObjects /\ sync' \in 0 .. 2
    BY DEF TypeOK, AllObjects
  <2> QED
    BY <2>1, <2>2 DEF TypeOK
<1>6. Phases'
  BY DEF Phases, Connecting
<1>7. Arrays'
  BY <1>1 DEF Arrays
<1>8. \A n : Registry # Sync(n) /\ \A m : EnumParams(m) \notin {Registry, Sync(n)}
  BY Messages
<1>9. Syncs'
  <2>1. \A q \in 1 .. 2 : Once(Sync(q), requests') /\ (In(Sync(q), requests') => q = 1)
    <3> TAKE q \in 1 .. 2
    <3>1. Once(Sync(q), requests')
      BY <1>2, <1>4
    <3>2. In(Sync(q), requests') => Sync(q) \in {Registry, Sync(1)}
      BY <1>2, <1>4
    <3>3. Sync(q) \in {Registry, Sync(1)} => q = 1
      BY Messages
    <3> QED
      BY <3>1, <3>2, <3>3
  <2> QED
    BY <1>1, <1>2, <2>1 DEF Syncs, In, Once
<1>10. Announced'
  <2>1. \A n : Once(EnumParams(n), requests') /\ ~In(EnumParams(n), requests')
    BY <1>2, <1>4, <1>8
  <2> QED
    BY <1>1, <2>1 DEF Announced, In, Once, Listed
<1>11. Early'
  BY <1>1 DEF Early, Steady, Present, In, Listed, Phases
<1>12. Collecting'
  BY <1>1 DEF Collecting, Phases
<1>13. Owned'
  BY <1>1 DEF Owned, PendingBlocks, ListBlocks
<1> QED
  BY <1>5, <1>6, <1>7, <1>9, <1>10, <1>11, <1>12, <1>13

(* Cameras that go are steady no longer.                                    *)
LEMMA Goes ==
  ASSUME IndInv, NEW n \in Nodes, NodeGoes(n)
  PROVE  IndInv'
<1> USE DEF NodeGoes, arrays, memory, past, IndInv, Running
<1>0. node \in [Nodes -> {"absent", "present", "gone"}]
  BY DEF TypeOK
<1>1. Present' = Present \ {n}
  BY <1>0 DEF Present
<1>2. Steady' \subseteq Steady
  BY <1>1 DEF Steady
<1>3. \A m \in Nodes : node[m] # "absent" => node'[m] # "absent"
  BY <1>0
<1>4. TypeOK'
  BY DEF TypeOK
<1>5. Phases' /\ Arrays' /\ Syncs'
  BY DEF Phases, Arrays, Syncs, In, Once
<1>6. Announced'
  BY <1>3 DEF Announced, In, Once, Listed
<1>7. Early'
  <2>1. api # "absent" => \A m \in early : node'[m] # "absent"
    BY <1>3 DEF Early, TypeOK
  <2>2. \A m \in Steady', i \in DOMAIN events :
          events[i] = Global(m) =>
            sync = 1 /\ \A j \in DOMAIN events : events[j] = Done(1) => i < j
    BY <1>2 DEF Early
  <2>3. Running /\ bound =>
          \A m \in Steady' \ missed : m \in Listed \/ In(Global(m), events)
    BY <1>2 DEF Early
  <2>4. api = "listed" => Steady' \ missed \subseteq Listed
    BY <1>2 DEF Early
  <2> QED
    BY <2>1, <2>2, <2>3, <2>4 DEF Early, Listed, In
<1>8. Collecting'
  <2>1. \A m : Asked(m)' <=> Asked(m)
    BY DEF Asked, In
  <2>2. \A m, k, s : Answered(m, k, s)' <=> Answered(m, k, s)
    BY DEF Answered, In
  <2> QED
    BY <1>2, <2>1, <2>2, SameCollected DEF Collecting
<1>9. Owned'
  BY StillOwned
<1> QED
  BY <1>4, <1>5, <1>6, <1>7, <1>8, <1>9

(* Cameras that come are not steady, and are announced once.                *)
LEMMA Appears ==
  ASSUME IndInv, NEW n \in Nodes, NodeAppears(n)
  PROVE  IndInv'
<1> USE DEF NodeAppears, arrays, memory, past, IndInv, Running
<1>0. /\ node \in [Nodes -> {"absent", "present", "gone"}]
      /\ events \in Seq(Events) /\ Global(n) \in Events
  BY EventTypes DEF TypeOK
<1>1. Present' = Present \cup {n}
  BY <1>0 DEF Present
<1>2. Steady' = IF api = "absent" THEN Steady' ELSE Steady
  BY <1>1 DEF Steady, Early
<1>3. \A m \in Nodes : node[m] # "absent" => node'[m] # "absent"
  BY <1>0
<1>4. ~In(Global(n), events) /\ (Running => n \notin Listed)
  BY DEF Announced
<1>5. /\ events' \in Seq(Events)
      /\ \A x : In(x, events') => In(x, events) \/ (bound /\ x = Global(n))
      /\ \A x : In(x, events) => In(x, events')
      /\ \A x : Once(x, events) => Once(x, events')
  BY <1>0, <1>4, AppendIn, AppendQueue
<1>6. \A x : (\A m : x # Global(m)) => (In(x, events') <=> In(x, events))
  BY <1>5
<1>7. TypeOK'
  BY <1>5 DEF TypeOK
<1>8. Phases' /\ Arrays'
  BY DEF Phases, Arrays
<1>9. Syncs'
  BY <1>5, <1>6, Messages DEF Syncs, Phases
<1>10. Announced'
  <2>1. Listed' = Listed
    BY DEF Listed
  <2>2. ASSUME NEW m \in Nodes
        PROVE  /\ Once(Global(m), events')
               /\ In(Global(m), events') => m \notin Listed /\ node'[m] # "absent"
    <3>1. Once(Global(m), events')
      BY <1>5 DEF Announced
    <3>2. CASE In(Global(m), events)
      BY <1>3, <3>1, <3>2 DEF Announced
    <3>3. CASE bound /\ Global(m) = Global(n)
      <4>1. m = n /\ Running
        BY <3>3, Messages DEF Phases
      <4> QED
        BY <1>0, <1>4, <3>1, <4>1
    <3> QED
      BY <1>5, <3>1, <3>2, <3>3
  <2>3. \A m \in Nodes, p \in 1 .. Params :
          In(Param(m, p), events') => In(Param(m, p), events)
    BY <1>6, Messages
  <2> QED
    BY <1>3, <2>1, <2>2, <2>3 DEF Announced
<1>11. Early'
  <2>1. Listed' = Listed
    BY DEF Listed
  <2>2. api # "absent" => Steady' = Steady
    BY <1>2
  <2>3. api = "absent" => events' = <<>>
    BY DEF Phases
  <2>4. ASSUME NEW m \in Steady', NEW i \in DOMAIN events', events'[i] = Global(m)
        PROVE  /\ sync = 1
               /\ \A j \in DOMAIN events' : events'[j] = Done(1) => i < j
    <3>1. api # "absent" /\ m \in Steady
      BY <2>2, <2>3, <2>4
    <3>2. m # n
      BY <3>1 DEF Early, Steady
    <3>3. i \in DOMAIN events /\ events[i] = Global(m)
      BY <1>0, <2>4, <3>2, AppendQueue, Messages
    <3>4. \A j \in DOMAIN events' :
            events'[j] = Done(1) => j \in DOMAIN events /\ events[j] = Done(1)
      BY <1>0, AppendQueue, Messages
    <3> QED
      BY <3>1, <3>3, <3>4 DEF Early
  <2>5. api # "absent" => \A m \in early : node'[m] # "absent"
    BY <1>3 DEF Early, TypeOK
  <2>6. Running /\ bound =>
          \A m \in Steady' \ missed : m \in Listed \/ In(Global(m), events')
    BY <1>5, <2>2 DEF Early, Phases
  <2> QED
    BY <2>1, <2>2, <2>4, <2>5, <2>6 DEF Early
<1>12. Collecting'
  <2>1. ASSUME NEW m \in Nodes, Asked(m) PROVE Asked(m)'
    BY <1>6, <2>1, Messages DEF Asked
  <2>2. ASSUME NEW m \in Nodes, NEW k \in 0 .. Params, NEW s \in Nat,
               Answered(m, k, s)
        PROVE  Answered(m, k, s)'
    <3>1. \A p \in 1 .. Params - k :
            s + p \in DOMAIN events' /\ events'[s + p] = Param(m, k + p)
      BY <1>0, <2>2, AppendQueue DEF Answered
    <3>2. \A j \in DOMAIN events', p \in 1 .. Params :
            events'[j] = Param(m, p) => j \in s + 1 .. s + (Params - k)
      BY <1>0, <2>2, AppendQueue, Messages DEF Answered
    <3>3. \A j \in DOMAIN events' :
            events'[j] = Done(2) => k = Params \/ s + (Params - k) < j
      BY <1>0, <2>2, AppendQueue, Messages DEF Answered
    <3> QED
      BY <2>2, <3>1, <3>2, <3>3 DEF Answered
  <2>3. api # "absent" => Steady' = Steady
    BY <1>2
  <2>4. \A i \in DOMAIN pending : pending[i].node \in Nodes
    BY ArrayTypes
  <2>5. ASSUME Running, ~astray, NEW i \in DOMAIN pending,
               pending[i].node \in Steady
        PROVE  \/ /\ Asked(pending[i].node)'
                  /\ Collected(pending[i].node, pending[i].formats, 0)
               \/ \E k \in 0 .. Params, s \in Nat :
                    /\ Answered(pending[i].node, k, s)'
                    /\ Collected(pending[i].node, pending[i].formats, k)
    BY <2>1, <2>2, <2>4, <2>5 DEF Collecting
  <2>6. Running => Steady' = Steady
    BY <2>3 DEF Phases
  <2>7. api = "listed" /\ ~astray =>
          \A i \in DOMAIN devices :
            devices[i].node \in Steady' =>
              Collected(devices[i].node, devices[i].formats, Params)
    BY <2>3 DEF Collecting
  <2>8. pending' = pending /\ devices' = devices /\ astray' = astray
    OBVIOUS
  <2>9. (Running /\ ~astray =>
           \A i \in DOMAIN pending :
             pending[i].node \in Steady =>
               \/ /\ Asked(pending[i].node)
                  /\ Collected(pending[i].node, pending[i].formats, 0)
               \/ \E k \in 0 .. Params, s \in Nat :
                    /\ Answered(pending[i].node, k, s)
                    /\ Collected(pending[i].node, pending[i].formats, k))'
    BY <2>5, <2>6, <2>8, SameCollected
  <2> QED
    BY <2>7, <2>8, <2>9, SameCollected DEF Collecting
<1>13. Owned'
  BY StillOwned
<1> QED
  BY <1>7, <1>8, <1>9, <1>10, <1>11, <1>12, <1>13


(* The end of the function: the formats move to the devices.                *)
LEMMA CleansUp ==
  ASSUME IndInv, Cleanup
  PROVE  IndInv'
<1> USE DEF Cleanup, memory, past, IndInv, Running
<1>0. /\ Len(pending) = Len(devices) /\ DOMAIN pending = DOMAIN devices
      /\ \A i \in DOMAIN devices : pending[i].node = devices[i].node
  BY ArrayTypes DEF Arrays
<1>1. \A i \in DOMAIN devices :
        /\ devices'[i] \in [node : Nodes, formats : Seq(Usable)]
        /\ devices'[i].node = devices[i].node
        /\ devices'[i].formats = pending[i].formats
  BY <1>0, ArrayTypes
<1>2. devices' \in Seq([node : Nodes, formats : Seq(Usable)])
      /\ DOMAIN devices' = DOMAIN devices
  BY <1>1, ArrayTypes
<1>3. Listed' = Listed
  BY <1>1, <1>2 DEF Listed
<1>4. TypeOK'
  <2>1. \A S : <<>> \in Seq(S)
    BY EmptySeq
  <2>2. requests' \in Seq(Requests) /\ events' \in Seq(Events)
    BY <2>1
  <2>3. (pending \in Seq([node : Nodes, formats : Seq(Usable), room : Nat, home : 0 .. moves]))'
    BY <2>1
  <2>4. held' \in SUBSET AllObjects /\ capacity' \in Nat
    OBVIOUS
  <2> QED
    BY <1>2, <2>2, <2>3, <2>4 DEF TypeOK
<1>5. Phases'
  BY DEF Phases, Connecting
<1>6. Arrays'
  BY DEF Arrays
<1>7. Syncs'
  BY DEF Syncs, In, Once
<1>8. Announced'
  <2>1. \A i, j \in DOMAIN devices' : devices'[i].node = devices'[j].node => i = j
    <3>1. \A i, j \in DOMAIN devices : devices[i].node = devices[j].node => i = j
      BY DEF Announced
    <3> HIDE DEF Cleanup
    <3> QED
      BY <1>1, <1>2, <3>1
  <2>2. \A x : /\ ~In(x, events') /\ Once(x, events')
               /\ ~In(x, requests') /\ Once(x, requests')
    BY DEF In, Once
  <2>3. ~Running'
    OBVIOUS
  <2> QED
    BY <2>1, <2>2, <2>3 DEF Announced
<1>9. Steady' = Steady
  BY DEF Steady, Present
<1>10. Early'
  <2>1. bound /\ sync = 2 /\ api # "absent"
    BY DEF Syncs, Phases
  <2>2. \A n \in Steady : ~In(Global(n), events)
    BY <2>1 DEF Early, In
  <2>3. Steady \ missed \subseteq Listed
    BY <2>1, <2>2 DEF Early
  <2> QED
    BY <1>3, <1>9, <2>1, <2>3 DEF Early
<1>11. Collecting'
  <2>1. ASSUME ~astray, NEW i \in DOMAIN devices, devices[i].node \in Steady
        PROVE  Collected(devices[i].node, pending[i].formats, Params)
    <3>1. \/ Asked(pending[i].node)
          \/ \E k \in 0 .. Params, s \in Nat :
               /\ Answered(pending[i].node, k, s)
               /\ Collected(pending[i].node, pending[i].formats, k)
      BY <1>0, <2>1 DEF Collecting
    <3>2. ~Asked(pending[i].node)
      BY DEF Asked, Syncs, In
    <3> QED
      BY <1>0, <3>1, <3>2 DEF Answered
  <2>2. ASSUME ~astray, NEW i \in DOMAIN devices', devices'[i].node \in Steady
        PROVE  Collected(devices'[i].node, devices'[i].formats, Params)
    BY <1>1, <1>2, <2>1, <2>2
  <2> QED
    BY <1>9, <2>2, SameCollected DEF Collecting
<1>12. Owned'
  <2>1. ListBlocks' = PendingBlocks
    BY <1>0, <1>1, <1>2 DEF ListBlocks, PendingBlocks
  <2> QED
    BY <2>1 DEF Owned
<1> QED
  BY <1>4, <1>5, <1>6, <1>7, <1>8, <1>10, <1>11, <1>12

(* The list is dropped.                                                     *)
LEMMA Drops ==
  ASSUME IndInv, DropList
  PROVE  IndInv'
<1> USE DEF DropList, past, IndInv, Running
<1>1. cpc = "none" /\ pending = <<>> /\ requests = <<>> /\ events = <<>> /\ ~bound
  BY DEF Phases
<1>2. node' \in [Nodes -> {"absent", "present", "gone"}]
  BY DEF NodesAfterwards, TypeOK
<1>3. TypeOK'
  <2>1. devices' \in Seq([node : Nodes, formats : Seq(Usable)])
    BY EmptySeq
  <2> QED
    BY <1>2, <2>1 DEF TypeOK
<1>4. Phases' /\ Arrays' /\ Syncs'
  BY <1>1 DEF Phases, Arrays, Syncs, In, Once, Connecting
<1>5. Announced'
  BY <1>1 DEF Announced, In, Once, Listed
<1>6. Early'
  BY <1>1 DEF Early, In
<1>7. Collecting'
  BY <1>1 DEF Collecting
<1>8. Owned'
  BY <1>1 DEF Owned, ListBlocks
<1> QED
  BY <1>3, <1>4, <1>5, <1>6, <1>7, <1>8

-----------------------------------------------------------------------------
(* What a handler of events finds: it takes the oldest event.               *)
LEMMA Handles ==
  ASSUME IndInv, NEW type, Dispatch(type)
  PROVE  /\ Running /\ bound /\ sync \in 1 .. 2
         /\ events \in Seq(Events) /\ events # <<>> /\ events' = Tail(events)
         /\ Head(events) \in Events /\ In(Head(events), events)
         /\ Steady' = Steady
<1> USE DEF Dispatch, IndInv
<1>1. events \in Seq(Events) /\ events # <<>> /\ events' = Tail(events) /\ Running
  BY DEF TypeOK, Running
<1>2. bound /\ sync \in 1 .. 2
  BY <1>1 DEF Syncs
<1>3. Head(events) \in Events /\ In(Head(events), events)
  BY <1>1, TailQueue, TailIn
<1>4. Steady' = Steady
  BY DEF Steady, Present
<1> QED
  BY <1>1, <1>2, <1>3, <1>4

(* Taking an event off the queue, without a change of the syncs, keeps what *)
(* is said of the syncs and of the announcement of nodes.                   *)
LEMMA TakesSyncs ==
  ASSUME IndInv, NEW type, Dispatch(type), UNCHANGED <<cpc, sync>>,
         \/ requests' = requests
         \/ \E n \in Nodes : requests' = Append(requests, EnumParams(n))
  PROVE  Syncs'
<1> USE DEF IndInv
<1>1. /\ Running /\ bound /\ events \in Seq(Events) /\ events # <<>>
      /\ events' = Tail(events)
  BY Handles
<1>2. Running' /\ bound' /\ sync' = sync /\ cpc' = cpc
  BY <1>1 DEF Dispatch, Running
<1>3. \A x : /\ In(x, events') => In(x, events)
             /\ Once(x, events) => Once(x, events')
  BY <1>1, TailIn
<1>4. \A x : (\A n : x # EnumParams(n)) =>
        /\ In(x, requests') => In(x, requests)
        /\ Once(x, requests) => Once(x, requests')
  <2>1. CASE requests' = requests
    BY <2>1
  <2>2. ASSUME NEW n \in Nodes, requests' = Append(requests, EnumParams(n)),
               NEW x, \A m : x # EnumParams(m)
        PROVE  /\ In(x, requests') => In(x, requests)
               /\ Once(x, requests) => Once(x, requests')
    <3>1. requests \in Seq(Requests) /\ EnumParams(n) \in Requests
      BY RequestTypes DEF TypeOK
    <3> QED
      BY <2>2, <3>1, AppendIn
  <2> QED
    BY <2>1, <2>2
<1>5. ~In(Registry, requests')
  BY <1>1, <1>4, Messages DEF Syncs
<1>6. ASSUME NEW q \in 1 .. 2
      PROVE  /\ Once(Sync(q), requests') /\ Once(Done(q), events')
             /\ In(Sync(q), requests') => sync' = q /\ ~In(Done(q), events')
             /\ In(Done(q), events') => sync' = q
  BY <1>2, <1>3, <1>4, Messages DEF Syncs
<1>7. cpc = "cleanup" =>
        sync' = 2 /\ ~In(Sync(2), requests') /\ ~In(Done(2), events')
  BY <1>2, <1>3, <1>4, Messages DEF Syncs
<1>8. sync' \in 1 .. 2
  BY <1>1, <1>2 DEF Syncs
<1> QED
  BY <1>2, <1>5, <1>6, <1>7, <1>8 DEF Syncs

(* Steady nodes are early after it, if the node it announced is listed or   *)
(* missed.                                                                  *)
LEMMA TakesEarly ==
  ASSUME IndInv, NEW type, Dispatch(type), sync' = sync, Running',
         Listed \subseteq Listed', missed \subseteq missed',
         \A n \in Nodes : Head(events) = Global(n) => n \in Listed' \cup missed'
  PROVE  Early'
<1> USE DEF IndInv
<1>1. /\ events \in Seq(Events) /\ events # <<>> /\ events' = Tail(events)
      /\ bound /\ Steady' = Steady /\ Running
  BY Handles
<1>2. /\ api' = api /\ early' = early /\ node' = node /\ bound' = bound
      /\ api = "enumerating"
  BY <1>1 DEF Dispatch, Phases, Running
<1>3. ASSUME NEW n \in Steady, NEW i \in DOMAIN events', events'[i] = Global(n)
      PROVE  sync = 1 /\ \A j \in DOMAIN events' : events'[j] = Done(1) => i < j
  <2>1. i + 1 \in DOMAIN events /\ events[i + 1] = Global(n)
    BY <1>1, <1>3, TailQueue
  <2>2. sync = 1 /\ \A j \in DOMAIN events : events[j] = Done(1) => i + 1 < j
    BY <2>1 DEF Early
  <2>3. \A j \in DOMAIN events' : j + 1 \in DOMAIN events /\ events'[j] = events[j + 1]
    BY <1>1, TailQueue
  <2>4. DOMAIN events' \subseteq Int /\ i \in Int
    BY <1>1, <1>3, TailQueue
  <2> QED
    BY <2>2, <2>3, <2>4
<1>4. ASSUME NEW n \in Steady \ missed'
      PROVE  n \in Listed' \/ In(Global(n), events')
  <2>1. n \in Listed \/ In(Global(n), events)
    BY <1>1 DEF Early
  <2>2. n \in Nodes
    BY DEF Steady, Present
  <2>3. CASE Head(events) = Global(n)
    BY <2>2, <2>3
  <2>4. CASE Head(events) # Global(n)
    BY <1>1, <2>1, <2>4, TailIn
  <2> QED
    BY <2>3, <2>4
<1> QED
  BY <1>1, <1>2, <1>3, <1>4 DEF Early

(* The announcements after it.                                              *)
LEMMA TakesAnnounced ==
  ASSUME IndInv, NEW type, Dispatch(type), devices' = devices, requests' = requests
  PROVE  Announced'
<1> USE DEF IndInv
<1>1. /\ events \in Seq(Events) /\ events # <<>> /\ events' = Tail(events)
      /\ Running /\ node' = node
  BY Handles DEF Dispatch
<1>2. \A x : /\ In(x, events') => In(x, events)
             /\ Once(x, events) => Once(x, events')
  BY <1>1, TailIn
<1>3. Listed' = Listed
  BY DEF Listed
<1> QED
  BY <1>1, <1>2, <1>3 DEF Announced

(* The answers of a node that are still to come, unless it is the next one. *)
LEMMA TakesAnswered ==
  ASSUME IndInv, NEW type, Dispatch(type), NEW n \in Nodes,
         \A p \in 1 .. Params : Head(events) # Param(n, p),
         cpc' = "cleanup" => cpc = "cleanup" \/ Head(events) = Done(2),
         ~In(EnumParams(n), requests) => ~In(EnumParams(n), requests')
  PROVE  \A k \in 0 .. Params, s \in Nat :
           Answered(n, k, s) => \E t \in Nat : Answered(n, k, t)'
<1> USE DEF IndInv
<1>1. /\ events \in Seq(Events) /\ events # <<>> /\ events' = Tail(events)
  BY Handles
<1>2. Params \in Nat
  BY EnumerateAssumption
<1>3. \A x : In(x, events') => In(x, events)
  BY <1>1, TailIn
<1>4. ASSUME NEW k \in 0 .. Params, NEW s \in Nat, Answered(n, k, s)
      PROVE  \E t \in Nat : Answered(n, k, t)'
  <2>1. ~In(EnumParams(n), requests')
    BY <1>4 DEF Answered
  <2>2. CASE k = Params
    <3>1. \A p \in 1 .. Params : ~In(Param(n, p), events)
      BY <1>2, <1>4, <2>2 DEF Answered, In
    <3>2. \A p \in 1 .. Params : ~In(Param(n, p), events')
      BY <1>3, <3>1
    <3>3. Answered(n, k, 0)'
      BY <1>2, <2>1, <2>2, <3>2 DEF Answered, In
    <3> QED
      BY <3>3
  <2>3. CASE k # Params
    <3>1. k + 1 \in 1 .. Params /\ 1 \in 1 .. Params - k
      BY <1>2, <2>3
    <3>2. events[s + 1] = Param(n, k + 1) /\ s + 1 \in DOMAIN events
      BY <1>4, <3>1 DEF Answered
    <3>3. s # 0
      BY <1>1, <3>1, <3>2, TailQueue
    <3>4. s - 1 \in Nat
      BY <3>3
    <3>5. \A p \in 1 .. Params - k :
            (s - 1) + p \in DOMAIN events' /\ events'[(s - 1) + p] = Param(n, k + p)
      <4> TAKE p \in 1 .. Params - k
      <4>1. s + p \in DOMAIN events /\ events[s + p] = Param(n, k + p)
        BY <1>4 DEF Answered
      <4>2. s + p # 1 /\ (s - 1) + p = (s + p) - 1 /\ s + p \in Int
        BY <1>2, <3>4
      <4> QED
        BY <1>1, <4>1, <4>2, TailQueue
    <3>6. \A j \in DOMAIN events' :
            j \in Int /\ j + 1 \in DOMAIN events /\ events'[j] = events[j + 1]
      BY <1>1, TailQueue
    <3>7. \A j \in DOMAIN events', p \in 1 .. Params :
            events'[j] = Param(n, p) => j \in (s - 1) + 1 .. (s - 1) + (Params - k)
      <4> TAKE j \in DOMAIN events', p \in 1 .. Params
      <4>1. events'[j] = Param(n, p) => j + 1 \in s + 1 .. s + (Params - k)
        BY <1>4, <3>6 DEF Answered
      <4> QED
        BY <1>2, <3>4, <3>6, <4>1
    <3>8. \A j \in DOMAIN events' :
            events'[j] = Done(2) => k = Params \/ (s - 1) + (Params - k) < j
      <4> TAKE j \in DOMAIN events'
      <4>1. events'[j] = Done(2) => s + (Params - k) < j + 1
        BY <1>4, <2>3, <3>6 DEF Answered
      <4> QED
        BY <1>2, <3>4, <3>6, <4>1
    <3>9. cpc' # "cleanup"
      <4>1. Head(events) = Done(2) => s + (Params - k) < 1
        BY <1>1, <1>4, <2>3, TailQueue DEF Answered
      <4> QED
        BY <1>2, <1>4, <2>3, <4>1 DEF Answered
    <3>10. Answered(n, k, s - 1)'
      BY <2>1, <3>5, <3>7, <3>8, <3>9 DEF Answered
    <3> QED
      BY <3>4, <3>10
  <2> QED
    BY <2>2, <2>3
<1> QED
  BY <1>4

(* The same, and what is asked of it, when the syncs do not change.         *)
LEMMA TakesAnswers ==
  ASSUME IndInv, NEW type, Dispatch(type), NEW n \in Nodes,
         \A p \in 1 .. Params : Head(events) # Param(n, p),
         sync' = sync, cpc' = cpc,
         \/ requests' = requests
         \/ \E m \in Nodes \ {n} : requests' = Append(requests, EnumParams(m))
  PROVE  /\ Asked(n) => Asked(n)'
         /\ \A k \in 0 .. Params, s \in Nat :
              Answered(n, k, s) => \E t \in Nat : Answered(n, k, t)'
<1> USE DEF IndInv
<1>1. /\ events \in Seq(Events) /\ events # <<>> /\ events' = Tail(events)
  BY Handles
<1>2. requests \in Seq(Requests) /\ Params \in Nat
  BY EnumerateAssumption DEF TypeOK
<1>3. \A x : In(x, events') => In(x, events)
  BY <1>1, TailIn
<1>4. ASSUME Asked(n) PROVE Asked(n)'
  <2>1. PICK r \in DOMAIN requests :
          /\ requests[r] = EnumParams(n)
          /\ sync = 1 \/ \E q \in DOMAIN requests : q > r /\ requests[q] = Sync(2)
    BY <1>4 DEF Asked
  <2>2. \A i \in DOMAIN requests : i \in DOMAIN requests' /\ requests'[i] = requests[i]
    BY <1>2, AppendQueue, RequestTypes
  <2>3. \A p \in 1 .. Params : ~In(Param(n, p), events')
    BY <1>3, <1>4 DEF Asked
  <2> QED
    BY <2>1, <2>2, <2>3 DEF Asked
<1>5. ~In(EnumParams(n), requests) => ~In(EnumParams(n), requests')
  <2>1. ASSUME NEW m \in Nodes \ {n}, requests' = Append(requests, EnumParams(m)),
               ~In(EnumParams(n), requests)
        PROVE  ~In(EnumParams(n), requests')
    <3>1. EnumParams(m) \in Requests /\ EnumParams(m) # EnumParams(n)
      BY RequestTypes, Messages
    <3> QED
      BY <1>2, <2>1, <3>1, AppendIn
  <2> QED
    BY <2>1
<1> QED
  BY <1>4, <1>5, TakesAnswered

-----------------------------------------------------------------------------
(* A realloc keeps the arrays large enough.                                 *)
LEMMA Grows ==
  ASSUME TypeOK, Arrays, Running, Grow
  PROVE  /\ capacity' \in Nat /\ moves' \in Nat /\ moves <= moves'
         /\ Len(devices) < capacity'
         /\ capacity' >= InitialCapacity
         /\ capacity' <= InitialCapacity => moves' = 0
<1>1. /\ capacity \in Nat /\ moves \in Nat /\ Len(devices) \in Nat
      /\ Len(devices) <= capacity
      /\ capacity = 0 \/ capacity >= InitialCapacity
      /\ capacity <= InitialCapacity => moves = 0
      /\ InitialCapacity \in Nat \ {0}
  BY EnumerateAssumption, LenProperties DEF TypeOK, Arrays
<1>2. CASE Len(devices) < capacity
  BY <1>1, <1>2 DEF Grow
<1>3. CASE ~(Len(devices) < capacity) /\ capacity = 0
  BY <1>1, <1>3 DEF Grow
<1>4. CASE ~(Len(devices) < capacity) /\ capacity # 0
  <2>1. capacity' = 2 * capacity /\ moves' \in {moves, moves + 1}
    BY <1>4 DEF Grow
  <2> QED
    BY <1>1, <1>4, <2>1
<1> QED
  BY <1>2, <1>3, <1>4

(* The elements of pending keep their type when the arrays move.            *)
LEMMA PendingMoves ==
  ASSUME TypeOK, NEW m \in Nat, moves <= m
  PROVE  pending \in Seq([node : Nodes, formats : Seq(Usable), room : Nat, home : 0 .. m])
<1>1. 0 .. moves \subseteq 0 .. m
  BY DEF TypeOK
<1>2. [node : Nodes, formats : Seq(Usable), room : Nat, home : 0 .. moves]
        \subseteq [node : Nodes, formats : Seq(Usable), room : Nat, home : 0 .. m]
  BY <1>1
<1> QED
  BY <1>2, SeqMonotonic DEF TypeOK

(* A node for which there is no memory or no proxy.                         *)
LEMMA Misses ==
  ASSUME IndInv, RegistryGlobalFails
  PROVE  IndInv'
<1> USE DEF IndInv
<1>1. /\ Dispatch("global") /\ devices' = devices /\ pending' = pending
      /\ requests' = requests /\ sync' = sync /\ cpc' = cpc
      /\ missed' = missed \cup {Head(events).node}
      /\ api' = api /\ held' = held /\ node' = node /\ bound' = bound
      /\ early' = early /\ shortened' = shortened
      /\ blocks' = blocks /\ astray' = astray
  BY DEF RegistryGlobalFails, Dispatch, memory
<1>2. /\ Running /\ bound /\ events \in Seq(Events) /\ events # <<>>
      /\ events' = Tail(events) /\ Head(events) \in Events /\ Steady' = Steady
  BY <1>1, Handles
<1>3. /\ capacity' \in Nat /\ moves' \in Nat /\ moves <= moves'
      /\ Len(devices) <= capacity'
      /\ capacity' = 0 \/ capacity' >= InitialCapacity
      /\ capacity' <= InitialCapacity => moves' = 0
  <2>1. CASE Grow
    BY <1>2, <2>1, Grows, LenProperties DEF TypeOK
  <2>2. CASE UNCHANGED <<capacity, moves>>
    BY <1>2, <2>2 DEF TypeOK, Arrays
  <2> QED
    BY <2>1, <2>2 DEF RegistryGlobalFails
<1>4. PICK n \in Nodes : Head(events) = Global(n)
  BY <1>1, <1>2, EventTypes DEF Dispatch
<1>5. Running' /\ Head(events).node = n
  BY <1>1, <1>2, <1>4, EventTypes DEF Running
<1>6. TypeOK'
  <2>1. (pending \in Seq([node : Nodes, formats : Seq(Usable), room : Nat, home : 0 .. moves]))'
    BY <1>1, <1>3, PendingMoves
  <2>2. events' \in Seq(Events)
    BY <1>2, TailQueue
  <2>3. missed' \in SUBSET Nodes
    BY <1>1, <1>5 DEF TypeOK
  <2> QED
    BY <1>1, <1>3, <2>1, <2>2, <2>3 DEF TypeOK
<1>7. Phases'
  BY <1>1, <1>5, <1>2 DEF Phases, Running, Connecting
<1>8. Arrays'
  BY <1>1, <1>2, <1>3 DEF Arrays
<1>9. Syncs'
  BY <1>1, TakesSyncs
<1>10. Announced'
  BY <1>1, TakesAnnounced
<1>11. Early'
  <2>1. \A m \in Nodes : Head(events) = Global(m) => m \in missed'
    BY <1>1, <1>4, <1>5, Messages
  <2> QED
    BY <1>1, <1>5, <2>1, TakesEarly DEF Listed
<1>12. Collecting'
  <2>1. ASSUME ~astray', NEW i \in DOMAIN pending, pending[i].node \in Steady
        PROVE  \/ /\ Asked(pending[i].node)'
                  /\ Collected(pending[i].node, pending[i].formats, 0)
               \/ \E k \in 0 .. Params, s \in Nat :
                    /\ Answered(pending[i].node, k, s)'
                    /\ Collected(pending[i].node, pending[i].formats, k)
    <3>1. ~astray /\ pending[i].node \in Nodes
      BY <1>1, <2>1, ArrayTypes
    <3>2. \A p \in 1 .. Params : Head(events) # Param(pending[i].node, p)
      BY <1>4, Messages
    <3>3. \/ /\ Asked(pending[i].node)
             /\ Collected(pending[i].node, pending[i].formats, 0)
          \/ \E k \in 0 .. Params, s \in Nat :
               /\ Answered(pending[i].node, k, s)
               /\ Collected(pending[i].node, pending[i].formats, k)
      BY <1>2, <2>1, <3>1 DEF Collecting
    <3>4. /\ Asked(pending[i].node) => Asked(pending[i].node)'
          /\ \A k \in 0 .. Params, s \in Nat :
               Answered(pending[i].node, k, s)
                 => \E t \in Nat : Answered(pending[i].node, k, t)'
      BY <1>1, <3>1, <3>2, TakesAnswers
    <3> QED
      BY <3>3, <3>4
  <2> QED
    BY <1>1, <1>2, <1>5, <2>1, SameCollected
       DEF Collecting, Phases, Running
<1>13. Owned'
  BY <1>1, <1>2, <1>5, StillOwned
<1> QED
  BY <1>6, <1>7, <1>8, <1>9, <1>10, <1>11, <1>12, <1>13

(* A node is announced: it gets a place in the arrays and is asked for its  *)
(* params, if that can be sent.                                             *)
LEMMA Lists ==
  ASSUME IndInv, RegistryGlobal
  PROVE  IndInv'
<1> USE DEF IndInv
<1>1. Dispatch("global") /\ Grow
  BY DEF RegistryGlobal
<1>2. /\ Running /\ bound /\ events \in Seq(Events) /\ events # <<>>
      /\ events' = Tail(events) /\ Head(events) \in Events /\ Steady' = Steady
      /\ In(Head(events), events) /\ sync \in 1 .. 2
  BY <1>1, Handles
<1>3. PICK n \in Nodes : Head(events) = Global(n) /\ Head(events).node = n
  BY <1>1, <1>2, EventTypes DEF Dispatch
<1> DEFINE P == [node : Nodes, formats : Seq(Usable), room : Nat, home : 0 .. moves']
           D == [node : Nodes, formats : Seq(Usable)]
           p1 == [node |-> n, formats |-> <<>>, room |-> 0, home |-> moves']
           d1 == [node |-> n, formats |-> <<>>]
<1>4. /\ sync' = sync /\ cpc' = cpc /\ missed' = missed
      /\ api' = api /\ held' = held /\ node' = node /\ bound' = bound
      /\ early' = early
      /\ pending' = Append(pending, p1) /\ devices' = Append(devices, d1)
      /\ \/ requests' = Append(requests, EnumParams(n)) /\ shortened' = shortened
         \/ requests' = requests /\ shortened' = shortened \cup {n}
      /\ blocks' = blocks /\ astray' = astray
  BY <1>3 DEF RegistryGlobal, Dispatch, EnumParams, memory
<1>5. /\ capacity' \in Nat /\ moves' \in Nat /\ moves <= moves'
      /\ Len(devices) < capacity' /\ capacity' >= InitialCapacity
      /\ capacity' <= InitialCapacity => moves' = 0
  BY <1>1, <1>2, Grows
<1>6. Running'
  BY <1>2, <1>4 DEF Running
<1>7. /\ pending \in Seq(P) /\ p1 \in P /\ devices \in Seq(D) /\ d1 \in D
      /\ requests \in Seq(Requests) /\ EnumParams(n) \in Requests
  <2>1. pending \in Seq(P)
    BY <1>5, PendingMoves
  <2>2. <<>> \in Seq(Usable)
    BY EmptySeq
  <2>3. moves' \in 0 .. moves' /\ 0 \in Nat
    BY <1>5
  <2>4. p1 \in P /\ d1 \in D
    BY <2>2, <2>3
  <2> QED
    BY <2>1, <2>4, RequestTypes DEF TypeOK
<1>8. /\ pending' \in Seq(P) /\ devices' \in Seq(D) /\ requests' \in Seq(Requests)
      /\ Len(pending) \in Nat /\ Len(devices) \in Nat /\ Len(pending) = Len(devices)
      /\ DOMAIN pending = 1 .. Len(devices) /\ DOMAIN devices = 1 .. Len(devices)
      /\ DOMAIN pending' = 1 .. Len(devices) + 1
      /\ DOMAIN devices' = 1 .. Len(devices) + 1
      /\ \A i \in DOMAIN devices : pending'[i] = pending[i] /\ devices'[i] = devices[i]
      /\ pending'[Len(devices) + 1] = p1 /\ devices'[Len(devices) + 1] = d1
  <2> HIDE DEF P, D, p1, d1
  <2>1. Len(pending) = Len(devices)
    BY <1>2 DEF Arrays
  <2>2. requests' \in Seq(Requests)
    <3>1. Append(requests, EnumParams(n)) \in Seq(Requests)
      BY <1>7, AppendQueue
    <3> QED
      BY <1>4, <1>7, <3>1
  <2> QED
    BY <1>4, <1>7, <2>1, <2>2, AppendQueue
<1>9. Len(pending') = Len(devices) + 1 /\ Len(devices') = Len(devices) + 1
  <2> HIDE DEF P, D, p1, d1
  <2> QED
    BY <1>4, <1>7, <1>8, AppendProperties
<1>9a. /\ DOMAIN pending' = DOMAIN pending \cup {Len(devices) + 1}
       /\ DOMAIN devices' = DOMAIN devices \cup {Len(devices) + 1}
  <2>1. /\ DOMAIN pending = 1 .. Len(devices) /\ DOMAIN devices = 1 .. Len(devices)
        /\ DOMAIN pending' = 1 .. Len(devices) + 1
        /\ DOMAIN devices' = 1 .. Len(devices) + 1
        /\ Len(devices) \in Nat
    BY <1>8
  <2> HIDE DEF P, D, p1, d1
  <2> QED
    BY <2>1
<1>9b. \A x : /\ In(x, requests') => In(x, requests) \/ x = EnumParams(n)
              /\ Once(x, requests) /\ x # EnumParams(n) => Once(x, requests')
              /\ ~In(x, requests) => Once(x, requests')
  <2>1. CASE requests' = requests
    BY <2>1 DEF In, Once
  <2>2. CASE requests' = Append(requests, EnumParams(n))
    <3>1. requests \in Seq(Requests) /\ EnumParams(n) \in Requests
      BY <1>7
    <3> HIDE DEF P, D, p1, d1
    <3> QED
      BY <2>2, <3>1, AppendIn
  <2> QED
    BY <1>4, <2>1, <2>2
<1>10. TypeOK'
  <2>1. events' \in Seq(Events)
    BY <1>2, TailQueue
  <2>2. shortened' \in SUBSET Nodes
    BY <1>4 DEF TypeOK
  <2> QED
    BY <1>4, <1>5, <1>8, <2>1, <2>2 DEF TypeOK
<1>11. Phases'
  BY <1>2, <1>4, <1>6 DEF Phases, Running, Connecting
<1>12. Arrays'
  <2>1. \A i \in DOMAIN devices' : pending'[i].node = devices'[i].node
    <3> TAKE i \in DOMAIN devices'
    <3>1. CASE i \in DOMAIN devices
      BY <1>2, <1>8, <3>1 DEF Arrays
    <3>2. CASE i = Len(devices) + 1
      BY <1>8, <3>2
    <3> QED
      BY <1>9a, <3>1, <3>2
  <2> QED
    BY <1>5, <1>8, <1>9, <2>1 DEF Arrays
<1>13. Syncs'
  BY <1>1, <1>3, <1>4, TakesSyncs
<1>14. /\ n \notin Listed /\ node[n] # "absent" /\ Listed' = Listed \cup {n}
       /\ ~In(Global(n), events') /\ ~In(EnumParams(n), requests)
       /\ \A p \in 1 .. Params : ~In(Param(n, p), events)
  <2>1. n \notin Listed /\ node[n] # "absent" /\ ~In(Global(n), events')
    BY <1>2, <1>3, TailIn DEF Announced
  <2>2. Listed' = Listed \cup {n}
    <3>2. Len(devices) + 1 \in DOMAIN devices'
      BY <1>8
    <3>3. DOMAIN devices' = DOMAIN devices \cup {Len(devices) + 1}
      BY <1>9a
    <3>4. \A i \in DOMAIN devices : devices'[i].node = devices[i].node
      BY <1>8
    <3>5. devices'[Len(devices) + 1].node = n
      BY <1>8
    <3> QED
      BY <3>2, <3>3, <3>4, <3>5 DEF Listed
  <2> QED
    BY <2>1, <2>2 DEF Announced
<1>15. Announced'
  <2>1. \A x : /\ In(x, events') => In(x, events)
               /\ Once(x, events) => Once(x, events')
    BY <1>2, TailIn
  <2>2. ASSUME NEW m \in Nodes
        PROVE  /\ Once(Global(m), events')
               /\ In(Global(m), events') => m \notin Listed' /\ node'[m] # "absent"
               /\ m \in Listed' => node'[m] # "absent"
               /\ \A p \in 1 .. Params : In(Param(m, p), events') => m \in Listed'
    BY <1>2, <1>4, <1>14, <2>1 DEF Announced
  <2>3. ASSUME NEW m \in Nodes
        PROVE  /\ In(EnumParams(m), requests') => m \in Listed'
               /\ Once(EnumParams(m), requests')
    <3>1. CASE m = n
      BY <1>14, <1>9b, <3>1 DEF Announced
    <3>2. CASE m # n
      <4>1. EnumParams(m) # EnumParams(n)
        BY <3>2, Messages
      <4> QED
        BY <1>14, <1>9b, <4>1 DEF Announced
    <3> QED
      BY <3>1, <3>2
  <2>4. \A i, j \in DOMAIN devices' : devices'[i].node = devices'[j].node => i = j
    <3>0. \A i \in DOMAIN devices : devices'[i] = devices[i]
      BY <1>8
    <3>1. \A i \in DOMAIN devices : devices'[i].node # n
      BY <1>14, <3>0 DEF Listed
    <3>2. \A i, j \in DOMAIN devices : devices'[i].node = devices'[j].node => i = j
      BY <3>0 DEF Announced
    <3>3. devices'[Len(devices) + 1].node = n
      BY <1>8
    <3>4. DOMAIN devices' = DOMAIN devices \cup {Len(devices) + 1}
      BY <1>9a
    <3> QED
      BY <3>1, <3>2, <3>3, <3>4
  <2> QED
    BY <2>2, <2>3, <2>4 DEF Announced
<1>16. Early'
  <2>1. \A m \in Nodes : Head(events) = Global(m) => m \in Listed'
    BY <1>3, <1>14, Messages
  <2> QED
    BY <1>1, <1>4, <1>6, <1>14, <2>1, TakesEarly
<1>17. Collecting'
  <2>1. ASSUME ~astray', NEW i \in DOMAIN pending', NEW m \in Steady,
               m = pending'[i].node
        PROVE  \/ Asked(m)' /\ Collected(m, pending[i].formats, 0)'
               \/ \E k \in 0 .. Params, s \in Nat :
                    Answered(m, k, s)' /\ Collected(m, pending[i].formats, k)'
    <3>1. CASE i = Len(devices) + 1
      <4>1. m = n /\ pending'[i].formats = <<>>
        BY <1>8, <2>1, <3>1
      <4>2. Collected(m, pending[i].formats, 0)'
        BY <4>1 DEF Collected, InOrder
      <4>3. sync' = 1
        BY <1>2, <1>3, <1>4, <4>1 DEF Early, In
      <4>4. \A p \in 1 .. Params : ~In(Param(n, p), events')
        BY <1>2, <1>14, TailIn
      <4>5. CASE requests' = Append(requests, EnumParams(n))
        <5>0. In(EnumParams(n), Append(requests, EnumParams(n)))
          <6>1. requests \in Seq(Requests) /\ EnumParams(n) \in Requests
            BY <1>7
          <6> HIDE DEF P, D, p1, d1
          <6> QED
            BY <6>1, AppendIn
        <5>1. \E r \in DOMAIN requests' : requests'[r] = EnumParams(n)
          BY <4>5, <5>0 DEF In
        <5>2. Asked(m)'
          BY <4>1, <4>3, <4>4, <5>1 DEF Asked
        <5> QED
          BY <4>2, <5>2
      <4>6. CASE requests' = requests /\ shortened' = shortened \cup {n}
        <5>1. Params \in Nat /\ 0 \in Nat /\ Params \in 0 .. Params
              /\ 1 .. Params - Params = {}
          BY EnumerateAssumption
        <5>2. Answered(m, Params, 0)'
          BY <1>14, <4>1, <4>4, <4>6, <5>1 DEF Answered, In
        <5>3. Collected(m, pending[i].formats, Params)'
          BY <4>1, <4>6 DEF Collected, InOrder
        <5> QED
          BY <5>1, <5>2, <5>3
      <4> QED
        BY <1>4, <4>5, <4>6
    <3>2. CASE i \in DOMAIN devices
      <4>1. pending'[i] = pending[i] /\ i \in DOMAIN pending /\ pending[i].node = m
        BY <1>8, <2>1, <3>2
      <4>2. ~astray /\ m \in Nodes
        BY <1>4, <2>1, <4>1, ArrayTypes
      <4>3. m \in Listed
        BY <1>2, <3>2, <4>1 DEF Arrays, Listed
      <4>4. m # n
        BY <1>14, <4>3
      <4>5. \A p \in 1 .. Params : Head(events) # Param(m, p)
        BY <1>3, Messages
      <4>6. \/ Asked(m) /\ Collected(m, pending[i].formats, 0)
            \/ \E k \in 0 .. Params, s \in Nat :
                 Answered(m, k, s) /\ Collected(m, pending[i].formats, k)
        BY <1>2, <2>1, <4>1, <4>2 DEF Collecting
      <4>7. /\ Asked(m) => Asked(m)'
            /\ \A k \in 0 .. Params, s \in Nat :
                 Answered(m, k, s) => \E t \in Nat : Answered(m, k, t)'
        BY <1>1, <1>4, <4>2, <4>4, <4>5, TakesAnswers
      <4>8. \A k : Collected(m, pending[i].formats, k)
                    => Collected(m, pending[i].formats, k)'
        <5>1. m \notin shortened' => m \notin shortened
          BY <1>4
        <5> QED
          BY <4>1, <5>1 DEF Collected, InOrder
      <4> QED
        BY <4>6, <4>7, <4>8
    <3>3. i \in DOMAIN devices \/ i = Len(devices) + 1
      <4>1. DOMAIN pending' = 1 .. Len(devices) + 1 /\ Len(devices) \in Nat
            /\ DOMAIN devices = 1 .. Len(devices)
        BY <1>8
      <4> QED
        BY <4>1
    <3> QED
      BY <3>1, <3>2, <3>3
  <2>2. api' # "listed"
    BY <1>2, <1>4 DEF Phases, Running
  <2> QED
    BY <1>2, <2>1, <2>2 DEF Collecting
<1>18. Owned'
  <2>1. pending'[Len(devices) + 1].formats = <<>>
    BY <1>8
  <2>2. \A i \in DOMAIN pending : pending'[i] = pending[i]
    BY <1>8
  <2> HIDE DEF P, D, p1, d1
  <2>3. PendingBlocks' = PendingBlocks
    BY <1>9a, <2>1, <2>2 DEF PendingBlocks
  <2> QED
    BY <1>2, <1>4, <1>6, <2>3 DEF Owned
<1> QED
  BY <1>10, <1>11, <1>12, <1>13, <1>15, <1>16, <1>17, <1>18

(* A function on the first n numbers is a queue.                            *)
LEMMA IsQueue ==
  ASSUME NEW S, NEW n \in Nat, NEW s \in [1 .. n -> S]
  PROVE  s \in Seq(S) /\ Len(s) = n
<1>1. s \in UNION {[1 .. m -> S] : m \in Nat}
  OBVIOUS
<1>2. s \in Seq(S)
  BY <1>1, SeqDef
<1> QED
  BY <1>2, LenProperties

(* A param that is handled is the next one of its node, and the others      *)
(* follow it.                                                               *)
LEMMA NextAnswer ==
  ASSUME IndInv, events # <<>>, NEW n \in Nodes, NEW p \in 1 .. Params,
         Head(events) = Param(n, p), NEW k \in 0 .. Params, NEW s \in Nat,
         Answered(n, k, s)
  PROVE  p = k + 1 /\ s = 0 /\ k + 1 \in 1 .. Params
<1>1. events \in Seq(Events) /\ Params \in Nat
  BY EnumerateAssumption DEF IndInv, TypeOK
<1>2. 1 \in DOMAIN events /\ events[1] = Param(n, p)
  BY <1>1, TailQueue
<1>3. 1 \in s + 1 .. s + (Params - k)
  BY <1>2 DEF Answered
<1>4. s = 0 /\ 1 \in 1 .. Params - k /\ k + 1 \in 1 .. Params
  BY <1>1, <1>3
<1>5. events[1] = Param(n, k + 1)
  BY <1>4 DEF Answered
<1>6. p = k + 1
  <2>1. Param(n, p) = Param(n, k + 1)
    BY <1>2, <1>5
  <2> QED
    BY <2>1 DEF Param
<1> QED
  BY <1>4, <1>6

LEMMA TakesAnswer ==
  ASSUME IndInv, events # <<>>, events' = Tail(events), requests' = requests,
         cpc' = cpc, NEW n \in Nodes, NEW k \in 0 .. Params, Answered(n, k, 0),
         k + 1 \in 1 .. Params
  PROVE  Answered(n, k + 1, 0)'
<1>1. events \in Seq(Events) /\ Params \in Nat
  BY EnumerateAssumption DEF IndInv, TypeOK
<1>2. \A j \in DOMAIN events' :
        j \in 1 .. Len(events) - 1 /\ j + 1 \in DOMAIN events /\ events'[j] = events[j + 1]
  BY <1>1, TailQueue
<1>3. \A p \in 1 .. Params - (k + 1) :
        0 + p \in DOMAIN events' /\ events'[0 + p] = Param(n, (k + 1) + p)
  <2> TAKE p \in 1 .. Params - (k + 1)
  <2>1. p + 1 \in 1 .. Params - k /\ 0 + (p + 1) = p + 1 /\ k + (p + 1) = (k + 1) + p
        /\ p + 1 # 1 /\ (p + 1) - 1 = p /\ 0 + p = p
    BY <1>1
  <2>2. p + 1 \in DOMAIN events /\ events[p + 1] = Param(n, (k + 1) + p)
    BY <2>1 DEF Answered
  <2>3. p \in DOMAIN events' /\ events'[p] = events[p + 1]
    BY <1>1, <2>1, <2>2, TailQueue
  <2> QED
    BY <2>1, <2>2, <2>3
<1>4. ASSUME NEW j \in DOMAIN events', NEW p \in 1 .. Params, events'[j] = Param(n, p)
      PROVE  j \in 0 + 1 .. 0 + (Params - (k + 1))
  <2>1. j + 1 \in 0 + 1 .. 0 + (Params - k)
    BY <1>2, <1>4 DEF Answered
  <2>2. j \in Int /\ j >= 1
    BY <1>1, <1>2, LenProperties
  <2> QED
    BY <1>1, <2>1, <2>2
<1>5. ASSUME NEW j \in DOMAIN events', events'[j] = Done(2)
      PROVE  k + 1 = Params \/ 0 + (Params - (k + 1)) < j
  <2>1. k = Params \/ 0 + (Params - k) < j + 1
    BY <1>2, <1>5 DEF Answered
  <2>2. j \in Int
    BY <1>1, <1>2, LenProperties
  <2> QED
    BY <1>1, <2>1, <2>2
<1>6. cpc' # "cleanup" /\ ~In(EnumParams(n), requests')
  BY <1>1 DEF Answered
<1> QED
  BY <1>3, <1>4, <1>5, <1>6 DEF Answered

(* The formats with the next param's added, if it can be converted.         *)
LEMMA Collects ==
  ASSUME NEW n, NEW seq \in Seq(Usable), NEW k \in Nat, Collected(n, seq, k)
  PROVE  Collected(n, IF k + 1 \in Usable THEN Append(seq, k + 1) ELSE seq, k + 1)
<1>1. Usable \subseteq Int
  BY EnumerateAssumption
<1>2. CASE k + 1 \notin Usable
  <2>1. Usable \cap 1 .. k + 1 = Usable \cap 1 .. k
    BY <1>1, <1>2
  <2> QED
    BY <1>2, <2>1 DEF Collected
<1>3. CASE k + 1 \in Usable
  <2> DEFINE t == Append(seq, k + 1)
  <2>1. /\ DOMAIN seq = 1 .. Len(seq) /\ Len(seq) \in Nat
        /\ DOMAIN t = 1 .. Len(seq) + 1
        /\ \A i \in DOMAIN seq : t[i] = seq[i]
        /\ t[Len(seq) + 1] = k + 1
    BY <1>3, AppendQueue
  <2> HIDE DEF t
  <2>2. DOMAIN t = DOMAIN seq \cup {Len(seq) + 1} /\ Len(seq) + 1 \notin DOMAIN seq
    BY <2>1
  <2>3. {t[l] : l \in DOMAIN t} = {seq[l] : l \in DOMAIN seq} \cup {k + 1}
    BY <2>1, <2>2
  <2>4. Usable \cap 1 .. k + 1 = (Usable \cap 1 .. k) \cup {k + 1}
    BY <1>1, <1>3
  <2>5. \A l \in DOMAIN seq : seq[l] \in 1 .. k
    BY DEF Collected
  <2>6. ASSUME NEW l \in DOMAIN t, NEW m \in DOMAIN t, l < m
        PROVE  t[l] < t[m]
    <3>1. CASE m \in DOMAIN seq
      <4>1. l \in DOMAIN seq
        BY <2>1, <2>6, <3>1
      <4> QED
        BY <2>1, <2>6, <3>1, <4>1 DEF Collected, InOrder
    <3>2. CASE m = Len(seq) + 1
      <4>1. l \in DOMAIN seq
        BY <2>1, <2>6, <3>2
      <4>2. seq[l] \in 1 .. k /\ t[l] = seq[l] /\ t[m] = k + 1
        BY <2>1, <2>5, <3>2, <4>1
      <4> QED
        BY <4>2
    <3> QED
      BY <2>2, <3>1, <3>2
  <2>7. Collected(n, t, k + 1)
    BY <2>3, <2>4, <2>6 DEF Collected, InOrder
  <2> QED
    BY <1>3, <2>7 DEF t
<1> QED
  BY <1>2, <1>3

(* A node's params are handled in order.  Whatever handling the p-th does   *)
(* to the pending node, if it leaves what the p-th should leave the         *)
(* invariant is kept.                                                       *)
LEMMA TakesParam ==
  ASSUME IndInv, Dispatch("param"), NEW n \in Nodes, NEW p \in 1 .. Params,
         Head(events) = Param(n, p),
         UNCHANGED <<cpc, sync, capacity, moves, devices, requests, missed>>,
         pending' \in Seq([node : Nodes, formats : Seq(Usable), room : Nat,
                          home : 0 .. moves]),
         Len(pending') = Len(pending),
         \A i \in DOMAIN pending :
           /\ pending'[i].node = pending[i].node
           /\ pending[i].node # n => pending'[i].formats = pending[i].formats,
         shortened \subseteq shortened', shortened' \in SUBSET Nodes,
         blocks' \subseteq Nodes \X {"own", "stray"}, astray' \in BOOLEAN,
         astray => astray',
         ~astray' =>
           \A k \in Nat : p = k + 1 =>
             \A i \in DOMAIN pending :
               pending[i].node = n /\ Collected(n, pending[i].formats, k)
                 => Collected(n, pending[i].formats, k + 1)',
         ~astray' => blocks' = PendingBlocks'
  PROVE  IndInv'
<1> USE DEF IndInv
<1>1. Dispatch("param")
  OBVIOUS
<1>2. /\ Running /\ bound /\ events \in Seq(Events) /\ events # <<>>
      /\ events' = Tail(events) /\ Head(events) \in Events /\ Steady' = Steady
      /\ In(Head(events), events)
  BY <1>1, Handles
<1>3. Head(events) = Param(n, p)
  OBVIOUS
<1>4. /\ sync' = sync /\ cpc' = cpc /\ missed' = missed /\ devices' = devices
      /\ requests' = requests /\ capacity' = capacity /\ moves' = moves
      /\ api' = api /\ held' = held /\ node' = node /\ bound' = bound
      /\ early' = early
  BY DEF Dispatch
<1>5. Running'
  BY <1>2, <1>4 DEF Running
<1>6. \A i \in DOMAIN pending : pending'[i].node = pending[i].node
  OBVIOUS
<1>7. /\ DOMAIN pending' = DOMAIN pending /\ DOMAIN pending = 1 .. Len(pending)
      /\ Len(pending) \in Nat /\ Len(pending') = Len(pending)
  BY ArrayTypes, LenProperties
<1>8. TypeOK'
  <2>1. events' \in Seq(Events)
    BY <1>2, TailQueue
  <2> QED
    BY <1>4, <2>1 DEF TypeOK
<1>9. Phases'
  BY <1>2, <1>4, <1>5 DEF Phases, Running, Connecting
<1>10. Arrays'
  <2>1. DOMAIN devices = DOMAIN pending
    BY <1>2, ArrayTypes DEF Arrays
  <2> QED
    BY <1>2, <1>4, <1>6, <1>7, <2>1 DEF Arrays
<1>11. Syncs'
  BY <1>1, <1>4, TakesSyncs
<1>12. Announced'
  BY <1>1, <1>4, TakesAnnounced
<1>13. Early'
  <2>1. \A m \in Nodes : Head(events) # Global(m)
    BY <1>3, Messages
  <2> QED
    BY <1>1, <1>4, <1>5, <2>1, TakesEarly DEF Listed
<1>14. Collecting'
  <2>1. ASSUME ~astray', NEW i \in DOMAIN pending, NEW m \in Steady,
               m = pending[i].node
        PROVE  \/ Asked(m)' /\ Collected(m, pending[i].formats, 0)'
               \/ \E k \in 0 .. Params, s \in Nat :
                    Answered(m, k, s)' /\ Collected(m, pending[i].formats, k)'
    <3>1. m \in Nodes
      BY <2>1, ArrayTypes
    <3>2. \/ Asked(m) /\ Collected(m, pending[i].formats, 0)
          \/ \E k \in 0 .. Params, s \in Nat :
               Answered(m, k, s) /\ Collected(m, pending[i].formats, k)
      BY <1>2, <2>1 DEF Collecting
    <3>3. CASE m # n
      <4>1. \A q \in 1 .. Params : Head(events) # Param(m, q)
        BY <1>3, <3>3, Messages
      <4>2. /\ Asked(m) => Asked(m)'
            /\ \A k \in 0 .. Params, s \in Nat :
                 Answered(m, k, s) => \E t \in Nat : Answered(m, k, t)'
        BY <1>1, <1>4, <3>1, <4>1, TakesAnswers
      <4>3. pending'[i].formats = pending[i].formats
        BY <2>1, <3>3
      <4>4. \A k : Collected(m, pending[i].formats, k)
                    => Collected(m, pending[i].formats, k)'
        BY <4>3 DEF Collected, InOrder
      <4> QED
        BY <3>2, <4>2, <4>4
    <3>4. CASE m = n
      <4>1. ~Asked(m)
        BY <1>2, <1>3, <3>4 DEF Asked
      <4>2. PICK k \in 0 .. Params, s \in Nat :
              Answered(m, k, s) /\ Collected(m, pending[i].formats, k)
        BY <3>2, <4>1
      <4>3a. Answered(n, k, s)
        BY <3>4, <4>2
      <4>3b. p = k + 1 /\ s = 0 /\ k + 1 \in 1 .. Params
        BY <1>2, <1>3, <4>3a, NextAnswer
      <4>3c. k \in Nat
        BY EnumerateAssumption
      <4>3. p = k + 1 /\ s = 0 /\ k + 1 \in 1 .. Params /\ k \in Nat
        BY <4>3b, <4>3c
      <4>4. Answered(m, k + 1, 0)'
        BY <1>1, <1>2, <1>4, <3>1, <4>2, <4>3, TakesAnswer
      <4>5. Collected(m, pending[i].formats, k + 1)'
        BY <2>1, <3>4, <4>2, <4>3
      <4>6. k + 1 \in 0 .. Params /\ 0 \in Nat
        BY <4>3
      <4> QED
        BY <4>4, <4>5, <4>6
    <3> QED
      BY <3>3, <3>4
  <2>2. api' # "listed"
    BY <1>2, <1>4 DEF Phases, Running
  <2> QED
    BY <1>2, <1>4, <1>6, <1>7, <2>1, <2>2 DEF Collecting
<1>15. Owned'
  BY <1>5 DEF Owned
<1> QED
  BY <1>8, <1>9, <1>10, <1>11, <1>12, <1>13, <1>14, <1>15

(* What a handler of params finds.                                          *)
LEMMA HandlesParam ==
  ASSUME IndInv, Dispatch("param")
  PROVE  \E n \in Nodes, p \in 1 .. Params :
           /\ Head(events) = Param(n, p)
           /\ Head(events).node = n /\ Head(events).param = p
           /\ \E i \in DOMAIN pending : pending[i].node = n
<1> USE DEF IndInv
<1>1. Running /\ Head(events) \in Events /\ In(Head(events), events)
  BY Handles
<1>2. PICK n \in Nodes, p \in 1 .. Params :
        Head(events) = Param(n, p) /\ Head(events).node = n /\ Head(events).param = p
  BY <1>1, EventTypes DEF Dispatch
<1>3. n \in Listed
  BY <1>1, <1>2 DEF Announced
<1>4. \E i \in DOMAIN pending : pending[i].node = n
  BY <1>1, <1>3, ArrayTypes DEF Listed, Arrays
<1> QED
  BY <1>2, <1>4

(* The next param's format is added, if it can be converted.                *)
LEMMA Converts ==
  ASSUME IndInv, NodeParam
  PROVE  IndInv'
<1> USE DEF IndInv
<1>1. Dispatch("param") /\ Running
  BY Handles DEF NodeParam
<1>2. PICK n \in Nodes, p \in 1 .. Params :
        /\ Head(events) = Param(n, p)
        /\ Head(events).node = n /\ Head(events).param = p
        /\ \E i \in DOMAIN pending : pending[i].node = n
  BY <1>1, HandlesParam
<1>3. /\ UNCHANGED <<cpc, sync, capacity, moves, devices, requests, missed>>
      /\ shortened' = shortened /\ astray' = astray
  BY DEF NodeParam, past
<1>4. CASE p \notin Usable
  <2>1. pending' = pending /\ blocks' = blocks
    BY <1>2, <1>4 DEF NodeParam
  <2>2. ASSUME NEW k \in Nat, p = k + 1, NEW i \in DOMAIN pending,
               Collected(n, pending[i].formats, k)
        PROVE  Collected(n, pending[i].formats, k + 1)'
    <3>1. Collected(n, pending[i].formats, k + 1)
      BY <1>4, <2>2, ArrayTypes, Collects
    <3> QED
      BY <1>3, <2>1, <3>1 DEF Collected, InOrder
  <2>3. ~astray' => blocks' = PendingBlocks'
    BY <1>1, <1>3, <2>1 DEF Owned, PendingBlocks
  <2>4. pending \in Seq([node : Nodes, formats : Seq(Usable), room : Nat,
                         home : 0 .. moves])
    BY DEF TypeOK
  <2> QED
    BY <1>1, <1>2, <1>3, <2>1, <2>2, <2>3, <2>4, TakesParam DEF TypeOK
<1>5. CASE p \in Usable
  <2>1. /\ pending' = [i \in DOMAIN pending |->
                         IF pending[i].node = n THEN WithFormat(pending[i], p)
                         ELSE pending[i]]
        /\ blocks' = blocks \cup {<<n, "own">>}
    BY <1>2, <1>5 DEF NodeParam
  <2>2. ASSUME NEW i \in DOMAIN pending
        PROVE  /\ pending'[i] \in [node : Nodes, formats : Seq(Usable), room : Nat,
                                   home : 0 .. moves]
               /\ pending'[i].node = pending[i].node
               /\ pending'[i].formats = IF pending[i].node = n
                                        THEN Append(pending[i].formats, p)
                                        ELSE pending[i].formats
    <3>1. pending[i] \in [node : Nodes, formats : Seq(Usable), room : Nat,
                          home : 0 .. moves]
      BY ArrayTypes
    <3>2. Append(pending[i].formats, p) \in Seq(Usable)
      BY <1>5, <3>1, AppendProperties
    <3> DEFINE grown == IF ~IsFull(pending[i]) THEN pending[i].room
                        ELSE IF pending[i].room = 0 THEN InitialFormats
                             ELSE 2 * pending[i].room
    <3>3. grown \in Nat
      <4>1. pending[i].room \in Nat /\ InitialFormats \in Nat
        BY <3>1, EnumerateAssumption
      <4> QED
        BY <4>1
    <3>4. WithFormat(pending[i], p) =
            [pending[i] EXCEPT !.formats = Append(pending[i].formats, p),
                               !.room = grown]
      BY <3>1 DEF WithFormat
    <3> HIDE DEF grown
    <3> QED
      BY <2>1, <3>1, <3>2, <3>3, <3>4
  <2>3. /\ DOMAIN pending' = DOMAIN pending /\ Len(pending') = Len(pending)
        /\ pending' \in Seq([node : Nodes, formats : Seq(Usable), room : Nat,
                             home : 0 .. moves])
    <3> DEFINE P == [node : Nodes, formats : Seq(Usable), room : Nat, home : 0 .. moves]
    <3>1. DOMAIN pending = 1 .. Len(pending) /\ Len(pending) \in Nat
      BY ArrayTypes
    <3>2. \A i \in 1 .. Len(pending) : pending'[i] \in P
      BY <2>2, <3>1
    <3>3. pending' = [i \in 1 .. Len(pending) |-> pending'[i]]
      BY <2>1, <3>1
    <3> HIDE DEF P
    <3>4. pending' \in [1 .. Len(pending) -> P]
      BY <3>2, <3>3
    <3>5. pending' \in Seq(P) /\ Len(pending') = Len(pending)
      BY <3>1, <3>4, IsQueue
    <3> QED
      BY <2>1, <3>5 DEF P
  <2>4. ASSUME NEW k \in Nat, p = k + 1, NEW i \in DOMAIN pending,
               pending[i].node = n, Collected(n, pending[i].formats, k)
        PROVE  Collected(n, pending[i].formats, k + 1)'
    <3>1. Collected(n, Append(pending[i].formats, p), k + 1)
      BY <1>5, <2>4, ArrayTypes, Collects
    <3>2. pending'[i].formats = Append(pending[i].formats, p)
      BY <2>2, <2>4
    <3> QED
      BY <1>3, <3>1, <3>2 DEF Collected, InOrder
  <2>5. ~astray' => blocks' = PendingBlocks'
    <3>1. \A i \in DOMAIN pending :
            pending'[i].formats # <<>> <=>
              pending[i].formats # <<>> \/ pending[i].node = n
      <4> TAKE i \in DOMAIN pending
      <4>1. Append(pending[i].formats, p) # <<>>
        BY <1>5, ArrayTypes, AppendProperties, EmptySeq
      <4> QED
        BY <2>2, <4>1
    <3>2. DOMAIN pending' = DOMAIN pending
      BY <2>3
    <3>3. \A i \in DOMAIN pending : pending'[i].node = pending[i].node
      BY <2>2
    <3>4. \E i \in DOMAIN pending : pending[i].node = n
      BY <1>2
    <3>5. \A b : b \in PendingBlocks <=>
            \E i \in DOMAIN pending :
              pending[i].formats # <<>> /\ b = <<pending[i].node, "own">>
      BY DEF PendingBlocks
    <3>6. \A b : b \in PendingBlocks' <=>
            \E i \in DOMAIN pending' :
              pending'[i].formats # <<>> /\ b = <<pending'[i].node, "own">>
      BY DEF PendingBlocks
    <3>7. \A b : b \in PendingBlocks' <=>
            b \in PendingBlocks \/ b = <<n, "own">>
      <4> TAKE b
      <4>1. b \in PendingBlocks' => b \in PendingBlocks \/ b = <<n, "own">>
        BY <3>1, <3>2, <3>3, <3>5, <3>6
      <4>2. b \in PendingBlocks => b \in PendingBlocks'
        BY <3>1, <3>2, <3>3, <3>5, <3>6
      <4>3. <<n, "own">> \in PendingBlocks'
        BY <3>1, <3>2, <3>3, <3>4, <3>6
      <4> QED
        BY <4>1, <4>2, <4>3
    <3>8. PendingBlocks' = PendingBlocks \cup {<<n, "own">>}
      BY <3>7
    <3> QED
      BY <1>1, <1>3, <2>1, <3>8 DEF Owned
  <2>6. blocks' \subseteq Nodes \X {"own", "stray"}
    BY <2>1 DEF TypeOK
  <2>7. \A i \in DOMAIN pending :
          /\ pending'[i].node = pending[i].node
          /\ pending[i].node # n => pending'[i].formats = pending[i].formats
    BY <2>2
  <2>8. shortened' \in SUBSET Nodes /\ astray' \in BOOLEAN
    BY <1>3 DEF TypeOK
  <2> QED
    BY <1>1, <1>2, <1>3, <2>3, <2>4, <2>5, <2>6, <2>7, <2>8, TakesParam
<1> QED
  BY <1>4, <1>5

(* There is no memory for it: the node's formats will not be complete.      *)
LEMMA Shortens ==
  ASSUME IndInv, NodeParamFails
  PROVE  IndInv'
<1> USE DEF IndInv
<1>1. Dispatch("param") /\ Running
  BY Handles DEF NodeParamFails
<1>2. PICK n \in Nodes, p \in 1 .. Params :
        /\ Head(events) = Param(n, p)
        /\ Head(events).node = n /\ Head(events).param = p
        /\ \E i \in DOMAIN pending : pending[i].node = n
  BY <1>1, HandlesParam
<1>3. /\ UNCHANGED <<cpc, sync, capacity, moves, devices, requests, missed>>
      /\ pending' = pending /\ blocks' = blocks /\ astray' = astray
      /\ shortened' = shortened \cup {n}
  BY <1>2 DEF NodeParamFails, arrays, memory
<1>4. ASSUME NEW k \in Nat, p = k + 1, NEW i \in DOMAIN pending,
             Collected(n, pending[i].formats, k)
      PROVE  Collected(n, pending[i].formats, k + 1)'
  <2>1. 1 .. k \subseteq 1 .. k + 1
    OBVIOUS
  <2> QED
    BY <1>3, <1>4, <2>1 DEF Collected, InOrder
<1>5. ~astray' => blocks' = PendingBlocks'
  BY <1>1, <1>3 DEF Owned, PendingBlocks
<1>6. pending \in Seq([node : Nodes, formats : Seq(Usable), room : Nat,
                       home : 0 .. moves])
      /\ shortened' \in SUBSET Nodes
  BY <1>3 DEF TypeOK
<1> QED
  BY <1>1, <1>2, <1>3, <1>4, <1>5, <1>6, TakesParam DEF TypeOK

(* The listener is in freed memory.                                         *)
LEMMA Strays ==
  ASSUME IndInv, StaleParam
  PROVE  IndInv'
<1> USE DEF IndInv
<1>1. Dispatch("param") /\ Running
  BY Handles DEF StaleParam
<1>2. PICK n \in Nodes, p \in 1 .. Params :
        /\ Head(events) = Param(n, p)
        /\ Head(events).node = n /\ Head(events).param = p
        /\ \E i \in DOMAIN pending : pending[i].node = n
  BY <1>1, HandlesParam
<1>3. /\ UNCHANGED <<cpc, sync, capacity, moves, devices, requests, missed>>
      /\ pending' = pending /\ shortened' = shortened /\ astray' = TRUE
      /\ blocks' \subseteq blocks \cup {<<n, "stray">>}
  BY <1>2 DEF StaleParam, past
<1>4. /\ pending \in Seq([node : Nodes, formats : Seq(Usable), room : Nat,
                          home : 0 .. moves])
      /\ blocks' \subseteq Nodes \X {"own", "stray"}
  BY <1>3 DEF TypeOK
<1> QED
  BY <1>1, <1>2, <1>3, <1>4, TakesParam DEF TypeOK

(* The answer to the first sync: the second one is issued.                 *)
LEMMA SyncsAgain ==
  ASSUME IndInv, CoreDone, Head(events).seq = 1
  PROVE  IndInv'
<1> USE DEF IndInv
<1>1. Dispatch("done") /\ Head(events).type = "done"
  BY DEF CoreDone, Dispatch
<1>2. /\ Running /\ bound /\ events \in Seq(Events) /\ events # <<>>
      /\ events' = Tail(events) /\ Head(events) \in Events /\ Steady' = Steady
      /\ In(Head(events), events)
  BY <1>1, Handles
<1>3. Head(events) = Done(1)
  BY <1>1, <1>2, EventTypes
<1>4. sync = 1 /\ cpc = "run"
  BY <1>2, <1>3 DEF Syncs, Running
<1>5. /\ sync' = 2 /\ cpc' = cpc /\ missed' = missed /\ devices' = devices
      /\ pending' = pending /\ capacity' = capacity /\ moves' = moves
      /\ api' = api /\ held' = held /\ node' = node /\ bound' = bound
      /\ early' = early /\ requests' = Append(requests, Sync(2))
      /\ shortened' = shortened /\ blocks' = blocks /\ astray' = astray
  BY DEF CoreDone, Dispatch, Sync, arrays, memory, past
<1>6. Running' /\ Listed' = Listed
  BY <1>2, <1>5 DEF Running, Listed
<1>7. /\ requests \in Seq(Requests) /\ Sync(2) \in Requests
      /\ requests' \in Seq(Requests) /\ events' \in Seq(Events)
  BY <1>2, <1>5, RequestTypes, AppendQueue, TailQueue DEF TypeOK
<1>8. \A x : /\ In(x, events') => In(x, events)
             /\ Once(x, events) => Once(x, events')
             /\ In(x, events) /\ x # Done(1) => In(x, events')
             /\ In(x, requests') <=> In(x, requests) \/ x = Sync(2)
             /\ Once(x, requests) /\ x # Sync(2) => Once(x, requests')
  BY <1>2, <1>3, <1>5, <1>7, TailIn, AppendIn
<1>9. TypeOK'
  BY <1>5, <1>7 DEF TypeOK
<1>10. Phases' /\ Arrays'
  BY <1>2, <1>5, <1>6 DEF Phases, Arrays, Connecting, Running
<1>11. Syncs'
  <2>1. /\ ~In(Sync(2), requests) /\ ~In(Done(2), events')
        /\ ~In(Sync(1), requests') /\ ~In(Done(1), events')
    <3>1. ~In(Sync(2), requests) /\ ~In(Done(2), events)
      BY <1>4 DEF Syncs
    <3>2. ~In(Sync(1), requests) /\ Once(Done(1), events)
      BY <1>2, <1>3 DEF Syncs
    <3>3. ~In(Done(1), events')
      BY <1>2, <1>3, <3>2, TailIn
    <3>4. Sync(1) # Sync(2)
      BY Messages
    <3> QED
      BY <1>8, <3>1, <3>2, <3>3, <3>4
  <2>2. Once(Sync(2), requests') /\ Once(Sync(1), requests')
    BY <1>5, <1>7, <2>1, AppendIn DEF Once, In
  <2>3. Once(Done(1), events') /\ Once(Done(2), events')
    BY <2>1 DEF Once, In
  <2>4. ~In(Registry, requests')
    BY <1>2, <1>8, Messages DEF Syncs
  <2>5. \A q \in 1 .. 2 : q = 1 \/ q = 2
    OBVIOUS
  <2>6. ASSUME NEW q \in 1 .. 2
        PROVE  /\ Once(Sync(q), requests') /\ Once(Done(q), events')
               /\ In(Sync(q), requests') => sync' = q /\ ~In(Done(q), events')
               /\ In(Done(q), events') => sync' = q
    BY <1>5, <2>1, <2>2, <2>3, <2>5
  <2> QED
    BY <1>2, <1>4, <1>5, <2>4, <2>6 DEF Syncs
<1>12. Announced'
  <2>1. \A n \in Nodes : EnumParams(n) # Sync(2)
    BY Messages
  <2> QED
    BY <1>2, <1>5, <1>6, <1>8, <2>1 DEF Announced
<1>13. Early'
  <2>1. ASSUME NEW n \in Steady, NEW i \in DOMAIN events', events'[i] = Global(n)
        PROVE  FALSE
    <3>1. i + 1 \in DOMAIN events /\ events[i + 1] = Global(n) /\ i \in 1 .. Len(events) - 1
      BY <1>2, <2>1, TailQueue
    <3>2. 1 \in DOMAIN events /\ events[1] = Done(1)
      BY <1>2, <1>3, TailQueue
    <3>3. i + 1 < 1
      BY <3>1, <3>2 DEF Early
    <3> QED
      BY <1>2, <3>1, <3>3, LenProperties
  <2>2. \A n \in Steady \ missed : n \in Listed \/ In(Global(n), events')
    BY <1>2, <1>8, Messages DEF Early
  <2>3. api = "enumerating"
    BY <1>2 DEF Phases, Running
  <2> QED
    BY <1>2, <1>5, <1>6, <2>1, <2>2, <2>3 DEF Early
<1>14. Collecting'
  <2>1. ASSUME NEW m \in Nodes, Asked(m) PROVE Asked(m)'
    <3>1. PICK r \in DOMAIN requests : requests[r] = EnumParams(m)
      BY <2>1 DEF Asked
    <3>2. /\ r \in DOMAIN requests' /\ requests'[r] = EnumParams(m)
          /\ Len(requests) + 1 \in DOMAIN requests'
          /\ requests'[Len(requests) + 1] = Sync(2) /\ Len(requests) + 1 > r
      BY <1>5, <1>7, <3>1, AppendQueue
    <3>3. \A p \in 1 .. Params : ~In(Param(m, p), events')
      BY <1>8, <2>1 DEF Asked
    <3> QED
      BY <3>2, <3>3 DEF Asked
  <2>2. ASSUME NEW m \in Nodes
        PROVE  \A k \in 0 .. Params, s \in Nat :
                 Answered(m, k, s) => \E t \in Nat : Answered(m, k, t)'
    <3>1. \A p \in 1 .. Params : Head(events) # Param(m, p)
      BY <1>3, Messages
    <3>2. EnumParams(m) # Sync(2)
      BY Messages
    <3>3. ~In(EnumParams(m), requests) => ~In(EnumParams(m), requests')
      BY <1>8, <3>2
    <3> QED
      BY <1>1, <1>5, <3>1, <3>3, TakesAnswered
  <2>3. ASSUME ~astray, NEW i \in DOMAIN pending, NEW m \in Steady,
               m = pending[i].node
        PROVE  \/ Asked(m)' /\ Collected(m, pending[i].formats, 0)
               \/ \E k \in 0 .. Params, s \in Nat :
                    Answered(m, k, s)' /\ Collected(m, pending[i].formats, k)
    <3>1. m \in Nodes
      BY <2>3, ArrayTypes
    <3>2. \/ Asked(m) /\ Collected(m, pending[i].formats, 0)
          \/ \E k \in 0 .. Params, s \in Nat :
               Answered(m, k, s) /\ Collected(m, pending[i].formats, k)
      BY <1>2, <2>3 DEF Collecting
    <3> QED
      BY <2>1, <2>2, <3>1, <3>2
  <2>4. api' # "listed"
    BY <1>2, <1>5 DEF Phases, Running
  <2> QED
    BY <1>2, <1>5, <2>3, <2>4, SameCollected DEF Collecting
<1>15. Owned'
  BY <1>2, <1>5, <1>6, StillOwned
<1> QED
  BY <1>9, <1>10, <1>11, <1>12, <1>13, <1>14, <1>15

(* The answer to the second sync: the loop ends.                           *)
LEMMA QuitsLoop ==
  ASSUME IndInv, CoreDone, Head(events).seq = 2
  PROVE  IndInv'
<1> USE DEF IndInv
<1>1. Dispatch("done") /\ Head(events).type = "done"
  BY DEF CoreDone, Dispatch
<1>2. /\ Running /\ bound /\ events \in Seq(Events) /\ events # <<>>
      /\ events' = Tail(events) /\ Head(events) \in Events /\ Steady' = Steady
      /\ In(Head(events), events)
  BY <1>1, Handles
<1>3. Head(events) = Done(2)
  BY <1>1, <1>2, EventTypes
<1>4. sync = 2
  BY <1>2, <1>3 DEF Syncs
<1>5. /\ sync' = sync /\ cpc' = "cleanup" /\ missed' = missed /\ devices' = devices
      /\ pending' = pending /\ capacity' = capacity /\ moves' = moves
      /\ api' = api /\ held' = held /\ node' = node /\ bound' = bound
      /\ early' = early /\ requests' = requests
      /\ shortened' = shortened /\ blocks' = blocks /\ astray' = astray
  BY DEF CoreDone, Dispatch, arrays, memory, past
<1>6. Running' /\ Listed' = Listed
  BY <1>5 DEF Running, Listed
<1>7. events' \in Seq(Events)
  BY <1>2, TailQueue
<1>8. TypeOK'
  BY <1>5, <1>7 DEF TypeOK
<1>9. Phases' /\ Arrays'
  BY <1>2, <1>5, <1>6 DEF Phases, Arrays, Connecting, Running
<1>10. Syncs'
  <2>1. \A x : /\ In(x, events') => In(x, events)
               /\ Once(x, events) => Once(x, events')
    BY <1>2, TailIn
  <2>2. ~In(Sync(2), requests) /\ ~In(Done(2), events')
    BY <1>2, <1>3, TailIn DEF Syncs
  <2> QED
    BY <1>2, <1>4, <1>5, <2>1, <2>2 DEF Syncs
<1>11. Announced'
  BY <1>1, <1>5, TakesAnnounced
<1>12. Early'
  <2>1. \A m \in Nodes : Head(events) # Global(m)
    BY <1>3, Messages
  <2> QED
    BY <1>1, <1>5, <1>6, <2>1, TakesEarly
<1>13. Collecting'
  <2>1. ASSUME ~astray, NEW i \in DOMAIN pending, NEW m \in Steady,
               m = pending[i].node
        PROVE  \E k \in 0 .. Params, s \in Nat :
                 Answered(m, k, s)' /\ Collected(m, pending[i].formats, k)
    <3>1. m \in Nodes
      BY <2>1, ArrayTypes
    <3>2. ~Asked(m)
      BY <1>2, <1>3, <1>4 DEF Asked, Syncs, In
    <3>3. \E k \in 0 .. Params, s \in Nat :
            Answered(m, k, s) /\ Collected(m, pending[i].formats, k)
      BY <1>2, <2>1, <3>2 DEF Collecting
    <3>4. \A p \in 1 .. Params : Head(events) # Param(m, p)
      BY <1>3, Messages
    <3>5. \A k \in 0 .. Params, s \in Nat :
            Answered(m, k, s) => \E t \in Nat : Answered(m, k, t)'
      BY <1>1, <1>3, <1>5, <3>1, <3>4, TakesAnswered
    <3> QED
      BY <3>3, <3>5
  <2>2. api' # "listed"
    BY <1>2, <1>5 DEF Phases, Running
  <2> QED
    BY <1>2, <1>5, <2>1, <2>2, SameCollected DEF Collecting
<1>14. Owned'
  BY <1>2, <1>5, <1>6, StillOwned
<1> QED
  BY <1>8, <1>9, <1>10, <1>11, <1>12, <1>13, <1>14

-----------------------------------------------------------------------------
(* The daemon's answer to one request: what does not depend on which.       *)
LEMMA ServesRequest ==
  ASSUME IndInv, Running, bound, requests # <<>>, NEW answer \in Seq(Events),
         events' = events \o answer, requests' = Tail(requests),
         UNCHANGED <<api, cpc, held, sync, arrays, node, bound, early, past>>,
         \A n \in Nodes : ~In(Global(n), answer),
         \A n \in Nodes, p \in 1 .. Params : In(Param(n, p), answer) => n \in Listed
  PROVE  TypeOK' /\ Phases' /\ Arrays' /\ Announced' /\ Early' /\ Owned'
<1> USE DEF IndInv, arrays, memory, past
<1>1. events \in Seq(Events) /\ requests \in Seq(Requests)
  BY DEF TypeOK
<1>2. events' \in Seq(Events) /\ requests' \in Seq(Requests)
  BY <1>1, ConcatQueue, TailQueue
<1>3. \A x : /\ In(x, events') <=> In(x, events) \/ In(x, answer)
             /\ Once(x, events) /\ ~In(x, answer) => Once(x, events')
             /\ In(x, requests') => In(x, requests)
             /\ Once(x, requests) => Once(x, requests')
  BY <1>1, ConcatIn, TailIn
<1>4. Running' /\ Listed' = Listed /\ Steady' = Steady
  BY DEF Running, Listed, Steady, Present
<1>5. TypeOK'
  BY <1>2 DEF TypeOK
<1>6. Phases' /\ Arrays'
  BY <1>4 DEF Phases, Arrays
<1>7. Announced'
  BY <1>3, <1>4 DEF Announced
<1>8. Early'
  <2>1. ASSUME NEW n \in Steady, NEW i \in DOMAIN events', events'[i] = Global(n)
        PROVE  sync = 1 /\ \A j \in DOMAIN events' : events'[j] = Done(1) => i < j
    <3>1. n \in Nodes
      BY DEF Steady, Present
    <3>2. i \in DOMAIN events /\ events[i] = Global(n)
      BY <1>1, <2>1, <3>1, ConcatQueue DEF In
    <3>3. sync = 1 /\ \A j \in DOMAIN events : events[j] = Done(1) => i < j
      BY <3>2 DEF Early
    <3>4. \A j \in DOMAIN events' \ DOMAIN events : i < j
      BY <1>1, <3>2, ConcatQueue
    <3>5. \A j \in DOMAIN events : events'[j] = events[j]
      BY <1>1, ConcatQueue
    <3> QED
      BY <3>3, <3>4, <3>5
  <2>2. \A n \in Steady \ missed : n \in Listed \/ In(Global(n), events')
    BY <1>3 DEF Early
  <2>3. api = "enumerating"
    BY DEF Phases, Running
  <2> QED
    BY <1>4, <2>1, <2>2, <2>3 DEF Early
<1>9. Owned'
  BY <1>4, StillOwned
<1> QED
  BY <1>5, <1>6, <1>7, <1>8, <1>9

(* Neither does it disturb the nodes that it is not about.                  *)
LEMMA ServesOthers ==
  ASSUME IndInv, requests # <<>>, NEW answer \in Seq(Events),
         events' = events \o answer, requests' = Tail(requests),
         cpc' = cpc, sync' = sync, NEW n \in Nodes, Head(requests) # EnumParams(n),
         \A p \in 1 .. Params : ~In(Param(n, p), answer)
  PROVE  /\ Asked(n) => Asked(n)'
         /\ \A k \in 0 .. Params, s \in Nat : Answered(n, k, s) => Answered(n, k, s)'
<1> USE DEF IndInv
<1>1. events \in Seq(Events) /\ requests \in Seq(Requests) /\ Params \in Nat
  BY EnumerateAssumption DEF TypeOK
<1>2. \A p \in 1 .. Params : In(Param(n, p), events') => In(Param(n, p), events)
  BY <1>1, ConcatIn
<1>3. ASSUME Asked(n) PROVE Asked(n)'
  <2>1. PICK r \in DOMAIN requests :
          /\ requests[r] = EnumParams(n)
          /\ sync = 1 \/ \E q \in DOMAIN requests : q > r /\ requests[q] = Sync(2)
    BY <1>3 DEF Asked
  <2>2. r \in Nat /\ r - 1 \in DOMAIN requests' /\ requests'[r - 1] = EnumParams(n)
    BY <1>1, <2>1, TailQueue
  <2>3. ASSUME NEW q \in DOMAIN requests, q > r, requests[q] = Sync(2)
        PROVE  q - 1 \in DOMAIN requests' /\ q - 1 > r - 1 /\ requests'[q - 1] = Sync(2)
    BY <1>1, <2>1, <2>3, TailQueue
  <2>4. sync' = 1 \/ \E q \in DOMAIN requests' : q > r - 1 /\ requests'[q] = Sync(2)
    BY <2>1, <2>3
  <2>5. \A p \in 1 .. Params : ~In(Param(n, p), events')
    BY <1>2, <1>3 DEF Asked
  <2> QED
    BY <2>2, <2>4, <2>5 DEF Asked
<1>4. ASSUME NEW k \in 0 .. Params, NEW s \in Nat, Answered(n, k, s)
      PROVE  Answered(n, k, s)'
  <2>1. ~In(EnumParams(n), requests')
    BY <1>1, <1>4, TailIn DEF Answered
  <2>2. \A p \in 1 .. Params - k :
          s + p \in DOMAIN events' /\ events'[s + p] = Param(n, k + p)
    BY <1>1, <1>4, ConcatQueue DEF Answered
  <2>3. \A j \in DOMAIN events', p \in 1 .. Params :
          events'[j] = Param(n, p) => j \in s + 1 .. s + (Params - k)
    <3> TAKE j \in DOMAIN events', p \in 1 .. Params
    <3>1. events'[j] = Param(n, p) => j \in DOMAIN events /\ events[j] = Param(n, p)
      BY <1>1, ConcatQueue DEF In
    <3> QED
      BY <1>4, <3>1 DEF Answered
  <2>4. \A j \in DOMAIN events' :
          events'[j] = Done(2) => k = Params \/ s + (Params - k) < j
    <3> TAKE j \in DOMAIN events'
    <3>1. CASE j \in DOMAIN events
      BY <1>1, <1>4, <3>1, ConcatQueue DEF Answered
    <3>2. CASE j \notin DOMAIN events
      <4>1. j > Len(events) /\ j \in Int /\ Len(events) \in Nat
        BY <1>1, <3>2, ConcatQueue
      <4>2. k # Params => s + (Params - k) \in DOMAIN events
        <5>1. k # Params => Params - k \in 1 .. Params - k
          BY <1>1
        <5> QED
          BY <1>4, <5>1 DEF Answered
      <4>3. k # Params => s + (Params - k) <= Len(events)
        BY <1>1, <4>2, ConcatQueue
      <4> QED
        BY <1>1, <4>1, <4>3
    <3> QED
      BY <3>1, <3>2
  <2>5. cpc' = "cleanup" => k = Params
    BY <1>4 DEF Answered
  <2> QED
    BY <2>1, <2>2, <2>3, <2>4, <2>5 DEF Answered
<1> QED
  BY <1>3, <1>4

(* The registry is the first request: it announces the nodes there are.     *)
LEMMA ServesRegistry ==
  ASSUME IndInv, Serve, Head(requests) = Registry
  PROVE  IndInv'
<1> USE DEF IndInv
<1>1. /\ Running /\ requests # <<>> /\ requests \in Seq(Requests)
      /\ Registry.type = "registry"
  BY RequestTypes DEF Serve, Running, TypeOK
<1>2. ~bound
  BY <1>1, TailIn DEF Syncs
<1>3. requests = <<Registry, Sync(1)>> /\ events = <<>> /\ devices = <<>> /\ sync = 1
  BY <1>1, <1>2 DEF Syncs
<1>4. cpc = "run" /\ api = "enumerating" /\ Len(pending) = 0 /\ pending = <<>>
  <2>1. cpc = "run" /\ api = "enumerating"
    BY <1>1, <1>2 DEF Syncs, Phases, Running
  <2>2. Len(pending) = 0
    BY <1>1, <1>3 DEF Arrays
  <2> QED
    BY <2>1, <2>2, EmptySeq, LenProperties DEF TypeOK
<1>5. /\ requests' = <<Sync(1)>> /\ bound' = TRUE
      /\ UNCHANGED <<api, cpc, held, sync, capacity, moves, devices, pending,
                     node, early, missed, shortened, blocks, astray>>
  <2>1. Registry \in Requests /\ Sync(1) \in Requests
    BY RequestTypes
  <2>2. Tail(<<Registry, Sync(1)>>) = <<Sync(1)>>
    BY <2>1, TwoQueue
  <2> QED
    BY <1>1, <1>3, <2>2 DEF Serve, arrays, memory, past
<1>6. PICK s \in SetToSeqs(Present) : events' = [i \in DOMAIN s |-> Global(s[i])]
  <2>1. PICK answer \in Answers(Head(requests)) : events' = events \o answer
    BY DEF Serve
  <2>2. PICK s \in SetToSeqs(Present) : answer = [i \in DOMAIN s |-> Global(s[i])]
    BY <1>1, <2>1 DEF Answers
  <2> DEFINE D == 1 .. Cardinality(Present)
  <2>3. s \in [D -> Present] /\ Present \subseteq Nodes
    BY DEF SetToSeqs, Present
  <2>4. D = 1 .. Cardinality(Present) /\ Cardinality(Present) \in Nat
    BY <2>3, FS_Subset, FS_CardinalityType, EnumerateAssumption
  <2>5. answer \in [D -> Events]
    BY <2>2, <2>3, EventTypes
  <2>6. answer \in Seq(Events)
    BY <2>4, <2>5, IsQueue
  <2>7. events' = answer
    BY <1>3, <2>1, <2>6, ConcatEmptySeq
  <2> QED
    BY <2>2, <2>7
<1> DEFINE D == 1 .. Cardinality(Present)
<1>7. /\ Cardinality(Present) \in Nat /\ IsFiniteSet(Present) /\ Present \subseteq Nodes
      /\ s \in [D -> Present] /\ \A i, j \in D : s[i] = s[j] => i = j
      /\ \A n \in Present : \E i \in D : s[i] = n
  <2>1. Present \subseteq Nodes
    BY DEF Present
  <2>2. Cardinality(Present) \in Nat /\ IsFiniteSet(Present)
    BY <2>1, FS_Subset, FS_CardinalityType, EnumerateAssumption
  <2>3. s \in [D -> Present] /\ \A i, j \in D : s[i] = s[j] => i = j
    BY <1>6 DEF SetToSeqs
  <2>4. s \in Injection(D, Present)
    BY <2>3 DEF Injection, IsInjective
  <2>5. Cardinality(D) = Cardinality(Present)
    BY <2>2, FS_Interval
  <2>6. s \in Surjection(D, Present)
    BY <2>2, <2>4, <2>5, FS_Injection
  <2> QED
    BY <2>1, <2>2, <2>3, <2>6 DEF Surjection
<1>8. /\ events' \in Seq(Events) /\ DOMAIN events' = D
      /\ \A i \in D : s[i] \in Nodes /\ events'[i] = Global(s[i])
  <2>1. events' \in [D -> Events]
    BY <1>6, <1>7, EventTypes
  <2>2. \A i \in D : s[i] \in Nodes /\ events'[i] = Global(s[i])
    BY <1>6, <1>7
  <2> QED
    BY <1>7, <2>1, <2>2, IsQueue
<1>9. /\ \A q : ~In(Done(q), events') /\ Once(Done(q), events')
      /\ \A n, p : ~In(Param(n, p), events')
      /\ \A n \in Present : In(Global(n), events')
      /\ \A n : /\ In(Global(n), events') => n \in Present
                /\ Once(Global(n), events')
  <2>1. \A q, n, p : Global(n) # Done(q) /\ \A m : Global(n) # Param(m, p)
    BY Messages
  <2>2. \A q : ~In(Done(q), events') /\ Once(Done(q), events')
    BY <1>8, <2>1 DEF In, Once
  <2>3. \A n, p : ~In(Param(n, p), events')
    BY <1>8, Messages DEF In
  <2>4. \A n \in Present : In(Global(n), events')
    BY <1>7, <1>8 DEF In
  <2>5. ASSUME NEW n
        PROVE  /\ In(Global(n), events') => n \in Present
               /\ Once(Global(n), events')
    <3>1. \A i \in D : events'[i] = Global(n) => s[i] = n
      BY <1>8, Messages
    <3> QED
      BY <1>7, <1>8, <3>1 DEF In, Once
  <2> QED
    BY <2>2, <2>3, <2>4, <2>5
<1> HIDE DEF D
<1>10. Sync(1) \in Requests /\ Registry \in Requests
  BY RequestTypes
<1>11. /\ \A x : In(x, requests') <=> x = Sync(1)
       /\ \A x : Once(x, requests')
  BY <1>5, <1>10, TwoQueue
<1>12. TypeOK'
  <2>1. requests' \in Seq(Requests)
    BY <1>5, <1>10
  <2> QED
    BY <1>5, <1>8, <2>1 DEF TypeOK
<1>13. Phases' /\ Arrays'
  BY <1>4, <1>5 DEF Phases, Arrays, Running, Connecting
<1>14. Syncs'
  <2>1. Registry # Sync(1) /\ \A q : Sync(q) = Sync(1) => q = 1
    BY Messages
  <2> QED
    BY <1>3, <1>4, <1>5, <1>9, <1>11, <2>1 DEF Syncs, Running
<1>15. Announced'
  <2>1. \A n : EnumParams(n) # Sync(1)
    BY Messages
  <2>2. \A n \in Present : node'[n] # "absent"
    BY <1>5 DEF Present
  <2>3. Listed' = {}
    BY <1>3, <1>5 DEF Listed
  <2>4. \A n \in Nodes :
          /\ Once(Global(n), events')
          /\ In(Global(n), events') => n \notin Listed' /\ node'[n] # "absent"
          /\ n \in Listed' => FALSE
          /\ ~In(EnumParams(n), requests') /\ Once(EnumParams(n), requests')
          /\ \A p \in 1 .. Params : ~In(Param(n, p), events')
    BY <1>9, <1>11, <2>1, <2>2, <2>3
  <2>5. \A i, j \in DOMAIN devices' : devices'[i].node = devices'[j].node => i = j
    BY <1>3, <1>5
  <2> QED
    BY <2>4, <2>5 DEF Announced
<1>16. Early'
  <2>1. Steady' = Steady /\ Steady \subseteq Present
    BY <1>5 DEF Steady, Present
  <2>2. \A n \in Steady, i \in DOMAIN events' :
          events'[i] = Global(n) =>
            sync = 1 /\ \A j \in DOMAIN events' : events'[j] = Done(1) => i < j
    BY <1>3, <1>9 DEF In
  <2>3. \A n \in Steady \ missed : n \in Listed' \/ In(Global(n), events')
    BY <1>9, <2>1
  <2>4. \A n \in early : node[n] # "absent"
    BY <1>4 DEF Early
  <2> QED
    BY <1>4, <1>5, <2>1, <2>2, <2>3, <2>4 DEF Early
<1>17. Collecting'
  BY <1>4, <1>5 DEF Collecting
<1>18. Owned'
  <2>1. Running' <=> Running
    BY <1>5 DEF Running
  <2> QED
    BY <1>5, <2>1, StillOwned
<1> QED
  BY <1>12, <1>13, <1>14, <1>15, <1>16, <1>17, <1>18

(* A sync is answered after what was requested before it.                   *)
LEMMA ServesSync ==
  ASSUME IndInv, Serve, NEW q \in 1 .. 2, Head(requests) = Sync(q)
  PROVE  IndInv'
<1> USE DEF IndInv
<1>1. /\ Running /\ requests # <<>> /\ requests \in Seq(Requests)
      /\ events \in Seq(Events) /\ Done(q) \in Events
      /\ Head(requests).type = "sync" /\ Head(requests).seq = q
      /\ In(Sync(q), requests) /\ Once(Sync(q), requests)
  BY RequestTypes, EventTypes, TailIn DEF Serve, Running, TypeOK, Syncs
<1>2. bound
  <2>1. Head(<<Registry, Sync(1)>>) = Registry /\ Registry # Sync(q)
    BY Messages
  <2> QED
    BY <1>1, <2>1 DEF Syncs
<1>3. sync = q /\ ~In(Done(q), events) /\ cpc = "run"
  BY <1>1 DEF Syncs, Running
<1> DEFINE answer == <<Done(q)>>
<1>4. /\ answer \in Seq(Events) /\ events' = events \o answer
      /\ requests' = Tail(requests) /\ bound' = bound
      /\ UNCHANGED <<api, cpc, held, sync, arrays, node, early, past>>
  <2>1. Answers(Head(requests)) = {answer}
    BY <1>1 DEF Answers, Done
  <2> HIDE DEF answer
  <2>2. events' = events \o answer
    BY <2>1 DEF Serve
  <2>3. bound' = bound
    BY <1>1, <1>2 DEF Serve
  <2> QED
    BY <1>1, <2>2, <2>3 DEF Serve, answer
<1>5. \A x : In(x, answer) <=> x = Done(q)
  BY <1>1, TwoQueue
<1>6. \A x : Once(x, answer)
  BY <1>1, TwoQueue
<1> HIDE DEF answer
<1>7. /\ \A n \in Nodes : ~In(Global(n), answer)
      /\ \A n \in Nodes, p \in 1 .. Params : ~In(Param(n, p), answer)
  <2>1. \A n, p : Global(n) # Done(q) /\ Param(n, p) # Done(q)
    BY Messages
  <2> QED
    BY <1>5, <2>1
<1>8. TypeOK' /\ Phases' /\ Arrays' /\ Announced' /\ Early' /\ Owned'
  BY <1>1, <1>2, <1>4, <1>7, ServesRequest
<1>9. Syncs'
  <2>1. \A x : /\ In(x, events') <=> In(x, events) \/ In(x, answer)
               /\ Once(x, events) /\ ~In(x, answer) => Once(x, events')
               /\ ~In(x, events) /\ Once(x, answer) => Once(x, events')
               /\ In(x, requests') => In(x, requests)
               /\ Once(x, requests) => Once(x, requests')
    BY <1>1, <1>4, ConcatIn, TailIn
  <2>2. ~In(Sync(q), requests')
    BY <1>1, <1>4, TailIn
  <2>3. ASSUME NEW r \in 1 .. 2
        PROVE  /\ Once(Sync(r), requests') /\ Once(Done(r), events')
               /\ ~In(Sync(r), requests')
               /\ In(Done(r), events') => sync' = r
    <3>1. CASE r = q
      BY <1>3, <1>4, <1>6, <2>1, <2>2, <3>1 DEF Syncs
    <3>2. CASE r # q
      <4>1. ~In(Done(r), answer)
        BY <1>5, <3>2, Messages
      <4>2. ~In(Sync(r), requests) /\ ~In(Done(r), events)
        BY <1>3, <3>2 DEF Syncs
      <4> QED
        BY <2>1, <4>1, <4>2 DEF Syncs
    <3> QED
      BY <3>1, <3>2
  <2> QED
    BY <1>2, <1>3, <1>4, <2>1, <2>3 DEF Syncs, Running
<1>10. Collecting'
  <2>1. ASSUME ~astray, NEW i \in DOMAIN pending, NEW m \in Steady,
               m = pending[i].node
        PROVE  \/ Asked(m)' /\ Collected(m, pending[i].formats, 0)
               \/ \E k \in 0 .. Params, s \in Nat :
                    Answered(m, k, s)' /\ Collected(m, pending[i].formats, k)
    <3>1. m \in Nodes
      BY <2>1, ArrayTypes
    <3>2. \/ Asked(m) /\ Collected(m, pending[i].formats, 0)
          \/ \E k \in 0 .. Params, s \in Nat :
               Answered(m, k, s) /\ Collected(m, pending[i].formats, k)
      BY <1>1, <2>1 DEF Collecting
    <3>3. Head(requests) # EnumParams(m)
      BY Messages
    <3>4. /\ Asked(m) => Asked(m)'
          /\ \A k \in 0 .. Params, s \in Nat : Answered(m, k, s) => Answered(m, k, s)'
      BY <1>1, <1>4, <1>7, <3>1, <3>3, ServesOthers
    <3> QED
      BY <3>2, <3>4
  <2>2. /\ api' # "listed" /\ Steady' = Steady /\ pending' = pending
        /\ astray' = astray /\ shortened' = shortened
    BY <1>1, <1>4 DEF Phases, Running, Steady, Present, arrays, memory, past
  <2> QED
    BY <1>1, <2>1, <2>2, SameCollected DEF Collecting
<1> QED
  BY <1>8, <1>9, <1>10

(* A node that is there sends its params, all at once and in their order;   *)
(* one that is not sends none.                                              *)
LEMMA ServesParams ==
  ASSUME IndInv, Serve, NEW n \in Nodes, Head(requests) = EnumParams(n)
  PROVE  IndInv'
<1> USE DEF IndInv
<1>1. /\ Running /\ requests # <<>> /\ requests \in Seq(Requests)
      /\ events \in Seq(Events) /\ Params \in Nat
      /\ Head(requests).type = "enumParams" /\ Head(requests).node = n
      /\ In(EnumParams(n), requests) /\ Once(EnumParams(n), requests)
      /\ n \in Listed
  BY EnumerateAssumption, RequestTypes, TailIn DEF Serve, Running, TypeOK, Announced
<1>2. bound
  <2>1. Head(<<Registry, Sync(1)>>) = Registry /\ Registry # EnumParams(n)
    BY Messages
  <2> QED
    BY <1>1, <2>1 DEF Syncs
<1>3. PICK answer \in Answers(Head(requests)) : events' = events \o answer
  BY DEF Serve
<1>4. /\ requests' = Tail(requests) /\ bound' = bound
      /\ UNCHANGED <<api, cpc, held, sync, arrays, node, early, past>>
  BY <1>1, <1>2 DEF Serve
<1>5. answer = IF n \in Present THEN [p \in 1 .. Params |-> Param(n, p)] ELSE <<>>
  BY <1>1, <1>3 DEF Answers, Param
<1>6. /\ answer \in Seq(Events)
      /\ DOMAIN answer = 1 .. Len(answer) /\ Len(answer) \in Nat
      /\ \A p \in DOMAIN answer : answer[p] = Param(n, p) /\ p \in 1 .. Params
      /\ n \in Present => Len(answer) = Params
  <2>1. CASE n \in Present
    <3>1. answer \in [1 .. Params -> Events]
      BY <1>5, <2>1, EventTypes
    <3>2. answer \in Seq(Events) /\ Len(answer) = Params
      BY <1>1, <3>1, IsQueue
    <3>3. \A p \in 1 .. Params : answer[p] = Param(n, p)
      BY <1>5, <2>1
    <3> QED
      BY <1>1, <3>1, <3>2, <3>3
  <2>2. CASE n \notin Present
    BY <1>5, <2>2, EmptySeq
  <2> QED
    BY <2>1, <2>2
<1>7. /\ \A m \in Nodes : ~In(Global(m), answer)
      /\ \A r : ~In(Done(r), answer)
      /\ \A m \in Nodes, p \in 1 .. Params : In(Param(m, p), answer) => m = n
  <2>1. \A m, p, r : Global(m) # Param(n, p) /\ Done(r) # Param(n, p)
    BY Messages
  <2>2. \A m, p, r : Param(m, p) = Param(n, r) => m = n
    BY Messages
  <2> QED
    BY <1>6, <2>1, <2>2 DEF In
<1>8. TypeOK' /\ Phases' /\ Arrays' /\ Announced' /\ Early' /\ Owned'
  BY <1>1, <1>2, <1>3, <1>4, <1>6, <1>7, ServesRequest
<1>9. \A x : /\ In(x, events') <=> In(x, events) \/ In(x, answer)
             /\ Once(x, events) /\ ~In(x, answer) => Once(x, events')
             /\ In(x, requests') => In(x, requests)
             /\ Once(x, requests) => Once(x, requests')
  BY <1>1, <1>3, <1>4, <1>6, ConcatIn, TailIn
<1>10. Syncs'
  BY <1>1, <1>2, <1>4, <1>7, <1>9 DEF Syncs, Running
<1>11. ASSUME NEW t \in Nat, t = Len(events), n \in Present, Asked(n)
       PROVE  Answered(n, 0, t)'
  <2>1. ~In(Done(2), events) /\ cpc # "cleanup"
    BY <1>11 DEF Asked, Syncs, In
  <2>2. ~In(EnumParams(n), requests')
    BY <1>1, <1>4, TailIn
  <2>3. \A p \in 1 .. Params - 0 :
          t + p \in DOMAIN events' /\ events'[t + p] = Param(n, 0 + p)
    <3> TAKE p \in 1 .. Params - 0
    <3>1. p \in DOMAIN answer /\ answer[p] = Param(n, p) /\ 0 + p = p
      BY <1>1, <1>6, <1>11
    <3> QED
      BY <1>1, <1>3, <1>6, <1>11, <3>1, ConcatQueue
  <2>4. ASSUME NEW j \in DOMAIN events', NEW p \in 1 .. Params,
               events'[j] = Param(n, p)
        PROVE  j \in t + 1 .. t + (Params - 0)
    <3>1. j \notin DOMAIN events
      BY <1>1, <1>3, <1>6, <1>11, <2>4, ConcatQueue DEF Asked, In
    <3> QED
      BY <1>1, <1>3, <1>6, <1>11, <3>1, ConcatQueue
  <2>5. ~In(Done(2), events')
    BY <1>7, <1>9, <2>1
  <2>6. cpc' # "cleanup"
    BY <1>4, <2>1
  <2>7. \A j \in DOMAIN events' : events'[j] # Done(2)
    BY <2>5 DEF In
  <2> QED
    BY <2>2, <2>3, <2>4, <2>6, <2>7 DEF Answered
<1>12. Collecting'
  <2>1. ASSUME ~astray, NEW i \in DOMAIN pending, NEW m \in Steady,
               m = pending[i].node
        PROVE  \/ Asked(m)' /\ Collected(m, pending[i].formats, 0)
               \/ \E k \in 0 .. Params, s \in Nat :
                    Answered(m, k, s)' /\ Collected(m, pending[i].formats, k)
    <3>1. m \in Nodes /\ m \in Present
      BY <2>1, ArrayTypes DEF Steady
    <3>2. \/ Asked(m) /\ Collected(m, pending[i].formats, 0)
          \/ \E k \in 0 .. Params, s \in Nat :
               Answered(m, k, s) /\ Collected(m, pending[i].formats, k)
      BY <1>1, <2>1 DEF Collecting
    <3>3. CASE m = n
      <4>1. Asked(m) /\ Collected(m, pending[i].formats, 0)
        BY <1>1, <3>2, <3>3 DEF Answered
      <4>2. \E t \in Nat : Answered(m, 0, t)'
        BY <1>1, <1>11, <3>1, <3>3, <4>1, LenProperties
      <4>3. 0 \in 0 .. Params
        BY <1>1
      <4> QED
        BY <4>1, <4>2, <4>3
    <3>4. CASE m # n
      <4>1. Head(requests) # EnumParams(m)
        BY <3>4, Messages
      <4>2. \A p \in 1 .. Params : ~In(Param(m, p), answer)
        BY <1>7, <3>1, <3>4
      <4>3. /\ Asked(m) => Asked(m)'
            /\ \A k \in 0 .. Params, s \in Nat :
                 Answered(m, k, s) => Answered(m, k, s)'
        BY <1>1, <1>3, <1>4, <1>6, <3>1, <4>1, <4>2, ServesOthers
      <4> QED
        BY <3>2, <4>3
    <3> QED
      BY <3>3, <3>4
  <2>2. /\ api' # "listed" /\ Steady' = Steady /\ pending' = pending
        /\ astray' = astray /\ shortened' = shortened
    BY <1>1, <1>4 DEF Phases, Running, Steady, Present, arrays, memory, past
  <2> QED
    BY <1>1, <2>1, <2>2, SameCollected DEF Collecting
<1> QED
  BY <1>8, <1>10, <1>12

-----------------------------------------------------------------------------
LEMMA NextIndInv ==
  ASSUME IndInv, [Next]_vars
  PROVE  IndInv'
<1>1. CASE EnterEnumerate \/ NewLoop \/ NewContext \/ Connect \/ ConnectFails
  BY <1>1, Connects
<1>2. CASE GetRegistry
  BY <1>2, Asks
<1>3. CASE RegistryGlobal
  BY <1>3, Lists
<1>4. CASE RegistryGlobalFails
  BY <1>4, Misses
<1>5. CASE NodeParam \/ NodeParamFails \/ StaleParam
  BY <1>5, Converts, Shortens, Strays
<1>6. CASE CoreDone
  <2>1. Head(events).seq = 1 \/ Head(events).seq = 2
    BY <1>6 DEF CoreDone
  <2> QED
    BY <1>6, <2>1, SyncsAgain, QuitsLoop
<1>7. CASE Cleanup
  BY <1>7, CleansUp
<1>8. CASE DropList
  BY <1>8, Drops
<1>9. CASE Serve
  <2>1. Head(requests) \in Requests
    BY <1>9, TailQueue DEF Serve, IndInv, TypeOK
  <2> QED
    BY <1>9, <2>1, RequestTypes, ServesRegistry, ServesSync, ServesParams
<1>10. CASE Cameras
  BY <1>10, Appears, Goes DEF Cameras
<1>11. CASE UNCHANGED vars
  BY <1>11, Unchanged
<1> QED
  BY <1>1, <1>2, <1>3, <1>4, <1>5, <1>6, <1>7, <1>8, <1>9, <1>10, <1>11
     DEF Next, CallerSteps

(* The inductive invariant holds in every behaviour: with it the handlers   *)
(* of the registry, of the nodes and of the core, however the daemon's      *)
(* events and the cameras interleave with them and whichever allocation     *)
(* fails.                                                                   *)
THEOREM Invariance == Spec => []IndInv
<1>1. Init => IndInv
  BY InitIndInv
<1>2. IndInv /\ [Next]_vars => IndInv'
  BY NextIndInv
<1> QED
  BY <1>1, <1>2, PTL DEF Spec

(* Every variable keeps its type; in particular the daemon and the caller   *)
(* only ever exchange the messages of the protocol.                         *)
THEOREM TypeCorrect == Spec => []TypeOK
<1>1. IndInv => TypeOK
  BY DEF IndInv
<1> QED
  BY <1>1, Invariance, PTL

(* video_pipewire_enumerate_devices lists no node twice, and lists every    *)
(* node that was there when it was called and still is, unless it was given *)
(* up for want of memory or a proxy.  Such a node has its formats in order, *)
(* and all of them unless it could not be asked or they could not grow.     *)
(* All that holds as long as no listener has been called in freed memory.   *)
THEOREM Complete == Spec => []ListIsComplete
<1>1. IndInv => ListIsComplete
  <2> SUFFICES ASSUME IndInv, api = "listed", ~astray PROVE ListIsComplete
    BY DEF ListIsComplete
  <2>1. Steady \ missed \subseteq Listed
    BY DEF IndInv, Early
  <2>2. \A i, j \in DOMAIN devices : devices[i].node = devices[j].node => i = j
    BY DEF IndInv, Announced
  <2>3. Usable \cap 1 .. Params = Usable
    BY EnumerateAssumption
  <2>4. ASSUME NEW i \in DOMAIN devices, devices[i].node \in Steady
        PROVE  /\ InOrder(devices[i].formats)
               /\ devices[i].node \notin shortened =>
                    {devices[i].formats[k] : k \in DOMAIN devices[i].formats} = Usable
    <3>1. Collected(devices[i].node, devices[i].formats, Params)
      BY <2>4 DEF IndInv, Collecting
    <3> QED
      BY <2>3, <3>1 DEF Collected
  <2> QED
    BY <2>1, <2>2, <2>4 DEF ListIsComplete, Steady
<1> QED
  BY <1>1, Invariance, PTL

(* While the loop runs the two arrays stay parallel and within their        *)
(* capacity, and until they outgrow the first one every listener's data is  *)
(* in the array there is.                                                   *)
THEOREM ListenersLive == Spec => []ListenersAreLive
<1>1. IndInv => ListenersAreLive
  <2> SUFFICES ASSUME IndInv, Running PROVE ListenersAreLive
    BY DEF ListenersAreLive, Running
  <2>1. /\ Len(pending) = Len(devices) /\ Len(devices) <= capacity
        /\ DOMAIN pending = DOMAIN devices
        /\ \A i \in DOMAIN devices : pending[i].node = devices[i].node
        /\ capacity <= InitialCapacity => moves = 0
    BY ArrayTypes DEF IndInv, Arrays
  <2>2. \A i \in DOMAIN pending : pending[i].home \in 0 .. moves
    BY ArrayTypes DEF IndInv
  <2> QED
    BY <2>1, <2>2 DEF ListenersAreLive
<1> QED
  BY <1>1, Invariance, PTL

(* Whatever fails, the function gives back every PipeWire object and the    *)
(* array of pending nodes, and after a failure or the drop of the list      *)
(* there are no devices.  What is allocated of the formats is what the list *)
(* points to, and nothing without a list, as long as no listener has been   *)
(* called in freed memory.                                                  *)
THEOREM NoLeak == Spec => []NothingLeaks
<1>1. IndInv => NothingLeaks
  <2> SUFFICES ASSUME IndInv PROVE NothingLeaks
    OBVIOUS
  <2>1. api # "enumerating" => ~Running /\ held = {} /\ pending = <<>>
    BY DEF IndInv, Phases, Running
  <2>2. api = "absent" => devices = <<>>
    BY DEF IndInv, Phases
  <2> QED
    BY <2>1, <2>2 DEF IndInv, Owned, NothingLeaks
<1> QED
  BY <1>1, Invariance, PTL
=============================================================================
